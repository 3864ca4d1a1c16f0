------------------------------- MODULE Lexer -------------------------------
(***************************************************************************)
(* lexical analysis.cpp: a source text becomes tokens.  A token has a kind *)
(* and the place [beg, end) of its text.  What begins at a place is tried  *)
(* in a fixed order: comment, keyword, number, operator, identifier,       *)
(* string, character.                                                      *)
(*                                                                         *)
(* `lex` is where the lexer is: the loop it is in (`mode`), its position,  *)
(* the depth of comments, where the string or character begins that it is  *)
(* in, and the tokens so far.  Each loop has an operator that gives `lex`  *)
(* after one turn of it.                                                   *)
(***************************************************************************)
EXTENDS NumberLiteral

Alpha == {"a", "b", "c", "d", "e", "f", "g", "h", "i", "j", "k", "l", "m", "n", "o", "p", "q", "r", "s", "t", "u", "v", "w", "x",
          "y", "z"}
ContinueIdent == Alpha \union Digits(10) \union {"_"}
StartIdent == Alpha \union {"_"}
Space == {" ", "\n", "\t"}

Keywords == {Letters(word) : word \in
  {"extern", "func", "ref", "return", "struct", "true", "false", "let", "var", "type", "make", "if", "else",
   "switch", "case", "default", "while", "for", "break", "continue", "module", "import"}}
Oper == << <<"<", "<", "=">>, <<">", ">", "=">>, <<"=", "=">>, <<"!", "=">>, <<"<", "=">>, <<">", "=">>, <<"&", "&">>,
           <<"|", "|">>, <<"-", "-">>, <<"+", "+">>, <<"-", ">">>, <<":", "=">>, <<"+", "=">>, <<"-", "=">>,
           <<"*", "=">>, <<"/", "=">>, <<"%", "=">>, <<"&", "=">>, <<"|", "=">>, <<"^", "=">>, <<"<", "<">>,
           <<">", ">">>, <<"=">>, <<"!">>, <<"<">>, <<">">>, <<"&">>, <<"|">>, <<"^">>, <<"~">>, <<"{">>, <<"}">>,
           <<"(">>, <<")">>, <<"[">>, <<"]">>, <<"+">>, <<"-">>, <<"*">>, <<"/">>, <<"%">>, <<".">>, <<",">>, <<"?">>,
           <<":">>, <<";">> >>
-----------------------------------------------------------------------------
(* Each gives the place behind what it parsed, and i if it parsed nothing. *)
ParseKeyword(text, i) ==
  LET end == SkipAll(text, i, ContinueIdent)
  IN IF SubSeq(text, i, end - 1) \in Keywords THEN end ELSE i

(* A bug: the table is searched from its end. *)
ParseOperBackwards(text, i) ==
  LET fits == {n \in DOMAIN Oper : Starts(text, i, Oper[n])}
      last == CHOOSE n \in fits : \A m \in fits : m <= n
  IN IF fits = {} THEN i ELSE i + Len(Oper[last])
(* tryParseEnum: the first that fits *)
ParseOper(text, i) ==
  LET fits == {n \in DOMAIN Oper : Starts(text, i, Oper[n])}
      first == CHOOSE n \in fits : \A m \in fits : n <= m
  IN IF fits = {} THEN i ELSE i + Len(Oper[first])

ParseIdent(text, i) == IF At(text, i) \in StartIdent THEN SkipAll(text, i, ContinueIdent) ELSE i

(* 0 if the error is fatal: a suffix, or advance, which throws if the text *)
(* ends before the suffix that was read.                                   *)
Advance(text, i, valid) ==
  IF valid.fatal \/ i + valid.size > Len(text) + 1 THEN 0 ELSE i + valid.size
ParseNumber(text, i, after, nearest) ==
  Advance(text, i, ValidNumberLiteral(From(text, i), after, nearest))

-----------------------------------------------------------------------------
Token(kind, beg, end) == [kind |-> kind, beg |-> beg, end |-> end]
Start == [mode |-> "code", pos |-> 1, depth |-> 0, beg |-> 0, tokens |-> <<>>]
Fatal(lex) == [lex EXCEPT !.mode = "fatal"]
Moved(lex, pos) == [lex EXCEPT !.pos = pos]
PushBack(lex, kind, beg, end) ==
  [lex EXCEPT !.mode = "code", !.pos = end, !.tokens = Append(@, Token(kind, beg, end))]
Parsed(lex, kind, beg, end) == IF end = 0 THEN Fatal(lex) ELSE PushBack(lex, kind, beg, end)

(* parseString and parseChar: the quote has been passed. *)
Quote(mode) == IF mode = "string" THEN "\"" ELSE "'"
(* A bug: a backslash does not escape the quote after it. *)
QuoteTurnPlain(text, lex) ==
  LET j == SkipUntil(text, lex.pos, {"\n", Quote(lex.mode)})
  IN IF At(text, j) = Quote(lex.mode) THEN PushBack(lex, lex.mode, lex.beg, j + 1) ELSE Fatal(lex)
QuoteTurn(text, lex) ==
  LET j == SkipUntil(text, lex.pos, {"\n", "\\", Quote(lex.mode)})
  IN IF At(text, j) = Quote(lex.mode) THEN PushBack(lex, lex.mode, lex.beg, j + 1)
     ELSE IF At(text, j) = "\\" /\ j < Len(text) THEN Moved(lex, j + 2)
     ELSE Fatal(lex)

(* parseMultiComment: the first slash and star have been passed. *)
(* A bug: comments do not nest. *)
CommentTurnFlat(text, lex) ==
  LET j == SkipUntil(text, lex.pos, {"*", "/"})
  IN IF Starts(text, j, <<"*", "/">>) THEN [lex EXCEPT !.mode = "code", !.pos = j + 2, !.depth = 0]
     ELSE IF j > Len(text) THEN Fatal(lex)
     ELSE Moved(lex, j + 1)
CommentTurn(text, lex) ==
  LET j == SkipUntil(text, lex.pos, {"*", "/"})
  IN IF Starts(text, j, <<"*", "/">>)
     THEN [lex EXCEPT !.mode = IF lex.depth = 1 THEN "code" ELSE "block", !.pos = j + 2, !.depth = @ - 1]
     ELSE IF Starts(text, j, <<"/", "*">>) THEN [lex EXCEPT !.pos = j + 2, !.depth = @ + 1]
     ELSE IF j > Len(text) THEN Fatal(lex)
     ELSE Moved(lex, j + 1)

(* tokenize *)
ParseToken(text, i, after, nearest, lex) ==
  IF Starts(text, i, <<"/", "/">>) THEN Moved(lex, SkipUntil(text, i + 2, {"\n"}))
  ELSE IF Starts(text, i, <<"/", "*">>) THEN [lex EXCEPT !.mode = "block", !.pos = i + 2, !.depth = 1]
  ELSE IF ParseKeyword(text, i) # i THEN PushBack(lex, "keyword", i, ParseKeyword(text, i))
  ELSE IF ParseNumber(text, i, after, nearest) # i THEN Parsed(lex, "number", i, ParseNumber(text, i, after, nearest))
  ELSE IF ParseOper(text, i) # i THEN PushBack(lex, "oper", i, ParseOper(text, i))
  ELSE IF ParseIdent(text, i) # i THEN PushBack(lex, "ident", i, ParseIdent(text, i))
  ELSE IF At(text, i) = Quote("string") THEN [lex EXCEPT !.mode = "string", !.pos = i + 1, !.beg = i]
  ELSE IF At(text, i) = Quote("character") THEN [lex EXCEPT !.mode = "character", !.pos = i + 1, !.beg = i]
  ELSE Fatal(lex)
TokenizeTurn(text, after, nearest, lex) ==
  LET i == SkipAll(text, lex.pos, Space)
  IN IF i > Len(text) THEN [lex EXCEPT !.mode = "done", !.pos = i] ELSE ParseToken(text, i, after, nearest, lex)
=============================================================================
