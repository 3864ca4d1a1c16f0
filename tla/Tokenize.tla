------------------------------ MODULE Tokenize ------------------------------
(***************************************************************************)
(* The lexer at work: each step is one turn of one of its loops.  The text *)
(* does not change, nor does what stands in memory behind it (`after`) or  *)
(* what the processor makes of conversions out of range (`nearest`).       *)
(***************************************************************************)
EXTENDS Lexer

VARIABLES text, after, nearest, lex
vars == <<text, after, nearest, lex>>

Init ==
  /\ text \in Seq(Char) /\ after \in STRING /\ nearest \in BOOLEAN
  /\ lex = Start

(* tokenize: a turn of its loop, up to the loop of what begins there *)
TokenizeStep == lex.mode = "code" /\ lex' = TokenizeTurn(text, after, nearest, lex) /\ UNCHANGED <<text, after, nearest>>
(* parseMultiComment *)
CommentStep == lex.mode = "block" /\ lex' = CommentTurn(text, lex) /\ UNCHANGED <<text, after, nearest>>
(* parseString, parseChar *)
QuoteStep == lex.mode \in {"string", "character"} /\ lex' = QuoteTurn(text, lex) /\ UNCHANGED <<text, after, nearest>>

Next == TokenizeStep \/ CommentStep \/ QuoteStep
Spec == Init /\ [][Next]_vars
-----------------------------------------------------------------------------
(* The reference for comments and quotes reads one character at a time.    *)
(* `mode` says what a character is in, `left` how many characters of a     *)
(* pair are left to read.                                                  *)
In(mode) == [mode |-> mode, depth |-> 0, left |-> 0]
Outside(r) == r.mode \in {"code", "closed"} \/ (r.mode = "block" /\ r.depth = 0 /\ r.left = 0)

ReadInQuotes(r, c) ==
  IF c = "\\" THEN [r EXCEPT !.left = 1] ELSE IF c = Quote(r.mode) THEN In("closed") ELSE r
ReadInBlock(s, i, depth) ==
  IF Starts(s, i, <<"/", "*">>) THEN [mode |-> "block", depth |-> depth + 1, left |-> 1]
  ELSE IF depth > 0 /\ Starts(s, i, <<"*", "/">>) THEN [mode |-> "block", depth |-> depth - 1, left |-> 1]
  ELSE [mode |-> IF depth > 0 THEN "block" ELSE "code", depth |-> depth, left |-> 0]
ReadOutside(s, i) ==
  IF Starts(s, i, <<"/", "/">>) THEN In("line")
  ELSE IF At(s, i) = Quote("string") THEN In("string")
  ELSE IF At(s, i) = Quote("character") THEN In("character")
  ELSE ReadInBlock(s, i, 0)
ReadNext(s, r, i) ==
  IF r.left = 1 THEN [r EXCEPT !.left = 0]
  ELSE IF r.mode = "line" THEN (IF At(s, i) = "\n" THEN In("code") ELSE r)
  ELSE IF r.mode \in {"string", "character"} THEN ReadInQuotes(r, At(s, i))
  ELSE IF Outside(r) THEN ReadOutside(s, i)
  ELSE ReadInBlock(s, i, r.depth)
Reads(s) ==
  LET read[i \in 0..Len(s)] == IF i = 0 THEN In("code") ELSE ReadNext(s, read[i - 1], i) IN read

InToken(tokens, i) == \E n \in DOMAIN tokens : i \in tokens[n].beg..(tokens[n].end - 1)
OfToken(read, c) == read.mode \in {"string", "character", "closed"} \/ (read.mode = "code" /\ c \notin Space)

(* tokenize takes exactly what stands outside of comments: an operator, a  *)
(* quote or the end of a comment means nothing in a comment or a string,   *)
(* comments nest, and a backslash escapes a quote.  Tokens do not overlap. *)
OutsideComments ==
  lex.mode = "done" =>
    /\ \A i \in 1..Len(text) : InToken(lex.tokens, i) <=> OfToken(Reads(text)[i], At(text, i))
    /\ \A n \in 1..(Len(lex.tokens) - 1) : lex.tokens[n].end <= lex.tokens[n + 1].beg

(* A number is read in base 8 if it begins with 0 and could not be read as *)
(* a real: then 8 and 9 do not go on with it.                              *)
Octal(s, token) == At(s, AfterSign(s, token.beg)) = "0" /\ FromChars("real", From(s, token.beg), 0).err
Spelling(s, token) == SubSeq(s, token.beg, token.end - 1)
(* what tells, for each kind of token, that it is not a part of a longer one *)
Longest(s, token) ==
  LET length == token.end - token.beg
  IN /\ token.kind = "oper" => \A m \in DOMAIN Oper : Starts(s, token.beg, Oper[m]) => Len(Oper[m]) <= length
     /\ token.kind \in {"keyword", "ident"} =>
          /\ At(s, token.end) \notin ContinueIdent
          /\ token.kind = "keyword" <=> Spelling(s, token) \in Keywords
     /\ token.kind = "number" /\ At(s, token.beg) \in StartIdent => Starts(s, token.beg, <<"n", "a", "n">>)
     /\ token.kind = "number" /\ At(s, token.end - 1) \in Digits(10) /\ length < MaxLiteral =>
          At(s, token.end) \notin Digits(IF Octal(s, token) THEN 8 ELSE 10)

(* Only a number ends between two characters of a word. *)
CutByNumber(s, tokens, token) ==
  {At(s, token.beg - 1), At(s, token.beg)} \subseteq ContinueIdent =>
    \E m \in DOMAIN tokens : tokens[m].kind = "number" /\ tokens[m].end = token.beg

(* The order of tokenize's attempts and of the table of operators makes    *)
(* every token the longest one: no longer operator begins where one does;  *)
(* a word goes on to its end, is a keyword exactly if it spells one, and   *)
(* lacks its beginning only if that was taken for a number; and a number   *)
(* that is not too long goes on to its last digit.  A number begins with a *)
(* letter only if that is the n of nan, as nana, which is a number and the *)
(* identifier a.  One that begins with 0 and is out of the range of reals, *)
(* as 09e99999, is cut where it ends in base 8.                            *)
LongestMatch ==
  \A n \in DOMAIN lex.tokens : Longest(text, lex.tokens[n]) /\ CutByNumber(text, lex.tokens, lex.tokens[n])
=============================================================================
