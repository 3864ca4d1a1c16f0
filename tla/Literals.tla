------------------------------ MODULE Literals ------------------------------
(***************************************************************************)
(* The literals that the lexer found are read when the type of their       *)
(* expression is inferred: the visits of literals in infer type.cpp.  One  *)
(* of the strings and characters is read step by step; none depends on     *)
(* another.                                                                *)
(***************************************************************************)
EXTENDS Tokenize, StringLiteral

VARIABLE str
litVars == <<text, after, nearest, lex, str>>

Unread == [ParseStringLiteral("string", <<>>) EXCEPT !.mode = "none"]
LitInit == Init /\ str = Unread

Lexing == Next /\ UNCHANGED str
(* parse litr.cpp: the literal of a token is without its quotes. *)
Unquoted(token) == SubSeq(text, token.beg + 1, token.end - 2)
VisitString ==
  /\ lex.mode = "done" /\ str.mode = "none"
  /\ \E n \in DOMAIN lex.tokens :
       /\ lex.tokens[n].kind = "string" /\ Unquoted(lex.tokens[n]) # <<>>
       /\ str' = ParseStringLiteral("string", Unquoted(lex.tokens[n]))
  /\ UNCHANGED vars
VisitChar ==
  /\ lex.mode = "done" /\ str.mode = "none"
  /\ \E n \in DOMAIN lex.tokens :
       /\ lex.tokens[n].kind = "character"
       /\ str' = ParseStringLiteral("character", Unquoted(lex.tokens[n]))
  /\ UNCHANGED vars
UnescapeStep == str.mode = "loop" /\ str' = UnescapeTurn(str) /\ UNCHANGED vars
(* A literal of a character has one. *)
VisitEnds ==
  /\ str.mode = "parsed"
  /\ str' = [str EXCEPT !.mode = IF str.kind = "character" /\ Len(str.out) # 1 THEN "fatal" ELSE "read"]
  /\ UNCHANGED vars

LitNext == Lexing \/ VisitString \/ VisitChar \/ UnescapeStep \/ VisitEnds
LitSpec == LitInit /\ [][LitNext]_litVars
-----------------------------------------------------------------------------
(* The assertion at the end of parseStringLiteral, that the lexer leaves   *)
(* no backslash at the end of a literal: what the lexer takes for the end  *)
(* of a string is what parseStringLiteral does not take for an escape.     *)
EscapesClosed == str.mode = "parsed" => ~ str.back

(* A number written in decimal, without a fraction or an exponent. *)
Suffix(lit) == At(lit, Len(lit)) \in DOMAIN TypeOfSuffix
PlainNumber(lit, beg, end) == end > beg /\ end = (IF Suffix(lit) THEN Len(lit) ELSE Len(lit) + 1) /\ (At(lit, beg) = "0" => end = beg + 1)
DigitsEnd(lit) == SkipAll(lit, AfterSign(lit, 1), Digits(10))
Exact(lit) == Signed(lit, 1, Value(lit, AfterSign(lit, 1), DigitsEnd(lit), 10))
Fits(type, n) == type = "real" \/ n \in Lowest(type)..Highest(type)
Named(lit, n) ==
  IF Suffix(lit) THEN TypeOfSuffix[At(lit, Len(lit))]
  ELSE IF Fits("sint", n) THEN "sint" ELSE IF Fits("uint", n) THEN "uint" ELSE "real"
Holds(number, type, n) ==
  number.type = type /\ number.val = (IF type = "real" THEN Round(Integer(n)) ELSE Integer(n))
ReadsPlain(number, type, n) == Fits(type, n) => Holds(number, type, n)
(* A number so far below sint that strtoull makes a uint of it. *)
Wrapped(lit, n) == ~ Suffix(lit) /\ n < 0 /\ ~ Fits("sint", n) /\ Fits("uint", Modulo(n))
ReadsExact(number, lit, n) ==
  IF Wrapped(lit, n) THEN Holds(number, "uint", Modulo(n)) ELSE ReadsPlain(number, Named(lit, n), n)
ReadsRight(number, lit) ==
  /\ number.type # "unreachable"
  /\ PlainNumber(lit, AfterSign(lit, 1), DigitsEnd(lit)) => ReadsExact(number, lit, Exact(lit))

(* What validNumberLiteral accepts, parseNumberLiteral reads: it never     *)
(* comes to the end of its attempts, and a plain number has the value that *)
(* is written, in the type that its suffix names or else in the first of   *)
(* sint, uint and real that holds it.  The exceptions: a negative number   *)
(* that strtoull wraps into uint, as -18446744073709551615, is read as     *)
(* that (1u) and not as a real; and the check of a suffix compares rounded *)
(* numbers and lets some pass that the type does not hold.                 *)
LiteralsRead ==
  \A n \in DOMAIN lex.tokens :
    lex.tokens[n].kind = "number" => ReadsRight(ParseNumberLiteral(Spelling(text, lex.tokens[n])), Spelling(text, lex.tokens[n]))
=============================================================================
