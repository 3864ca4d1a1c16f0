--------------------------- MODULE StringLiteral ---------------------------
(***************************************************************************)
(* parseStringLiteral of number literal.cpp: what the characters of a      *)
(* literal without its quotes stand for, as characters, as escapes or as   *)
(* codes.  `str` is where the loop is: its position in `lit`, whether the  *)
(* character before was a backslash that is not escaped (prevWasBack), and *)
(* the result so far.  Each turn of the loop gives the next `str`.         *)
(***************************************************************************)
EXTENDS NumberLiteral

Itself == {"'", "\"", "?", "\\"}
Escapes == {"a", "b", "f", "n", "r", "t", "v"}

(* parseOctChar, parseHexChar *)
CharCode(code, next) ==
  [next |-> next, code |-> code.val.num, ok |-> ~ code.err /\ code.val.num \in Lowest("char")..Highest("char")]
CodeUntil(lit, i, end, base) == CharCode(FromChars("sint", SubSeq(lit, i, end - 1), base), end)
ParseCode(lit, i, base) == CodeUntil(lit, i, SkipAll(lit, i, Digits(base)), base)

ParseStringLiteral(kind, lit) ==
  [mode |-> "loop", kind |-> kind, lit |-> lit, pos |-> 1, back |-> FALSE, out |-> <<>>]
AddChar(str, next, how, what) ==
  [str EXCEPT !.pos = next, !.back = FALSE, !.out = Append(@, [how |-> how, what |-> what])]
AddCode(str, char) ==
  IF char.ok THEN AddChar(str, char.next, "code", char.code) ELSE [str EXCEPT !.mode = "fatal"]
UnescapeTurn(str) ==
  LET i == str.pos
      c == At(str.lit, i)
  IN IF i > Len(str.lit) THEN [str EXCEPT !.mode = "parsed"]
     ELSE IF ~ str.back /\ c = "\\" THEN [str EXCEPT !.pos = i + 1, !.back = TRUE]
     ELSE IF ~ str.back \/ c \in Itself THEN AddChar(str, i + 1, "char", c)
     ELSE IF c \in Escapes THEN AddChar(str, i + 1, "escape", c)
     ELSE IF c \in Digits(8) THEN AddCode(str, ParseCode(str.lit, i, 8))
     ELSE IF c = "x" THEN AddCode(str, ParseCode(str.lit, i + 1, 16))
     ELSE [str EXCEPT !.pos = i + 1, !.back = FALSE]
=============================================================================
