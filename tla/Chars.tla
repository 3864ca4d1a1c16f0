------------------------------- MODULE Chars -------------------------------
(***************************************************************************)
(* Text and positions in it: what ParseString does.  A text is a sequence  *)
(* of characters, a character a string of length one.  Lines and columns   *)
(* are left out.                                                           *)
(***************************************************************************)
EXTENDS Integers, Sequences

NoChar == "end"
Char == STRING \ {NoChar}
Letters(word) == [i \in 1..Len(word) |-> SubSeq(word, i, i)]

(* There is no character behind the last one. *)
At(text, i) == IF i \in 1..Len(text) THEN text[i] ELSE NoChar
From(text, i) == SubSeq(text, i, Len(text))

(* check *)
Starts(text, i, word) == \A k \in 1..Len(word) : At(text, i + k - 1) = word[k]

(* skip and skipUntil: where the first character stands that ends it *)
SkipAll(text, i, chars) ==
  CHOOSE j \in i..(Len(text) + 1) : At(text, j) \notin chars /\ \A k \in i..(j - 1) : At(text, k) \in chars
SkipUntil(text, i, chars) ==
  CHOOSE j \in i..(Len(text) + 1) : At(text, j) \in chars \union {NoChar} /\ \A k \in i..(j - 1) : At(text, k) \notin chars
=============================================================================
