------------------------------ MODULE MCLexer ------------------------------
(***************************************************************************)
(* All texts of a few characters of an alphabet, one for each thing that   *)
(* is hard: numbers, words, operators and comments, quotes.                *)
(***************************************************************************)
EXTENDS Literals

CONSTANTS MaxText \* the longest text

NumberChars == {"0", "1", "3", "8", "b", "s", "e", ".", "-", "x"}
WordChars == {"i", "f", "n", "a", "_", "1", " "}
OperChars == {"<", "=", "-", "/", "*", " ", "\n"}
CommentChars == {"/", "*", "a"}
QuoteChars == {"\"", "'", "\\", "/", "x", "1", "\n"}

Over(chars, n) == \E k \in 0..n : text \in [1..k -> chars]

(* The states of LitInit with such a text. *)
MCInit ==
  /\ \/ Over(NumberChars, MaxText) /\ after = NoChar /\ nearest = FALSE
     \/ Over(NumberChars, MaxText - 1) /\ after = NoChar /\ nearest = TRUE
     \/ Over(NumberChars, MaxText - 2) /\ after = "b" /\ nearest = FALSE
     \/ /\ Over(WordChars, MaxText) \/ Over(OperChars, MaxText) \/ Over(QuoteChars, MaxText) \/ Over(CommentChars, MaxText + 2)
        /\ after = NoChar /\ nearest = FALSE
  /\ LitInit
MCSpec == MCInit /\ [][LitNext]_litVars
=============================================================================
