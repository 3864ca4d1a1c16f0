--------------------------- MODULE MCArrayRuntime ---------------------------
(* Two variables over two storages; arrays grow through the capacities 1,  *)
(* 2 and 4 up to the longest length that W bits allow.                     *)
EXTENDS ArrayRuntime

CONSTANTS e1, e2

MCLiterals == {<<e1, e2, e1>>}
=============================================================================
