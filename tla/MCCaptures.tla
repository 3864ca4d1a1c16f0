----------------------------- MODULE MCCaptures -----------------------------
(* A function with nested lambdas, or blocks between them, and names that  *)
(* may be declared, and shadow each other, at every level.                 *)
EXTENDS Captures

CONSTANTS a, b
=============================================================================
