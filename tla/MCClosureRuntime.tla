-------------------------- MODULE MCClosureRuntime --------------------------
(* Two closures and two arrays of closures of the program, lambdas that    *)
(* capture an array or a closure: shared parts, nested destructors,        *)
(* assignments between a variable and what it owns, and circles.           *)
EXTENDS ClosureRuntime, TLC

CONSTANTS arr, c1, c2,         \* a storage and captures
          x, y, a, e1, e2, k,  \* slots
          lam1, lam2, f        \* functions

MCOwner == (x :> Program) @@ (y :> Program) @@ (a :> Program) @@
           (e1 :> arr) @@ (e2 :> arr) @@ (k :> c1)
MCMayHold == ({a, k} \X {arr}) \union ({x, y, e1, e2} \X {c1, c2})
MCBody == (c1 :> lam1) @@ (c2 :> lam2)
=============================================================================
