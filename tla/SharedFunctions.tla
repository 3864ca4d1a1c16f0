--------------------------- MODULE SharedFunctions ---------------------------
(***************************************************************************)
(* README.md, Closures: "Closures in Stela behave like this                *)
(* std::shared_ptr<std::function>".  A closure is a body together with the *)
(* captures it was made with; copies and assignments take over both, and   *)
(* copies share the captures.                                              *)
(***************************************************************************)
CONSTANTS
  Slot,        \* places for a closure
  Makeable,    \* the closures that expressions make: <<body, captures>>
  Null, Dead

VARIABLE val   \* the closures

Init == val = [s \in Slot |-> Dead]

Make(s) == val[s] = Dead /\ \E v \in Makeable : val' = [val EXCEPT ![s] = v]
Destroy(s) == val[s] # Dead /\ val' = [val EXCEPT ![s] = Dead]
Copy(d, s) == val[s] # Dead /\ val' = [val EXCEPT ![d] = val[s]]
(* A closure that was moved from has no captures. *)
Move(d, s) ==
  val[s] # Dead /\ val' = [val EXCEPT ![d] = val[s], ![s] = <<val[s][1], Null>>]

Next == \E s \in Slot :
  Make(s) \/ Destroy(s) \/ \E d \in Slot \ {s} : Copy(d, s) \/ Move(d, s)

Spec == Init /\ [][Next]_val
=============================================================================
