----------------------------- MODULE ModulePlan -----------------------------
(***************************************************************************)
(* What ordering and compiling a set of modules promises to the embedding  *)
(* program, without saying how: either the call fails and names a defect   *)
(* that the input really has, or every module is compiled exactly once and *)
(* after everything it imports.                                            *)
(***************************************************************************)
EXTENDS Naturals, Sequences, FiniteSets, Functions

VARIABLES
  asts,      \* the modules, each with a name and the names it imports
  compiled,  \* names of the modules compiled before
  outcome,   \* "pending", "done", or the defect that was reported
  plan       \* the modules in the order they were compiled

vars == <<asts, compiled, outcome, plan>>

Modules == 1..Len(asts)
DependsOn(i, j) == asts[j].name \in Range(asts[i].imports)
Names == {asts[i].name : i \in Modules} \union Range(compiled)

Duplicate == Cardinality(Names) # Len(asts) + Len(compiled)
Missing == \E i \in Modules : ~ Range(asts[i].imports) \subseteq Names
(* A set of modules that all depend on a member of it contains a cycle.    *)
Cyclic == \E S \in SUBSET Modules :
  S # {} /\ \A i \in S : \E j \in S : DependsOn(i, j)

Topological(p) ==
  /\ DOMAIN p = Modules
  /\ Range(p) = Modules
  /\ \A k \in DOMAIN p : \A j \in Modules :
       DependsOn(p[k], j) => \E l \in 1..(k - 1) : p[l] = j

Init == outcome = "pending" /\ plan = <<>>

Reject(defect) ==
  /\ outcome = "pending"
  /\ outcome' = defect
  /\ UNCHANGED <<asts, compiled, plan>>

Accept ==
  /\ outcome = "pending"
  /\ ~ (Duplicate \/ Cyclic \/ Missing)
  /\ outcome' = "done"
  /\ Topological(plan')
  /\ UNCHANGED <<asts, compiled>>

Next ==
  \/ Duplicate /\ Reject("duplicate")
  \/ Cyclic /\ Reject("cyclic")
  \/ Missing /\ Reject("notfound")
  \/ Accept

Spec == Init /\ [][Next]_vars
=============================================================================
