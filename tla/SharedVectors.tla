---------------------------- MODULE SharedVectors ----------------------------
(***************************************************************************)
(* README.md, Arrays: "Arrays in Stela behave like                         *)
(* std::shared_ptr<std::vector>".  A variable holds a handle; handles to   *)
(* the same vector see each other's changes; a vector is a sequence of     *)
(* values.  The program makes a call and the call is performed.            *)
(***************************************************************************)
EXTENDS Integers, Sequences

CONSTANTS
  Var,       \* variables of the array type
  Vector,    \* identities of vectors
  Default,   \* the value of an element that resize adds
  Null, Dead \* contents of a variable without a vector

VARIABLES
  var,       \* the variables
  vec,       \* the contents of the vectors
  call,      \* the call being performed, Null between calls
  panicked   \* the program was stopped by a runtime error

vars == <<var, vec, call, panicked>>

Held == {var[x] : x \in Var} \intersect Vector
(* Only vectors that a variable holds are looked at. *)
Same(vecs) == \A v \in Held' : vec'[v] = vecs[v]

Init ==
  /\ var = [x \in Var |-> Dead]
  /\ vec \in [Vector -> {<<>>}]
  /\ call = Null
  /\ panicked = FALSE

MakeCall ==
  /\ call = Null
  /\ ~ panicked
  /\ call' # Null
  /\ UNCHANGED <<var, vec, panicked>>

Return == call' = Null /\ UNCHANGED panicked

Panic ==
  /\ call' = Null
  /\ panicked' = TRUE
  /\ UNCHANGED var
  /\ Same(vec)

(* A new vector, shared with nobody. *)
New(x, contents) ==
  /\ Return
  /\ \E v \in Vector \ Held :
       /\ var' = [var EXCEPT ![x] = v]
       /\ Same([vec EXCEPT ![v] = contents])

SetVar(xs) == Return /\ var' = xs /\ Same(vec)
Update(x, contents) ==
  Return /\ UNCHANGED var /\ Same([vec EXCEPT ![var[x]] = contents])

Resized(s, n) == [i \in 1..n |-> IF i <= Len(s) THEN s[i] ELSE Default]

(* An index of type sint may be negative. *)
Store(x, index, value) ==
  IF index >= 0 /\ index < Len(vec[var[x]])
  THEN Update(x, [vec[var[x]] EXCEPT ![index + 1] = value])
  ELSE Panic

Perform ==
  /\ call # Null
  /\ LET x == call.x IN
     CASE call.op = "def_ctor"  -> New(x, <<>>)
       [] call.op = "literal"   -> New(x, call.s)
       [] call.op = "dtor"      -> SetVar([var EXCEPT ![x] = Dead])
       [] call.op \in {"cop_ctor", "cop_asgn"} -> SetVar([var EXCEPT ![x] = var[call.y]])
       [] call.op \in {"mov_ctor", "mov_asgn"} ->
            SetVar([var EXCEPT ![x] = var[call.y], ![call.y] = Null])
       [] call.op = "push_back" -> Update(x, Append(vec[var[x]], call.e))
       [] call.op = "append"    -> Update(x, vec[var[x]] \o vec[var[call.y]])
       [] call.op = "pop_back"  ->
            IF vec[var[x]] = <<>> THEN Panic
            ELSE Update(x, SubSeq(vec[var[x]], 1, Len(vec[var[x]]) - 1))
       [] call.op = "resize"    -> Update(x, Resized(vec[var[x]], call.n))
       [] call.op = "reserve"   -> Update(x, vec[var[x]])
       [] call.op = "store"     -> Store(x, call.i, call.e)

Next == MakeCall \/ Perform
Spec == Init /\ [][Next]_vars
=============================================================================
