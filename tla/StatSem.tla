------------------------------ MODULE StatSem ------------------------------
(***************************************************************************)
(* What the statements of a function do, independently of blocks and       *)
(* branches.  README.md promises the value semantics of C++: an object is  *)
(* destroyed when its scope is left, in whichever way, in the reverse      *)
(* order of construction; a temporary at the end of its expression.        *)
(*                                                                         *)
(* What is left to do is a sequence of tasks:                              *)
(*   do(label)          construct or destroy an object, or return;         *)
(*   test(cond, ...)    evaluate a condition and go on accordingly;        *)
(*   stat(s, p)         the statement s at the path p;                     *)
(*   nodes(b, p, i)     the statements of a block from number i;           *)
(*   flow(next, cont)   the end of the body of a loop or of a case: go on  *)
(*                      with next, or after a continue with cont.          *)
(***************************************************************************)
EXTENDS MissingReturn

LOCAL Tmp(p) == Append(p, 0)
LOCAL CaseTmp(p) == Append(p, -1)

Make(o) == [t |-> "do", label |-> [op |-> "make", obj |-> o]]
Drop(o) == [t |-> "do", label |-> [op |-> "drop", obj |-> o]]
Ret == [t |-> "do", label |-> [op |-> "ret"]]
Stat(s, p) == [t |-> "stat", s |-> s, p |-> p]
Nodes(b, p, i) == [t |-> "nodes", b |-> b, p |-> p, i |-> i]
Flow(next, cont) == [t |-> "flow", next |-> next, cont |-> cont]

(* A condition whose expression needs the temporary o. *)
Cond(o, id, troo, fols) ==
  <<Make(o), Drop(o), [t |-> "test", cond |-> id, troo |-> troo, fols |-> fols]>>

IsDrop(task) == task.t = "do" /\ task.label.op = "drop"

(* Leaving scopes: of the tasks before the number n, only the destruction  *)
(* of objects is left to do.                                               *)
Unwound(k, n) == SelectSeq(SubSeq(k, 1, n - 1), IsDrop)
FlowAt(k) == CHOOSE n \in DOMAIN k :
  k[n].t = "flow" /\ \A m \in 1..(n - 1) : k[m].t # "flow"

(* The body of case c; continue goes on with the body of the next case. *)
RECURSIVE CaseBody(_, _, _)
CaseBody(s, p, c) ==
  IF c > Len(s.b) THEN <<>>
  ELSE <<Stat(s.b[c], Append(p, c)), Flow(<<>>, CaseBody(s, p, c + 1))>>

(* The cases are tried in their order, the default when none is equal. *)
RECURSIVE Cases(_, _, _)
Cases(s, p, c) ==
  CASE c > Len(s.b) -> IF s.dflt = 0 THEN <<>> ELSE CaseBody(s, p, s.dflt)
    [] c = s.dflt -> Cases(s, p, c + 1)
    [] OTHER -> LET o == CaseTmp(Append(p, c))
                IN Cond(o, o, CaseBody(s, p, c), Cases(s, p, c + 1))

(* The tasks of a statement, before the tasks k. *)
Expand(s, p, k) ==
  CASE s.k = "plain" -> <<Make(Tmp(p)), Drop(Tmp(p))>> \o k
    [] s.k = "var" -> <<Make(Tmp(p)), Make(p), Drop(Tmp(p)), Drop(p)>> \o k
    [] s.k = "block" -> <<Nodes(s.b, p, 1)>> \o k
    [] s.k = "if" ->
         Cond(Tmp(p), p, <<Stat(s.b[1], Append(p, 1))>>,
              IF Len(s.b) = 2 THEN <<Stat(s.b[2], Append(p, 2))>> ELSE <<>>) \o k
    [] s.k = "while" ->
         Cond(Tmp(p), p,
              <<Stat(s.b[1], Append(p, 1)), Flow(<<Stat(s, p)>>, <<Stat(s, p)>>)>>, <<>>) \o k
    [] s.k = "for" ->
         LET init == Append(p, 2)
         IN <<Make(Tmp(init)), Make(init), Drop(Tmp(init)),
              Stat([s EXCEPT !.k = "loop"], p), Drop(init)>> \o k
    [] s.k = "loop" ->
         LET again == <<Stat(Plain, Append(p, 3)), Stat(s, p)>>
         IN Cond(Tmp(p), p, <<Stat(s.b[1], Append(p, 1)), Flow(again, again)>>, <<>>) \o k
    [] s.k = "switch" -> Cases(s, p, 1) \o k
    [] s.k = "break" -> Unwound(k, FlowAt(k)) \o SubSeq(k, FlowAt(k) + 1, Len(k))
    [] s.k = "continue" ->
         Unwound(k, FlowAt(k)) \o k[FlowAt(k)].cont \o SubSeq(k, FlowAt(k) + 1, Len(k))
    [] s.k = "return" ->
         (IF s.expr THEN <<Make(Tmp(p)), Drop(Tmp(p))>> ELSE <<>>)
         \o Unwound(k, Len(k) + 1) \o <<Ret>>

(* An object that a block declares lives until the end of the block. *)
NextNode(n, k) ==
  LET p == Append(n.p, n.i)
      more == Nodes(n.b, n.p, n.i + 1)
  IN CASE n.i > Len(n.b) -> k
       [] n.i <= Len(n.b) /\ n.b[n.i].k = "var" ->
            <<Make(Tmp(p)), Make(p), Drop(Tmp(p)), more, Drop(p)>> \o k
       [] OTHER -> <<Stat(n.b[n.i], p), more>> \o k

(* The tasks k with something to observe at their head. *)
RECURSIVE Settle(_)
Settle(k) ==
  IF k = <<>> \/ k[1].t \in {"do", "test"} THEN k
  ELSE Settle(CASE k[1].t = "stat" -> Expand(k[1].s, k[1].p, Tail(k))
                [] k[1].t = "nodes" -> NextNode(k[1], Tail(k))
                [] k[1].t = "flow" -> k[1].next \o Tail(k))

(* A void function returns at its end. *)
Start(body, void) == Settle(<<Nodes(body, <<>>, 1)>> \o (IF void THEN <<Ret>> ELSE <<>>))

Label(k) == IF k[1].t = "do" THEN k[1].label ELSE [op |-> "test"]
Then(k) == Settle(Tail(k))
Tests(k, cond) == k # <<>> /\ k[1].t = "test" /\ k[1].cond = cond
Branch(k, outcome) == Settle((IF outcome THEN k[1].troo ELSE k[1].fols) \o Tail(k))
=============================================================================
