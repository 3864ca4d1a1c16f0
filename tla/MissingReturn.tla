--------------------------- MODULE MissingReturn ---------------------------
(***************************************************************************)
(* Does a function return?  (src/Semantic/check missing return.cpp)  The   *)
(* visitor walks over the statements of a function with two fields: the    *)
(* last jump it saw, `term`, and whether that jump happens, `occurs`.  It  *)
(* appends Terminate to the blocks whose end is reached, tells switches    *)
(* that they always return, and rejects functions with unreachable code,   *)
(* a last case that continues, or an end without a return.                 *)
(***************************************************************************)
EXTENDS Integers, Sequences, SequencesExt

(* Statements.  A plain one is an assignment or a call, a Var any of the   *)
(* three declarations of an object; conditions and expressions are left    *)
(* out, and so are the operands that only expressions differ by.           *)
Plain == [k |-> "plain"]
Var == [k |-> "var"]
Break == [k |-> "break"]
Continue == [k |-> "continue"]
Return == [k |-> "return", expr |-> TRUE]
ReturnVoid == [k |-> "return", expr |-> FALSE]
Terminate == [k |-> "terminate"]
Block(nodes) == [k |-> "block", b |-> nodes]
If(body) == [k |-> "if", b |-> <<body>>]
IfElse(body, elseBody) == [k |-> "if", b |-> <<body, elseBody>>]
While(body) == [k |-> "while", b |-> <<body>>]
For(body) == [k |-> "for", b |-> <<body>>]   \* with an init that declares and an incr
(* The bodies of the cases; the case number dflt, if not 0, is the default. *)
Switch(bodies, dflt) == [k |-> "switch", b |-> bodies, dflt |-> dflt, always |-> FALSE]

Continues == 0   \* enum Term
Breaks == 1
Returns == 2
No == 0          \* enum Occurs
Maybe == 1
Yes == 2

(* The state of the visitor, with the statement as the visitor left it. *)
Visited(s, term, occurs) == [s |-> s, term |-> term, occurs |-> occurs, err |-> "none"]
Fatal(v, err) == [v EXCEPT !.err = err]

RECURSIVE Visit(_, _)

VisitBlock(s, v) ==
  LET start == [v |-> [v EXCEPT !.occurs = No], nodes |-> <<>>, left |-> FALSE, term |-> Continues]
      step(a, i) ==
        IF a.v.err # "none" THEN a
        ELSE LET r == Visit(s.b[i], a.v)
             IN [v |-> IF r.err = "none" /\ r.occurs = Yes /\ i # Len(s.b)
                       THEN Fatal(r, "unreachable") ELSE r,
                 nodes |-> Append(a.nodes, r.s),
                 left |-> a.left \/ (r.occurs = Maybe /\ r.term # Returns),
                 term |-> IF r.term > a.term THEN r.term ELSE a.term]
      end == FoldLeftDomain(step, start, s.b)
      occurs == IF end.left THEN Maybe ELSE end.v.occurs
      nodes == IF occurs = Yes THEN end.nodes ELSE Append(end.nodes, Terminate)
  IN IF end.v.err # "none" THEN end.v ELSE Visited(Block(nodes), end.term, occurs)

VisitIf(s, v) ==
  LET troo == Visit(s.b[1], v)
      fols == IF Len(s.b) = 2 THEN Visit(s.b[2], troo) ELSE [troo EXCEPT !.occurs = No]
      body == IF Len(s.b) = 2 THEN <<troo.s, fols.s>> ELSE <<troo.s>>
      same == fols.occurs = troo.occurs /\ fols.term = troo.term
  IN IF troo.err # "none" THEN troo
     ELSE IF fols.err # "none" THEN fols
     ELSE Visited([s EXCEPT !.b = body],
                  IF troo.term = Returns THEN Returns ELSE fols.term,
                  IF same THEN fols.occurs ELSE Maybe)

(* A bug: a case that may return is counted as one that does. *)
CaseReturnsMaybe(c, r) == IF r.term = Returns /\ r.occurs # No THEN 1 ELSE 0

(* What a case adds to totalCases and to retCount. *)
CaseTotal(c, r) == IF r.term = Continues /\ r.occurs = Yes THEN 0 ELSE 1
CaseReturns(c, r) == IF r.term = Returns /\ r.occurs = Yes THEN 1 ELSE 0

VisitSwitch(s, v) ==
  LET start == [v |-> v, bodies |-> <<>>, total |-> 0, ret |-> 0, maybe |-> FALSE]
      step(a, c) ==
        IF a.v.err # "none" THEN a
        ELSE LET r == Visit(s.b[c], a.v)
                 goes == r.term = Continues /\ r.occurs # No /\ c = Len(s.b)
             IN [v |-> IF r.err = "none" /\ goes THEN Fatal(r, "continues") ELSE r,
                 bodies |-> Append(a.bodies, r.s),
                 total |-> a.total + CaseTotal(c, r),
                 ret |-> a.ret + CaseReturns(c, r),
                 maybe |-> a.maybe \/ (r.term = Returns /\ r.occurs = Maybe)]
      end == FoldLeftDomain(step, start, s.b)
      always == end.ret = end.total /\ s.dflt # 0
  IN IF end.v.err # "none" THEN end.v
     ELSE Visited([s EXCEPT !.b = end.bodies, !.always = always], Returns,
                  CASE always -> Yes
                    [] ~ always /\ (end.maybe \/ end.ret # 0) -> Maybe
                    [] OTHER -> No)

AfterLoop(s, v) ==
  IF v.err # "none" THEN v
  ELSE Visited([s EXCEPT !.b = <<v.s>>], Returns,
               IF v.term = Returns /\ v.occurs # No THEN Maybe ELSE No)

Visit(s, v) ==
  CASE s.k = "block" -> VisitBlock(s, v)
    [] s.k = "if" -> VisitIf(s, v)
    [] s.k = "switch" -> VisitSwitch(s, v)
    [] s.k \in {"while", "for"} -> AfterLoop(s, Visit(s.b[1], v))
    [] s.k = "break" -> Visited(s, Breaks, Yes)
    [] s.k = "continue" -> Visited(s, Continues, Yes)
    [] s.k = "return" -> Visited(s, Returns, Yes)
    [] OTHER -> [v EXCEPT !.s = s]

(* checkMissingRet: the body that is compiled, or the reason why not. *)
CheckMissingRet(body, void) ==
  LET v == Visit(Block(body), Visited(Terminate, Continues, No))
      nodes == v.s.b
  IN CASE v.err # "none" -> v
       [] v.err = "none" /\ v.occurs = Yes -> [v EXCEPT !.s = nodes]
       [] v.err = "none" /\ v.occurs # Yes /\ void ->
            [v EXCEPT !.s = Append(Front(nodes), ReturnVoid)]
       [] OTHER -> Fatal(v, "no return")
=============================================================================
