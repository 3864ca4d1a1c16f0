------------------------------ MODULE ExprSem ------------------------------
(***************************************************************************)
(* What expressions and statements mean.  Values are numbers, sequences    *)
(* for arrays, structures and classes, and <<function, captures>> for      *)
(* closures.  Operands are evaluated from the left to the right; an object *)
(* that an expression names is copied where a copy is made of it.          *)
(*                                                                         *)
(* A result r has the state s = [store, log] after the evaluation, and the *)
(* path p to an object in the store or, if p is empty, a value v.          *)
(***************************************************************************)
EXTENDS ExprTypes

LOCAL INSTANCE Bitwise

InStore(store, p) == FoldLeft(LAMBDA v, i : v[i], store[p[1]], Tail(p))
ValueIn(r, s) == IF r.p = <<>> THEN r.v ELSE InStore(s.store, r.p)
Now(r) == ValueIn(r, r.s)
Val(v, s) == [p |-> <<>>, v |-> v, s |-> s]
Obj(p, s) == [p |-> p, v |-> 0, s |-> s]

RECURSIVE PutIn(_, _, _)
PutIn(v, p, w) == IF p = <<>> THEN w ELSE [v EXCEPT ![p[1]] = PutIn(@, Tail(p), w)]
Put(s, p, w) == [s EXCEPT !.store = PutIn(@, p, w)]
-----------------------------------------------------------------------------
Wrap(t, v) == Decode(t, Encode(t, v))
Abs(n) == IF n < 0 THEN -n ELSE n
Quot(a, b) == IF (a < 0) = (b < 0) THEN Abs(a) \div Abs(b) ELSE -(Abs(a) \div Abs(b))
Calculate(op, t, a, b) ==
  CASE op = "add" -> Wrap(t, a + b)
    [] op = "sub" -> Wrap(t, a - b)
    [] op = "mul" -> Wrap(t, a * b)
    [] op = "div" -> Wrap(t, Quot(a, b))
    [] op = "mod" -> Wrap(t, a - b * Quot(a, b))
    [] op = "bit_or" -> Wrap(t, Encode(t, a) | Encode(t, b))
    [] op = "bit_and" -> Wrap(t, Encode(t, a) & Encode(t, b))
    [] op = "bit_xor" -> Wrap(t, Encode(t, a) ^^ Encode(t, b))
    [] op = "bit_shl" -> Wrap(t, a * 2^b)
    [] op = "bit_shr" -> a \div 2^b
    [] op = "eq" -> BoolInt(a = b)
    [] op = "ne" -> BoolInt(a # b)
    [] op = "lt" -> BoolInt(Less(t, a, b))
    [] op = "gt" -> BoolInt(Less(t, b, a))
    [] op = "le" -> BoolInt(Less(t, a, b) \/ a = b)
    [] op = "ge" -> BoolInt(Less(t, b, a) \/ a = b)

Truth(t, v) == CASE t = "bool" -> v = 1
                 [] t = "clo" -> v[1] # "stub"
                 [] t \in User -> v[1] # 0
Convert(t, from, v) == IF t = "bool" /\ from # "bool" THEN BoolInt(Truth(from, v)) ELSE Wrap(t, v)
-----------------------------------------------------------------------------
RECURSIVE Eval(_, _)

(* Copies of the values of several expressions. *)
Next_(acc, r) == [vs |-> Append(acc.vs, Now(r)), s |-> r.s]
EvalList(es, s) == FoldLeft(LAMBDA acc, e : Next_(acc, Eval(e, acc.s)), [vs |-> <<>>, s |-> s], es)
ListVal(acc) == Val(acc.vs, acc.s)

(* Numbers are read when they are evaluated, objects when they are used. *)
BinaryWith(e, l, lv, r) ==
  Val(Calculate(e.n, e.e[1].t, IF e.e[1].t \in Btn THEN lv ELSE ValueIn(l, r.s), Now(r)), r.s)
BinaryFrom(e, l) == BinaryWith(e, l, Now(l), Eval(e.e[2], l.s))

LogicFrom(e, l) ==
  IF Truth(e.e[1].t, Now(l)) = (e.n = "or") THEN Val(BoolInt(e.n = "or"), l.s)
  ELSE LET r == Eval(e.e[2], l.s) IN Val(BoolInt(Truth(e.e[2].t, Now(r))), r.s)

UnaryFrom(e, r) ==
  Val(CASE e.n = "bool_not" -> 1 - BoolInt(Truth(e.e[1].t, Now(r)))
        [] e.n = "neg" -> Wrap(e.t, -Now(r))
        [] e.n = "bit_not" -> Wrap(e.t, -1 - Now(r)), r.s)

TernFrom(e, c) ==
  LET r == Eval(IF Truth(e.e[1].t, Now(c)) THEN e.e[2] ELSE e.e[3], c.s)
  IN IF ValueCat(e) = "lvalue" THEN r ELSE Val(Now(r), r.s)

Select(r, i, s) == IF r.p = <<>> THEN Val(r.v[i], s) ELSE Obj(Append(r.p, i), s)
SubFrom(r, index) == Select(r, Now(index) + 1, index.s)

(* Calls: the log gets the function, what its closure captured and the     *)
(* values of its arguments; references are changed and variables set.      *)
Arg(acc, p, r) ==
  [rs |-> Append(acc.rs, IF p.ref THEN r ELSE Val(Now(r), r.s)), s |-> r.s]
Args(f, es, s) ==
  FoldLeftDomain(LAMBDA acc, i : Arg(acc, Funcs[f].params[i], Eval(es[i], acc.s)),
                 [rs |-> <<>>, s |-> s], es)
Logged(f, caps, acc) ==
  [acc EXCEPT !.s.log = Append(@, <<f, caps, [i \in DOMAIN acc.rs |-> ValueIn(acc.rs[i], acc.s)]>>)]
ChangeRef(t, r, s) ==
  IF r.p = <<>> THEN s ELSE Put(s, r.p, Changed(t, InStore(s.store, r.p)))
ChangeRefs(f, acc) ==
  FoldLeftDomain(LAMBDA s, i : ChangeRef(Funcs[f].params[i].t, acc.rs[i], s), acc.s, acc.rs)
Assigned(f, s) == [s EXCEPT !.store = Funcs[f].sets @@ @]
Called(f, caps, acc) == Val(Funcs[f].result, Assigned(f, ChangeRefs(f, Logged(f, caps, acc))))
CallClo(clo, es, s) == Called(clo[1], clo[2], Args(clo[1], es, s))

Eval(e, s) ==
  CASE e.k = "lit" -> Val(e.v[1], s)
    [] e.k \in {"var", "cap"} -> Obj(<<e.n>>, s)
    [] e.k = "fun" -> Val(<<e.n, <<>>>>, s)
    [] e.k = "lambda" -> Val(<<e.n, [i \in DOMAIN Lambdas[e.n] |-> s.store[Lambdas[e.n][i]]]>>, s)
    [] e.k = "str" -> Val(e.v, s)
    [] e.k = "array" -> ListVal(EvalList(e.e, s))
    [] e.k = "init" -> IF e.e = <<>> THEN Val(Default(e.t), s) ELSE ListVal(EvalList(e.e, s))
    [] e.k = "binary" -> BinaryFrom(e, Eval(e.e[1], s))
    [] e.k = "logic" -> LogicFrom(e, Eval(e.e[1], s))
    [] e.k = "unary" -> UnaryFrom(e, Eval(e.e[1], s))
    [] e.k = "ternary" -> TernFrom(e, Eval(e.e[1], s))
    [] e.k = "make" ->
         LET r == Eval(e.e[1], s) IN IF e.n = "cast" THEN Val(Convert(e.t, e.e[1].t, Now(r)), r.s) ELSE r
    [] e.k = "member" -> LET r == Eval(e.e[1], s) IN Select(r, e.v[1], r.s)
    [] e.k = "subscript" -> LET r == Eval(e.e[1], s) IN SubFrom(r, Eval(e.e[2], r.s))
    [] e.k \in {"call", "ext", "btn"} -> Called(e.n, <<>>, Args(e.n, e.e, s))
    [] e.k = "ptr" -> LET r == Eval(e.e[1], s) IN CallClo(Now(r), Tail(e.e), r.s)
-----------------------------------------------------------------------------
(* Statements: the object or the value that they make, if any, and the     *)
(* state after them.                                                       *)
Made(v, s) == [made |-> v, s |-> s]
NoValue == <<"none">>

AsBool(t, e, r) == Made(IF IsBoolCast(t, e.t) THEN BoolInt(Truth(e.t, Now(r))) ELSE Now(r), r.s)
AssignAt(dst, w, s) == Made(NoValue, Put(s, dst.p, w))
AssignFrom(dst, r) == AssignAt(dst, Now(r), r.s)
CompoundFrom(s, dst, v, r) == AssignAt(dst, Calculate(s.n, s.e[1].t, v, Now(r)), r.s)

Run(s, st) ==
  CASE s.k \in {"var", "global"} /\ s.e = <<>> -> Made(Default(s.t), st)
    [] s.k \in {"var", "global", "return"} /\ s.e # <<>> -> AsBool(s.t, s.e[1], Eval(s.e[1], st))
    [] s.k = "cond" -> AsBool("bool", s.e[1], Eval(s.e[1], st))
    [] s.k = "assign" -> LET dst == Eval(s.e[1], st) IN AssignFrom(dst, Eval(s.e[2], dst.s))
    [] s.k = "comp_assign" ->
         LET dst == Eval(s.e[1], st) IN CompoundFrom(s, dst, Now(dst), Eval(s.e[2], dst.s))
    [] s.k = "incr_decr" ->
         LET dst == Eval(s.e[1], st) IN CompoundFrom(s, dst, Now(dst), Val(1, dst.s))
    [] s.k = "call" -> Made(NoValue, Eval(s.e[1], st).s)
=============================================================================
