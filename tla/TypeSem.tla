------------------------------ MODULE TypeSem ------------------------------
(***************************************************************************)
(* What the types of expressions are, said without a stack: a type is what *)
(* is left when every weak alias in it is replaced, a strong alias is      *)
(* identified by its declaration, and an expression either has a type of   *)
(* its own (Syn) or can be given one (Chk).                                *)
(***************************************************************************)
EXTENDS TypeCheck

RECURSIVE Norm(_, _), Syn(_, _), Chk(_, _, _), Led(_)

Norm(tb, t) ==
  CASE t.k = "named" -> IF tb.aliases[t.id].strong THEN Named("", t.id) ELSE Norm(tb, tb.aliases[t.id].t)
    [] OTHER -> [t EXCEPT !.e = [i \in 1..Len(t.e) |-> Norm(tb, t.e[i])]]
Conc(tb, t) == IF t.k = "named" THEN Norm(tb, ConcreteType(tb, t)) ELSE t

Visible(tb, n) == Found(tb, FindScope(tb, n), n)
FuncsOf(tb, n) == {tb.funcs[s.id] : s \in {u \in Visible(tb, n) : u.kind = "func"}}
IsFuncName(tb, e) == e.k = "ident" /\ FuncsOf(tb, e.n) # {}
IsBtnName(tb, e) == e.k = "ident" /\ \E s \in Visible(tb, e.n) : s.kind = "btn"

(* A type and whether the expression can be assigned to *)
TM(t, mut) == [t |-> t, mut |-> mut]
Value(t) == {TM(t, FALSE)}
IsBuiltin(tb, t, names) == Conc(tb, t).k = "btn" /\ Conc(tb, t).n \in names
BoolLike(tb, t) == LET c == Conc(tb, t) IN c.k = "fn" \/ (c.k = "user" /\ c.r[1])

PtrTypes(tb, n) == {Norm(tb, PtrType(f)) : f \in {g \in FuncsOf(tb, n) : Pointable(g)}}

SynIdent(tb, n) ==
  LET objects == {s \in Visible(tb, n) : s.kind = "object"}
  IN {TM(Norm(tb, s.et.t), s.et.mut = "var" \/ Captured(tb, FindScope(tb, n))) : s \in objects}
       \union (IF Cardinality(FuncsOf(tb, n)) = 1 THEN {TM(t, FALSE) : t \in PtrTypes(tb, n)} ELSE {})

(* The arguments suit the parameters: the types are the same, and what is  *)
(* passed by reference can be assigned to                                  *)
Suits(tb, param, arg) ==
  \E o \in arg : o.t = Norm(tb, param.t) /\ (param.ref = "ref" => o.mut)
AllSuit(tb, params, args) ==
  Len(params) = Len(args) /\ \A i \in 1..Len(args) : Suits(tb, params[i], args[i])
Called(tb, fs, args) ==
  {TM(Norm(tb, f.ret.t), FALSE) : f \in {g \in fs : g.ret.t # NullT /\ AllSuit(tb, g.params, args)}}

SynBtn(tb, f, args) ==
  LET array(o) == Conc(tb, o.t).k = "arr"
      second(o, u) == CASE f = "push_back" -> u.t = Conc(tb, o.t).e[1]
                        [] f = "append" -> u.t = Conc(tb, o.t)
                        [] OTHER -> u.t = Btn("uint")
      reads == {"capacity", "size", "data"}
  IN IF /\ Len(args) = (IF f \in reads \union {"pop_back"} THEN 1 ELSE 2)
        /\ \E o \in args[1] :
             /\ array(o) /\ (f \notin reads => o.mut)
             /\ Len(args) = 2 => \E u \in args[2] : second(o, u)
     THEN Value(BtnRet(f)) ELSE {}

SynCall(tb, callee, args) ==
  CASE IsFuncName(tb, callee) -> Called(tb, FuncsOf(tb, callee.n), <<{TM(NullT, FALSE)}>> \o args)
    [] IsBtnName(tb, callee) -> SynBtn(tb, callee.n, args)
    [] callee.k = "member" -> Called(tb, FuncsOf(tb, callee.n), <<Syn(tb, callee.e[1])>> \o args)
    [] OTHER -> {TM(o.t.e[1], FALSE) :
                   o \in {u \in Syn(tb, callee) : u.t.k = "fn" /\ AllSuit(tb, ParamsOf(u.t), args)}}

SynBinary(tb, op, e) ==
  IF BoolOp(op) THEN IF \A i \in 1..2 : Chk(tb, e[i], Bool) THEN Value(Bool) ELSE {}
  ELSE LET same == {o.t : o \in Syn(tb, e[1])} \intersect {o.t : o \in Syn(tb, e[2])}
       IN UNION {IF CompOp(op) THEN IF ValidComp(tb, t) THEN Value(Bool) ELSE {}
                 ELSE IF IsBuiltin(tb, t, Operands(op)) THEN Value(Conc(tb, t)) ELSE {} : t \in same}

(* make converts between builtin types, and between a strong alias and its *)
(* type                                                                    *)
Makes(tb, e, t) ==
  \/ Chk(tb, e, t)
  \/ e.k = "array" /\ Chk(tb, e, Conc(tb, t))
  \/ /\ e.k \notin {"array", "init"}
     /\ \E o \in Syn(tb, e) : \/ Conc(tb, o.t) = Conc(tb, t)
                              \/ /\ IsBuiltin(tb, o.t, ToSet(BtnNames) \ {"opaq"})
                                 /\ IsBuiltin(tb, t, ToSet(BtnNames) \ {"opaq"})
Made(tb, e, t) == IF t # BadT /\ Makes(tb, e, Norm(tb, t)) THEN Value(Norm(tb, t)) ELSE {}

Syn(tb, e) ==
  CASE e.k = "lit" -> Value(Norm(tb, e.t))
    [] e.k = "ident" -> SynIdent(tb, e.n)
    [] e.k = "call" -> SynCall(tb, e.e[1], [i \in 1..(Len(e.e) - 1) |-> Syn(tb, e.e[i + 1])])
    [] e.k = "member" ->
         UNION {LET c == Conc(tb, o.t)
                IN {TM(c.e[i], o.mut) : i \in {j \in 1..Len(c.f) : c.f[j] = e.n}} : o \in Syn(tb, e.e[1])}
    [] e.k = "subscript" ->
         IF \E o \in Syn(tb, e.e[2]) : IsBuiltin(tb, o.t, {"sint", "uint"})
         THEN {TM(Conc(tb, o.t).e[1], o.mut) : o \in {u \in Syn(tb, e.e[1]) : Conc(tb, u.t).k = "arr"}}
         ELSE {}
    [] e.k = "unary" ->
         IF BoolOp(e.n) THEN IF Chk(tb, e.e[1], Bool) THEN Value(Bool) ELSE {}
         ELSE {TM(o.t, FALSE) : o \in {u \in Syn(tb, e.e[1]) : IsBuiltin(tb, u.t, Operands(e.n))}}
    [] e.k = "binary" -> SynBinary(tb, e.n, e.e)
    [] e.k = "ternary" ->
         IF ~Chk(tb, e.e[1], Bool) THEN {}
         ELSE {TM(p[1].t, p[1].mut /\ p[2].mut) :
                 p \in {q \in Syn(tb, e.e[2]) \X Syn(tb, e.e[3]) : q[1].t = q[2].t}}
    [] e.k = "make" -> Made(tb, e.e[1], ValidateType(tb, e.t))
    [] e.k = "array" /\ e.e # <<>> ->
         {TM(Arr(t), FALSE) : t \in {u \in {o.t : o \in Syn(tb, e.e[1])} :
            /\ Conc(tb, u) # Void
            /\ \A i \in 1..Len(e.e) : u \in {o.t : o \in Syn(tb, e.e[i])}}}
    [] OTHER -> {}

(* Closures, and native classes that say so, convert to bool.  The name of *)
(* a function does so only where no type is expected of it, in a branch.   *)
Converts(tb, e, t) == t = Bool /\ \E o \in Syn(tb, e) : BoolLike(tb, o.t)

Chk(tb, e, t) ==
  CASE e.k = "init" ->
         LET c == Conc(tb, t)
         IN \/ e.e = <<>>
            \/ /\ c.k = "struct" /\ Len(c.e) = Len(e.e)
               /\ \A i \in 1..Len(e.e) : Chk(tb, e.e[i], c.e[i])
    [] e.k = "array" -> t.k = "arr" /\ \A i \in 1..Len(e.e) : Chk(tb, e.e[i], t.e[1])
    [] e.k = "ternary" ->
         /\ Chk(tb, e.e[1], Bool)
         /\ \A i \in {2, 3} : Chk(tb, e.e[i], t) \/ Converts(tb, e.e[i], t)
    [] IsFuncName(tb, e) -> t \in PtrTypes(tb, e.n)
    [] OTHER -> Converts(tb, e, t) \/ t \in {o.t : o \in Syn(tb, e)}
-----------------------------------------------------------------------------
(* The statements that are well typed, given the table before them *)
Resolved(tb, t) == ValidateType(tb, t)
Free(tb, n) == ~Has(tb, Cur(tb), n)
Types(tb, e) == {o.t : o \in Syn(tb, e)}
(* The types a declared object may get *)
ObjectTypes(tb, s) ==
  IF s.t = NullT \/ s.s = "decl" THEN IF s.e = <<>> THEN {} ELSE Types(tb, s.e[1]) \ {Void}
  ELSE IF Resolved(tb, s.t) = BadT THEN {}
  ELSE {t \in {Norm(tb, Resolved(tb, s.t))} : s.e = <<>> \/ Chk(tb, s.e[1], t)}

NormParams(tb, ps) == [i \in 1..Len(ps) |-> Norm(tb, ps[i].t)]
ResolvedTypes(tb, ps) == [i \in 1..Len(ps) |-> Resolved(tb, ps[i].t)]
Declarable(tb, s) ==
  LET types == ResolvedTypes(tb, s.p)
      params == [i \in 1..Len(types) |-> Norm(tb, types[i])]
  IN /\ BadT \notin ToSet(types) \union {Resolved(tb, s.t)}
     /\ tb.scopes[Cur(tb)].type = "ns"
     /\ s.n \notin ToSet(Conc(tb, params[1]).f)
     /\ \A u \in Symbols(tb, Cur(tb), s.n) : u.kind = "func" /\ NormParams(tb, tb.funcs[u.id].params) # params

(* What the enclosing function returns, NullT while nothing is known *)
RetType(tb) == Norm(tb, tb.funcs[tb.scopes[Nearest(tb, {"func", "closure"})].fn].ret.t)
InFlow(tb) ==
  \E i \in 1..Cur(tb) :
    /\ tb.scopes[i].type = "flow"
    /\ \A j \in i..Cur(tb) : tb.scopes[j].type \in {"flow", "block"}
Assignable(tb, e) == {o.t : o \in {u \in Syn(tb, e) : u.mut}}

WellTyped(tb, s) ==
  CASE s.s \in {"var", "let", "decl"} -> Free(tb, s.n) /\ ObjectTypes(tb, s) # {}
    [] s.s \in {"weak", "strong"} -> Free(tb, s.n) /\ Resolved(tb, s.t) # BadT
    [] s.s \in {"func", "ext"} -> Declarable(tb, s)
    [] s.s = "lambda" -> BadT \notin ToSet(ResolvedTypes(tb, s.p)) \union {Resolved(tb, s.t)}
    [] s.s = "endlambda" -> Free(Leave(tb), tb.funcs[tb.scopes[Cur(tb)].fn].n)
    [] s.s = "return" -> IF s.e = <<>> THEN RetType(tb) \in {NullT, Void}
                         ELSE IF RetType(tb) = NullT THEN Syn(tb, s.e[1]) # {}
                         ELSE Chk(tb, s.e[1], RetType(tb))
    [] s.s = "enter" -> s.e = <<>> \/ Chk(tb, s.e[1], Bool)
    [] s.s = "switch" -> /\ Cardinality(Defaults(s.e)) <= 1
                         /\ \E t \in Types(tb, s.e[1]) : \A i \in 2..Len(s.e) :
                              s.e[i].k = "default" \/ Chk(tb, s.e[i], t)
    [] s.s = "flow" -> InFlow(tb)
    [] s.s = "assign" -> \E t \in Assignable(tb, s.e[1]) : Chk(tb, s.e[2], t)
    [] s.s = "comp" -> \E t \in Assignable(tb, s.e[1]) :
                         IsBuiltin(tb, t, Operands(s.n)) /\ Chk(tb, s.e[2], t)
    [] s.s = "incr" -> \E t \in Assignable(tb, s.e[1]) : IsBuiltin(tb, t, Operands("add"))
    [] s.s = "call" -> Void \in Types(tb, s.e[1])
    [] OTHER -> TRUE
-----------------------------------------------------------------------------
(* No assertion of the expression stack or of the lookup fails, and no     *)
(* UNREACHABLE is reached, whatever calls, members, subscripts and         *)
(* operators are nested in each other: a program is either accepted or     *)
(* gets a message.                                                         *)
AssertionsHold == stat.err # "abort"

(* What is accepted is well typed by the rules of TypeSem, and a declared  *)
(* object gets the type and the mutability that they give it: types that   *)
(* differ are never mixed, names mean the innermost declaration, and only  *)
(* what can be assigned to is assigned to or passed by reference.          *)
Recorded(tb, s) ==
  s.s \in {"var", "let", "decl"} =>
    \E o \in Symbols(tb, Cur(tb), s.n) :
      Norm(tb, o.et.t) \in ObjectTypes(table, s) /\ o.et.mut = (IF s.s = "let" THEN "let" ELSE "var")
Sound == [][stat'.err = "" => WellTyped(table, stat'.s) /\ Recorded(table', stat'.s)]_vars

(* What is well typed is accepted, so that no nesting of expressions makes *)
(* the analysis lose a type, an expectation or a name.  Left out are the   *)
(* expressions where the expected type is that of another expression:      *)
(* operands of make, callees and objects of members see the one of the     *)
(* whole, and the branches of ?: see none.                                 *)
Misled(e) ==
  \/ e.k \in {"member", "call"} /\ e.e[1].k \in {"ternary", "array", "init"}
  \/ e.k = "make" /\ e.e[1].k = "ternary"
  \/ e.k = "ternary" /\ {e.e[2].k, e.e[3].k} \intersect {"array", "init"} # {}
Led(e) == ~Misled(e) /\ \A i \in 1..Len(e.e) : Led(e.e[i])
Complete ==
  [][WellTyped(table, stat'.s) /\ (\A i \in 1..Len(stat'.s.e) : Led(stat'.s.e[i])) => stat'.err = ""]_vars

(* At most one function of a scope can be called with given arguments, so  *)
(* that the order of the hash table cannot decide which one lookupFun      *)
(* returns, and no other symbol of the scope has the name of a function.   *)
OverloadsDistinct ==
  \A i \in 1..Cur(table) : \A n \in DOMAIN table.scopes[i].table :
    \A u, w \in Symbols(table, i, n) :
      u # w =>
        /\ u.kind = "func" /\ w.kind = "func"
        /\ NormParams(table, table.funcs[u.id].params) # NormParams(table, table.funcs[w.id].params)
=============================================================================
