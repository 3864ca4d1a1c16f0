----------------------------- MODULE TypeCheck -----------------------------
(***************************************************************************)
(* The semantic analysis of expressions and statements: infer type.cpp,    *)
(* expr lookup.cpp, expr stack.cpp, traverse.cpp and scope insert.cpp.     *)
(*                                                                         *)
(* The visitor of an expression works with a stack of what it has met: a   *)
(* call, a member, a function, an expression.  Its operations assert what  *)
(* is on top.  A visitor v has that stack, the type of the expression on   *)
(* top, the type expected of the expression that is visited, the result of *)
(* the last sub-expression, and how the visit ended: "error" after a       *)
(* fatal message, "abort" after an assertion or UNREACHABLE.               *)
(*                                                                         *)
(* A lambda is the whole initializer of a variable here: its body is the   *)
(* statements up to the one that leaves it.  Its captures are in Captures, *)
(* missing returns in MissingReturn.                                       *)
(***************************************************************************)
EXTENDS TypeTable

CONSTANTS
  Prelude,    \* the statements every program starts with
  Stats,      \* the statements a program may go on with
  MaxStats    \* how many of them

ASSUME MaxStatsAssumption == MaxStats \in Nat

VARIABLES
  table,   \* the symbol table
  stat,    \* the statement checked last, its type and how its check ended
  count    \* the statements after the prelude

vars == <<table, stat, count>>

(* An expression: its kind, the name or operator, a type, and operands *)
Ex(k, n, t, e) == [k |-> k, n |-> n, t |-> t, e |-> e]
-----------------------------------------------------------------------------
(* ExprStack *)
Start == [st |-> <<>>, et |-> NullEt, exp |-> NullT, res |-> NullEt, err |-> ""]
Ok(v) == v.err = ""
Fail(v) == IF Ok(v) THEN [v EXCEPT !.err = "error"] ELSE v
Abort(v) == IF Ok(v) THEN [v EXCEPT !.err = "abort"] ELSE v
At(v, i) == IF i < Len(v.st) THEN v.st[Len(v.st) - i] ELSE [k |-> "none", n |-> ""]
Top(v) == At(v, 0).k

Push(v, k, n) == IF Ok(v) THEN [v EXCEPT !.st = Append(@, [k |-> k, n |-> n])] ELSE v
Pop(v, k) == IF Ok(v) /\ Top(v) = k THEN [v EXCEPT !.st = Front(@)] ELSE Abort(v)
PushExpr(v, et) == IF Ok(v) THEN [Push(v, "expr", "") EXCEPT !.et = et] ELSE v
SetExpr(v, et) == IF Top(v) \in {"none", "expr"} THEN Abort(v) ELSE PushExpr(v, et)
LeaveLeft(v) == IF Ok(v) THEN [v EXCEPT !.res = v.et, !.et = NullEt] ELSE v
(* A bug: the marker of the sub-expression stays. *)
LeaveSubExprMarked(v) == LeaveLeft(Pop(v, "expr"))
LeaveSubExpr(v) == LeaveLeft(Pop(Pop(v, "expr"), "subexpr"))
TopType(v) == IF Top(v) = "expr" THEN v ELSE Abort(v)

MemVarExpr(v) == Top(v) = "expr" /\ At(v, 1).k = "member" /\ At(v, 2).k # "call"
MemFunExpr(v) == Top(v) = "expr" /\ At(v, 1).k = "member" /\ At(v, 2).k = "call"
CallOf(v, k) == Top(v) = k /\ At(v, 1).k = "call"
-----------------------------------------------------------------------------
(* lookupFun: the function of the innermost scope that has the name which  *)
(* can be called with the arguments, 0 after an error                      *)
FirstCompat(tb, found, args) ==
  IF \E s \in found : s.kind # "func" THEN 0
  ELSE AnyId({s \in found : CompatParams(tb, tb.funcs[s.id].params, args)})
LookupFun(tb, n, args) == FirstCompat(tb, Found(tb, FindScope(tb, n), n), args)

PopCallPushRet(v, et) == PushExpr(Pop(v, "call"), et)

(* The cases of lookupFunc.  A method whose return type is not known yet   *)
(* fails an assertion, a function gives an error.                          *)
CallMethod(tb, v, f) ==
  IF f = 0 THEN Fail(v)
  ELSE IF tb.funcs[f].ret.t = NullT THEN Abort(v)
  ELSE PopCallPushRet(Pop(Pop(v, "expr"), "member"), tb.funcs[f].ret)
CallFunc(tb, v, f) ==
  IF f = 0 \/ tb.funcs[f].ret.t = NullT THEN Fail(v)
  ELSE PopCallPushRet(Pop(v, "func"), tb.funcs[f].ret)
CallBtn(v, t) == IF t = BadT THEN Fail(v) ELSE PopCallPushRet(Pop(v, "btn_func"), LetVal(t))
ParamsOf(t) == [i \in 1..Len(t.r) |-> Et(t.e[i + 1], "var", IF t.r[i] THEN "ref" ELSE "val")]
CallExpr(tb, v, args) ==
  IF v.et.t.k # "fn" \/ ~CompatParams(tb, ParamsOf(v.et.t), args) THEN Fail(v)
  ELSE IF v.et.t.e[1] = NullT THEN Abort(v)
  ELSE PopCallPushRet(Pop(v, "expr"), LetVal(v.et.t.e[1]))
LookupFunc(tb, v, args) ==
  CASE MemFunExpr(v) -> CallMethod(tb, v, LookupFun(tb, At(v, 1).n, <<v.et>> \o args))
    [] CallOf(v, "func") -> CallFunc(tb, v, LookupFun(tb, At(v, 0).n, <<NullEt>> \o args))
    [] CallOf(v, "btn_func") -> CallBtn(v, CallBtnFunc(tb, At(v, 0).n, args))
    [] CallOf(v, "expr") -> CallExpr(tb, v, args)
    [] OTHER -> Abort(v)

(* lookupField and lookupMember *)
Field(t, n) == {i \in 1..Len(t.f) : t.f[i] = n}
PushMemberExpr(v, t) == PushExpr(v, Et(t, v.et.mut, v.et.ref))
FieldOf(v, t, n) ==
  IF t.k \notin {"struct", "user"} \/ Field(t, n) = {} THEN Fail(v)
  ELSE PushMemberExpr(Pop(Pop(v, "expr"), "member"), t.e[Min(Field(t, n))])
LookupMember(tb, v) ==
  IF Ok(v) /\ MemVarExpr(v) THEN FieldOf(v, ConcreteType(tb, v.et.t), At(v, 1).n) ELSE v

Matches(tb, expected, t) == expected = NullT \/ CompareTypes(tb, expected, t)
(* pushFunPtr with the functions of the scope that have the name.  With    *)
(* several, an external function or a method that the loop meets before a  *)
(* match is an error; the order is that of the hash table, and the model   *)
(* takes the one that fails.                                               *)
Pointable(f) == ~f.ext /\ f.params[1].t = NullT
PtrType(f) == FnType(f, Tail(f.params))
PushMatch(v, types) == IF types = {} THEN Fail(v) ELSE PushExpr(v, LetVal(CHOOSE t \in types : TRUE))
PushFunPtr(tb, v, fs) ==
  IF (\E f \in fs : ~Pointable(tb.funcs[f])) \/ (Cardinality(fs) > 1 /\ v.exp = NullT) THEN Fail(v)
  ELSE PushMatch(v, {t \in {PtrType(tb.funcs[f]) : f \in fs} : Matches(tb, v.exp, t)})

(* lookupIdent.  The copy of a captured variable may be assigned. *)
Captured(tb, i) == tb.scopes[i].type # "ns" /\ i < Nearest(tb, {"closure"})
PushSymbol(tb, v, s, i) ==
  CASE s.kind = "object" -> PushExpr(v, IF Captured(tb, i) THEN VarVal(s.et.t) ELSE s.et)
    [] s.kind = "func" -> IF Top(v) = "none" THEN Abort(v)
                          ELSE IF Top(v) = "call" THEN Push(v, "func", s.n)
                          ELSE TopType(PushFunPtr(tb, v, {u.id : u \in Symbols(tb, i, s.n)}))
    [] s.kind = "btn" -> IF Top(v) = "none" THEN Abort(v)
                         ELSE IF Top(v) = "call" THEN Push(v, "btn_func", s.n) ELSE Fail(v)
    [] OTHER -> Fail(v)
PushFound(tb, v, n, i) ==
  IF i = 0 THEN Fail(v) ELSE PushSymbol(tb, v, CHOOSE s \in Symbols(tb, i, n) : TRUE, i)
LookupIdent(tb, v, n) == PushFound(tb, v, n, FindScope(tb, n))
-----------------------------------------------------------------------------
(* infer type.cpp: Accept(tb, v, e) is the visit of e *)
RECURSIVE Accept(_, _, _)

(* visitExprNoCheck with `inner` as the expected type; the result is v.res *)
(* A bug: the expected type is not restored. *)
LeftExpecting(v, exp) == LeaveSubExpr(v)
Left(v, exp) == LeaveSubExpr([v EXCEPT !.exp = exp])
SubExpr(tb, v, e, inner) == Left(Accept(tb, [Push(v, "subexpr", "") EXCEPT !.exp = inner], e), v.exp)

(* visitExprCheck and visitExprNoCheckBool: what they make of the result *)
BoolOf(tb, t, et) == CompareTypes(tb, t, Bool) /\ ConvertibleToBool(tb, et.t)
Converted(tb, v, t, otherwise) ==
  IF ~Ok(v) \/ Matches(tb, t, v.res.t) THEN v
  ELSE IF BoolOf(tb, t, v.res) THEN [v EXCEPT !.res = LetVal(Bool)] ELSE otherwise
Checked(tb, v, t) == Converted(tb, v, t, Fail(v))
SubCheck(tb, v, e, t) == IF Ok(v) THEN Checked(tb, SubExpr(tb, v, e, t), t) ELSE v
(* A branch of ?: is visited with `expected` itself as the parameter type, *)
(* a reference to the member that visitExprNoCheck moves from: the branch  *)
(* sees no expected type.  The check afterwards sees it again.             *)
SubBranch(tb, v, e) == IF Ok(v) THEN Checked(tb, SubExpr(tb, v, e, NullT), v.exp) ELSE v

(* getExprType: a visitor of its own *)
GetExprType(tb, e, t) == SubCheck(tb, Start, e, t)

ExpOf(op) == IF BoolOp(op) THEN Bool ELSE NullT
BinaryDone(tb, v, op, l, r) ==
  IF ~Ok(v) THEN v
  ELSE IF ~CompareTypes(tb, l.t, r.t) THEN Fail(v)
  ELSE IF CompOp(op) THEN IF ValidComp(tb, l.t) THEN SetExpr(v, LetVal(Bool)) ELSE Fail(v)
  ELSE IF IsBtn(tb, l.t, Operands(op)) /\ ConcreteType(tb, l.t) = ConcreteType(tb, r.t)
       THEN SetExpr(v, LetVal(ConcreteType(tb, l.t)))
  ELSE Fail(v)
BinaryRight(tb, v, e, l) == BinaryDone(tb, v, e.n, l, v.res)
BinaryLeft(tb, v, e) == BinaryRight(tb, SubCheck(tb, v, e.e[2], ExpOf(e.n)), e, v.res)

UnaryDone(tb, v, op) ==
  IF Ok(v) /\ IsBtn(tb, v.res.t, Operands(op)) THEN SetExpr(v, LetVal(v.res.t)) ELSE Fail(v)

SubscriptDone(tb, v, obj) ==
  IF Ok(v) /\ ValidSubscript(tb, v.res.t) /\ ConcreteType(tb, obj.t).k = "arr"
  THEN SetExpr(v, Et(StrongType(tb, ConcreteType(tb, obj.t).e[1]), obj.mut, obj.ref)) ELSE Fail(v)
SubscriptIndex(tb, v, e) == SubscriptDone(tb, SubCheck(tb, v, e.e[2], NullT), v.res)

TernaryDone(tb, v, a, b) ==
  IF Ok(v) /\ CompareTypes(tb, a.t, b.t)
  THEN SetExpr(v, Et(a.t, Common(a.mut, b.mut, "let"), Common(a.ref, b.ref, "val"))) ELSE Fail(v)
TernaryFols(tb, v, a) == TernaryDone(tb, v, a, v.res)
TernaryTroo(tb, v, e) == TernaryFols(tb, SubBranch(tb, v, e.e[3]), v.res)
TernaryCond(tb, v, e) == TernaryTroo(tb, SubBranch(tb, v, e.e[2]), e)

MakeDone(tb, v, t) ==
  IF /\ Ok(v)
     /\ \/ ValidCast(tb, t) /\ ValidCast(tb, v.res.t)
        \/ CompareTypes(tb, ConcreteType(tb, v.res.t), ConcreteType(tb, t))
  THEN SetExpr(v, LetVal(t)) ELSE Fail(v)
MakeChecked(tb, v, t) == MakeDone(tb, Converted(tb, v, t, v), t)
MakeOf(tb, v, e, t) == IF t = BadT THEN Fail(v) ELSE MakeChecked(tb, SubExpr(tb, v, e, t), t)

(* The elements of an array literal; only the first one is converted *)
SameElem(tb, v, first) == IF Ok(v) /\ ~CompareTypes(tb, first, v.res.t) THEN Fail(v) ELSE v
RestOfArray(tb, v, es, elem, first) ==
  FoldLeft(LAMBDA w, e : IF Ok(w) THEN SameElem(tb, SubExpr(tb, w, e, elem), first) ELSE w, v, es)
ArrayDone(tb, v, elem) ==
  IF Ok(v) /\ ConcreteType(tb, elem) # Void THEN SetExpr(v, LetVal(Arr(elem))) ELSE Fail(v)
ArrayElems(tb, v, es, elem) ==
  ArrayDone(tb, RestOfArray(tb, v, Tail(es), elem, v.res.t), StrongType(tb, v.res.t))
ArrayLiteral(tb, v, es, elem) ==
  IF es = <<>> THEN IF elem = NullT THEN Fail(v) ELSE SetExpr(v, LetVal(Arr(elem)))
  ELSE ArrayElems(tb, SubCheck(tb, v, es[1], elem), es, elem)
AcceptArray(tb, v, es) ==
  IF v.exp = NullT THEN ArrayLiteral(tb, v, es, NullT)
  ELSE IF ConcreteType(tb, v.exp).k # "arr" THEN Fail(v)
  ELSE ArrayLiteral(tb, v, es, StrongType(tb, ConcreteType(tb, v.exp).e[1]))

(* An initializer list takes the expected type and leaves none *)
InitDone(v) == [SetExpr(v, LetVal(v.exp)) EXCEPT !.exp = NullT]
InitFields(tb, v, es, t) ==
  IF t.k # "struct" \/ Len(t.e) # Len(es) THEN Fail(v)
  ELSE FoldLeft(LAMBDA w, i : SubCheck(tb, w, es[i], t.e[i]), v, [i \in 1..Len(es) |-> i])
AcceptInit(tb, v, es) ==
  IF v.exp = NullT THEN Fail(v)
  ELSE InitDone(IF es = <<>> THEN v ELSE InitFields(tb, v, es, ConcreteType(tb, v.exp)))

(* The arguments are typed one after the other, after the callee *)
ArgTypes(tb, es) == [i \in 1..Len(es) |-> GetExprType(tb, es[i], NullT)]
FirstErr(args) ==
  LET bad == {i \in 1..Len(args) : ~Ok(args[i])} IN IF bad = {} THEN "" ELSE args[Min(bad)].err
CallArgs(tb, v, args) ==
  IF FirstErr(args) # "" THEN [v EXCEPT !.err = FirstErr(args)]
  ELSE TopType(LookupFunc(tb, v, [i \in 1..Len(args) |-> args[i].res]))
AcceptCall(tb, v, es) == IF Ok(v) THEN CallArgs(tb, v, ArgTypes(tb, es)) ELSE v

Accept(tb, v, e) ==
  IF ~Ok(v) THEN v
  ELSE CASE e.k = "lit" -> SetExpr(v, LetVal(e.t))
         [] e.k = "ident" -> LookupIdent(tb, v, e.n)
         [] e.k = "call" -> AcceptCall(tb, Accept(tb, Push(v, "call", ""), e.e[1]), Tail(e.e))
         [] e.k = "member" -> LookupMember(tb, Accept(tb, Push(v, "member", e.n), e.e[1]))
         [] e.k = "subscript" -> SubscriptIndex(tb, SubCheck(tb, v, e.e[1], NullT), e)
         [] e.k = "unary" -> UnaryDone(tb, SubCheck(tb, v, e.e[1], ExpOf(e.n)), e.n)
         [] e.k = "binary" -> BinaryLeft(tb, SubCheck(tb, v, e.e[1], ExpOf(e.n)), e)
         [] e.k = "ternary" -> TernaryCond(tb, SubCheck(tb, v, e.e[1], Bool), e)
         [] e.k = "make" -> MakeOf(tb, v, e.e[1], ValidateType(tb, e.t))
         [] e.k = "array" -> AcceptArray(tb, v, e.e)
         [] e.k = "init" -> AcceptInit(tb, v, e.e)
-----------------------------------------------------------------------------
(* Statements: traverse.cpp.  s.s is the kind, s.n a name or operator, s.t *)
(* a type, s.e the expressions and s.p the parameters, a receiver first.   *)
(* A handler gives the table it leaves, a type and how it ended.           *)
St(k, n, t, e, p) == [s |-> k, n |-> n, t |-> t, e |-> e, p |-> p]
Param(n, t, ref) == [n |-> n, t |-> t, ref |-> ref]
NoParam == Param("", NullT, "val")
NoStat == St("none", "", NullT, <<>>, <<>>)

Done(tb, et) == [tb |-> tb, et |-> et, err |-> ""]
Rejected(tb) == [tb |-> tb, et |-> NullEt, err |-> "error"]
Ended(tb, v) == [tb |-> tb, et |-> v.res, err |-> v.err]

Insert(tb, sym) ==
  [tb EXCEPT !.scopes[Cur(tb)].table = (sym.n :> (Symbols(tb, Cur(tb), sym.n) \union {sym})) @@ @]
Enter(tb, type, fn) == [tb EXCEPT !.scopes = Append(@, Scope(type, fn, TableOf({})))]
Leave(tb) == [tb EXCEPT !.scopes = Front(@)]

(* insert: an object or an alias is the only symbol of its name *)
InsertNew(tb, sym, et) ==
  IF Has(tb, Cur(tb), sym.n) THEN Rejected(tb) ELSE Done(Insert(tb, sym), et)

(* objectType *)
TypedObject(tb, s, t, v, mut) ==
  IF ~Ok(v) THEN Ended(tb, v)
  ELSE IF CompareTypes(tb, v.res.t, Void) \/ (t = NullT /\ s.e = <<>>) THEN Rejected(tb)
  ELSE InsertNew(tb, Sym(s.n, "object", 0, Et(IF t = NullT THEN v.res.t ELSE t, mut, "val")), v.res)
ObjectStat(tb, s, t, mut) ==
  IF t = BadT THEN Rejected(tb)
  ELSE TypedObject(tb, s, t, IF s.e = <<>> THEN Start ELSE GetExprType(tb, s.e[1], t), mut)
VarStat(tb, s) == ObjectStat(tb, s, ValidateType(tb, s.t), "var")
LetStat(tb, s) == ObjectStat(tb, s, ValidateType(tb, s.t), "let")
DeclAssignStat(tb, s) == ObjectStat(tb, s, NullT, "var")

NewAlias(tb, s, strong, t) ==
  IF t = BadT THEN Rejected(tb)
  ELSE InsertNew([tb EXCEPT !.aliases = Append(@, Alias(s.n, strong, t))],
                 Sym(s.n, "alias", Len(tb.aliases) + 1, NullEt), NullEt)
WeakStat(tb, s) == NewAlias(tb, s, FALSE, ValidateType(tb, s.t))
StrongStat(tb, s) == NewAlias(tb, s, TRUE, ValidateType(tb, s.t))

(* convert, convertNullable and convertParams *)
Convert(tb, p) == IF p.t = NullT THEN NullEt ELSE Et(ValidateType(tb, p.t), "var", p.ref)
ConvertParams(tb, ps) == [i \in 1..Len(ps) |-> Convert(tb, ps[i])]
BadParams(params) == \E i \in 1..Len(params) : params[i].t = BadT

(* checkMethodCollide and checkFuncCollide *)
MethodCollides(tb, n, rec) ==
  Field(ConcreteType(tb, rec.t), n) # {}
FuncCollides(tb, n, params) ==
  \E u \in Symbols(tb, Cur(tb), n) : u.kind # "func" \/ SameParams(tb, tb.funcs[u.id].params, params)

(* insertFunc *)
InsertFunc(tb, s, ext, params, ret) ==
  IF \/ tb.scopes[Cur(tb)].type # "ns"
     \/ BadParams(params) \/ ret = BadT
     \/ MethodCollides(tb, s.n, params[1])
     \/ FuncCollides(tb, s.n, params)
  THEN Rejected(tb)
  ELSE Done(Insert([tb EXCEPT !.funcs = Append(@, Func(s.n, ext, params, LetVal(ret), ret))],
                   Sym(s.n, "func", Len(tb.funcs) + 1, NullEt)), LetVal(ret))
ExtFuncStat(tb, s) == InsertFunc(tb, s, TRUE, ConvertParams(tb, s.p), ValidateType(tb, s.t))

(* enterFuncScope and enterLambdaScope *)
ParamSyms(ps, params) ==
  {Sym(ps[i].n, "object", 0, params[i]) : i \in {j \in 1..Len(ps) : ps[j].t # NullT}}
EnterBody(tb, type, ps, params) ==
  [tb EXCEPT !.scopes = Append(@, Scope(type, Len(tb.funcs), TableOf(ParamSyms(ps, params))))]
EnterFunc(r, s) ==
  IF r.err # "" THEN r
  ELSE Done(EnterBody(r.tb, "func", s.p, r.tb.funcs[Len(r.tb.funcs)].params), r.et)
FuncStat(tb, s) == EnterFunc(InsertFunc(tb, s, FALSE, ConvertParams(tb, s.p), ValidateType(tb, s.t)), s)

(* leaveFuncScope and leaveLambdaScope *)
Deduced(t) == IF t = NullT THEN Void ELSE t
LeaveBody(tb, f) ==
  Leave([tb EXCEPT !.funcs[f].ret.t = Deduced(@), !.funcs[f].node = Deduced(tb.funcs[f].ret.t)])
LeaveFuncStat(tb) == Done(LeaveBody(tb, tb.scopes[Cur(tb)].fn), NullEt)

(* `let n = func(p) ...`: the lambda is visited, then n is declared *)
NewLambda(tb, s, params, ret) ==
  IF BadParams(params) \/ ret = BadT THEN Rejected(tb)
  ELSE Done(EnterBody([tb EXCEPT !.funcs = Append(@, Func(s.n, FALSE, params, LetVal(ret), ret))],
                      "closure", s.p, params), LetVal(ret))
LambdaStat(tb, s) == NewLambda(tb, s, ConvertParams(tb, s.p), ValidateType(tb, s.t))
DeclareLambda(tb, f) ==
  InsertNew(tb, Sym(f.n, "object", 0, LetVal(FnType(f, f.params))), LetVal(FnType(f, f.params)))
LambdaLeft(tb, f) == DeclareLambda(tb, tb.funcs[f])
LeaveLambdaStat(tb) == LambdaLeft(LeaveBody(tb, tb.scopes[Cur(tb)].fn), tb.scopes[Cur(tb)].fn)

(* Return: the first one deduces the type *)
Returned(tb, f, v) == IF Ok(v) THEN Done([tb EXCEPT !.funcs[f].ret.t = v.res.t], v.res) ELSE Ended(tb, v)
ReturnValue(tb, f, ret, e) ==
  IF ret = NullT THEN Returned(tb, f, GetExprType(tb, e, NullT)) ELSE Ended(tb, GetExprType(tb, e, ret))
ReturnNothing(tb, f, ret) ==
  IF ret = NullT THEN Done([tb EXCEPT !.funcs[f].ret.t = Void], LetVal(Void))
  ELSE IF CompareTypes(tb, ret, Void) THEN Done(tb, LetVal(Void)) ELSE Rejected(tb)
ReturnFrom(tb, s, f) ==
  IF s.e = <<>> THEN ReturnNothing(tb, f, tb.funcs[f].ret.t)
  ELSE ReturnValue(tb, f, tb.funcs[f].ret.t, s.e[1])
ReturnStat(tb, s) == ReturnFrom(tb, s, tb.scopes[Nearest(tb, {"func", "closure"})].fn)

(* Block, and If, While and For with a condition, up to their bodies *)
EnterStat(tb, s) ==
  Ended(Enter(tb, s.n, 0), IF s.e = <<>> THEN Start ELSE GetExprType(Enter(tb, s.n, 0), s.e[1], Bool))
(* Switch, up to the body of its last case.  The bodies before are empty. *)
Defaults(es) == {i \in 1..Len(es) : es[i].k = "default"}
Case(tb, v, e, t) == IF ~Ok(v) \/ e.k = "default" THEN v ELSE GetExprType(tb, e, t)
Cases(tb, v, es, t) ==
  IF ~Ok(v) THEN Ended(tb, v)
  ELSE IF Cardinality(Defaults(es)) > 1 THEN Rejected(tb)
  ELSE Ended(Enter(tb, "flow", 0), FoldLeft(LAMBDA w, e : Case(tb, w, e, t), v, es))
SwitchOn(tb, v, es) == Cases(tb, v, es, v.res.t)
SwitchStat(tb, s) == SwitchOn(tb, GetExprType(tb, s.e[1], NullT), Tail(s.e))

(* checkFlowKeyword *)
FlowStat(tb) ==
  LET i == Max({j \in 1..Cur(tb) : tb.scopes[j].type # "block"})
  IN IF tb.scopes[i].type = "flow" THEN Done(tb, NullEt) ELSE Rejected(tb)

(* The statements that change a variable; src is checked against dst *)
AssignSrc(tb, dst, src) ==
  IF ~Ok(src) THEN Ended(tb, src) ELSE IF dst.mut = "let" THEN Rejected(tb) ELSE Done(tb, dst)
AssignDst(tb, dst, e) ==
  IF Ok(dst) THEN AssignSrc(tb, dst.res, GetExprType(tb, e, dst.res.t)) ELSE Ended(tb, dst)
AssignStat(tb, s) == AssignDst(tb, GetExprType(tb, s.e[1], NullT), s.e[2])

CompSrc(tb, op, dst, src) ==
  IF ~Ok(src) THEN Ended(tb, src)
  ELSE IF ConcreteType(tb, dst.t).k # "btn" \/ ConcreteType(tb, src.res.t).k # "btn" THEN Rejected(tb)
  ELSE IF ~CompareTypes(tb, ConcreteType(tb, dst.t), ConcreteType(tb, src.res.t)) THEN Ended(tb, Abort(src))
  ELSE IF IsBtn(tb, dst.t, Operands(op)) /\ dst.mut = "var" THEN Done(tb, dst) ELSE Rejected(tb)
CompDst(tb, op, dst, e) ==
  IF Ok(dst) THEN CompSrc(tb, op, dst.res, GetExprType(tb, e, dst.res.t)) ELSE Ended(tb, dst)
CompAssignStat(tb, s) == CompDst(tb, s.n, GetExprType(tb, s.e[1], NullT), s.e[2])

Incremented(tb, v) ==
  IF ~Ok(v) THEN Ended(tb, v)
  ELSE IF v.res.mut = "var" /\ IsBtn(tb, v.res.t, Operands("add")) THEN Done(tb, v.res) ELSE Rejected(tb)
IncrDecrStat(tb, s) == Incremented(tb, GetExprType(tb, s.e[1], NullT))

Discarded(tb, v) ==
  IF Ok(v) /\ ~CompareTypes(tb, v.res.t, Void) THEN Rejected(tb) ELSE Ended(tb, v)
CallAssignStat(tb, s) == Discarded(tb, GetExprType(tb, s.e[1], NullT))

(* The visit of a statement *)
Visit(tb, s) ==
  CASE s.s = "var" -> VarStat(tb, s)
    [] s.s = "let" -> LetStat(tb, s)
    [] s.s = "decl" -> DeclAssignStat(tb, s)
    [] s.s = "weak" -> WeakStat(tb, s)
    [] s.s = "strong" -> StrongStat(tb, s)
    [] s.s = "ext" -> ExtFuncStat(tb, s)
    [] s.s = "func" -> FuncStat(tb, s)
    [] s.s = "endfunc" -> LeaveFuncStat(tb)
    [] s.s = "lambda" -> LambdaStat(tb, s)
    [] s.s = "endlambda" -> LeaveLambdaStat(tb)
    [] s.s = "return" -> ReturnStat(tb, s)
    [] s.s = "enter" -> EnterStat(tb, s)
    [] s.s = "switch" -> SwitchStat(tb, s)
    [] s.s = "leave" -> Done(Leave(tb), NullEt)
    [] s.s = "flow" -> FlowStat(tb)
    [] s.s = "assign" -> AssignStat(tb, s)
    [] s.s = "comp" -> CompAssignStat(tb, s)
    [] s.s = "incr" -> IncrDecrStat(tb, s)
    [] s.s = "call" -> CallAssignStat(tb, s)
-----------------------------------------------------------------------------
(* A program is the prelude, at most MaxStats statements that change the   *)
(* table, and one that does not: what it leaves is what it found, so that  *)
(* statements after it would add nothing, and the program ends.  A fatal   *)
(* message ends the analysis, too.  The table is dropped at the end.       *)
Init ==
  /\ table = FoldLeft(LAMBDA tb, s : Visit(tb, s).tb, Enter(BuiltinTable, "ns", 0), Prelude)
  /\ stat = [s |-> NoStat, et |-> NullEt, err |-> ""]
  /\ count = 0

Unchanging == {"flow", "assign", "comp", "incr", "call"}
Open == stat.err = "" /\ stat.s.s \notin Unchanging
More == Open /\ count < MaxStats
InBody == Nearest(table, {"func", "closure"}) # 0
CurType == table.scopes[Cur(table)].type
Of(k) == {s \in Stats : s.s = k}

NoTable == [scopes |-> <<>>, aliases |-> <<>>, funcs |-> <<>>]
Visited(s, r) ==
  /\ table' = IF r.err # "" \/ s.s \in Unchanging THEN NoTable ELSE r.tb
  /\ stat' = [s |-> s, et |-> r.et, err |-> r.err]
  /\ count' = count + 1

Var == More /\ \E s \in Of("var") : Visited(s, VarStat(table, s))
Let == More /\ \E s \in Of("let") : Visited(s, LetStat(table, s))
DeclAssign == More /\ InBody /\ \E s \in Of("decl") : Visited(s, DeclAssignStat(table, s))
WeakAlias == More /\ \E s \in Of("weak") : Visited(s, WeakStat(table, s))
StrongAlias == More /\ \E s \in Of("strong") : Visited(s, StrongStat(table, s))
ExtFunc == More /\ ~InBody /\ \E s \in Of("ext") : Visited(s, ExtFuncStat(table, s))
DeclFunc == More /\ \E s \in Of("func") : Visited(s, FuncStat(table, s))
LeaveFunc == More /\ CurType = "func" /\ \E s \in Of("endfunc") : Visited(s, LeaveFuncStat(table))
Lambda == More /\ \E s \in Of("lambda") : Visited(s, LambdaStat(table, s))
LeaveLambda == More /\ CurType = "closure" /\ \E s \in Of("endlambda") : Visited(s, LeaveLambdaStat(table))
Return == More /\ InBody /\ \E s \in Of("return") : Visited(s, ReturnStat(table, s))
EnterBlock == More /\ InBody /\ \E s \in Of("enter") : Visited(s, EnterStat(table, s))
Switch == More /\ InBody /\ \E s \in Of("switch") : Visited(s, SwitchStat(table, s))
LeaveBlock ==
  /\ More /\ CurType \in {"block", "flow"}
  /\ \E s \in Of("leave") : Visited(s, Done(Leave(table), NullEt))
Flow == Open /\ InBody /\ \E s \in Of("flow") : Visited(s, FlowStat(table))
Assign == Open /\ InBody /\ \E s \in Of("assign") : Visited(s, AssignStat(table, s))
CompAssign == Open /\ InBody /\ \E s \in Of("comp") : Visited(s, CompAssignStat(table, s))
IncrDecr == Open /\ InBody /\ \E s \in Of("incr") : Visited(s, IncrDecrStat(table, s))
CallAssign == Open /\ InBody /\ \E s \in Of("call") : Visited(s, CallAssignStat(table, s))

Next ==
  \/ Var \/ Let \/ DeclAssign \/ WeakAlias \/ StrongAlias \/ ExtFunc \/ DeclFunc \/ LeaveFunc
  \/ Lambda \/ LeaveLambda \/ Return \/ EnterBlock \/ Switch \/ LeaveBlock \/ Flow
  \/ Assign \/ CompAssign \/ IncrDecr \/ CallAssign

Spec == Init /\ [][Next]_vars
=============================================================================
