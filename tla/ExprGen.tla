------------------------------ MODULE ExprGen ------------------------------
(***************************************************************************)
(* The code of expressions (src/CodeGen/generate expr.cpp, lifetime        *)
(* exprs.cpp, compare exprs.cpp) and of the statements made of them        *)
(* (generate stat.cpp, generate decl.cpp, lower expressions.cpp).          *)
(*                                                                         *)
(* g is the state of the generator: the blocks of FuncBuilder and the      *)
(* current one, the temporaries of the full expression, how many registers *)
(* and allocas there are, and `value`, the operand that the last visit     *)
(* left.  res is the address that a visit shall construct its result at,   *)
(* or Nil.                                                                 *)
(***************************************************************************)
EXTENDS ExprTypes

Nil == <<"nil">>
Const(v) == <<"const", v>>
Reg(n) == <<"reg", n>>
Number(v) == Const(<<"n", v>>)
Addr(x) == Const(<<"var", x>>)

Instr(op, t, args) == [op |-> op, t |-> t, of |-> t, args |-> args, reg |-> 0]
Emit(g, i) == [g EXCEPT !.blocks[g.curr] = Append(@, i)]
Compute(g, i) ==
  [Emit(g, [i EXCEPT !.reg = g.regs + 1]) EXCEPT !.regs = @ + 1, !.value = Reg(g.regs + 1)]
Give(g, v) == [g EXCEPT !.value = v]

(* FuncBuilder *)
SetCurr(g, block) == [g EXCEPT !.curr = block]
MakeBlocks(g, n) == [g EXCEPT !.blocks = @ \o [i \in 1..n |-> <<>>]]
NumBlocks(g) == Len(g.blocks)
Br(block) == Instr("br", "void", <<block>>)
CondBr(g, troo, fols) == Emit(g, Instr("condbr", "bool", <<g.value, troo, fols>>))
Link(g, from, to) == [g EXCEPT !.blocks[from] = Append(@, Br(to))]
NextEmpty(g) ==
  IF g.blocks[g.curr] = <<>> THEN g
  ELSE SetCurr(Emit(MakeBlocks(g, 1), Br(NumBlocks(g) + 1)), NumBlocks(g) + 1)
Alloc(g) == [g EXCEPT !.allocs = @ + 1, !.value = Const(<<"alloca", g.allocs + 1>>)]

Load(g) == Compute(g, Instr("load", "void", <<g.value>>))
Store(g, v, addr) == Emit(g, Instr("store", "void", <<v, addr>>))
-----------------------------------------------------------------------------
(* LifetimeExpr *)
DefConstruct(t, dst, g) ==
  IF t \in Btn THEN Store(g, Number(0), dst) ELSE Emit(g, Instr("def", t, <<dst>>))
CopyConstruct(t, dst, src, g) == Emit(g, Instr("copy", t, <<dst, src>>))
MoveConstruct(t, dst, src, g) == Emit(g, Instr("move", t, <<dst, src>>))
CopyAssign(t, dst, src, g) == Emit(g, Instr("copy_asgn", t, <<dst, src>>))
MoveAssign(t, dst, src, g) == Emit(g, Instr("move_asgn", t, <<dst, src>>))

Trivial(t) == t \in Btn \union {"pod"}
DestroyObj(t, dst, g) == IF Trivial(t) THEN g ELSE Emit(g, Instr("drop", t, <<dst>>))

(* src is the operand and the category of what dst is made from. *)
StoreFrom(dst, cat, g) ==
  IF cat = "prvalue" THEN Store(g, g.value, dst)
  ELSE LET loaded == Load(g) IN Store(loaded, loaded.value, dst)
Construct(t, dst, cat, g) ==
  CASE Copyable(t) -> StoreFrom(dst, cat, g)
    [] ~ Copyable(t) /\ cat = "lvalue" -> CopyConstruct(t, dst, g.value, g)
    [] ~ Copyable(t) /\ cat = "xvalue" -> MoveConstruct(t, dst, g.value, g)
    [] OTHER -> g

(* A bug: the temporary that is assigned from is not destroyed. *)
AssignOnly(t, dst, cat, g) ==
  CASE Copyable(t) -> StoreFrom(dst, cat, g)
    [] ~ Copyable(t) /\ cat = "lvalue" -> CopyAssign(t, dst, g.value, g)
    [] OTHER -> MoveAssign(t, dst, g.value, g)
Assign(t, dst, cat, g) ==
  CASE Copyable(t) -> StoreFrom(dst, cat, g)
    [] ~ Copyable(t) /\ cat = "lvalue" -> CopyAssign(t, dst, g.value, g)
    [] ~ Copyable(t) /\ cat = "xvalue" -> MoveAssign(t, dst, g.value, g)
    [] OTHER -> DestroyObj(t, g.value, MoveAssign(t, dst, g.value, g))

(* storeValueAsResult and constructResultFromValue *)
StoreResult(res, g) == IF res = Nil THEN g ELSE Give(Store(g, g.value, res), Nil)
ConstructResult(res, e, g) ==
  IF res = Nil THEN g ELSE Give(Construct(e.t, res, ValueCat(e), g), Nil)

(* Where an expression makes its object: at the result or in an alloca. *)
Place(res, g) == IF res = Nil THEN Alloc(g) ELSE Give(g, res)
-----------------------------------------------------------------------------
RECURSIVE Visit(_, _, _)

LoadGlvalue(e, g) == IF Glvalue(e) /\ Copyable(e.t) THEN Load(g) ELSE g
VisitValue(e, g) == LoadGlvalue(e, Visit(e, Nil, g))

(* convertToBool: a closure or a class is asked, and destroyed if it was   *)
(* made for this.                                                          *)
ConvertToBool(e, g) ==
  IF e.t = "bool" THEN LoadGlvalue(e, g)
  ELSE LET asked == Compute(g, Instr("conv", e.t, <<g.value>>))
       IN IF Glvalue(e) THEN asked ELSE DestroyObj(e.t, g.value, asked)
VisitBool(e, g) == ConvertToBool(e, Visit(e, Nil, g))

(* boolOr and boolAnd *)
LogicDone(e, lhsBlock, rhsBlock, doneBlock, g) ==
  Compute(SetCurr(Emit(g, Br(doneBlock)), doneBlock),
          Instr("phi", "bool", <<Number(BoolInt(e.n = "or")), lhsBlock, g.value, rhsBlock>>))
LogicRhs(e, rhsBlock, doneBlock, g) ==
  VisitBool(e.e[2], SetCurr(IF e.n = "or" THEN CondBr(g, doneBlock, rhsBlock)
                            ELSE CondBr(g, rhsBlock, doneBlock), rhsBlock))
VisitLogic(e, g) ==
  LogicDone(e, g.curr, NumBlocks(g) + 1, NumBlocks(g) + 2,
    LogicRhs(e, NumBlocks(g) + 1, NumBlocks(g) + 2, VisitBool(e.e[1], MakeBlocks(g, 2))))

(* The instruction of an operator, which depends on the kind of number. *)
ByArith(t, s, u, f) ==
  CASE ArithCat(t) = "signed_int" -> s
    [] ArithCat(t) = "unsigned_int" -> u
    [] OTHER -> f
OpInstr(op, t) ==
  CASE op \in {"bit_or", "bit_xor", "bit_and", "bit_shl", "bit_shr"} -> op
    [] op \in {"add", "sub", "mul"} -> op
    [] op = "div" -> ByArith(t, "sdiv", "udiv", "fdiv")
    [] op = "mod" -> ByArith(t, "srem", "urem", "frem")

Negate(g) == Compute(g, Instr("not", "bool", <<g.value>>))
(* CompareExpr: < and == of objects are functions of their types. *)
EqInstr(t, l, r, g) ==
  Compute(g, Instr(IF t \in Btn THEN ByArith(t, "icmp_eq", "icmp_eq", "fcmp_eq") ELSE "obj_eq", t, <<l, r>>))
LtInstr(t, l, r, g) ==
  Compute(g, Instr(IF t \in Btn THEN ByArith(t, "icmp_slt", "icmp_ult", "fcmp_lt") ELSE "obj_lt", t, <<l, r>>))
Compare(op, t, l, r, g) ==
  CASE op = "eq" -> EqInstr(t, l, r, g)
    [] op = "ne" -> Negate(EqInstr(t, l, r, g))
    [] op = "lt" -> LtInstr(t, l, r, g)
    [] op = "gt" -> LtInstr(t, r, l, g)
    [] op = "le" -> Negate(LtInstr(t, r, l, g))
    [] op = "ge" -> Negate(LtInstr(t, l, r, g))
BinaryOp(e, lhs, g) ==
  IF e.n \in Comparing THEN Compare(e.n, e.e[1].t, lhs, g.value, g)
  ELSE Compute(g, Instr(OpInstr(e.n, e.e[1].t), e.e[1].t, <<lhs, g.value>>))
BinaryRhs(e, g) == BinaryOp(e, g.value, VisitValue(e.e[2], g))
VisitBinary(e, g) == BinaryRhs(e, VisitValue(e.e[1], g))

UnaryOp(e, g) == Compute(g, Instr(e.n, e.e[1].t, <<g.value>>))
VisitUnary(e, g) ==
  IF e.n = "bool_not" THEN Negate(VisitBool(e.e[1], g)) ELSE UnaryOp(e, VisitValue(e.e[1], g))
-----------------------------------------------------------------------------
(* Calls.  a is the generator with the arguments and the objects to        *)
(* destroy after the call; slot is where visitParam puts the object.       *)
NoObj == [addr |-> Nil, t |-> "void"]
InPlace(p) == ~ p.ref /\ ~ Copyable(p.t)
WithArg(p, slot, addr, a, g) ==
  [a EXCEPT !.g = g,
            !.args = Append(@, IF InPlace(p) THEN addr ELSE g.value),
            !.dtors[slot] = IF InPlace(p) THEN [addr |-> addr, t |-> p.t] ELSE @]
ArgAt(e, placed) == Visit(e, placed.value, placed)
VisitParam(p, e, slot, a) ==
  WithArg(p, slot, Const(<<"alloca", a.g.allocs + 1>>), a,
    IF InPlace(p) THEN ArgAt(e, Alloc(a.g))
    ELSE IF p.ref THEN Visit(e, Nil, a.g) ELSE VisitValue(e, a.g))

(* pushArgs: the receiver has slot 1 and the arguments follow it, except   *)
(* that callExtFunc starts again at slot 1.                                *)
Slot(e, i) == IF e.k = "ext" /\ Funcs[e.n].rec /\ i > 1 THEN i - 1 ELSE i
PushArgs(e, params, es, g, args) ==
  FoldLeftDomain(LAMBDA a, i : VisitParam(params[i], es[i], Slot(e, i), a),
                 [g |-> g, args |-> args, dtors |-> [i \in DOMAIN es |-> NoObj]], es)

DestroyArgs(dtors, g) ==
  FoldLeft(LAMBDA a, o : IF o.addr = Nil THEN a ELSE DestroyObj(o.t, o.addr, a), g, dtors)
AfterCall(dtors, g) == Give(DestroyArgs(dtors, g), g.value)

(* genCall: an object is returned through a last parameter. *)
CallWith(e, args, addr, g) == Emit(Give(g, addr), Instr("call", e.t, Append(args, addr)))
GenCall(e, res, args, g) ==
  IF Copyable(e.t) THEN ConstructResult(res, e, Compute(g, Instr("call", e.t, args)))
  ELSE IF res = Nil THEN CallWith(e, args, Alloc(g).value, Alloc(g))
  ELSE Give(CallWith(e, args, res, g), Nil)

FinishCall(e, res, a) == AfterCall(a.dtors, GenCall(e, res, a.args, a.g))
(* callFunc and callExtFunc; there is no closure data to pass. *)
CallFunc(e, res, g) ==
  FinishCall(e, res, PushArgs(e, Funcs[e.n].params, e.e, g, <<Const(<<"fun", e.n>>), Nil>>))

(* callBtnFunc *)
BtnParams(e) ==
  [i \in DOMAIN e.e |-> [t |-> e.e[i].t, ref |-> i = 1 /\ e.n \notin {"capacity", "size"}]]
CallBtnFunc(e, res, g) ==
  FinishCall(e, res, PushArgs(e, BtnParams(e), e.e, g, <<Const(<<"fun", e.n>>), Nil>>))

(* callFuncPtr: function and data of the closure are read before the       *)
(* arguments are visited.                                                  *)
CloParams == <<[t |-> "arr", ref |-> FALSE]>>
PtrData(e, res, clo, fun, g) ==
  FinishCall(e, res, PushArgs(e, CloParams, Tail(e.e), g, <<fun, g.value>>))
PtrFun(e, res, clo, g) ==
  PtrData(e, res, clo, g.value, Compute(g, Instr("clo_dat", "clo", <<clo>>)))
PtrDone(e, clo, g) ==
  IF ValueCat(e.e[1]) = "prvalue" THEN Give(DestroyObj("clo", clo, g), g.value) ELSE g
PtrClo(e, res, g) ==
  PtrDone(e, g.value, PtrFun(e, res, g.value, Compute(g, Instr("clo_fun", "clo", <<g.value>>))))
CallFuncPtr(e, res, g) == PtrClo(e, res, Visit(e.e[1], Nil, g))
-----------------------------------------------------------------------------
(* materialize: a temporary for the object that a member is taken of. *)
PushTemp(t, addr, g) == [g EXCEPT !.temps = Append(@, [addr |-> addr, t |-> t]), !.value = addr]
(* A bug: the object is made elsewhere. *)
MaterializeElsewhere(e, placed) == PushTemp(e.t, placed.value, Visit(e, Nil, placed))
MaterializeAt(e, placed) == PushTemp(e.t, placed.value, Visit(e, placed.value, placed))
Materialize(e, g) ==
  IF ValueCat(e) = "prvalue" THEN MaterializeAt(e, Alloc(g)) ELSE Visit(e, Nil, g)

Field(g, t, i) == Compute(g, Instr("field", t, <<g.value, i>>))
VisitMember(e, res, g) == ConstructResult(res, e, Field(Materialize(e.e[1], g), e.e[1].t, e.v[1]))

(* An index of type sint and one of type uint call different functions. *)
IndexWith(e, object, g) ==
  Compute(g, Instr(IF e.e[2].t = "sint" THEN "idx_s" ELSE "idx_u", e.e[2].t, <<object, g.value>>))
Index(e, g) == IndexWith(e, g.value, VisitValue(e.e[2], g))
VisitSubscript(e, res, g) == ConstructResult(res, e, Index(e, Materialize(e.e[1], g)))

(* constructIdent *)
VisitVar(e, res, g) == ConstructResult(res, e, Give(g, Addr(e.n)))
FunAt(e, res, placed) ==
  Give(Emit(placed, Instr("clo_fun_ctor", "clo", <<placed.value, Const(<<"fun", e.n>>)>>)),
       IF res = Nil THEN placed.value ELSE Nil)
VisitFun(e, res, g) == FunAt(e, res, Place(res, g))

(* A ternary: into the result, as an address, as a number, or into an      *)
(* alloca; the branches are linked from the blocks that they began in.     *)
(* A bug: one of them does not. *)
TernDoneOnce(g, trooBlock, folsBlock) == SetCurr(Link(g, trooBlock, folsBlock + 1), folsBlock + 1)
TernDone(g, trooBlock, folsBlock) ==
  SetCurr(Link(Link(g, trooBlock, folsBlock + 1), folsBlock, folsBlock + 1), folsBlock + 1)
TernPhi(troo, trooBlock, folsBlock, g) ==
  Compute(TernDone(g, trooBlock, folsBlock),
          Instr("phi", "void", <<troo, trooBlock, g.value, folsBlock>>))
TernFols(e, byValue, trooBlock, folsBlock, g) ==
  TernPhi(g.value, trooBlock, folsBlock,
    IF byValue THEN VisitValue(e.e[3], SetCurr(g, folsBlock)) ELSE Visit(e.e[3], Nil, SetCurr(g, folsBlock)))
TernValues(e, byValue, trooBlock, folsBlock, g) ==
  TernFols(e, byValue, trooBlock, folsBlock,
    IF byValue THEN VisitValue(e.e[2], SetCurr(g, trooBlock)) ELSE Visit(e.e[2], Nil, SetCurr(g, trooBlock)))
TernInto(e, addr, trooBlock, folsBlock, g) ==
  Give(TernDone(Visit(e.e[3], addr, SetCurr(Visit(e.e[2], addr, SetCurr(g, trooBlock)), folsBlock)),
                trooBlock, folsBlock), addr)
TernBranches(e, res, trooBlock, folsBlock, g) ==
  CASE res # Nil -> Give(TernInto(e, res, trooBlock, folsBlock, g), Nil)
    [] res = Nil /\ ValueCat(e) = "lvalue" -> TernValues(e, FALSE, trooBlock, folsBlock, g)
    [] res = Nil /\ ValueCat(e) # "lvalue" /\ Copyable(e.t) -> TernValues(e, TRUE, trooBlock, folsBlock, g)
    [] OTHER -> TernInto(e, Alloc(g).value, trooBlock, folsBlock, Alloc(g))
TernCond(e, res, trooBlock, g) ==
  TernBranches(e, res, trooBlock, trooBlock + 1, CondBr(g, trooBlock, trooBlock + 1))
TernFrom(e, res, g) == TernCond(e, res, NumBlocks(g) + 1, VisitBool(e.e[1], MakeBlocks(g, 3)))
VisitTernary(e, res, g) == TernFrom(e, res, NextEmpty(g))

(* A Make that is no cast is its operand. *)
CastInstr(dst, src) ==
  CASE src = "signed_int" -> IF dst = "floating_point" THEN "si_to_fp" ELSE "int_cast_s"
    [] src = "unsigned_int" -> IF dst = "floating_point" THEN "ui_to_fp" ELSE "int_cast_u"
    [] dst = "signed_int" -> "fp_to_si"
    [] dst = "unsigned_int" -> "fp_to_ui"
    [] OTHER -> "fp_cast"
CastValue(e, g) ==
  Compute(g, [Instr(CastInstr(ArithCat(e.t), ArithCat(e.e[1].t)), e.t, <<g.value>>) EXCEPT !.of = e.e[1].t])
VisitMake(e, res, g) ==
  CASE e.n # "cast" -> Visit(e.e[1], res, g)
    [] e.n = "cast" /\ e.t = "bool" /\ e.e[1].t \notin Btn -> StoreResult(res, VisitBool(e.e[1], g))
    [] OTHER -> StoreResult(res, CastValue(e, VisitValue(e.e[1], g)))
-----------------------------------------------------------------------------
(* Literals *)
VisitLit(e, res, g) == StoreResult(res, Give(g, Number(Encode(e.t, e.v[1]))))

(* arr_len_ctor makes storage whose elements are constructed one by one. *)
ElemAt(e, i, base, g) == LET at == Field(Give(g, base), "arr", i) IN Visit(e, at.value, at)
Elems(es, addr, base, g) ==
  Give(FoldLeftDomain(LAMBDA a, i : ElemAt(es[i], i, base, a), g, es), addr)
ElemsOf(es, addr, g) == Elems(es, addr, g.value, g)
ArrayAt(es, placed) ==
  IF es = <<>> THEN DefConstruct("arr", placed.value, placed)
  ELSE ElemsOf(es, placed.value, Compute(placed, Instr("arr_len_ctor", "arr", <<placed.value, Len(es)>>)))
VisitArray(e, res, g) == ArrayAt(e.e, Place(res, g))
(* The characters of a string are copied into the storage. *)
StrAt(s, placed) ==
  IF s = <<>> THEN DefConstruct("arr", placed.value, placed)
  ELSE Emit(placed, Instr("arr_of", "arr", <<placed.value, s>>))
VisitStr(e, res, g) == StrAt(e.v, Place(res, g))

MemberAt(t, e, i, addr, g) == LET at == Field(Give(g, addr), t, i) IN Visit(e, at.value, at)
InitAt(e, res, placed) ==
  Give(IF e.e = <<>> THEN DefConstruct(e.t, placed.value, placed)
       ELSE FoldLeftDomain(LAMBDA a, i : MemberAt(e.t, e.e[i], i, placed.value, a), placed, e.e),
       placed.value)
InitDone(e, res, g) ==
  IF res # Nil THEN Give(g, Nil) ELSE IF Copyable(e.t) THEN Load(g) ELSE g
VisitInit(e, res, g) == InitDone(e, res, InitAt(e, res, Place(res, g)))

(* The captures of a lambda are copies, in an allocation of their own. *)
CaptureAt(x, i, caps, g) ==
  LET at == Field(Give(g, caps), "clo", i)
  IN Construct(Vars[x].t, at.value, "lvalue", Give(at, Addr(x)))
Captures(xs, caps, g) == FoldLeftDomain(LAMBDA a, i : CaptureAt(xs[i], i, caps, a), g, xs)
LamAt(e, res, caps, placed) ==
  Give(Emit(placed, Instr("clo_lam_ctor", "clo", <<placed.value, Const(<<"fun", e.n>>), caps>>)),
       IF res = Nil THEN placed.value ELSE Nil)
LamFrom(e, res, g) == LamAt(e, res, g.value, Place(res, Captures(Lambdas[e.n], g.value, g)))
VisitLambda(e, res, g) == LamFrom(e, res, Compute(g, Instr("alloc", "clo", <<>>)))

Visit(e, res, g) ==
  CASE e.k = "logic" -> StoreResult(res, VisitLogic(e, g))
    [] e.k = "binary" -> StoreResult(res, VisitBinary(e, g))
    [] e.k = "unary" -> StoreResult(res, VisitUnary(e, g))
    [] e.k \in {"call", "ext"} -> CallFunc(e, res, g)
    [] e.k = "btn" -> CallBtnFunc(e, res, g)
    [] e.k = "ptr" -> CallFuncPtr(e, res, g)
    [] e.k = "member" -> VisitMember(e, res, g)
    [] e.k = "subscript" -> VisitSubscript(e, res, g)
    [] e.k \in {"var", "cap"} -> VisitVar(e, res, g)
    [] e.k = "fun" -> VisitFun(e, res, g)
    [] e.k = "ternary" -> VisitTernary(e, res, g)
    [] e.k = "make" -> VisitMake(e, res, g)
    [] e.k = "lit" -> VisitLit(e, res, g)
    [] e.k = "str" -> VisitStr(e, res, g)
    [] e.k = "array" -> VisitArray(e, res, g)
    [] e.k = "init" -> VisitInit(e, res, g)
    [] e.k = "lambda" -> VisitLambda(e, res, g)
-----------------------------------------------------------------------------
(* Statements: [k, t, n, e], where t is the type of the variable that is   *)
(* made, n the operator, and e the expressions.                            *)
Lower(s) ==
  CASE s.k = "comp_assign" ->
         [s EXCEPT !.k = "assign", !.e = <<s.e[1], Binary(s.n, s.e[1], s.e[2])>>]
    [] s.k = "incr_decr" ->
         [s EXCEPT !.k = "assign", !.e = <<s.e[1], Binary(s.n, s.e[1], Lit(s.e[1].t, 1))>>]
    [] OTHER -> s

DestroyTemps(g) ==
  Give(FoldLeft(LAMBDA a, o : DestroyObj(o.t, o.addr, a), g, Reverse(g.temps)), g.value)
New == Addr("new")

(* insertVar and createGlobalVar: a global one is not converted to bool. *)
BoolInto(g) == Store(g, g.value, New)
GenObject(s, g) ==
  CASE s.e = <<>> -> DefConstruct(s.t, New, g)
    [] s.e # <<>> /\ s.k = "var" /\ IsBoolCast(s.t, s.e[1].t) -> BoolInto(VisitBool(s.e[1], g))
    [] OTHER -> Visit(s.e[1], New, g)

AssignTo(s, dst, g) == Assign(s.e[1].t, dst, ValueCat(s.e[2]), g)
AssignFrom(s, g) == AssignTo(s, g.value, Visit(s.e[2], Nil, g))

(* createReturnObject: an object of this function, or a member of one, is  *)
(* moved from.                                                             *)
CanMoveReturnAny(e) == RootLvalue(e) # "none"   \* A bug: globals too.
CanMoveReturn(e) == RootLvalue(e) # "none" /\ Vars[RootLvalue(e)].at \in {"local", "param"}
MoveOut(t, g) == MoveConstruct(t, New, g.value, g)
GenReturn(e, g) ==
  IF Copyable(e.t) THEN VisitValue(e, g)
  ELSE IF CanMoveReturn(e) THEN MoveOut(e.t, Visit(e, Nil, g))
  ELSE Visit(e, New, g)
Locals == {x \in DOMAIN Vars : Vars[x].at = "local"}
DestroyLocals(g) ==
  Give(FoldSet(LAMBDA x, a : DestroyObj(Vars[x].t, Addr(x), a), g, Locals), g.value)

GenStat(s, g) ==
  CASE s.k \in {"var", "global"} -> DestroyTemps(GenObject(s, g))
    [] s.k = "cond" -> DestroyTemps(VisitBool(s.e[1], g))
    [] s.k = "assign" -> DestroyTemps(AssignFrom(s, Visit(s.e[1], Nil, g)))
    [] s.k = "call" -> DestroyTemps(Visit(s.e[1], Nil, g))
    [] s.k = "return" -> DestroyLocals(DestroyTemps(GenReturn(s.e[1], g)))

End(g) == Emit(g, Instr("end", "void", <<g.value>>)).blocks
Generate(s) ==
  End(GenStat(Lower(s), [blocks |-> <<<<>>>>, curr |-> 1, temps |-> <<>>, regs |-> 0,
                         allocs |-> 0, value |-> Nil]))
=============================================================================
