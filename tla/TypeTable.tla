----------------------------- MODULE TypeTable -----------------------------
(***************************************************************************)
(* Types, the symbol table of the semantic analysis and what it looks up:  *)
(* compare types.cpp, scope lookup.cpp, compare params args.cpp and the    *)
(* predicates of builtin symbols.cpp.                                      *)
(*                                                                         *)
(* A table tb has the scopes from the builtin one to the current one, the  *)
(* nodes of the type aliases and those of the functions and lambdas.  A    *)
(* symbol refers to a node by its number, as a NamedType does by its       *)
(* `definition`; 0 is a name that has not been looked up yet.              *)
(***************************************************************************)
EXTENDS Integers, Sequences, SequencesExt, FiniteSetsExt, TLC

(* A type: kind, name, number of the alias, `ref` of parameters, names of  *)
(* fields, and the types it is made of.  A function has its return type    *)
(* first.                                                                  *)
Ty(k, n, id, r, f, e) == [k |-> k, n |-> n, id |-> id, r |-> r, f |-> f, e |-> e]
NullT == Ty("null", "", 0, <<>>, <<>>, <<>>)
BadT == Ty("bad", "", 0, <<>>, <<>>, <<>>)
Btn(n) == Ty("btn", n, 0, <<>>, <<>>, <<>>)
Arr(t) == Ty("arr", "", 0, <<>>, <<>>, <<t>>)
Fn(ret, refs, params) == Ty("fn", "", 0, refs, <<>>, <<ret>> \o params)
Named(n, id) == Ty("named", n, id, <<>>, <<>>, <<>>)
Struct(names, types) == Ty("struct", "", 0, <<>>, names, types)
\* a native class; n is its layout, boolConv is present when r says so
User(n, conv, names, types) == Ty("user", n, 0, <<conv>>, names, types)

Void == Btn("void")
Bool == Btn("bool")
BtnNames == <<"opaq", "bool", "byte", "char", "real", "sint", "uint">>
BtnFuncs == {"capacity", "size", "data", "push_back", "append", "pop_back", "resize", "reserve"}

(* sym::ExprType *)
Et(t, mut, ref) == [t |-> t, mut |-> mut, ref |-> ref]
LetVal(t) == Et(t, "let", "val")
VarVal(t) == Et(t, "var", "val")
NullEt == LetVal(NullT)
Common(a, b, weak) == IF a = weak THEN a ELSE b

Sym(n, kind, id, et) == [n |-> n, kind |-> kind, id |-> id, et |-> et]
Scope(type, fn, symbols) == [type |-> type, fn |-> fn, table |-> symbols]
(* An unordered_multimap: what it has under each name *)
TableOf(syms) == [n \in {s.n : s \in syms} |-> {s \in syms : s.n = n}]
Alias(n, strong, t) == [n |-> n, strong |-> strong, t |-> t]
\* node is the return type in the syntax tree, ret the one in the symbol
Func(n, ext, params, ret, node) == [n |-> n, ext |-> ext, params |-> params, ret |-> ret, node |-> node]

(* makeBuiltinModule *)
BuiltinTable ==
  [scopes |-> << Scope("ns", 0, TableOf({Sym(BtnNames[i], "alias", i, NullEt) : i \in 1..Len(BtnNames)}
                                          \union {Sym(f, "btn", 0, NullEt) : f \in BtnFuncs})) >>,
   aliases |-> [i \in 1..Len(BtnNames) |-> Alias(BtnNames[i], FALSE, Btn(BtnNames[i]))],
   funcs |-> <<>>]

Cur(tb) == Len(tb.scopes)
Has(tb, i, n) == n \in DOMAIN tb.scopes[i].table
Symbols(tb, i, n) == IF Has(tb, i, n) THEN tb.scopes[i].table[n] ELSE {}
(* findScope: the innermost scope that has the name, 0 if none has *)
FindScope(tb, n) == Max({0} \union {i \in 1..Cur(tb) : Has(tb, i, n)})
(* findNearest *)
Nearest(tb, types) == Max({0} \union {i \in 1..Cur(tb) : tb.scopes[i].type \in types})
-----------------------------------------------------------------------------
(* lookupTypeImpl: the number of the alias, 0 after an error *)
Found(tb, i, n) == IF i = 0 THEN {} ELSE Symbols(tb, i, n)
AnyId(syms) == IF syms = {} THEN 0 ELSE (CHOOSE s \in syms : TRUE).id
AliasNamed(tb, n) == AnyId({s \in Found(tb, FindScope(tb, n), n) : s.kind = "alias"})
(* lookupTypeName keeps what it has found *)
TypeDef(tb, t) == IF t.id # 0 THEN t.id ELSE AliasNamed(tb, t.n)

RECURSIVE StrongType(_, _), ConcreteType(_, _), CompareTypes(_, _, _), ValidateType(_, _), ValidComp(_, _)

(* lookupStrongType *)
StrongType(tb, t) ==
  IF t.k = "named" /\ ~tb.aliases[TypeDef(tb, t)].strong
  THEN StrongType(tb, tb.aliases[TypeDef(tb, t)].t) ELSE t

(* lookupConcreteType *)
ConcreteType(tb, t) == IF t.k = "named" THEN ConcreteType(tb, tb.aliases[TypeDef(tb, t)].t) ELSE t

(* The compare overloads of RightVisitor, for types that are no weak alias *)
SameParts(tb, a, b) ==
  /\ Len(a.e) = Len(b.e)
  /\ \A i \in 1..Len(a.e) : CompareTypes(tb, a.e[i], b.e[i])
SameKind(tb, a, b) ==
  /\ a.k = b.k
  /\ CASE a.k \in {"btn", "named"} -> a.n = b.n
       [] a.k = "user" -> a.n = b.n /\ a.f = b.f /\ SameParts(tb, a, b)
       [] OTHER -> a.r = b.r /\ a.f = b.f /\ SameParts(tb, a, b)

CompareTypes(tb, a, b) ==
  \/ a = b
  \/ a # NullT /\ b # NullT /\ SameKind(tb, StrongType(tb, a), StrongType(tb, b))

(* validateType: the type with its names looked up, BadT after an error.   *)
(* A function type without a return type returns nothing.                  *)
ValidParts(t, parts) == IF BadT \in ToSet(parts) THEN BadT ELSE [t EXCEPT !.e = parts]
ValidateType(tb, t) ==
  CASE t.k \in {"null", "btn", "user"} -> t
    [] t.k = "named" -> IF TypeDef(tb, t) = 0 THEN BadT ELSE Named(t.n, TypeDef(tb, t))
    [] t.k = "fn" -> ValidParts(t, [i \in 1..Len(t.e) |->
                       IF t.e[i] = NullT THEN Void ELSE ValidateType(tb, t.e[i])])
    [] t.k = "struct" /\ Cardinality(ToSet(t.f)) # Len(t.f) -> BadT
    [] OTHER -> ValidParts(t, [i \in 1..Len(t.e) |-> ValidateType(tb, t.e[i])])
-----------------------------------------------------------------------------
(* callMutRef and compatParams *)
CallMutRef(param, arg) == param.ref = "val" \/ param.mut = "let" \/ arg.mut = "var"
(* A bug: what is not mutable is passed by reference. *)
CompatParamsByType(tb, params, args) ==
  Len(params) = Len(args) /\ \A i \in 1..Len(params) : CompareTypes(tb, params[i].t, args[i].t)
CompatParams(tb, params, args) ==
  /\ Len(params) = Len(args)
  /\ \A i \in 1..Len(params) :
       CompareTypes(tb, params[i].t, args[i].t) /\ CallMutRef(params[i], args[i])
(* A bug: aliases are not looked through. *)
SameParamsAsWritten(tb, a, b) == Len(a) = Len(b) /\ \A i \in 1..Len(a) : a[i].t = b[i].t
SameParams(tb, a, b) ==
  Len(a) = Len(b) /\ \A i \in 1..Len(a) : CompareTypes(tb, a[i].t, b[i].t)

(* isArithType, isBitwiseType, isBoolType and the operators they are for *)
Operands(op) ==
  CASE op \in {"bool_or", "bool_and", "bool_not"} -> {"bool"}
    [] op \in {"bit_or", "bit_not"} -> {"byte", "uint"}
    [] OTHER -> {"char", "real", "sint", "uint"}
BoolOp(op) == op \in {"bool_or", "bool_and", "bool_not"}
CompOp(op) == op \in {"eq", "lt"}
OneOf(t, names) == t.k = "btn" /\ t.n \in names
IsBtn(tb, t, names) == OneOf(ConcreteType(tb, t), names)
ValidSubscript(tb, t) == IsBtn(tb, t, {"sint", "uint"})
ValidCast(tb, t) == IsBtn(tb, t, ToSet(BtnNames) \ {"opaq"})

(* validComp: everything but void can be compared *)
ValidComp(tb, t) ==
  LET c == ConcreteType(tb, t) IN
  /\ c # Void
  /\ c.k \in {"arr", "struct"} => \A i \in 1..Len(c.e) : ValidComp(tb, c.e[i])

(* callBtnFunc: the return type, BadT after an error *)
BtnRet(f) == CASE f \in {"capacity", "size"} -> Btn("uint") [] f = "data" -> Btn("opaq") [] OTHER -> Void
BtnArity(f) == IF f \in {"capacity", "size", "data", "pop_back"} THEN 1 ELSE 2
BtnSecond(tb, f, array, t) ==
  CASE f = "push_back" -> CompareTypes(tb, t, array.e[1])
    [] f = "append" -> CompareTypes(tb, t, array)
    [] f \in {"resize", "reserve"} -> CompareTypes(tb, Btn("uint"), t)
    [] OTHER -> TRUE
CallBtnFunc(tb, f, args) ==
  IF /\ Len(args) = BtnArity(f)
     /\ ConcreteType(tb, args[1].t).k = "arr"
     /\ f \notin {"capacity", "size", "data"} => CallMutRef(Et(NullT, "var", "ref"), args[1])
     /\ BtnSecond(tb, f, ConcreteType(tb, args[1].t), args[Len(args)].t)
  THEN BtnRet(f) ELSE BadT

(* convertibleToBool *)
ConvertibleToBool(tb, t) ==
  LET c == ConcreteType(tb, t) IN c.k = "fn" \/ (c.k = "user" /\ c.r[1])

(* writeFuncType: the type of a function or a lambda, from its node *)
FnType(f, params) ==
  Fn(f.node, [i \in 1..Len(params) |-> params[i].ref = "ref"], [i \in 1..Len(params) |-> params[i].t])
=============================================================================
