----------------------------- MODULE ExprTypes -----------------------------
(***************************************************************************)
(* Expressions with their types, and how categories.cpp classifies them.   *)
(*                                                                         *)
(* The types are the builtin ones, an array of sint, a closure, a          *)
(* structure of an array and a sint, and two native classes: `nat`, whose  *)
(* constructors and destructor are functions, and `pod`, whose ones are    *)
(* trivial.  Both have a field of type sint.                               *)
(***************************************************************************)
EXTENDS Integers, Sequences, SequencesExt, TLC

CONSTANTS
  Bits,      \* the width of the builtin integer types
  Vars,      \* the variables in scope: [name -> [t, at, v]], their type, whether they
             \* are "local", a "param" or "outer", and their value
  Funcs,     \* functions: [name -> [params, ret, rec, sets, result]]; rec: the first
             \* parameter is a receiver, sets: the variables that it assigns
  Lambdas    \* what a lambda captures: [name -> sequence of variables]

ASSUME BitsAssumption == \A t \in DOMAIN Bits : Bits[t] \in Nat \ {0}

Integral == {"bool", "byte", "uint", "char", "sint"}
Btn == Integral \union {"real", "void"}
User == {"nat", "pod"}
FieldType(t, i) == IF t = "pair" /\ i = 1 THEN "arr" ELSE "sint"

(* A node: its kind, its type, the name or operator, the number or numbers *)
(* of a literal, and the operands.                                         *)
Node(k, t, n, v, e) == [k |-> k, t |-> t, n |-> n, v |-> v, e |-> e]
Leaf(k, t, n) == Node(k, t, n, <<>>, <<>>)
Inner(k, t, n, e) == Node(k, t, n, <<>>, e)
Lit(t, v) == Node("lit", t, "", <<v>>, <<>>)
Var(x) == Leaf("var", Vars[x].t, x)
Cap(x) == Leaf("cap", Vars[x].t, x)
Fun(f) == Leaf("fun", "clo", f)
Lambda(l) == Leaf("lambda", "clo", l)
Str(s) == Node("str", "arr", "", s, <<>>)
Array(e) == Inner("array", "arr", "", e)
InitList(t, e) == Inner("init", t, "", e)
Comparing == {"eq", "ne", "lt", "le", "gt", "ge"}
Binary(op, a, b) == Inner("binary", IF op \in Comparing THEN "bool" ELSE a.t, op, <<a, b>>)
OrElse(a, b) == Inner("logic", "bool", "or", <<a, b>>)
AndAlso(a, b) == Inner("logic", "bool", "and", <<a, b>>)
Unary(op, a) == Inner("unary", IF op = "bool_not" THEN "bool" ELSE a.t, op, <<a>>)
Tern(c, a, b) == Inner("ternary", a.t, "", <<c, a, b>>)
Cast(t, a) == Inner("make", t, "cast", <<a>>)
Make(a) == Inner("make", a.t, "same", <<a>>)
Sub(a, i) == Inner("subscript", "sint", "", <<a, i>>)
Mem(a, i) == Node("member", FieldType(a.t, i), "", <<i>>, <<a>>)
Call(f, e) == Inner("call", Funcs[f].ret, f, e)
CallExt(f, e) == Inner("ext", Funcs[f].ret, f, e)
CallBtn(f, e) == Inner("btn", Funcs[f].ret, f, e)
CallPtr(e) == Inner("ptr", "arr", "", e)
-----------------------------------------------------------------------------
(* classifyType *)
TypeCat(t) == CASE t \in Btn -> "trivially_copyable"
                [] t \in {"arr", "clo"} -> "trivially_relocatable"
                [] OTHER -> "nontrivial"
Copyable(t) == TypeCat(t) = "trivially_copyable"
IsBoolCast(to, from) == to = "bool" /\ from # "bool"

(* classifyValue *)
RECURSIVE ValueCat(_)
ValueCat(e) ==
  CASE e.k \in {"var", "cap"} -> "lvalue"
    [] e.k \in {"member", "subscript"} ->
         IF ValueCat(e.e[1]) = "prvalue" THEN "xvalue" ELSE ValueCat(e.e[1])
    [] e.k = "ternary" ->
         IF ValueCat(e.e[2]) = "lvalue" /\ ValueCat(e.e[3]) = "lvalue" THEN "lvalue" ELSE "prvalue"
    [] e.k = "make" /\ e.n # "cast" /\ ~ IsBoolCast(e.t, e.e[1].t) -> ValueCat(e.e[1])
    [] OTHER -> "prvalue"
Glvalue(e) == ValueCat(e) \in {"lvalue", "xvalue"}

(* rootLvalue: the variable that an expression is or is a member of. *)
RECURSIVE RootLvalue(_)
RootLvalue(e) ==
  CASE e.k \in {"var", "cap"} -> e.n
    [] e.k = "member" -> RootLvalue(e.e[1])
    [] OTHER -> "none"

(* classifyArith *)
ArithCat(t) == CASE t \in {"char", "sint"} -> "signed_int"
                 [] t \in {"bool", "byte", "uint"} -> "unsigned_int"
                 [] t = "real" -> "floating_point"
-----------------------------------------------------------------------------
(* Numbers: what their bits stand for.  Reals are whole numbers here. *)
Encode(t, v) == IF t \in Integral THEN v % 2^Bits[t] ELSE v
Decode(t, b) ==
  IF t \in Integral /\ ArithCat(t) = "signed_int" /\ b >= 2^(Bits[t] - 1) THEN b - 2^Bits[t] ELSE b

(* What == and < of arrays, structures and classes say of values. *)
Lexicographic(a, b) ==
  \/ \E i \in DOMAIN a \intersect DOMAIN b : a[i] < b[i] /\ \A j \in 1..(i - 1) : a[j] = b[j]
  \/ Len(a) < Len(b) /\ \A j \in DOMAIN a : a[j] = b[j]
Less(t, a, b) ==
  CASE t \in Btn -> a < b
    [] t = "arr" -> Lexicographic(a, b)
    [] t = "pair" -> Lexicographic(a[1], b[1]) \/ (a[1] = b[1] /\ a[2] < b[2])
    [] t \in User -> a[1] < b[1]
(* What a function does to a reference. *)
Changed(t, v) == CASE t = "arr" -> Append(v, 1)
                   [] t = "pair" -> [v EXCEPT ![2] = @ + 1]
                   [] OTHER -> v + 1
Default(t) == CASE t \in Btn -> 0
                [] t = "arr" -> <<>>
                [] t = "clo" -> <<"stub", <<>>>>
                [] t = "pair" -> <<<<>>, 0>>
                [] t \in User -> <<0>>
BoolInt(b) == IF b THEN 1 ELSE 0
=============================================================================
