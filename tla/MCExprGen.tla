----------------------------- MODULE MCExprGen -----------------------------
(***************************************************************************)
(* Statements over expressions of every kind.                              *)
(***************************************************************************)
EXTENDS ExprRun

Variable(t, where, v) == [t |-> t, at |-> where, v |-> v]
TheVars == [
  a |-> Variable("bool", "outer", 0), b |-> Variable("bool", "outer", 0),
  n |-> Variable("sint", "outer", 1), u |-> Variable("uint", "outer", 2),
  xs |-> Variable("arr", "outer", <<1, 2>>), ys |-> Variable("arr", "outer", <<1, 3>>),
  ls |-> Variable("arr", "local", <<2>>), ps |-> Variable("arr", "param", <<3>>),
  p |-> Variable("pair", "outer", <<<<1, 2>>, 1>>), lp |-> Variable("pair", "local", <<<<0>>, 2>>),
  f |-> Variable("clo", "outer", <<"h", <<>>>>), z |-> Variable("clo", "outer", <<"stub", <<>>>>),
  g |-> Variable("clo", "outer", <<"sum", <<1>>>>),
  d |-> Variable("nat", "outer", <<1>>), o |-> Variable("pod", "outer", <<0>>)]

Param(t, ref) == [t |-> t, ref |-> ref]
Func(params, ret, result, rec, sets) ==
  [params |-> params, ret |-> ret, result |-> result, rec |-> rec, sets |-> sets]
Pure(params, ret, result) == Func(params, ret, result, FALSE, <<>>)
ArrVal == Param("arr", FALSE)
PairVal == Param("pair", FALSE)
NumVal == Param("sint", FALSE)
NumRef == Param("sint", TRUE)
TheFuncs == [
  arr |-> Pure(<<>>, "arr", <<2, 1>>), num |-> Pure(<<>>, "sint", 1), yes |-> Pure(<<>>, "bool", 1),
  no |-> Pure(<<>>, "bool", 0), pair |-> Pure(<<>>, "pair", <<<<3>>, 0>>), nat |-> Pure(<<>>, "nat", <<2>>),
  pod |-> Pure(<<>>, "pod", <<1>>), clo |-> Pure(<<>>, "clo", <<"h", <<>>>>),
  take |-> Pure(<<ArrVal, PairVal>>, "arr", <<>>), show |-> Pure(<<ArrVal, NumVal>>, "void", 0),
  of |-> Pure(<<Param("nat", FALSE), Param("clo", FALSE), Param("pod", FALSE)>>, "sint", 2),
  inc |-> Pure(<<NumRef>>, "sint", 0), two |-> Pure(<<NumRef, NumVal, ArrVal>>, "uint", 1),
  renew |-> Func(<<>>, "sint", 1, FALSE, [ys |-> <<0, 2>>, n |-> 2]),
  method |-> Func(<<PairVal, ArrVal, NumVal>>, "arr", <<1>>, TRUE, <<>>),
  refMethod |-> Func(<<Param("pair", TRUE), ArrVal>>, "sint", 1, TRUE, <<>>),
  native |-> Func(<<NumVal, ArrVal>>, "arr", <<3>>, TRUE, <<>>), h |-> Pure(<<ArrVal>>, "arr", <<0>>),
  lam |-> Pure(<<ArrVal>>, "arr", <<2>>), sum |-> Pure(<<ArrVal>>, "arr", <<1>>), size |-> Pure(<<ArrVal>>, "uint", 2),
  push_back |-> Pure(<<Param("arr", TRUE), NumVal>>, "void", 0)]
TheLambdas == [lam |-> <<"xs", "n", "p">>, sum |-> <<"n">>]
TheBits == [bool |-> 1, byte |-> 2, char |-> 2, uint |-> 3, sint |-> 3]
-----------------------------------------------------------------------------
(* Expressions of each type that make neither blocks nor temporaries ...    *)
Zero == Lit("sint", 0)
One == Lit("sint", 1)
Nums == {One, Var("n"), Call("num", <<>>), Call("inc", <<Var("n")>>), Call("renew", <<>>), Sub(Var("xs"), Zero),
         Sub(Var("ys"), Lit("uint", 1)), Mem(Var("p"), 2), Mem(Var("d"), 1), Cast("sint", Var("u"))}
Uints == {Lit("uint", 3), Var("u"), CallBtn("size", <<Var("xs")>>), CallBtn("size", <<Call("arr", <<>>)>>),
          Cast("uint", Lit("sint", -1)), Call("two", <<Var("n"), Var("n"), Call("arr", <<>>)>>)}
ArrNames == {Var("xs"), Cap("ys"), Mem(Var("p"), 1), Make(Var("xs"))}
ArrTemps == {Call("arr", <<>>), Str(<<>>), Str(<<1, 2>>), Array(<<>>), Array(<<One, Call("inc", <<Var("n")>>), Var("n")>>),
             CallPtr(<<Var("f"), Var("xs")>>), CallPtr(<<Var("g"), Array(<<Call("renew", <<>>)>>)>>), CallPtr(<<Fun("h"), Call("arr", <<>>)>>), CallPtr(<<Lambda("lam"), Var("ys")>>),
             Call("take", <<Var("xs"), Var("p")>>), Call("take", <<Call("arr", <<>>), Call("pair", <<>>)>>),
             Call("method", <<Call("pair", <<>>), Var("ys"), Call("inc", <<Var("n")>>)>>),
             CallExt("native", <<Call("num", <<>>), Call("arr", <<>>)>>)}
Arrs == ArrNames \union ArrTemps
Pairs == {Var("p"), Call("pair", <<>>), InitList("pair", <<>>)} \union
         {InitList("pair", <<x, One>>) : x \in {Var("xs"), Call("arr", <<>>), Array(<<One>>)}}
Clos == {Var("f"), Var("z"), Fun("h"), Lambda("lam"), Call("clo", <<>>), InitList("clo", <<>>)}
Classes == {Var("d"), Call("nat", <<>>), InitList("nat", <<>>), Var("o"), Call("pod", <<>>), InitList("pod", <<>>)}
Bools == {Var("a"), Var("b"), Call("yes", <<>>), Unary("bool_not", Var("b")), Binary("lt", Var("n"), Call("renew", <<>>)),
          Binary("eq", Var("xs"), Var("ys")), Cast("bool", Var("z"))}
(* ... and expressions that make temporaries. *)
NumsOfTemps == {Sub(Call("arr", <<>>), Lit("uint", 1)), Mem(Call("pair", <<>>), 2), Sub(Mem(Call("pair", <<>>), 1), Zero),
                Sub(Array(<<One, Var("n")>>), Call("num", <<>>)), Mem(Call("nat", <<>>), 1), Mem(InitList("pod", <<>>), 1),
                Sub(CallPtr(<<Call("clo", <<>>), Call("arr", <<>>)>>), Zero)}
ArrsOfTemps == {Mem(Call("pair", <<>>), 1), Mem(InitList("pair", <<Call("arr", <<>>), One>>), 1)}
BoolsOfTemps == {Binary("lt", x, One) : x \in NumsOfTemps}

Truths == Bools \union {Var("f"), Var("z"), Lambda("lam"), Call("nat", <<>>), Var("d")}
Logics == {OrElse(l, r) : l \in Truths \union BoolsOfTemps, r \in Truths} \union
          {AndAlso(l, r) : l \in Truths \union BoolsOfTemps, r \in Truths}
Comparisons ==
  {Binary(op, x, y) : op \in Comparing, x \in ArrNames, y \in ArrNames \union ArrsOfTemps} \union
  {Binary(op, x, y) : op \in Comparing, x \in {Var("n"), Lit("sint", -1)}, y \in Nums \union NumsOfTemps} \union
  {Binary(op, x, y) : op \in Comparing, x \in Uints, y \in Uints} \union
  {Binary(op, Var("p"), Var("p")) : op \in Comparing} \union {Binary("eq", Var("f"), Var("z"))} \union
  {Binary(op, Var("d"), Var("d")) : op \in Comparing}
Sums == {Binary(op, x, y) : op \in {"add", "sub", "div", "mod", "bit_or", "bit_and", "bit_xor"},
                            x \in {Lit("sint", -3), Var("n"), Call("inc", <<Var("n")>>)}, y \in {Lit("sint", 2), Call("renew", <<>>), Var("n")}}
        \union {Binary("add", x, y) : x \in Nums \union NumsOfTemps, y \in {Var("n")} \union NumsOfTemps}
        \union {Binary(op, Lit("uint", 5), y) : op \in {"mul", "div", "mod", "bit_shl", "bit_shr"}, y \in {Lit("uint", 1), Var("u")}}
        \union {Unary(op, x) : op \in {"neg", "bit_not"}, x \in {Var("n"), Var("u"), Sub(Call("arr", <<>>), Zero)}}
        \union {Binary("lt", Lit("real", -2), Cast("real", x)) : x \in {Var("n"), Var("u"), Lit("sint", -3)}}
        \union {Cast(t, Lit("real", 1)) : t \in {"sint", "uint", "real"}}
        \union {Cast(t, x) : t \in {"byte", "char", "sint", "uint"}, x \in {Lit("sint", -3), Lit("uint", 7), Lit("char", -2), Lit("byte", 3)}}
Terns(conds) ==
  UNION {{Tern(c, x, y) : c \in conds, x \in S, y \in S} :
           S \in {{Var("n"), Call("inc", <<Var("n")>>), Sub(Var("xs"), Zero)},
                  {Var("xs"), Cap("ys"), Call("arr", <<>>), Array(<<One>>)},
                  {Var("p"), Call("pair", <<>>)}, {Var("f"), Lambda("lam")}, {Var("d"), Call("nat", <<>>)},
                  {Var("a"), Call("no", <<>>)}}}
Conds == {Var("a"), Call("yes", <<>>), Lambda("lam"), OrElse(Var("a"), Var("b")), AndAlso(Call("no", <<>>), Var("b")),
          Tern(Var("a"), Var("b"), Lit("bool", 1)), Binary("lt", Sub(Call("arr", <<>>), Zero), Var("n"))}
(* Operands that come out of several blocks. *)
Mixed ==
  {Binary("add", Tern(Var("a"), Var("n"), One), y) : y \in {Tern(Var("b"), One, Var("n")), Sub(Call("arr", <<>>), Zero)}} \union
  {Call("take", <<Tern(Var("a"), Var("xs"), Call("arr", <<>>)), Tern(Var("b"), Var("p"), Call("pair", <<>>))>>),
   Mem(Tern(Var("a"), Var("p"), Call("pair", <<>>)), 1), Mem(Tern(Var("a"), Var("p"), Var("lp")), 1),
   Sub(Tern(Var("a"), Var("xs"), Var("ys")), Call("inc", <<Tern(Var("b"), Var("n"), Var("n"))>>)),
   CallPtr(<<Tern(Var("a"), Var("f"), Lambda("lam")), Var("xs")>>), Call("inc", <<Tern(Var("a"), Var("n"), Mem(Var("p"), 2))>>),
   Array(<<Tern(Var("a"), One, Var("n")), Cast("sint", OrElse(Var("a"), Var("b")))>>),
   InitList("pair", <<Tern(Var("a"), Var("xs"), Call("arr", <<>>)), Sub(Call("arr", <<>>), Zero)>>),
   Call("of", <<Call("nat", <<>>), Lambda("lam"), Var("o")>>), Call("of", <<Var("d"), Var("f"), Call("pod", <<>>)>>),
   Call("refMethod", <<Var("p"), Mem(Call("pair", <<>>), 1)>>)}

Exprs == Nums \union NumsOfTemps \union Uints \union Arrs \union ArrsOfTemps \union Pairs \union Clos \union Classes
           \union Bools \union Comparisons \union Logics \union Sums \union Terns(Conds) \union Mixed

Stat(k, t, n, e) == [k |-> k, t |-> t, n |-> n, e |-> e]
Declared(k, es) == {Stat(k, e.t, "new", <<e>>) : e \in es}
Returned == {Var("ls"), Var("ps"), Var("lp"), Mem(Var("lp"), 1), Mem(Var("lp"), 2), Sub(Var("ls"), Zero),
             Tern(Var("a"), Var("ls"), Var("xs"))}
Assignable == {Var("xs"), Mem(Var("p"), 1), Tern(Var("a"), Var("xs"), Var("ls"))}
Statements ==
  Declared("var", Exprs) \union Declared("global", Exprs)
  \union Declared("return", Exprs \union Returned)
  \union {Stat("var", "bool", "new", <<e>>) : e \in Truths}
  \union {Stat(k, t, "new", <<>>) : k \in {"var", "global"}, t \in {"sint", "arr", "clo", "pair", "nat", "pod"}}
  \union {Stat("cond", "bool", "cond", <<e>>) : e \in Truths \union Logics \union Comparisons}
  \union {Stat("assign", "void", "assign", <<x, e>>) : x \in Assignable, e \in {y \in Exprs : y.t = "arr"}}
  \union {Stat("assign", "void", "assign", <<Var("d"), e>>) : e \in {y \in Exprs : y.t = "nat"}}
  \union {Stat("assign", "void", "assign", <<Sub(Var("xs"), Var("n")), e>>) : e \in {y \in Exprs : y.t = "sint"}}
  \union {Stat("comp_assign", "void", op, <<x, e>>) : op \in {"add", "sub"}, x \in {Var("n"), Sub(Var("xs"), Zero)}, e \in NumsOfTemps}
  \union {Stat("incr_decr", "void", op, <<x, x>>) : op \in {"add", "sub"}, x \in {Var("n"), Sub(Var("xs"), Zero), Mem(Var("p"), 2)}}
  \union {Stat("call", "void", "call", <<Call("show", <<x, y>>)>>) : x \in Arrs \union ArrsOfTemps, y \in Nums}
  \union {Stat("call", "void", "call", <<CallBtn("push_back", <<x, y>>)>>) : x \in {Var("xs"), Mem(Var("p"), 1)}, y \in Nums}
=============================================================================
