---------------------------- MODULE MCTypeCheck ----------------------------
(***************************************************************************)
(* Programs for TypeCheck: a prelude with aliases of both kinds, a         *)
(* structure, a native class, overloads, a method, an external function,   *)
(* global variables and the start of a function without a return type;     *)
(* then declarations that shadow them, and statements with expressions of  *)
(* every kind.                                                             *)
(***************************************************************************)
EXTENDS TypeSem

N(n) == Named(n, 0)
Sint == N("sint")
Real == N("real")
SintFn == Fn(Sint, <<FALSE>>, <<Sint>>)

Id(n) == Ex("ident", n, NullT, <<>>)
Lit(n) == Ex("lit", "", Btn(n), <<>>)
Call(f, args) == Ex("call", "", NullT, <<f>> \o args)
Mem(o, n) == Ex("member", n, NullT, <<o>>)
Sub(o, i) == Ex("subscript", "", NullT, <<o, i>>)
Un(op, a) == Ex("unary", op, NullT, <<a>>)
Bin(op, a, b) == Ex("binary", op, NullT, <<a, b>>)
Tern(c, a, b) == Ex("ternary", "", NullT, <<c, a, b>>)
MakeEx(t, a) == Ex("make", "", t, <<a>>)
Array(es) == Ex("array", "", NullT, es)
Braces(es) == Ex("init", "", NullT, es)
Default == Ex("default", "", NullT, <<>>)

Decl(k, n, t) == St(k, n, t, <<>>, <<>>)
Object(k, n, t, e) == St(k, n, t, <<e>>, <<>>)
FuncDecl(k, n, rec, ps, ret) == St(k, n, ret, <<>>, <<rec>> \o ps)
Plain(k, es) == St(k, "", NullT, es, <<>>)
P(n, t) == Param(n, t, "val")
R(n, t) == Param(n, t, "ref")

(* A function that returns one of its parameters or globals *)
Body(k, n, rec, ps, ret, e) == <<FuncDecl(k, n, rec, ps, ret), Plain("return", <<e>>), Plain("endfunc", <<>>)>>
TypesPrelude ==
  << Decl("strong", "A", Sint), Decl("weak", "W", Sint),
     Decl("strong", "P", Struct(<<"a", "h">>, <<N("W"), SintFn>>)),
     Decl("weak", "N", User("handle", TRUE, <<"v">>, <<Btn("sint")>>)),
     FuncDecl("ext", "ext", NoParam, <<P("x", Sint)>>, Sint) >>
  \o Body("func", "g", NoParam, <<P("x", Sint)>>, Sint, Id("x"))
  \o Body("func", "o", NoParam, <<P("x", N("W"))>>, Sint, Id("x"))
  \o Body("func", "o", NoParam, <<P("x", Real)>>, NullT, Id("x"))
  \o Body("func", "o", NoParam, <<P("x", N("A"))>>, N("A"), Id("x"))
  \o Body("func", "m", P("self", N("P")), <<R("x", Sint)>>, N("P"), Id("self"))
  \o Body("func", "mk", NoParam, <<>>, SintFn, Id("g"))
  \o << FuncDecl("func", "inc", NoParam, <<R("x", Sint)>>, NullT), Plain("endfunc", <<>>),
        Decl("var", "x", Sint), Object("let", "k", NullT, Lit("sint")), Decl("var", "p", N("P")),
        Decl("var", "ar", Arr(N("W"))), Object("var", "c", SintFn, Id("g")), Decl("var", "b", N("A")),
        Decl("var", "n", N("N")), Decl("var", "bo", N("bool")),
        FuncDecl("func", "t", NoParam, <<R("q", Real), P("z", N("W"))>>, NullT) >>

Declarations == {
  Decl("var", "x", Real), Decl("var", "y", N("W")), Decl("let", "y", N("A")), Decl("let", "c", N("P")),
  Object("let", "y", NullT, Id("x")), Object("decl", "y", NullT, Call(Id("inc"), <<Id("x")>>)),
  Object("decl", "y", NullT, Id("z")), Object("var", "y", Arr(N("W")), Array(<<>>)),
  Object("let", "ar", Arr(Arr(N("W"))), Array(<<Id("ar"), Array(<<>>)>>)),
  Decl("weak", "W", Real), Decl("weak", "W", Arr(N("W"))), Decl("weak", "x", N("A")),
  Decl("weak", "D", Struct(<<"a", "a">>, <<Sint, Sint>>)), Decl("strong", "E", N("P")),
  Decl("var", "y", N("E")),
  FuncDecl("func", "o", NoParam, <<R("x", Sint)>>, Sint),
  FuncDecl("func", "o", NoParam, <<P("x", N("bool"))>>, NullT),
  FuncDecl("func", "a", P("self", N("P")), <<>>, Sint), FuncDecl("func", "a", P("self", N("N")), <<>>, Sint),
  FuncDecl("ext", "g", NoParam, <<P("x", Real)>>, Real), FuncDecl("ext", "x", NoParam, <<>>, Sint),
  St("lambda", "l", NullT, <<>>, <<R("x", Real)>>), St("lambda", "c", Sint, <<>>, <<>>),
  Plain("endlambda", <<>>), Plain("endfunc", <<>>), Plain("leave", <<>>),
  Plain("return", <<>>), Plain("return", <<Id("x")>>),
  Plain("return", <<Call(Id("t"), <<Id("q"), Id("x")>>)>>),
  St("enter", "block", NullT, <<>>, <<>>), St("enter", "flow", NullT, <<Id("c")>>, <<>>),
  St("enter", "block", NullT, <<Id("g")>>, <<>>),
  Plain("switch", <<Id("x"), Lit("sint"), Default>>),
  Plain("switch", <<Id("bo"), Id("c"), Default, Default>>) }

Numbers == {Id("x"), Id("z"), Id("q"), Id("b"), Lit("sint")}
Callees == {Id(n) : n \in {"o", "g", "ext", "c", "l"}} \union {Call(Id("mk"), <<>>), Mem(Id("p"), "h")}
Closures == Array(<<Id("c"), Id("g")>>)
Chained == Call(Mem(Id("p"), "m"), <<Id("x")>>)   \* p.m(x)
Exprs ==
  {Id(n) : n \in {"x", "y", "k", "q", "p", "c", "b", "n", "g", "l", "o", "ext", "W"}}
  \union {Array(<<>>), Braces(<<>>), Mem(Id("n"), "v"), Call(Id("mk"), <<>>)}
  \union {Bin(op, Id("x"), e) : op \in {"add", "eq"}, e \in Numbers}
  \union {Bin("add", Id("b"), Id("b")), Bin("eq", Id("p"), Id("p")), Bin("eq", Id("ar"), Array(<<Id("x")>>))}
  \union {Bin("bool_or", e, f) : e \in {Id("bo"), Id("c"), Id("x")}, f \in {Id("n"), Id("g")}}
  \union {Un("neg", Id("b")), Un("neg", Id("c")), Un("bool_not", Id("c")), Un("bool_not", Id("b"))}
  \union {Call(f, <<Id("x")>>) : f \in Callees \union {Sub(Closures, Id("x"))}}
  \union {Call(f, <<e>>) : f \in {Id("o"), Id("l")},
                           e \in {Id("q"), Id("b"), Id("o"), Call(Id("o"), <<Id("y")>>)}}
  \union {Call(Mem(e, "a"), <<>>) : e \in {Id("p"), Id("n")}}
  \union {Call(Mem(e, "m"), <<f>>) : e \in {Id("p"), Chained},
                                     f \in {Id("k"), Mem(Id("p"), "a"), Sub(Id("ar"), Id("z"))}}
  \union {Mem(e, "a") : e \in {Id("p"), Id("c"), Sub(Id("ar"), Id("x")), Chained,
                               Tern(Id("bo"), Id("p"), Id("p"))}}
  \union {Sub(e, i) : e \in {Id("ar"), Id("y")}, i \in {Id("x"), Id("b"), Id("q")}}
  \union {Tern(Id("n"), f, h) : f \in {Id("x"), Id("c")}, h \in {Id("k"), Id("q"), Id("g")}}
  \union {MakeEx(t, e) : t \in {N("A"), N("W"), N("P"), Arr(N("W"))},
                         e \in {Id("q"), Id("c"), Braces(<<Id("x"), Id("g")>>), Array(<<Id("x")>>)}}
  \union {Array(<<e, f>>) : e \in {Id("x"), Array(<<>>), Id("c")}, f \in {Id("z"), Id("q"), Array(<<>>)}}
  \union {Braces(<<Id("x"), Id("g")>>), Braces(<<Id("q"), Id("c")>>), Braces(<<Id("z"), Id("o")>>)}

Places == {Id(n) : n \in {"x", "y", "k", "z", "q", "b"}}
  \union {Sub(Id("ar"), Id("x")), Mem(Id("p"), "a"), Chained, Tern(Id("bo"), Id("x"), Id("z")),
          Tern(Id("bo"), Id("x"), Id("k"))}
Resizes == {Call(Id(f), <<e>> \o a) :
  f \in {"push_back", "append", "resize", "pop_back", "size"}, e \in {Id("ar"), Array(<<Id("x")>>)},
  a \in {<<>>, <<Id("x")>>, <<Id("ar")>>, <<MakeEx(N("uint"), Id("x"))>>}}

Programs ==
  Declarations
  \union {Plain("assign", <<Id(d), e>>) : d \in {"x", "p", "ar", "c", "bo"}, e \in Exprs}
  \union {Plain("assign", <<d, e>>) : d \in Places, e \in {Id("x"), Id("y")}}
  \union {St("comp", op, NullT, <<d, Id("x")>>, <<>>) : op \in {"add", "bit_or"}, d \in Places}
  \union {St("comp", "add", NullT, <<Id("bo"), Id("c")>>, <<>>), Plain("flow", <<>>)}
  \union {Plain("incr", <<d>>) : d \in Places}
  \union {Plain("call", <<e>>) : e \in Resizes \union {Call(Id("inc"), <<d>>) : d \in Places}}
=============================================================================
