------------------------------ MODULE MCParser ------------------------------
(***************************************************************************)
(* The parser is given the text of a syntax tree, whole or cut off after   *)
(* some token, or any few tokens in the place of an expression or parts    *)
(* of statements in a function.                                            *)
(***************************************************************************)
EXTENDS Parser, FiniteSets

CONSTANTS MaxExprTokens,  \* how many tokens stand in the place of an expression
          MaxStatParts    \* how many parts of statements stand in a function

G == INSTANCE Grammar
F == INSTANCE Format
Lex == INSTANCE Lexer WITH ByteBits <- 3, RealBits <- 4, SintBits <- 6, LongBits <- 7, RealMax <- 15360, MaxLiteral <- 4, MaxExp <- 3

VARIABLES tree,   \* the tree whose text is parsed, or Null
          tokens, \* what is parsed
          cut,    \* how many tokens of the text are left out at the end
          result
vars == <<tree, tokens, cut, result>>
-----------------------------------------------------------------------------
(* Expressions of depth two, with an operator of every level. *)
A == Node("ident", "a", <<>>)
L == Node("litr", "1", <<>>)
Bin(op, l, r) == Node("bin", op, <<l, r>>)
Un(op, e) == Node("un", op, <<e>>)
Cond(c, t, f) == Node("tern", "", <<c, t, f>>)
Call(f, args) == Node("call", "", <<f, List(args)>>)
Sub(e, i) == Node("sub", "", <<e, i>>)
Mem(e) == Node("mem", "", <<e, A>>)
Make(t, e) == Node("make", "", <<t, e>>)
Named == Node("named", "a", <<>>)

Ops == {"||", "&&", "==", "<", "|", "^", "&", "<<", "-", "*"}
AllOps == UNION {Levels[i] : i \in DOMAIN Levels}
Few == {A, Un("-", A), Bin("-", A, L), Bin("||", A, A), Cond(A, A, A)}
Shallow == Few \union {Bin(op, A, A) : op \in Ops} \union
  {Call(A, <<>>), Sub(A, A), Mem(A), Make(Named, A), Node("init", "", <<>>), Node("array", "", <<A>>)}
Exprs ==
  {Bin(op, l, r) : op \in Ops, l \in Shallow, r \in Shallow}
    \union {Bin(op, A, A) : op \in AllOps}
    \union {Un(op, e) : op \in {"-", "!", "~"}, e \in Shallow}
    \union {Make(Named, e) : e \in Shallow}
    \union {Cond(c, t, f) : c \in Few, t \in Few, f \in Few}
    \union {Call(e, args) : e \in Shallow, args \in {<<>>, <<A>>, <<A, Cond(A, A, A)>>}}
    \union {Sub(e, i) : e \in Shallow, i \in Few}
    \union {Mem(e) : e \in Shallow}
    \union {Node(k, "", <<e, A>>) : k \in {"array", "init"}, e \in Few}
-----------------------------------------------------------------------------
(* Types, functions and declarations. *)
Ref == Node("ref", "", <<>>)
Field(t) == Node("field", "", <<A, t>>)
FuncType(params, ret) == Node("functype", "", <<List(params), ret>>)
ArrayType(t) == Node("arraytype", "", <<t>>)
SimpleTypes == {Named, ArrayType(Named), Node("struct", "", <<>>), FuncType(<<>>, Null)}
Types ==
  SimpleTypes
    \union {ArrayType(t) : t \in SimpleTypes}
    \union {Node("struct", "", <<Field(t), Field(u)>>) : t \in SimpleTypes, u \in SimpleTypes}
    \union {FuncType(<<Node("param", "", <<ref, t>>), Node("param", "", <<Null, Named>>)>>, ret) :
              ref \in {Null, Ref}, t \in SimpleTypes, ret \in SimpleTypes \union {Null}}

Param(ref) == Node("param", "", <<A, ref, Named>>)
Block(stats) == Node("block", "", stats)
Func(receiver, params, ret, stats) == Node("func", "", <<receiver, A, List(params), ret, Block(stats)>>)
Lambda(params, ret, stats) == Node("lambda", "", <<List(params), ret, Block(stats)>>)
Let(external, type, e) == Node("let", external, <<A, type, e>>)
Decls ==
  {Let("", Null, e) : e \in Exprs}
    \union {Let("", Null, Lambda(params, ret, <<>>)) : params \in {<<>>, <<Param(Ref)>>}, ret \in {Null, Named}}
    \union {Node("var", external, <<A, type, e>>) :
              external \in {"", "extern"}, type \in {Null, Named}, e \in {Null, L}}
    \union {Node("type", strong, <<A, t>>) : strong \in {"strong", "weak"}, t \in Types}
    \union {Func(receiver, params, ret, <<>>) :
              receiver \in {Null, Param(Null), Param(Ref)}, ret \in {Null, Named},
              params \in {<<>>, <<Param(Ref)>>, <<Param(Null), Param(Ref)>>}}
-----------------------------------------------------------------------------
(* Statements, an `if` without `else` before an `else` left out. *)
Assign(op, e) == Node("assign", op, <<e, A>>)
Asgns ==
  {Node("declassign", "a", <<A>>), Node("incrdecr", "++", <<A>>), Node("incrdecr", "--", <<Mem(A)>>),
   Node("callassign", "", <<A, List(<<>>)>>), Node("callassign", "", <<Mem(A), List(<<A>>)>>)}
    \union {Assign(op, e) : op \in {"=", "+=", "<<="}, e \in {A, Sub(A, A), Call(A, <<>>)}}
Return(e) == Node("return", "", <<e>>)
Simple ==
  Asgns \union {Return(Null), Return(A), Node("break", "", <<>>), Node("continue", "", <<>>), Block(<<>>),
                Let("", Null, A), Func(Null, <<>>, Null, <<>>)}
If(body, elseBody) == Node("if", "", <<A, body, elseBody>>)
While(body) == Node("while", "", <<A, body>>)
For(init, incr, body) == Node("for", "", <<init, A, incr, body>>)
Case(e, body) == Node("case", "", <<e, body>>)
Switch(cases) == Node("switch", "", <<A, List(cases)>>)
FewStats == {Return(A), Block(<<>>), If(Block(<<>>), Return(A)), While(Return(A)), Switch(<<>>)}
Stats ==
  {While(s) : s \in Simple}
    \union {If(s, e) : s \in Simple, e \in {Null, Block(<<>>), If(Return(A), Null)}}
    \union {If(s, e) : s \in FewStats, e \in FewStats \union {Null}}
    \union {If(If(Return(A), Null), Null), While(If(Return(A), Null)), Block(<<If(Return(A), Null), Return(A)>>)}
    \union {For(init, incr, s) : init \in Asgns \union {Null}, incr \in {Null, Assign("=", A)}, s \in {Block(<<>>), Return(A)}}
    \union {Switch(<<Case(A, s), Case(e, t)>>) : e \in {A, Null}, s \in FewStats, t \in FewStats}
    \union {Block(<<s, t>>) : s \in FewStats, t \in Simple}

Trees ==
  {Node("module", "main", <<d>>) : d \in Decls \union {Func(Null, <<>>, Null, <<s>>) : s \in Simple \union Stats}}
    \union {Node("module", "a", <<Node("import", "a", <<>>), Let("", Null, A), Let("", Named, L)>>)}
-----------------------------------------------------------------------------
(* Tokens in the place of an expression, parts of statements in a function. *)
ExprTokens == {"a", "-", "*", "?", ":", "."}
StatParts == {<<"if", "a">>, <<"else">>, <<"{">>, <<"}">>, <<"a", "++">>, <<";">>, <<"return">>}
Strings(S, max) == UNION {[1..n -> S] : n \in 0..max}
Loose ==
  {<<"let", "a", "=">> \o s \o <<";">> : s \in Strings(ExprTokens, MaxExprTokens)}
    \union {<<"func", "a", "(", ")", "{">> \o G!FlattenSeq(s) \o <<"}">> : s \in Strings(StatParts, MaxStatParts)}

NotParsed == Fatal(Start(<<>>), "not parsed")
Init ==
  /\ result = NotParsed
  /\ cut = 0
  /\ \/ tree \in Trees /\ tokens = G!Text(tree)
     \/ tree = Null /\ tokens \in Loose
Cuts == IF tree = Null THEN {0} ELSE 0..(Len(tokens) - 1)
ParseSource ==
  /\ result = NotParsed
  /\ cut' \in Cuts
  /\ tokens' = SubSeq(tokens, 1, Len(tokens) - cut')
  /\ result' = CreateAST(tokens')
  /\ UNCHANGED tree
Next == ParseSource
Spec == Init /\ [][Next]_vars
-----------------------------------------------------------------------------
Parsed == result # NotParsed
Accepted == Parsed /\ result.err = "none"

(* createAST reads the text of a tree back as that tree: precedence,       *)
(* associativity, where a type ends and an expression begins, and whether  *)
(* a destination is declared, assigned to or called.                       *)
RoundTrip ==
  Parsed /\ tree # Null /\ cut = 0 => result.err = "none" /\ result.node = tree

(* createAST accepts a source that ends too soon only between two          *)
(* declarations, and gives it up only after the last token.                *)
CutOff ==
  Parsed /\ cut # 0
    => /\ result.rest = <<>>
       /\ Accepted => \E n \in 0..(Len(tree.sub) - 1) :
                        tokens = G!Text([tree EXCEPT !.sub = SubSeq(@, 1, n)])

(* Whatever createAST accepts is the text of the tree that it returns: no  *)
(* token is dropped, taken twice or put in another order.                  *)
NothingElse == Accepted => tokens = G!Text(result.node)
-----------------------------------------------------------------------------
(* What is printed is read again. *)
RECURSIVE Lexed(_, _)
Lexed(letters, lex) ==
  CASE lex.mode = "code" -> Lexed(letters, Lex!TokenizeTurn(letters, Lex!NoChar, FALSE, lex))
    [] lex.mode = "block" -> Lexed(letters, Lex!CommentTurn(letters, lex))
    [] lex.mode \in {"string", "character"} -> Lexed(letters, Lex!QuoteTurn(letters, lex))
    [] OTHER -> lex
Spelled(text) ==
  LET found == Lexed(Lex!Letters(text), Lex!Start).tokens IN [i \in DOMAIN found |-> SubSeq(text, found[i].beg, found[i].end - 1)]
Reformatted(node) == CreateAST(Spelled(F!FormatAST(node)))

(* Trees that need no parentheses, and no space after a sign or before a   *)
(* point: `- -a`, `- 1` and `1 .a` are other tokens without it.            *)
RECURSIVE Bare(_)
Bare(node) ==
  LET sub == node.sub
      tight(i, tightness) == G!Tightness(sub[i]) >= tightness
      minus(e) == e.kind = "litr" \/ (e.kind = "un" /\ e.tok = "-")
  IN /\ \A i \in DOMAIN sub : Bare(sub[i])
     /\ node.kind = "bin" => tight(1, G!Binds(node.tok)) /\ tight(2, G!Binds(node.tok) + 1)
     /\ node.kind = "tern" => tight(1, 2)
     /\ node.kind = "un" => tight(1, G!Unary) /\ ~ (node.tok = "-" /\ minus(sub[1]))
     /\ node.kind \in {"call", "callassign", "sub", "mem", "assign", "incrdecr"} => tight(1, G!Nested)
     /\ node.kind = "mem" => sub[1].kind # "litr"

(* format, tokenize and createAST together: a formatted source is the same *)
(* program exactly if it needs no parentheses, neither names its module    *)
(* nor imports one, and does not depend on a space.                        *)
FormatKeeps ==
  Accepted => ((Reformatted(result.node).node = result.node)
                 <=> /\ Bare(result.node)
                     /\ result.node.tok = "main"
                     /\ \A i \in DOMAIN result.node.sub : result.node.sub[i].kind # "import")
=============================================================================
