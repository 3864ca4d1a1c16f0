------------------------------- MODULE Parser -------------------------------
(***************************************************************************)
(* The recursive descent parser (src/Syntax).  A token is a string; the    *)
(* identifiers are Ident, and Literal stands for the numbers, strings,     *)
(* characters and true and false.  Locations and messages are left out.    *)
(*                                                                         *)
(* Every parsing function takes and returns the state of ParseTokens: the  *)
(* tokens from `beg` on, the node that the last function returned, and     *)
(* the error that was fatal.  After a fatal error nothing happens any more *)
(* (the code throws).                                                      *)
(***************************************************************************)
EXTENDS Integers, Sequences

CONSTANTS Ident, Literal

(* Nodes have a kind, a token that tells nodes of that kind apart, and     *)
(* children.                                                               *)
Node(kind, tok, sub) == [kind |-> kind, tok |-> tok, sub |-> sub]
Null == Node("null", "", <<>>)
List(nodes) == Node("list", "", nodes)

Start(tokens) == [rest |-> tokens, node |-> Null, err |-> "none"]
Give(s, node) == [s EXCEPT !.node = node]
Fatal(s, err) == IF s.err = "none" THEN [s EXCEPT !.err = err] ELSE s

(* empty, check, expect, peekType, expectNode *)
Front(s) == IF s.err = "none" /\ s.rest # <<>> THEN Head(s.rest) ELSE ""
Is(s, tok) == Front(s) = tok
Skip(s) == [s EXCEPT !.rest = Tail(@)]

(* A bug: what is missing at the end is not missed. *)
ExpectOrEnd(s, toks) ==
  IF Front(s) \in toks THEN Skip(s)
  ELSE IF s.rest = <<>> THEN s ELSE Fatal(s, "unexpected")
(* A bug: the type of the token is compared and its text is not. *)
ExpectType(s, toks) ==
  LET like == {":", ";", "="}
  IN IF Front(s) \in (IF toks \subseteq like THEN like ELSE toks) THEN Skip(s) ELSE Fatal(s, "unexpected")
Expect(s, toks) ==
  IF Front(s) \in toks THEN Skip(s)
  ELSE Fatal(s, IF s.rest = <<>> THEN "end of input" ELSE "unexpected")
ExpectOp(s, op) == Expect(s, {op})
ExpectID(s) == Give(Expect(s, Ident), Node("ident", Front(s), <<>>))

(* loc() and front() read the token at beg, even if there is none. *)
Loc(s) == IF s.rest = <<>> THEN Fatal(s, "read past the end") ELSE s
ExpectNode(s) == IF s.node = Null THEN Fatal(Loc(s), "no node") ELSE s

(* The constructs that contain each other; Parse is defined below. *)
RECURSIVE Parse(_, _)
ParseType(s) == Parse("type", s)
ParseFuncParams(s) == Parse("params", s)
ParseNested(s) == Parse("nested", s)
ParseUnary(s) == Parse("unary", s)
ParseTern(s) == Parse("tern", s)
ParseExpr(s) == ParseTern(s)
ParseAsgn(s) == Parse("asgn", s)
ParseDecl(s, external) == Parse(IF external THEN "extern" ELSE "decl", s)
ParseStat(s) == Parse("stat", s)

(* The loops. *)
RECURSIVE ParseFields(_, _), ParseParamTypes(_, _), ParseParams(_, _), ParseExprs(_, _, _),
          ParseNestedOn(_), ParseBin(_, _), ParseBinOn(_, _), ParseStats(_, _), ParseCases(_, _),
          ExtraSemi(_), ParseGlobal(_, _)
-----------------------------------------------------------------------------
(* parse type.cpp *)
ParseRef(s) == IF Is(s, "ref") THEN Give(Skip(s), Node("ref", "", <<>>)) ELSE Give(s, Null)

(* A type with or without `ref`; then a comma or the end of the list. *)
ParseParamTypes(s, params) ==
  LET ref == ParseRef(s)
      type == ExpectNode(ParseType(ref))
      next == Expect(type, {")", ","})
      all == Append(params, Node("param", "", <<ref.node, type.node>>))
  IN IF Is(type, ",") THEN ParseParamTypes(next, all) ELSE Give(next, List(all))

ParseFuncType(s) ==
  LET open == ExpectOp(Skip(s), "(")
      params == IF Is(open, ")") THEN Give(Skip(open), List(<<>>)) ELSE ParseParamTypes(open, <<>>)
      ret == IF Is(params, "->") THEN ExpectNode(ParseType(Skip(params))) ELSE Give(params, Null)
  IN Give(ret, Node("functype", "", <<params.node, ret.node>>))

ParseArrayType(s) ==
  LET elem == ExpectNode(ParseType(Skip(s)))
  IN Give(ExpectOp(elem, "]"), Node("arraytype", "", <<elem.node>>))

ParseFields(s, fields) ==
  LET name == ExpectID(Loc(s))
      type == ExpectNode(ParseType(ExpectOp(name, ":")))
      field == Node("field", "", <<name.node, type.node>>)
  IN IF s.err # "none" \/ Is(s, "}") THEN Give(Expect(s, {"}"}), Node("struct", "", fields))
     ELSE ParseFields(ExpectOp(type, ";"), Append(fields, field))

Type(s) ==
  IF Is(s, "func") THEN ParseFuncType(s)
  ELSE IF Is(s, "[") THEN ParseArrayType(s)
  ELSE IF Front(s) \in Ident THEN Give(Skip(s), Node("named", Front(s), <<>>))
  ELSE IF Is(s, "struct") THEN ParseFields(ExpectOp(Skip(s), "{"), <<>>)
  ELSE Give(s, Null)
-----------------------------------------------------------------------------
(* parse func.cpp *)
ParseParam(s) ==
  LET name == ExpectID(Loc(s))
      ref == ParseRef(ExpectOp(name, ":"))
      type == ExpectNode(ParseType(ref))
  IN Give(type, Node("param", "", <<name.node, ref.node, type.node>>))

ParseReceiver(s) ==
  IF Is(s, "(") THEN LET param == ParseParam(Skip(s)) IN ExpectOp(param, ")") ELSE Give(s, Null)

ParseParams(s, params) ==
  LET param == ParseParam(s)
      next == Expect(param, {")", ","})
      all == Append(params, param.node)
  IN IF Is(param, ",") THEN ParseParams(next, all) ELSE Give(next, List(all))
FuncParams(s) ==
  LET open == ExpectOp(s, "(")
  IN IF Is(open, ")") THEN Give(Skip(open), List(<<>>)) ELSE ParseParams(open, <<>>)

ParseFuncRet(s) == IF Is(s, "->") THEN ExpectNode(ParseType(Skip(s))) ELSE Give(s, Null)
ParseFuncBody(s) == ExpectOp(ParseStats(ExpectOp(Loc(s), "{"), <<>>), "}")

ParseFunc(s, external) ==
  LET receiver == ParseReceiver(Skip(s))
      name == ExpectID(receiver)
      params == ParseFuncParams(name)
      ret == ParseFuncRet(params)
      body == ParseFuncBody(ret)
  IN Give(body, Node("func", external, <<receiver.node, name.node, params.node, ret.node, body.node>>))
-----------------------------------------------------------------------------
(* parse litr.cpp, parse expr.cpp *)
ParseExprs(s, exprs, end) ==
  LET expr == ExpectNode(ParseExpr(s))
      next == Expect(expr, {",", end})
      all == Append(exprs, expr.node)
  IN IF Is(expr, ",") THEN ParseExprs(next, all, end) ELSE Give(next, List(all))
ParseExprList(s, end) ==
  IF Is(s, end) THEN Give(Skip(s), List(<<>>)) ELSE ParseExprs(s, <<>>, end)

ParseLambda(s) ==
  LET params == ParseFuncParams(Skip(s))
      ret == ParseFuncRet(params)
      body == ParseFuncBody(ret)
  IN Give(body, Node("lambda", "", <<params.node, ret.node, body.node>>))

ParseLitr(s) ==
  IF Front(s) \in Literal THEN Give(Skip(s), Node("litr", Front(s), <<>>))
  ELSE IF Is(s, "[") THEN LET l == ParseExprList(Skip(s), "]") IN Give(l, Node("array", "", l.node.sub))
  ELSE IF Is(s, "{") THEN LET l == ParseExprList(Skip(s), "}") IN Give(l, Node("init", "", l.node.sub))
  ELSE IF Is(s, "func") THEN ParseLambda(s)
  ELSE Give(s, Null)

ParseTerm(s) ==
  IF Is(s, "(") THEN ExpectOp(ExpectNode(ParseExpr(Skip(s))), ")")
  ELSE IF Front(s) \in Ident THEN Give(Skip(s), Node("ident", Front(s), <<>>))
  ELSE ParseLitr(s)

(* The loop of parseNested; s.node is lhs. *)
ParseNestedOn(s) ==
  LET args == ParseExprList(Loc(Skip(s)), ")")
      index == ExpectNode(ParseExpr(Skip(s)))
      member == ExpectID(Skip(s))
  IN IF Is(s, "(") THEN ParseNestedOn(Give(args, Node("call", "", <<s.node, args.node>>)))
     ELSE IF Is(s, "[") THEN ParseNestedOn(Give(ExpectOp(index, "]"), Node("sub", "", <<s.node, index.node>>)))
     ELSE IF Is(s, ".") THEN ParseNestedOn(Give(member, Node("mem", "", <<s.node, member.node>>)))
     ELSE s
Nested(s) == LET lhs == ParseTerm(s) IN IF lhs.node = Null THEN lhs ELSE ParseNestedOn(lhs)

ParseMake(s) ==
  LET type == ExpectNode(ParseType(Skip(s)))
      expr == ExpectNode(ParseUnary(type))
  IN Give(expr, Node("make", "", <<type.node, expr.node>>))

Unary(s) ==
  IF Front(s) \in {"-", "!", "~"}
  THEN LET expr == ExpectNode(ParseUnary(Skip(s))) IN Give(expr, Node("un", Front(s), <<expr.node>>))
  ELSE IF Is(s, "make") THEN ParseMake(s) ELSE ParseNested(s)

(* parseBoolOr, parseBoolAnd, parseEq, ..., parseMul: each calls the next. *)
Levels == <<{"||"}, {"&&"}, {"==", "!="}, {"<", "<=", ">", ">="}, {"|"}, {"^"}, {"&"},
            {"<<", ">>"}, {"+", "-"}, {"*", "/", "%"}>>
ParseLower(s, level) == IF level = Len(Levels) THEN ParseUnary(s) ELSE ParseBin(s, level + 1)

(* A bug: operators of the same level are taken from the right. *)
ParseBinOnRight(s, level) ==
  LET rhs == ExpectNode(ParseBin(Skip(s), level))
  IN IF Front(s) \in Levels[level] THEN Give(rhs, Node("bin", Front(s), <<s.node, rhs.node>>)) ELSE s

ParseBinOn(s, level) ==
  LET rhs == ExpectNode(ParseLower(Skip(s), level))
  IN IF Front(s) \in Levels[level]
     THEN ParseBinOn(Give(rhs, Node("bin", Front(s), <<s.node, rhs.node>>)), level)
     ELSE s
ParseBin(s, level) ==
  LET lhs == ParseLower(s, level) IN IF lhs.node = Null THEN lhs ELSE ParseBinOn(lhs, level)

Tern(s) ==
  LET lhs == ParseBin(s, 1)
      troo == ExpectNode(ParseTern(Skip(lhs)))
      fols == ExpectNode(ParseTern(ExpectOp(troo, ":")))
  IN IF lhs.node # Null /\ Is(lhs, "?")
     THEN Give(fols, Node("tern", "", <<lhs.node, troo.node, fols.node>>))
     ELSE lhs
-----------------------------------------------------------------------------
(* parse asgn.cpp: the destination is parsed before it is known what it is *)
(* the destination of.                                                     *)
CompOps == {"+=", "-=", "*=", "/=", "%=", "<<=", ">>=", "&=", "^=", "|="}

Asgn(s) ==
  LET dst == ParseNested(s)
      src == ExpectNode(ParseExpr(Skip(dst)))
  IN IF dst.node = Null THEN dst
     ELSE IF dst.node.kind = "ident" /\ Is(dst, ":=") THEN Give(src, Node("declassign", dst.node.tok, <<src.node>>))
     ELSE IF Front(dst) \in {"++", "--"} THEN Give(Skip(dst), Node("incrdecr", Front(dst), <<dst.node>>))
     ELSE IF Front(dst) \in CompOps \union {"="}
          THEN Give(src, Node("assign", Front(dst), <<dst.node, src.node>>))
     ELSE IF dst.node.kind = "call" THEN Give(dst, Node("callassign", "", dst.node.sub))
     ELSE Fatal(dst, "unused")
-----------------------------------------------------------------------------
(* parse decl.cpp; a declaration is "extern" or "". *)
ParseTypeAfter(s) == IF Is(s, ":") THEN ExpectNode(ParseType(Skip(s))) ELSE Give(s, Null)

ParseVar(s, external) ==
  LET name == ExpectID(Skip(s))
      type == ParseTypeAfter(name)
      expr == IF Is(type, "=") THEN ExpectNode(ParseExpr(Skip(type))) ELSE Give(type, Null)
  IN Give(ExpectOp(expr, ";"), Node("var", external, <<name.node, type.node, expr.node>>))

ParseLet(s, external) ==
  LET name == ExpectID(Skip(s))
      type == ParseTypeAfter(name)
      expr == ExpectNode(ParseExpr(ExpectOp(type, "=")))
  IN Give(ExpectOp(expr, ";"), Node("let", external, <<name.node, type.node, expr.node>>))

ParseTypealias(s, external) ==
  LET name == ExpectID(IF external = "" THEN Skip(s) ELSE Fatal(Skip(s), "extern type"))
      strong == ~ Is(name, "=")
      type == ExpectNode(ParseType(IF strong THEN name ELSE Skip(name)))
  IN Give(ExpectOp(type, ";"), Node("type", IF strong THEN "strong" ELSE "weak", <<name.node, type.node>>))

Decl(s, external) ==
  IF Is(s, "func") THEN ParseFunc(s, external)
  ELSE IF Is(s, "var") THEN ParseVar(s, external)
  ELSE IF Is(s, "let") THEN ParseLet(s, external)
  ELSE IF Is(s, "type") THEN ParseTypealias(s, external)
  ELSE Give(s, Null)
-----------------------------------------------------------------------------
(* parse stat.cpp *)
ParseIf(s) ==
  LET cond == ExpectNode(ParseExpr(Skip(s)))
      body == ExpectNode(ParseStat(cond))
      elseBody == IF Is(body, "else") THEN ExpectNode(ParseStat(Skip(body))) ELSE Give(body, Null)
  IN Give(elseBody, Node("if", "", <<cond.node, body.node, elseBody.node>>))

ParseCases(s, cases) ==
  LET expr == IF Is(s, "case") THEN ExpectNode(ParseExpr(Skip(s))) ELSE Give(Skip(s), Null)
      body == ExpectNode(ParseStat(expr))
      scase == Node("case", "", <<expr.node, body.node>>)
  IN IF Is(s, "}") THEN Give(Skip(s), List(cases))
     ELSE IF Front(s) \in {"case", "default"} THEN ParseCases(body, Append(cases, scase))
     ELSE Fatal(Loc(s), "unexpected")
ParseSwitch(s) ==
  LET expr == ExpectNode(ParseExpr(Skip(s)))
      cases == ParseCases(ExpectOp(expr, "{"), <<>>)
  IN Give(cases, Node("switch", "", <<expr.node, cases.node>>))

ParseReturn(s) ==
  LET ret == Skip(s)
      expr == IF Is(ret, ";") THEN Give(ret, Null) ELSE ExpectNode(ParseExpr(ret))
  IN Give(ExpectOp(expr, ";"), Node("return", "", <<expr.node>>))

ParseWhile(s) ==
  LET cond == ExpectNode(ParseExpr(Skip(s)))
      body == ExpectNode(ParseStat(cond))
  IN Give(body, Node("while", "", <<cond.node, body.node>>))

ParseFor(s) ==
  LET init == ParseAsgn(ExpectOp(Skip(s), "("))
      cond == ExpectNode(ParseExpr(ExpectOp(init, ";")))
      incr == ParseAsgn(ExpectOp(cond, ";"))
      body == ExpectNode(ParseStat(ExpectOp(incr, ")")))
  IN Give(body, Node("for", "", <<init.node, cond.node, incr.node, body.node>>))

ParseStats(s, stats) ==
  LET stat == ParseStat(s)
  IN IF stat.node = Null THEN Give(stat, Node("block", "", stats))
     ELSE ParseStats(stat, Append(stats, stat.node))
ParseBlock(s) == ExpectOp(ParseStats(Skip(s), <<>>), "}")

ParseAsgnSemi(s) == LET asgn == ParseAsgn(s) IN IF asgn.node = Null THEN asgn ELSE ExpectOp(asgn, ";")

Stat(s) ==
  IF Is(s, "if") THEN ParseIf(s)
  ELSE IF Is(s, "switch") THEN ParseSwitch(s)
  ELSE IF Front(s) \in {"break", "continue"} THEN Give(ExpectOp(Skip(s), ";"), Node(Front(s), "", <<>>))
  ELSE IF Is(s, "return") THEN ParseReturn(s)
  ELSE IF Is(s, "while") THEN ParseWhile(s)
  ELSE IF Is(s, "for") THEN ParseFor(s)
  ELSE IF Is(s, "{") THEN ParseBlock(s)
  ELSE LET decl == ParseDecl(s, FALSE) IN IF decl.node # Null THEN decl ELSE ParseAsgnSemi(s)
-----------------------------------------------------------------------------
(* syntax analysis.cpp; `main` is the name of a module that has none. *)
ExtraSemi(s) == IF Is(s, ";") THEN ExtraSemi(Skip(s)) ELSE s

ParseGlobal(s, nodes) ==
  LET import == ExpectID(Skip(s))
      external == Is(s, "extern")
      decl == ParseDecl(IF external THEN Skip(s) ELSE s, external)
  IN IF s.err # "none" \/ s.rest = <<>> THEN Give(s, List(nodes))
     ELSE IF Is(s, "import")
          THEN ParseGlobal(ExtraSemi(ExpectOp(import, ";")), Append(nodes, Node("import", import.node.tok, <<>>)))
     ELSE IF decl.node # Null THEN ParseGlobal(ExtraSemi(decl), Append(nodes, decl.node))
     ELSE Fatal(Loc(decl), "unexpected")

Module(s) ==
  LET name == ExpectID(Skip(s))
      ast == ParseGlobal(IF Is(s, "module") THEN ExtraSemi(ExpectOp(name, ";")) ELSE s, <<>>)
  IN Give(ast, Node("module", IF Is(s, "module") THEN name.node.tok ELSE "main", ast.node.sub))

Parse(construct, s) ==
  CASE construct = "type" -> Type(s)
    [] construct = "params" -> FuncParams(s)
    [] construct = "nested" -> Nested(s)
    [] construct = "unary" -> Unary(s)
    [] construct = "tern" -> Tern(s)
    [] construct = "asgn" -> Asgn(s)
    [] construct = "decl" -> Decl(s, "")
    [] construct = "extern" -> Decl(s, "extern")
    [] construct = "stat" -> Stat(s)
    [] construct = "module" -> Module(s)
CreateAST(tokens) == Parse("module", Start(tokens))
=============================================================================
