------------------------------- MODULE Format -------------------------------
(***************************************************************************)
(* format.cpp and plain format.cpp: a syntax tree (of module Parser) is    *)
(* printed.  The text keeps every space and newline between the tokens;    *)
(* indentation and colours are left out.                                   *)
(***************************************************************************)
EXTENDS Integers, Sequences

Join(texts) == LET upTo[i \in 0..Len(texts)] == IF i = 0 THEN "" ELSE upTo[i - 1] \o texts[i] IN upTo[Len(texts)]
IsNull(node) == node.kind = "null"
PushKey(key) == key \o " "

RECURSIVE Visit(_)
PrintEach(nodes, behind) == Join([i \in DOMAIN nodes |-> Visit(nodes[i]) \o behind])

(* pushExprs, pushParams *)
PrintList(nodes) == Join([i \in DOMAIN nodes |-> Visit(nodes[i]) \o (IF i < Len(nodes) THEN ", " ELSE "")])
PushRef(ref) == IF IsNull(ref) THEN "" ELSE PushKey("ref")
(* A parameter has a name in a function and none in the type of one. *)
PushParam(sub) ==
  IF Len(sub) = 2 THEN PushRef(sub[1]) \o Visit(sub[2])
  ELSE Visit(sub[1]) \o ": " \o PushRef(sub[2]) \o Visit(sub[3])
Parens(node) == "(" \o Visit(node) \o ")"

PrintType(node) ==
  LET sub == node.sub
  IN CASE node.kind = "named" -> node.tok
       [] node.kind = "arraytype" -> "[" \o Visit(sub[1]) \o "]"
       [] node.kind = "functype" -> PushKey("func") \o "(" \o PrintList(sub[1].sub) \o ")"
                                      \o (IF IsNull(sub[2]) THEN "" ELSE " -> " \o Visit(sub[2]))
       [] node.kind = "struct" -> PushKey("struct") \o (IF sub = <<>> THEN "{}" ELSE "{\n" \o PrintEach(sub, "\n") \o "}")
       [] node.kind = "field" -> Visit(sub[1]) \o ": " \o Visit(sub[2]) \o ";"
       [] node.kind = "param" -> PushParam(sub)

(* A bug: the operands of a ternary are printed in another order. *)
PrintTernSwapped(sub) == Visit(sub[1]) \o " ? " \o Visit(sub[3]) \o " : " \o Visit(sub[2])
PrintTern(sub) == Visit(sub[1]) \o " ? " \o Visit(sub[2]) \o " : " \o Visit(sub[3])

(* No operand is put in parentheses but that of make. *)
PrintExpr(node) ==
  LET sub == node.sub
  IN CASE node.kind \in {"ident", "litr"} -> node.tok
       [] node.kind = "bin" -> Visit(sub[1]) \o " " \o node.tok \o " " \o Visit(sub[2])
       [] node.kind = "un" -> node.tok \o Visit(sub[1])
       [] node.kind = "call" -> Visit(sub[1]) \o "(" \o PrintList(sub[2].sub) \o ")"
       [] node.kind = "mem" -> Visit(sub[1]) \o "." \o Visit(sub[2])
       [] node.kind = "sub" -> Visit(sub[1]) \o "[" \o Visit(sub[2]) \o "]"
       [] node.kind = "tern" -> PrintTern(sub)
       [] node.kind = "make" -> PushKey("make") \o Visit(sub[1]) \o " " \o Parens(sub[2])
       [] node.kind = "array" -> "[" \o PrintList(sub) \o "]"
       [] node.kind = "init" -> "{" \o PrintList(sub) \o "}"

PushRet(ret) == IF IsNull(ret) THEN "" ELSE "-> " \o Visit(ret) \o " "
PrintBlock(stats) == IF stats = <<>> THEN "{}" ELSE "{\n" \o PrintEach(stats, "\n") \o "}"

(* The increment of a `for` loses the semicolon that it is printed with. *)
PrintFor(sub) ==
  LET incr == Visit(sub[3])
  IN PushKey("for") \o "(" \o (IF IsNull(sub[1]) THEN ";" ELSE Visit(sub[1])) \o " " \o Visit(sub[2]) \o "; "
       \o (IF IsNull(sub[3]) THEN "" ELSE SubSeq(incr, 1, Len(incr) - 1)) \o ") " \o Visit(sub[4])

PrintStat(node) ==
  LET sub == node.sub
  IN CASE node.kind = "block" -> PrintBlock(sub)
       [] node.kind = "if" -> PushKey("if") \o Parens(sub[1]) \o " " \o Visit(sub[2])
                                \o (IF IsNull(sub[3]) THEN "" ELSE " " \o PushKey("else") \o Visit(sub[3]))
       [] node.kind = "switch" -> PushKey("switch") \o Parens(sub[1]) \o " " \o PrintBlock(sub[2].sub)
       [] node.kind = "case" -> (IF IsNull(sub[1]) THEN PushKey("default") ELSE PushKey("case") \o Parens(sub[1]) \o " ")
                                  \o Visit(sub[2])
       [] node.kind \in {"break", "continue"} -> node.kind \o ";"
       [] node.kind = "return" -> "return" \o (IF IsNull(sub[1]) THEN "" ELSE " " \o Visit(sub[1])) \o ";"
       [] node.kind = "while" -> PushKey("while") \o Parens(sub[1]) \o " " \o Visit(sub[2])
       [] node.kind = "for" -> PrintFor(sub)
       [] node.kind = "assign" -> Visit(sub[1]) \o " " \o node.tok \o " " \o Visit(sub[2]) \o ";"
       [] node.kind = "incrdecr" -> Visit(sub[1]) \o node.tok \o ";"
       [] node.kind = "declassign" -> node.tok \o " := " \o Visit(sub[1]) \o ";"
       [] node.kind = "callassign" -> Visit(sub[1]) \o "(" \o PrintList(sub[2].sub) \o ");"

PushExtern(node) == IF node.tok = "extern" THEN PushKey("extern") ELSE ""
PrintDecl(node) ==
  LET sub == node.sub
  IN CASE node.kind = "func" ->
            PushExtern(node) \o PushKey("func") \o (IF IsNull(sub[1]) THEN "" ELSE Parens(sub[1]) \o " ")
              \o Visit(sub[2]) \o "(" \o PrintList(sub[3].sub) \o ") " \o PushRet(sub[4]) \o Visit(sub[5])
       [] node.kind = "lambda" -> PushKey("func") \o "(" \o PrintList(sub[1].sub) \o ") " \o PushRet(sub[2]) \o Visit(sub[3])
       [] node.kind \in {"var", "let"} ->
            PushExtern(node) \o PushKey(node.kind) \o Visit(sub[1]) \o (IF IsNull(sub[2]) THEN "" ELSE ": " \o Visit(sub[2]))
              \o (IF IsNull(sub[3]) THEN "" ELSE " = " \o Visit(sub[3])) \o ";"
       [] node.kind = "type" ->
            PushKey("type") \o Visit(sub[1]) \o " " \o (IF node.tok = "weak" THEN "= " ELSE "") \o Visit(sub[2]) \o ";"

Types == {"named", "arraytype", "functype", "struct", "field", "param"}
Decls == {"func", "lambda", "var", "let", "type"}
Exprs == {"ident", "litr", "bin", "un", "call", "mem", "sub", "tern", "make", "array", "init"}
Visit(node) ==
  CASE node.kind \in Types -> PrintType(node)
    [] node.kind \in Decls -> PrintDecl(node)
    [] node.kind \in Exprs -> PrintExpr(node)
    [] node.kind = "null" -> ""
    [] OTHER -> PrintStat(node)

(* format(AST): the declarations; the name of the module and what it       *)
(* imports are not among them.                                             *)
FormatAST(module) ==
  LET global == SelectSeq(module.sub, LAMBDA node : node.kind # "import") IN PrintEach(global, "\n\n")
=============================================================================
