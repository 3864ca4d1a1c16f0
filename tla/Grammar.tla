------------------------------ MODULE Grammar ------------------------------
(***************************************************************************)
(* How a syntax tree is written: the reference for the parser.  A tree has *)
(* one canonical text, with parentheses only where an operand binds less   *)
(* tightly than the place it stands in requires.                           *)
(***************************************************************************)
EXTENDS Integers, Sequences, SequencesExt

RECURSIVE Text(_)

(* How tightly an expression holds together. *)
Unary == 12
Nested == 13
Binds(op) ==
  CASE op = "||" -> 2
    [] op = "&&" -> 3
    [] op \in {"==", "!="} -> 4
    [] op \in {"<", "<=", ">", ">="} -> 5
    [] op = "|" -> 6
    [] op = "^" -> 7
    [] op = "&" -> 8
    [] op \in {"<<", ">>"} -> 9
    [] op \in {"+", "-"} -> 10
    [] op \in {"*", "/", "%"} -> 11
Tightness(node) ==
  CASE node.kind = "tern" -> 1
    [] node.kind = "bin" -> Binds(node.tok)
    [] node.kind \in {"un", "make"} -> Unary
    [] OTHER -> Nested

(* An operand in a place that requires at least this tightness. *)
Operand(node, tightness) ==
  IF Tightness(node) < tightness THEN <<"(">> \o Text(node) \o <<")">> ELSE Text(node)

IsNull(node) == node.kind = "null"
Optional(tok, node) == IF IsNull(node) THEN <<>> ELSE <<tok>> \o Text(node)
Texts(nodes) == FlattenSeq([i \in DOMAIN nodes |-> Text(nodes[i])])
Commas(nodes) == FlattenSeq([i \in DOMAIN nodes |-> (IF i = 1 THEN <<>> ELSE <<",">>) \o Text(nodes[i])])
Listed(node) == Text([node EXCEPT !.kind = "list"])

TypeText(node) ==
  LET sub == node.sub
  IN CASE node.kind = "named" -> <<node.tok>>
       [] node.kind = "arraytype" -> <<"[">> \o Text(sub[1]) \o <<"]">>
       [] node.kind = "functype" -> <<"func", "(">> \o Text(sub[1]) \o <<")">> \o Optional("->", sub[2])
       [] node.kind = "struct" -> <<"struct", "{">> \o Texts(sub) \o <<"}">>
       [] node.kind = "field" -> Text(sub[1]) \o <<":">> \o Text(sub[2]) \o <<";">>
       [] node.kind = "ref" -> <<"ref">>
       [] node.kind = "null" -> <<>>

ExprText(node) ==
  LET sub == node.sub
  IN CASE node.kind \in {"ident", "litr"} -> <<node.tok>>
       [] node.kind = "array" -> <<"[">> \o Listed(node) \o <<"]">>
       [] node.kind = "init" -> <<"{">> \o Listed(node) \o <<"}">>
       [] node.kind = "lambda" -> <<"func", "(">> \o Text(sub[1]) \o <<")">> \o Optional("->", sub[2]) \o Text(sub[3])
       [] node.kind \in {"call", "callassign"} -> Operand(sub[1], Nested) \o <<"(">> \o Text(sub[2]) \o <<")">>
       [] node.kind = "sub" -> Operand(sub[1], Nested) \o <<"[">> \o Text(sub[2]) \o <<"]">>
       [] node.kind = "mem" -> Operand(sub[1], Nested) \o <<".">> \o Text(sub[2])
       [] node.kind = "un" -> <<node.tok>> \o Operand(sub[1], Unary)
       [] node.kind = "make" -> <<"make">> \o Text(sub[1]) \o Operand(sub[2], Unary)
       [] node.kind = "bin" -> Operand(sub[1], Binds(node.tok)) \o <<node.tok>> \o Operand(sub[2], Binds(node.tok) + 1)
       [] node.kind = "tern" -> Operand(sub[1], 2) \o <<"?">> \o Text(sub[2]) \o <<":">> \o Text(sub[3])

AsgnText(node) ==
  LET sub == node.sub
  IN CASE node.kind = "declassign" -> <<node.tok, ":=">> \o Text(sub[1])
       [] node.kind = "incrdecr" -> Operand(sub[1], Nested) \o <<node.tok>>
       [] node.kind = "assign" -> Operand(sub[1], Nested) \o <<node.tok>> \o Text(sub[2])
       [] OTHER -> ExprText(node)

(* An assignment is a statement with a semicolon, and without one in the   *)
(* head of a `for`.                                                        *)
Asgns == {"declassign", "incrdecr", "assign", "callassign"}
InHead(node) == IF IsNull(node) THEN <<>> ELSE AsgnText(node)

StatText(node) ==
  LET sub == node.sub
  IN CASE node.kind \in Asgns -> AsgnText(node) \o <<";">>
       [] node.kind \in {"break", "continue"} -> <<node.kind, ";">>
       [] node.kind = "return" -> <<"return">> \o Text(sub[1]) \o <<";">>
       [] node.kind = "block" -> <<"{">> \o Texts(sub) \o <<"}">>
       [] node.kind = "if" -> <<"if">> \o Text(sub[1]) \o Text(sub[2]) \o Optional("else", sub[3])
       [] node.kind = "while" -> <<"while">> \o Text(sub[1]) \o Text(sub[2])
       [] node.kind = "for" -> <<"for", "(">> \o InHead(sub[1]) \o <<";">> \o Text(sub[2]) \o <<";">>
                                 \o InHead(sub[3]) \o <<")">> \o Text(sub[4])
       [] node.kind = "switch" -> <<"switch">> \o Text(sub[1]) \o <<"{">> \o Texts(sub[2].sub) \o <<"}">>
       [] node.kind = "case" -> (IF IsNull(sub[1]) THEN <<"default">> ELSE <<"case">> \o Text(sub[1])) \o Text(sub[2])

DeclText(node) ==
  LET sub == node.sub
      extern == IF node.tok = "extern" THEN <<"extern">> ELSE <<>>
  IN CASE node.kind \in {"var", "let"} ->
            extern \o <<node.kind>> \o Text(sub[1]) \o Optional(":", sub[2]) \o Optional("=", sub[3]) \o <<";">>
       [] node.kind = "type" -> <<"type">> \o Text(sub[1]) \o (IF node.tok = "weak" THEN <<"=">> ELSE <<>>)
                                  \o Text(sub[2]) \o <<";">>
       [] node.kind = "func" -> extern \o <<"func">> \o (IF IsNull(sub[1]) THEN <<>> ELSE <<"(">> \o Text(sub[1]) \o <<")">>)
                                  \o Text(sub[2]) \o <<"(">> \o Text(sub[3]) \o <<")">>
                                  \o Optional("->", sub[4]) \o Text(sub[5])
       [] node.kind = "import" -> <<"import", node.tok, ";">>

(* A parameter has a name in a function and none in the type of one. *)
ParamText(node) ==
  IF Len(node.sub) = 2 THEN Texts(node.sub)
  ELSE Text(node.sub[1]) \o <<":">> \o Text(node.sub[2]) \o Text(node.sub[3])

Types == {"named", "arraytype", "functype", "struct", "field", "ref", "null"}
Stats == Asgns \union {"break", "continue", "return", "block", "if", "while", "for", "switch", "case"}
Decls == {"var", "let", "type", "func", "import"}
Text(node) ==
  CASE node.kind \in Types -> TypeText(node)
    [] node.kind \in Stats -> StatText(node)
    [] node.kind \in Decls -> DeclText(node)
    [] node.kind = "list" -> Commas(node.sub)
    [] node.kind = "param" -> ParamText(node)
    [] node.kind = "module" -> (IF node.tok = "main" THEN <<>> ELSE <<"module", node.tok, ";">>) \o Texts(node.sub)
    [] OTHER -> ExprText(node)
=============================================================================
