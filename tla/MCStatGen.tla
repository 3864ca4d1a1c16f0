----------------------------- MODULE MCStatGen -----------------------------
(***************************************************************************)
(* Functions with a loop or a switch whose body holds conditional jumps,   *)
(* possibly inside another loop or switch, before and after objects.       *)
(***************************************************************************)
EXTENDS StatGen

Bare == {<<>>, <<Plain>>, <<Var, Plain>>}
Leaves == {<<Break>>, <<Continue>>, <<Var, Break>>, <<Var, Continue>>}
Ends(r) == Bare \union Leaves \union {<<r>>, <<Var, r>>}

Blocks(bodies) == {Block(b) : b \in bodies}
Ifs(bodies) == {If(b) : b \in Blocks(bodies)} \union
               {IfElse(b[1], b[2]) : b \in Blocks(bodies) \X Blocks(bodies)}
(* Something before and after a statement. *)
Around(stats, r) ==
  {<<s>> : s \in stats} \union {<<Var, s>> : s \in stats} \union
  {<<Var, s, Var, r>> : s \in stats} \union {<<s, Plain>> : s \in stats}
Loops(bodies) == {While(b) : b \in Blocks(bodies)} \union {For(b) : b \in Blocks(bodies)}
Switches(bodies) ==
  {Switch(<<b[1], b[2]>>, d) : b \in Blocks(bodies) \X Blocks(bodies), d \in 0..2}
    \union {Switch(<<>>, 0)}
Triples(bodies, r) ==
  {Switch(<<Block(<<Continue>>), b, Block(<<Var, r>>)>>, d) : b \in Blocks(bodies), d \in 0..3}

Flows(r) ==
  Loops(Ends(r) \union Around(Ifs(Ends(r)), r)) \union Switches(Ends(r))
    \union Triples(Around({If(Block(e)) : e \in Ends(r)}, r), r)
Nested(r) ==
  LET inner == Loops(Ends(r)) \union Triples(Ends(r), r)
  IN {While(Block(<<Var, s, Plain>>)) : s \in inner}
       \union {Switch(<<Block(<<Var, s>>), Block(<<Break>>)>>, 0) : s \in inner}

Bodies(r) == UNION {{<<s>>, <<Var, s, r>>} : s \in Flows(r) \union Nested(r)}
               \union Around(Ifs(Bare \union {<<r>>, <<Var, r>>}), r)

Functions ==
  {[body |-> b, void |-> FALSE] : b \in Bodies(Return)} \union
  {[body |-> b, void |-> TRUE] : b \in Bodies(ReturnVoid)}

(* Statements that a continue, or also a break, leaves, and those that may *)
(* return.                                                                 *)
RECURSIVE GoesOn(_), Escapes(_), MayReturn(_), Tidy(_)
GoesOn(s) ==
  \/ s.k = "continue"
  \/ s.k \in {"block", "if"} /\ \E i \in DOMAIN s.b : GoesOn(s.b[i])
Escapes(s) ==
  \/ s.k \in {"break", "continue"}
  \/ s.k \in {"block", "if"} /\ \E i \in DOMAIN s.b : Escapes(s.b[i])
MayReturn(s) ==
  \/ s.k = "return"
  \/ s.k \in {"block", "if", "while", "for", "switch"} /\ \E i \in DOMAIN s.b : MayReturn(s.b[i])

End(s) == s.b[Len(s.b)].k
Jumps(s) == s.b # <<>> /\ End(s) \in {"break", "continue", "return"}

(* The functions that the analysis in check missing return.cpp judges      *)
(* right: no block both returns and breaks or continues, the branches of an if *)
(* do not jump differently, a case of a switch with a default that breaks  *)
(* or continues does nothing else, and no last case continues.             *)
Tidy(s) ==
  s.k \in {"block", "if", "while", "for", "switch"} =>
    /\ \A i \in DOMAIN s.b : Tidy(s.b[i])
    /\ s.k = "block" => ~ (Escapes(s) /\ MayReturn(s))
    /\ s.k = "if" /\ Len(s.b) = 2 => ~ (Jumps(s.b[1]) /\ Jumps(s.b[2]) /\ End(s.b[1]) # End(s.b[2]))
    /\ s.k = "switch" /\ s.dflt # 0 =>
         \A i \in DOMAIN s.b : Escapes(s.b[i]) => Len(s.b[i].b) = 1
    /\ s.k = "switch" /\ s.b # <<>> => ~ GoesOn(s.b[Len(s.b)])

TidyFunctions == {f \in Functions : Tidy(Block(f.body))}

Function(body) == {[body |-> body, void |-> FALSE]}

(* switch (x) { case 5 { return 2.0; } default { y = 1; break; } }          *)
BreakAfterPlain == Function(<<Switch(<<Block(<<Return>>), Block(<<Plain, Break>>)>>, 2)>>)
=============================================================================
