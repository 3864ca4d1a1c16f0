------------------------------ MODULE StatGen ------------------------------
(***************************************************************************)
(* The code of a function's statements (src/CodeGen/generate stat.cpp,     *)
(* function builder.cpp), run side by side with the statements themselves. *)
(*                                                                         *)
(* The generator writes basic blocks and keeps a stack of scopes with the  *)
(* objects to destroy.  The code it writes is then executed, with every    *)
(* outcome of every condition.  StatSem says what the statements mean: the *)
(* objects they construct and destroy, the conditions they test and when   *)
(* they return; the code must do the same, in the same order.              *)
(***************************************************************************)
EXTENDS MissingReturn

CONSTANT Programs   \* functions: [body |-> statements, void |-> BOOLEAN]

VARIABLES
  code,   \* the blocks, each a sequence of instructions
  at,     \* <<block, position>> of the next instruction
  rest    \* what is left to do of the statements (StatSem)
vars == <<code, at, rest>>

(* Objects and conditions are named by the path to their statement; the    *)
(* temporary of a statement's expression has the last component 0, that of *)
(* the expression of a case has -1.                                        *)
Tmp(p) == Append(p, 0)
CaseTmp(p) == Append(p, -1)

Sem == INSTANCE StatSem
-----------------------------------------------------------------------------
(* FuncBuilder.  g is the state of the generator: the blocks, the current  *)
(* block, the scopes and the target of break and continue.                 *)
Emit(g, i) == [g EXCEPT !.blocks[g.curr] = Append(@, i)]
SetCurr(g, block) == [g EXCEPT !.curr = block]
MakeBlocks(g, n) == [g EXCEPT !.blocks = @ \o [i \in 1..n |-> <<>>]]
NumBlocks(g) == Len(g.blocks)

Br(block) == [op |-> "br", to |-> block]
Terminators == {"br", "condbr", "ret", "unreachable"}
Terminated(g) ==
  LET b == g.blocks[g.curr] IN b # <<>> /\ Last(b).op \in Terminators

(* terminate and, when dest is 0, terminateLazy: the done block is made    *)
(* for the first branch whose end is reached.                              *)
NeedsDone(g, dest) == ~ Terminated(g) /\ dest = 0
TerminateLazy(g, dest) ==
  IF Terminated(g) THEN g
  ELSE IF dest = 0 THEN Emit(MakeBlocks(g, 1), Br(NumBlocks(g) + 1))
  ELSE Emit(g, Br(dest))
LazyDest(g, dest) == IF NeedsDone(g, dest) THEN NumBlocks(g) + 1 ELSE dest

(* A bug: a block that already ends in a jump gets another one. *)
JumpToAlways(g, dest) == Emit(g, Br(dest))
JumpTo(g, dest) == IF Terminated(g) THEN g ELSE Emit(g, Br(dest))

(* nextEmpty: the current block if it is empty, or a new one. *)
NextEmpty(g) ==
  IF g.blocks[g.curr] = <<>> THEN g
  ELSE Emit(MakeBlocks(g, 1), Br(NumBlocks(g) + 1))
NextEmptyBlock(g) == IF g.blocks[g.curr] = <<>> THEN g.curr ELSE NumBlocks(g) + 1
-----------------------------------------------------------------------------
(* Scopes and objects *)
EnterScope(g) == [g EXCEPT !.scopes = Append(@, <<>>)]
LeaveScope(g) == [g EXCEPT !.scopes = Front(@)]
TopScope(g) == Len(g.scopes)

Make(g, o) == Emit(g, [op |-> "make", obj |-> o])
PushObj(g, o) == [g EXCEPT !.scopes[TopScope(g)] = Append(@, o)]

(* destroy(index): the objects of the scopes from the innermost to index. *)
Destroy(g, index) ==
  LET objects == Reverse(FlattenSeq(SubSeq(g.scopes, index, TopScope(g))))
  IN [g EXCEPT !.blocks[g.curr] =
        @ \o [i \in 1..Len(objects) |-> [op |-> "drop", obj |-> objects[i]]]]

(* An expression with a temporary object, in a scope of its own. *)
GenExpr(g, o) == PushObj(Make(g, o), o)
EndExpr(g) == LeaveScope(Destroy(g, TopScope(g)))

CondBr(g, p, troo, fols) ==
  Emit(EndExpr(GenExpr(EnterScope(g), Tmp(p))),
       [op |-> "condbr", cond |-> p, troo |-> troo, fols |-> fols])
-----------------------------------------------------------------------------
(* Statements *)
RECURSIVE Gen(_, _, _)

GenNodes(nodes, p, g) ==
  FoldLeftDomain(LAMBDA a, i : Gen(nodes[i], Append(p, i), a), g, nodes)

GenPlain(p, g) == EndExpr(GenExpr(EnterScope(g), Tmp(p)))

GenVar(p, g) == PushObj(EndExpr(Make(GenExpr(EnterScope(g), Tmp(p)), p)), p)

(* visitFlow *)
GenFlow(body, p, g, brk, cont, scope) ==
  LET flow == [brk |-> brk, cont |-> cont, scope |-> scope]
  IN [Gen(body, p, [g EXCEPT !.flow = flow]) EXCEPT !.flow = g.flow]

GenIf(s, p, g) ==
  LET troo == NumBlocks(g) + 1
      fols == NumBlocks(g) + 2
      g1 == Gen(s.b[1], Append(p, 1), SetCurr(CondBr(MakeBlocks(g, 2), p, troo, fols), troo))
      done == LazyDest(g1, 0)
      g2 == SetCurr(TerminateLazy(g1, 0), fols)
      g3 == IF Len(s.b) = 2 THEN Gen(s.b[2], Append(p, 2), g2) ELSE g2
      end == LazyDest(g3, done)
      g4 == TerminateLazy(g3, done)
  IN IF end = 0 THEN g4 ELSE SetCurr(g4, end)

GenWhile(s, p, g) ==
  LET cond == NextEmptyBlock(g)
      g1 == NextEmpty(g)
      body == NumBlocks(g1) + 1
      done == NumBlocks(g1) + 2
      g2 == EnterScope(SetCurr(MakeBlocks(g1, 2), body))
      g3 == LeaveScope(GenFlow(s.b[1], Append(p, 1), g2, done, cond, TopScope(g2)))
      g4 == SetCurr(JumpTo(g3, cond), cond)
  IN SetCurr(CondBr(g4, p, body, done), done)

(* A for statement whose init declares an object, with an incr. *)
GenFor(s, p, g) ==
  LET g0 == GenVar(Append(p, 2), EnterScope(g))
      outer == TopScope(g0)
      cond == NextEmptyBlock(g0)
      g1 == NextEmpty(g0)
      body == NumBlocks(g1) + 1
      incr == NumBlocks(g1) + 2
      done == NumBlocks(g1) + 3
      g2 == EnterScope(SetCurr(MakeBlocks(g1, 3), body))
      g3 == LeaveScope(GenFlow(s.b[1], Append(p, 1), g2, done, incr, TopScope(g2)))
      g4 == CondBr(SetCurr(JumpTo(g3, incr), cond), p, body, done)
      g5 == Emit(GenPlain(Append(p, 3), SetCurr(g4, incr)), Br(cond))
  IN LeaveScope(Destroy(SetCurr(g5, done), outer))

(* emitCaseChecks and the link to the default case: the checks are chained *)
(* in their order, without the default, which the last block leads to.     *)
CheckIndex(s, c) == IF s.dflt # 0 /\ c > s.dflt THEN c - 1 ELSE c
NextCheck(s, c, check, done) ==
  IF c = Len(s.b) /\ (s.dflt = 0 \/ c <= s.dflt) THEN done ELSE check + CheckIndex(s, c)

GenChecks(s, p, g, check, case, done) ==
  LET step(a, c) ==
        IF c = s.dflt THEN a
        ELSE LET q == Append(p, c)
                 a1 == EnterScope(SetCurr(a, check + CheckIndex(s, c) - 1))
             IN Emit(EndExpr(GenExpr(a1, CaseTmp(q))),
                     [op |-> "condbr", cond |-> CaseTmp(q), troo |-> case + c - 1,
                      fols |-> NextCheck(s, c, check, done)])
      end == FoldLeftDomain(step, g, s.b)
  IN IF s.dflt = 0 THEN end
     ELSE Emit(SetCurr(end, check + Len(s.b) - 1), Br(case + s.dflt - 1))

GenCase(s, p, g, c, case, done) ==
  LET g1 == EnterScope(SetCurr(g, case + c - 1))
      next == IF c = Len(s.b) THEN 0 ELSE case + c
      g2 == GenFlow(s.b[c], Append(p, c), g1, done, next, TopScope(g1))
  IN JumpTo(LeaveScope(g2), done)

(* The expression that is tested is a number. *)
GenSwitch(s, p, g) ==
  LET g1 == EnterScope(g)
      n == Len(s.b)
      check == NumBlocks(g1) + 1
      case == check + n
      done == case + n
      g2 == Emit(MakeBlocks(g1, 2 * n + 1), Br(check))
      g3 == GenChecks(s, p, g2, check, case, done)
      g4 == SetCurr(FoldLeftDomain(LAMBDA a, c : GenCase(s, p, a, c, case, done), g3, s.b), done)
  IN IF n = 0 THEN EndExpr(g1)
     ELSE LeaveScope(IF s.always THEN Emit(g4, [op |-> "unreachable"])
                     ELSE Destroy(g4, TopScope(g4)))

GenTerminate(g) == Destroy(g, TopScope(g))

(* A bug: only the innermost scope is left. *)
GenBreakInner(g) == Emit(Destroy(g, TopScope(g)), Br(g.flow.brk))
GenBreak(g) == Emit(Destroy(g, g.flow.scope), Br(g.flow.brk))
GenContinue(g) == Emit(Destroy(g, g.flow.scope), Br(g.flow.cont))

(* The temporaries of the returned expression join the innermost scope. *)
GenReturn(s, p, g) ==
  Emit(Destroy(IF s.expr THEN GenExpr(g, Tmp(p)) ELSE g, 1), [op |-> "ret"])

Gen(s, p, g) ==
  CASE s.k = "plain" -> GenPlain(p, g)
    [] s.k = "var" -> GenVar(p, g)
    [] s.k = "block" -> LeaveScope(GenNodes(s.b, p, EnterScope(g)))
    [] s.k = "if" -> GenIf(s, p, g)
    [] s.k = "while" -> GenWhile(s, p, g)
    [] s.k = "for" -> GenFor(s, p, g)
    [] s.k = "switch" -> GenSwitch(s, p, g)
    [] s.k = "terminate" -> GenTerminate(g)
    [] s.k = "break" -> GenBreak(g)
    [] s.k = "continue" -> GenContinue(g)
    [] s.k = "return" -> GenReturn(s, p, g)

(* generateStat, in the block that FuncBuilder starts with. *)
GenerateStat(body) ==
  GenNodes(body, <<>>, [blocks |-> <<<<>>>>, curr |-> 1, scopes |-> <<<<>>>>,
                        flow |-> [brk |-> 0, cont |-> 0, scope |-> 0]]).blocks
-----------------------------------------------------------------------------
(* Execution *)
Init == \E f \in Programs :
  LET checked == CheckMissingRet(f.body, f.void)
  IN /\ checked.err = "none"
     /\ code = GenerateStat(checked.s)
     /\ at = <<1, 1>>
     /\ rest = Sem!Start(f.body, f.void)

InBlock == at[2] <= Len(code[at[1]])
Instr == code[at[1]][at[2]]
Ahead == at' = <<at[1], at[2] + 1>>
(* The statements come to the same. *)
Agree == rest # <<>> /\ Sem!Label(rest) = Instr

Execute ==
  /\ InBlock
  /\ Instr.op \in {"make", "drop"} /\ Agree
  /\ Ahead
  /\ rest' = Sem!Then(rest)
  /\ UNCHANGED code

Jump ==
  /\ InBlock
  /\ Instr.op = "br" /\ Instr.to # 0
  /\ at' = <<Instr.to, 1>>
  /\ UNCHANGED <<code, rest>>

Test ==
  /\ InBlock
  /\ Instr.op = "condbr" /\ Sem!Tests(rest, Instr.cond)
  /\ \E outcome \in BOOLEAN :
       /\ at' = <<IF outcome THEN Instr.troo ELSE Instr.fols, 1>>
       /\ rest' = Sem!Branch(rest, outcome)
  /\ UNCHANGED code

Next == Execute \/ Jump \/ Test

Spec == Init /\ [][Next]_vars
-----------------------------------------------------------------------------
(* The code follows the statements: what it is about to construct or       *)
(* destroy, to test or to return from is what they do next, and it never   *)
(* runs out of a block or jumps to nowhere.  In particular every way out   *)
(* of a scope destroys exactly the objects constructed on the way in, in   *)
(* the reverse order.                                                      *)
FollowsSource ==
  /\ InBlock
  /\ Instr.op \in {"make", "drop", "ret"} => Agree
  /\ Instr.op = "condbr" => Sem!Tests(rest, Instr.cond)
  /\ Instr.op = "br" => Instr.to # 0

(* A switch that is compiled as one that always returns does so: the code  *)
(* never arrives behind it.                                                *)
ReturnsWhenAccepted == InBlock => Instr.op # "unreachable"

(* What llvm::verifyModule checks of the blocks (code generation.cpp): no  *)
(* terminator in the middle of a block.                                    *)
WellFormed == \A b \in DOMAIN code : \A i \in DOMAIN code[b] :
  code[b][i].op \in Terminators => i = Len(code[b])
=============================================================================
