---------------------------- MODULE ModuleOrder ----------------------------
(***************************************************************************)
(* Module ordering and compilation (src/Semantic/modules.cpp and           *)
(* src/Semantic/semantic analysis.cpp).                                    *)
(*                                                                         *)
(* findModuleOrder is a depth-first search over the imports of the ASTs;   *)
(* compileModules then analyses the ASTs in the order it returned.  The    *)
(* recursion of Visitor::visit is an explicit call stack here: `stack` is  *)
(* the code's own vector, and dep[i] is the position of the range-for over *)
(* asts[i].imports in the activation of visit(i).  An AST is activated at  *)
(* most once (the `visited` guard), so one position per AST is enough.     *)
(***************************************************************************)
EXTENDS Naturals, Sequences, Functions

CONSTANTS
  Name,            \* module names
  AstsInputs,      \* the lists of ASTs the embedding program may pass
  CompiledInputs   \* the lists of already compiled modules it may pass

AST == [name : Name, imports : Seq(Name)]

ASSUME InputsAssumption ==
  /\ AstsInputs \subseteq Seq(AST)
  /\ CompiledInputs \subseteq Seq(Name)

VARIABLES
  asts,      \* ASTs: the input, never changed
  compiled,  \* names of modules compiled earlier, never changed
  phase,     \* which function is running, or the fatal error it ended with
  root,      \* the loop variable of Visitor::visit()
  stack,     \* Visitor::stack
  dep,       \* position in asts[i].imports of each activation of visit(i)
  visited,   \* Visitor::visited
  order,     \* Visitor::order
  scopes     \* the module scopes of Symbols::scopes, outermost first

vars == <<asts, compiled, phase, root, stack, dep, visited, order, scopes>>
input == <<asts, compiled>>

Phase == {"check", "visit", "compile", "done", "duplicate", "cyclic", "notfound"}
Failed == {"duplicate", "cyclic", "notfound"}

Index == 1..Len(asts)
Top == stack[Len(stack)]

(* asts[i] imports the module that asts[j] holds. *)
Imports(i, j) == \E k \in 1..Len(asts[i].imports) : asts[i].imports[k] = asts[j].name

(* The index the loop of visit(name) stops at: the first AST of that name. *)
Holders(name) == {i \in Index : asts[i].name = name}
FirstHolder(name) == CHOOSE i \in Holders(name) : \A j \in Holders(name) : i <= j

-----------------------------------------------------------------------------
Init ==
  /\ asts \in AstsInputs
  /\ compiled \in CompiledInputs
  /\ phase = "check"
  /\ root = 1
  /\ stack = <<>>
  /\ dep = [i \in Index |-> 1]
  /\ visited = [i \in Index |-> FALSE]
  /\ order = <<>>
  /\ scopes = <<>>

(* The sorted list of all names has two equal neighbours. *)
DuplicateNames ==
  LET names == [k \in 1..(Len(asts) + Len(compiled)) |->
                  IF k <= Len(asts) THEN asts[k].name ELSE compiled[k - Len(asts)]]
  IN  \E k, l \in DOMAIN names : k # l /\ names[k] = names[l]

CheckDuplicateModules ==
  /\ phase = "check"
  /\ phase' = IF DuplicateNames THEN "duplicate" ELSE "visit"
  /\ UNCHANGED <<input, root, stack, dep, visited, order, scopes>>

(* The body of visit(index) up to its loop, for an index not yet visited. *)
EnterVisit(i) ==
  /\ visited' = [visited EXCEPT ![i] = TRUE]
  /\ stack' = Append(stack, i)

(* One round of the loop of Visitor::visit(). *)
VisitRoot ==
  /\ phase = "visit"
  /\ stack = <<>>
  /\ root <= Len(asts)
  /\ root' = root + 1
  /\ IF visited[root] THEN UNCHANGED <<visited, stack>> ELSE EnterVisit(root)
  /\ UNCHANGED <<input, phase, dep, order, scopes>>

(* The name the loop over the imports of the AST on top is at. *)
CurrentDep == asts[Top].imports[dep[Top]]
AtDep ==
  /\ phase = "visit"
  /\ stack # <<>>
  /\ dep[Top] <= Len(asts[Top].imports)

AdvanceDep == dep' = [dep EXCEPT ![Top] = @ + 1]

(* A bug: a module that was visited before is taken for one on the stack. *)
CheckCycleVisited ==
  /\ AtDep
  /\ Holders(CurrentDep) # {}
  /\ visited[FirstHolder(CurrentDep)]
  /\ phase' = "cyclic"
  /\ UNCHANGED <<input, root, stack, dep, visited, order, scopes>>

(* visit(name) finds an AST of that name that is being visited: checkCycle. *)
CheckCycle ==
  /\ AtDep
  /\ Holders(CurrentDep) # {}
  /\ FirstHolder(CurrentDep) \in Range(stack)
  /\ phase' = "cyclic"
  /\ UNCHANGED <<input, root, stack, dep, visited, order, scopes>>

(* A bug: the loop over the imports does not move on. *)
VisitDepStays ==
  /\ AtDep
  /\ Holders(CurrentDep) # {}
  /\ LET i == FirstHolder(CurrentDep)
     IN  /\ i \notin Range(stack)
         /\ IF visited[i] THEN UNCHANGED <<visited, stack>> ELSE EnterVisit(i)
  /\ UNCHANGED <<input, phase, root, dep, order, scopes>>

(* visit(name) finds an AST of that name and visits it unless that is done. *)
VisitDep ==
  /\ AtDep
  /\ Holders(CurrentDep) # {}
  /\ LET i == FirstHolder(CurrentDep)
     IN  /\ i \notin Range(stack)
         /\ AdvanceDep
         /\ IF visited[i] THEN UNCHANGED <<visited, stack>> ELSE EnterVisit(i)
  /\ UNCHANGED <<input, phase, root, order, scopes>>

(* visit(name) finds no AST of that name: fine only if it is compiled. *)
VisitOther ==
  /\ AtDep
  /\ Holders(CurrentDep) = {}
  /\ IF CurrentDep \in Range(compiled)
     THEN AdvanceDep /\ UNCHANGED phase
     ELSE phase' = "notfound" /\ UNCHANGED dep
  /\ UNCHANGED <<input, root, stack, visited, order, scopes>>

(* A bug: a module enters the order before its imports are visited. *)
LeaveVisitEarly ==
  /\ phase = "visit"
  /\ stack # <<>>
  /\ stack' = SubSeq(stack, 1, Len(stack) - 1)
  /\ order' = Append(order, Top)
  /\ UNCHANGED <<input, phase, root, dep, visited, scopes>>

(* A bug: stack.size() is appended to the order, not stack.back(): an      *)
(* index that is not of any AST if all of them are on the stack.           *)
LeaveVisitSize ==
  /\ phase = "visit"
  /\ stack # <<>>
  /\ dep[Top] > Len(asts[Top].imports)
  /\ stack' = SubSeq(stack, 1, Len(stack) - 1)
  /\ order' = Append(order, Len(stack) + 1)
  /\ UNCHANGED <<input, phase, root, dep, visited, scopes>>

(* The loop over the imports is over: the end of visit(index). *)
LeaveVisit ==
  /\ phase = "visit"
  /\ stack # <<>>
  /\ dep[Top] > Len(asts[Top].imports)
  /\ stack' = SubSeq(stack, 1, Len(stack) - 1)
  /\ order' = Append(order, Top)
  /\ UNCHANGED <<input, phase, root, dep, visited, scopes>>

(* findModuleOrder returns and compileModules starts. *)
ReturnOrder ==
  /\ phase = "visit"
  /\ stack = <<>>
  /\ root > Len(asts)
  /\ phase' = "compile"
  /\ UNCHANGED <<input, root, stack, dep, visited, order, scopes>>

(* A bug: the ASTs are analysed in the order they were passed. *)
CompileModuleUnordered ==
  /\ phase = "compile"
  /\ Len(scopes) < Len(order)
  /\ scopes' = Append(scopes, Len(scopes) + 1)
  /\ phase' = IF Len(scopes') = Len(order) THEN "done" ELSE "compile"
  /\ UNCHANGED <<input, root, stack, dep, visited, order>>

(* compileModuleImpl: the scope of the next AST is opened inside the last  *)
(* module's scope (syms.global) and becomes syms.global.                   *)
CompileModule ==
  /\ phase = "compile"
  /\ Len(scopes) < Len(order)
  /\ scopes' = Append(scopes, order[Len(scopes) + 1])
  /\ phase' = IF Len(scopes') = Len(order) THEN "done" ELSE "compile"
  /\ UNCHANGED <<input, root, stack, dep, visited, order>>

(* compileModules with nothing to compile. *)
CompileNothing ==
  /\ phase = "compile"
  /\ order = <<>>
  /\ phase' = "done"
  /\ UNCHANGED <<input, root, stack, dep, visited, order, scopes>>

(* The call has returned or thrown. *)
Finished == phase \in Failed \union {"done"} /\ UNCHANGED vars

Next ==
  \/ CheckDuplicateModules
  \/ VisitRoot
  \/ CheckCycle
  \/ VisitDep
  \/ VisitOther
  \/ LeaveVisit
  \/ ReturnOrder
  \/ CompileModule
  \/ CompileNothing
  \/ Finished

Spec == Init /\ [][Next]_vars
(* The functions are called synchronously: a step that can be taken is.    *)
FairSpec == Spec /\ WF_vars(Next)
-----------------------------------------------------------------------------
TypeOK ==
  /\ asts \in Seq(AST)
  /\ compiled \in Seq(Name)
  /\ phase \in Phase
  /\ root \in 1..(Len(asts) + 1)
  /\ stack \in Seq(Index)
  /\ dep \in [Index -> Nat \ {0}]
  /\ visited \in [Index -> BOOLEAN]
  /\ order \in Seq(Index)
  /\ scopes \in Seq(Index)

(* At every moment of the search, an AST that findModuleOrder has put into *)
(* the order comes after every AST it imports.                             *)
ImportsFirst ==
  \A p \in 1..Len(order) : \A j \in Index :
    Imports(order[p], j) => \E q \in 1..(p - 1) : order[q] = j

(* When compileModuleImpl opens the scope of a module, the scopes of the   *)
(* modules it imports already enclose it, so lookups reach their symbols;  *)
(* and no module is analysed twice.                                        *)
ScopesSeeImports ==
  \A p \in 1..Len(scopes) :
    /\ \A k \in 1..Len(asts[scopes[p]].imports) :
         LET name == asts[scopes[p]].imports[k]
         IN  \/ \E q \in 1..(p - 1) : asts[scopes[q]].name = name
             \/ name \in Range(compiled)
    /\ \A q \in 1..(p - 1) : scopes[q] # scopes[p]

(* findModuleOrder followed by compileModules does what ModulePlan asks:   *)
(* it fails only for a defect the input has, and otherwise compiles every  *)
(* module once, after its imports.                                         *)
Plan == INSTANCE ModulePlan WITH
  outcome <- IF phase \in Failed \union {"done"} THEN phase ELSE "pending",
  plan    <- IF phase = "done" THEN scopes ELSE <<>>
RefinesPlan == Plan!Spec

(* The search and the compilation end, whatever the import graph.          *)
Terminates == <>(phase \in Failed \union {"done"})
=============================================================================
