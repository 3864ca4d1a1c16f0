------------------------- MODULE ModuleOrderProofs -------------------------
(***************************************************************************)
(* For any number of modules and any import lists: the order that          *)
(* findModuleOrder builds puts imports first, and compileModules opens     *)
(* each module's scope once, inside the scopes of what it imports.         *)
(***************************************************************************)
EXTENDS ModuleOrder, StackLemmas, FiniteSetTheorems

(* The loop of visit(name) stops at an AST of that name, if there is one.  *)
LEMMA HolderFound ==
  ASSUME TypeOK, NEW name, Holders(name) # {}
  PROVE  /\ FirstHolder(name) \in Index
         /\ asts[FirstHolder(name)].name = name
<1>1. Holders(name) \subseteq Nat
  BY DEF Holders, Index, TypeOK
<1>2. \E i \in Holders(name) : \A j \in Holders(name) : i <= j
  BY <1>1, LeastMember
<1>3. FirstHolder(name) \in Holders(name)
  BY <1>2 DEF FirstHolder
<1> QED
  BY <1>3 DEF Holders

(* An activation that goes on to its next import *)
LEMMA NextDep ==
  ASSUME NEW S, NEW f \in [S -> Nat \ {0}], NEW i \in S
  PROVE  [f EXCEPT ![i] = @ + 1] \in [S -> Nat \ {0}]
<1>1. f[i] + 1 \in Nat \ {0}
  OBVIOUS
<1> QED
  BY <1>1

(* The type invariant of the search. *)
LEMMA TypeStep == TypeOK /\ [Next]_vars => TypeOK'
<1> SUFFICES ASSUME TypeOK, [Next]_vars PROVE TypeOK'
  OBVIOUS
<1> USE DEF TypeOK, Phase, Index, input
<1>1. CASE CheckDuplicateModules
  BY <1>1 DEF CheckDuplicateModules
<1>2. CASE VisitRoot
  <2>1. root \in Index /\ root' \in 1..(Len(asts) + 1)
    BY <1>2 DEF VisitRoot
  <2>2. CASE visited[root]
    BY <1>2, <2>1, <2>2 DEF VisitRoot
  <2>3. CASE ~ visited[root]
    <3>1. Append(stack, root) \in Seq(Index)
      BY <2>1
    <3> QED
      BY <1>2, <2>1, <2>3, <3>1 DEF VisitRoot, EnterVisit
  <2> QED
    BY <2>2, <2>3
<1>3. CASE CheckCycle
  BY <1>3 DEF CheckCycle
<1>4. CASE VisitDep
  <2> DEFINE i == FirstHolder(CurrentDep)
  <2>1. i \in Index
    BY <1>4, HolderFound DEF VisitDep
  <2> HIDE DEF i
  <2>2. dep' \in [Index -> Nat \ {0}]
    BY <1>4 DEF VisitDep, AdvanceDep, AtDep, Top
  <2>3. CASE visited[i]
    BY <1>4, <2>1, <2>2, <2>3 DEF VisitDep, i
  <2>4. CASE ~ visited[i]
    <3>1. Append(stack, i) \in Seq(Index)
      BY <2>1
    <3> QED
      BY <1>4, <2>1, <2>2, <2>4, <3>1 DEF VisitDep, EnterVisit, i
  <2> QED
    BY <2>3, <2>4
<1>5. CASE VisitOther
  <2>1. dep' \in [Index -> Nat \ {0}] /\ phase' \in Phase
    <3>1. CASE CurrentDep \in Range(compiled)
      <4>1. dep' = [dep EXCEPT ![Top] = @ + 1] /\ phase' = phase
        BY <1>5, <3>1 DEF VisitOther, AdvanceDep
      <4>2. Top \in Index
        <5>1. stack \in Seq(Index) /\ stack # <<>>
          BY <1>5 DEF VisitOther, AtDep
        <5>2. Len(stack) \in 1..Len(stack)
          BY <5>1
        <5> QED
          BY <5>1, <5>2 DEF Top
      <4>3. dep \in [Index -> Nat \ {0}] /\ phase \in Phase
        OBVIOUS
      <4> HIDE DEF TypeOK, Phase, Index
      <4> QED
        BY <4>1, <4>2, <4>3, NextDep
    <3>2. CASE CurrentDep \notin Range(compiled)
      BY <1>5, <3>2 DEF VisitOther
    <3> QED
      BY <3>1, <3>2
  <2>2. UNCHANGED <<asts, compiled, root, stack, visited, order, scopes>>
    BY <1>5 DEF VisitOther
  <2> QED
    BY <2>1, <2>2
<1>6. CASE LeaveVisit
  <2>1. Top \in Index
    BY <1>6 DEF LeaveVisit, Top
  <2>2. SubSeq(stack, 1, Len(stack) - 1) \in Seq(Index)
    BY <1>6 DEF LeaveVisit
  <2>3. Append(order, Top) \in Seq(Index)
    BY <2>1
  <2> QED
    BY <1>6, <2>2, <2>3 DEF LeaveVisit
<1>7. CASE ReturnOrder
  BY <1>7 DEF ReturnOrder
<1>8. CASE CompileModule
  BY <1>8 DEF CompileModule
<1>9. CASE CompileNothing
  BY <1>9 DEF CompileNothing
<1>10. CASE UNCHANGED vars
  BY <1>10 DEF vars
<1> QED
  BY <1>1, <1>2, <1>3, <1>4, <1>5, <1>6, <1>7, <1>8, <1>9, <1>10 DEF Next, Finished

(* The search keeps its state in range: indices are positions of asts, and *)
(* the loop positions are positive.                                        *)
THEOREM TypeCorrect == Spec => []TypeOK
<1>1. Init => TypeOK
  BY InputsAssumption DEF Init, TypeOK, Phase, Index
<1> QED
  BY <1>1, TypeStep, PTL DEF Spec

-----------------------------------------------------------------------------
(* The invariant that makes ImportsFirst inductive. *)

(* checkDuplicateModules let the call go on only if the names differ. *)
UniqueNames ==
  phase \notin {"check", "duplicate"} =>
    \A i, j \in Index : asts[i].name = asts[j].name => i = j

(* An AST is visited exactly when it is on the stack or in the order, and  *)
(* it is at one place of one of them.                                      *)
OnePlace ==
  /\ \A m, n \in 1..Len(stack) : stack[m] = stack[n] => m = n
  /\ \A p, q \in 1..Len(order) : order[p] = order[q] => p = q
  /\ \A m \in 1..Len(stack), p \in 1..Len(order) : stack[m] # order[p]
  /\ \A m \in 1..Len(stack) : visited[stack[m]]
  /\ \A p \in 1..Len(order) : visited[order[p]]
  /\ \A i \in Index : visited[i] => \/ \E m \in 1..Len(stack) : stack[m] = i
                                    \/ \E p \in 1..Len(order) : order[p] = i

(* An AST that was not visited has its import loop ahead of it. *)
LoopAhead == \A i \in Index : ~ visited[i] => dep[i] = 1

(* An import that an activation has passed is in the order, or it is the   *)
(* activation right above, which has not returned.                         *)
PassedImports ==
  \A m \in 1..Len(stack), j \in Index : \A k \in 1..Len(asts[stack[m]].imports) :
    k < dep[stack[m]] /\ asts[stack[m]].imports[k] = asts[j].name
      => \/ \E p \in 1..Len(order) : order[p] = j
         \/ m < Len(stack) /\ stack[m + 1] = j

(* A name that somebody passed as an AST or as a compiled module. *)
Known(name) == name \in Range(compiled) \/ \E j \in Index : asts[j].name = name
PassedKnown ==
  /\ \A m \in 1..Len(stack) : \A k \in 1..Len(asts[stack[m]].imports) :
       k < dep[stack[m]] => Known(asts[stack[m]].imports[k])
  /\ \A p \in 1..Len(order) : \A k \in 1..Len(asts[order[p]].imports) :
       Known(asts[order[p]].imports[k])

(* The scopes are opened in the order. *)
ScopesFollow ==
  /\ Len(scopes) <= Len(order)
  /\ \A p \in 1..Len(scopes) : scopes[p] = order[p]

SearchInv ==
  /\ TypeOK
  /\ UniqueNames
  /\ OnePlace
  /\ LoopAhead
  /\ PassedImports
  /\ ImportsFirst
  /\ PassedKnown
  /\ ScopesFollow

(* A step that leaves the search alone keeps the parts about the search. *)
LEMMA SearchIdle ==
  ASSUME SearchInv, UNCHANGED <<asts, compiled, stack, dep, visited, order>>
  PROVE  OnePlace' /\ LoopAhead' /\ PassedImports' /\ ImportsFirst' /\ PassedKnown'
<1>1. OnePlace' /\ LoopAhead'
  BY DEF SearchInv, OnePlace, LoopAhead, Index
<1>2. PassedImports'
  BY DEF SearchInv, PassedImports, Index
<1>3. ImportsFirst'
  BY DEF SearchInv, ImportsFirst, Imports, Index
<1>4. PassedKnown'
  BY DEF SearchInv, PassedKnown, Known, Index
<1> QED
  BY <1>1, <1>2, <1>3, <1>4

(* Entering visit(i) for an AST that was not visited, from the end of the  *)
(* stack, with the import loop of the caller (if any) at j.                *)
LEMMA EnterKeeps ==
  ASSUME SearchInv, TypeOK', NEW i \in Index, ~ visited[i], EnterVisit(i),
         UNCHANGED <<asts, compiled, order>>
  PROVE  /\ Len(stack') = Len(stack) + 1
         /\ \A m \in 1..Len(stack) : stack'[m] = stack[m]
         /\ stack'[Len(stack) + 1] = i
         /\ OnePlace'
<1>1. /\ Len(stack') = Len(stack) + 1
      /\ \A m \in 1..Len(stack) : stack'[m] = stack[m]
      /\ stack'[Len(stack) + 1] = i
  BY DEF SearchInv, TypeOK, EnterVisit
<1>2. \A m \in 1..Len(stack) : stack[m] # i
  BY DEF SearchInv, OnePlace
<1>3. \A p \in 1..Len(order) : order[p] # i
  BY DEF SearchInv, OnePlace
<1>4. \A j \in Index : visited'[j] <=> (visited[j] \/ j = i)
  BY DEF SearchInv, TypeOK, EnterVisit
<1>5. /\ Len(stack) \in Nat
      /\ \A m \in 1..Len(stack) : stack[m] \in Index
      /\ \A p \in 1..Len(order) : order[p] \in Index
  BY DEF SearchInv, TypeOK
<1>6. \A m, n \in 1..Len(stack') : stack'[m] = stack'[n] => m = n
  BY <1>1, <1>2, <1>5 DEF SearchInv, OnePlace
<1>7. \A m \in 1..Len(stack'), p \in 1..Len(order) : stack'[m] # order[p]
  BY <1>1, <1>3, <1>5 DEF SearchInv, OnePlace
<1>8. /\ \A m \in 1..Len(stack') : visited'[stack'[m]]
      /\ \A p \in 1..Len(order) : visited'[order[p]]
  <2>1. ASSUME NEW m \in 1..Len(stack') PROVE visited'[stack'[m]]
    <3>1. CASE m = Len(stack) + 1
      BY <1>1, <1>4, <3>1
    <3>2. CASE m \in 1..Len(stack)
      <4>1. visited[stack[m]]
        BY <3>2 DEF SearchInv, OnePlace
      <4> QED
        BY <1>1, <1>4, <1>5, <3>2, <4>1
    <3> QED
      BY <1>1, <1>5, <3>1, <3>2
  <2>2. ASSUME NEW p \in 1..Len(order) PROVE visited'[order[p]]
    <3>1. visited[order[p]]
      BY DEF SearchInv, OnePlace
    <3> QED
      BY <1>4, <1>5, <3>1
  <2> QED
    BY <2>1, <2>2
<1>9. ASSUME NEW j \in Index, visited'[j]
      PROVE  \/ \E m \in 1..Len(stack') : stack'[m] = j
             \/ \E p \in 1..Len(order) : order[p] = j
  <2>1. CASE j = i
    BY <1>1, <1>5, <2>1
  <2>2. CASE visited[j]
    BY <1>1, <1>5, <2>2 DEF SearchInv, OnePlace
  <2> QED
    BY <1>4, <1>9, <2>1, <2>2
<1>10. OnePlace'
  BY <1>6, <1>7, <1>8, <1>9 DEF SearchInv, OnePlace, Index
<1> QED
  BY <1>1, <1>10

LEMMA RootKeeps == ASSUME SearchInv, TypeOK', VisitRoot PROVE SearchInv'
<1> USE DEF input
<1>1. CASE visited[root]
  <2>1. UNCHANGED <<asts, compiled, phase, stack, dep, visited, order, scopes>>
    BY <1>1 DEF VisitRoot
  <2>2. UniqueNames' /\ ScopesFollow'
    BY <2>1 DEF SearchInv, UniqueNames, ScopesFollow, Index
  <2> QED
    BY <2>1, <2>2, SearchIdle DEF SearchInv
<1>2. CASE ~ visited[root]
  <2>1. root \in Index /\ EnterVisit(root)
    BY <1>2 DEF VisitRoot, SearchInv, TypeOK, Index
  <2>2. UNCHANGED <<asts, compiled, phase, dep, order, scopes>> /\ stack = <<>>
    BY DEF VisitRoot
  <2>3. /\ Len(stack') = Len(stack) + 1 /\ stack'[Len(stack) + 1] = root
        /\ OnePlace'
    BY <1>2, <2>1, <2>2, EnterKeeps
  <2>4. UniqueNames' /\ ScopesFollow' /\ ImportsFirst'
    BY <2>2 DEF SearchInv, UniqueNames, ScopesFollow, ImportsFirst, Imports, Index
  <2>5. LoopAhead'
    BY <2>1, <2>2 DEF SearchInv, TypeOK, LoopAhead, EnterVisit, Index
  <2>6. Len(stack') = 1 /\ stack'[1] = root /\ dep'[root] = 1
    BY <1>2, <2>1, <2>2, <2>3 DEF SearchInv, LoopAhead
  <2>7. PassedImports' /\ PassedKnown'
    BY <2>2, <2>6 DEF SearchInv, PassedImports, PassedKnown, Known, Index
  <2> QED
    BY <2>3, <2>4, <2>5, <2>7 DEF SearchInv
<1> QED
  BY <1>1, <1>2

LEMMA OtherKeeps == ASSUME SearchInv, TypeOK', VisitOther PROVE SearchInv'
<1> USE DEF input
<1>1. UNCHANGED <<asts, compiled, stack, visited, order, scopes>>
  BY DEF VisitOther
<1>2. Top = stack[Len(stack)] /\ Top \in Index /\ Len(stack) \in 1..Len(stack)
  BY DEF VisitOther, AtDep, SearchInv, TypeOK, Top
<1>3. UniqueNames' /\ ScopesFollow' /\ ImportsFirst' /\ OnePlace'
  BY <1>1 DEF VisitOther, AtDep, SearchInv, UniqueNames, ScopesFollow, ImportsFirst,
              Imports, OnePlace, Index
<1>4. LoopAhead'
  BY <1>1, <1>2 DEF VisitOther, AdvanceDep, SearchInv, TypeOK, OnePlace, LoopAhead, Index
<1>5. CASE dep' = dep
  BY <1>1, <1>3, <1>4, <1>5, SearchIdle DEF SearchInv
<1>6. CASE dep' # dep
  <2>1. /\ dep' = [dep EXCEPT ![Top] = @ + 1]
        /\ CurrentDep \in Range(compiled)
        /\ Holders(CurrentDep) = {}
    BY <1>6 DEF VisitOther, AdvanceDep
  <2>2. /\ \A m \in 1..Len(stack) : stack[m] # Top => dep'[stack[m]] = dep[stack[m]]
        /\ dep'[Top] = dep[Top] + 1 /\ dep[Top] \in Nat
    <3>1. dep \in [Index -> Nat \ {0}] /\ stack \in Seq(Index)
      BY DEF SearchInv, TypeOK
    <3>2. \A m \in 1..Len(stack) : stack[m] \in Index
      BY <3>1
    <3> QED
      BY <1>2, <2>1, <3>1, <3>2
  <2>3. \A j \in Index : asts[j].name # CurrentDep
    BY <2>1 DEF Holders
  <2>4. ASSUME NEW m \in 1..Len(stack), NEW k \in 1..Len(asts[stack[m]].imports),
               k < dep'[stack[m]]
        PROVE  k < dep[stack[m]] \/ asts[stack[m]].imports[k] = CurrentDep
    BY <1>2, <2>2, <2>4 DEF CurrentDep
  <2>5. PassedImports'
    BY <1>1, <2>3, <2>4 DEF SearchInv, PassedImports, Index
  <2>6. PassedKnown'
    BY <1>1, <2>1, <2>4 DEF SearchInv, PassedKnown, Known, Index
  <2> QED
    BY <1>3, <1>4, <2>5, <2>6 DEF SearchInv
<1> QED
  BY <1>5, <1>6

LEMMA DepKeeps == ASSUME SearchInv, TypeOK', VisitDep PROVE SearchInv'
<1> USE DEF input
<1> DEFINE i == FirstHolder(CurrentDep)
<1>1. /\ Top = stack[Len(stack)] /\ Top \in Index /\ Len(stack) \in 1..Len(stack)
      /\ Len(stack) \in Nat
  BY DEF VisitDep, AtDep, SearchInv, TypeOK, Top
<1>2. i \in Index /\ asts[i].name = CurrentDep
  BY HolderFound DEF VisitDep, SearchInv
<1>3. \A j \in Index : asts[j].name = CurrentDep => j = i
  BY <1>2 DEF SearchInv, UniqueNames, VisitDep, AtDep
<1>4. \A m \in 1..Len(stack) : stack[m] # i
  BY DEF VisitDep, Range, SearchInv, TypeOK
<1>5. /\ UNCHANGED <<asts, compiled, phase, order, scopes>>
      /\ dep' = [dep EXCEPT ![Top] = @ + 1]
      /\ IF visited[i] THEN UNCHANGED <<visited, stack>> ELSE EnterVisit(i)
  BY DEF VisitDep, AdvanceDep
<1> HIDE DEF i
<1>6. /\ \A j \in Index : j # Top => dep'[j] = dep[j]
      /\ dep'[Top] = dep[Top] + 1 /\ dep[Top] \in Nat
      /\ \A m \in 1..Len(stack) : stack[m] \in Index
  BY <1>1, <1>5 DEF SearchInv, TypeOK
<1>7. ASSUME NEW m \in 1..Len(stack), NEW k \in 1..Len(asts[stack[m]].imports),
             k < dep'[stack[m]]
      PROVE  \/ k < dep[stack[m]]
             \/ m = Len(stack) /\ asts[stack[m]].imports[k] = CurrentDep
  <2>1. CASE stack[m] # Top
    BY <1>6, <1>7, <2>1
  <2>2. CASE stack[m] = Top
    <3>1. Len(stack) \in 1..Len(stack) /\ stack[m] = stack[Len(stack)]
      BY <1>1, <2>2
    <3>2. \A l, n \in 1..Len(stack) : stack[l] = stack[n] => l = n
      BY DEF SearchInv, OnePlace
    <3>3. m = Len(stack)
      BY <3>1, <3>2
    <3> QED
      BY <1>6, <1>7, <2>2, <3>3 DEF CurrentDep
  <2> QED
    BY <2>1, <2>2
<1>8. UniqueNames' /\ ScopesFollow' /\ ImportsFirst'
  BY <1>5 DEF SearchInv, UniqueNames, ScopesFollow, ImportsFirst, Imports, Index
<1>9. visited[Top]
  BY <1>1 DEF SearchInv, OnePlace
<1>10. Known(CurrentDep)
  BY <1>2 DEF Known
<1>11. CASE visited[i]
  <2>1. UNCHANGED <<asts, compiled, phase, order, scopes, stack, visited>>
    BY <1>5, <1>11
  <2>2. OnePlace'
    BY <2>1 DEF SearchInv, OnePlace, Index
  <2>3. LoopAhead'
    BY <2>1, <1>6, <1>9 DEF SearchInv, LoopAhead, Index
  <2>4. \E p \in 1..Len(order) : order[p] = i
    BY <1>2, <1>4, <1>11 DEF SearchInv, OnePlace
  <2>5. PassedImports'
    <3>1. ASSUME NEW m \in 1..Len(stack), NEW j \in Index,
                 NEW k \in 1..Len(asts[stack[m]].imports),
                 k < dep'[stack[m]], asts[stack[m]].imports[k] = asts[j].name
          PROVE  \/ \E p \in 1..Len(order) : order[p] = j
                 \/ m < Len(stack) /\ stack[m + 1] = j
      <4>1. CASE k < dep[stack[m]]
        BY <3>1, <4>1 DEF SearchInv, PassedImports
      <4>2. CASE asts[stack[m]].imports[k] = CurrentDep
        BY <1>3, <2>4, <3>1, <4>2
      <4> QED
        BY <1>7, <3>1, <4>1, <4>2
    <3> QED
      BY <2>1, <3>1 DEF PassedImports, Index
  <2>6. PassedKnown'
    BY <2>1, <1>7, <1>10 DEF SearchInv, PassedKnown, Known, Index
  <2> QED
    BY <1>8, <2>2, <2>3, <2>5, <2>6 DEF SearchInv
<1>12. CASE ~ visited[i]
  <2>1. EnterVisit(i)
    BY <1>5, <1>12
  <2>2. /\ Len(stack') = Len(stack) + 1
        /\ \A m \in 1..Len(stack) : stack'[m] = stack[m]
        /\ stack'[Len(stack) + 1] = i
        /\ OnePlace'
    BY <1>2, <1>5, <1>12, <2>1, EnterKeeps
  <2>3. \A j \in Index : visited'[j] <=> (visited[j] \/ j = i)
    BY <1>2, <2>1 DEF SearchInv, TypeOK, EnterVisit
  <2>4. LoopAhead'
    BY <2>3, <1>5, <1>6, <1>9 DEF SearchInv, LoopAhead, Index
  <2>5. i # Top /\ dep'[i] = 1
    BY <1>2, <1>6, <1>9, <1>12 DEF SearchInv, LoopAhead
  <2>6. ASSUME NEW m \in 1..Len(stack'), NEW j \in Index,
               NEW k \in 1..Len(asts[stack'[m]].imports),
               k < dep'[stack'[m]], asts[stack'[m]].imports[k] = asts[j].name
        PROVE  \/ \E p \in 1..Len(order) : order[p] = j
               \/ m < Len(stack') /\ stack'[m + 1] = j
    <3>1. m \in 1..Len(stack) /\ stack'[m] = stack[m]
      BY <1>1, <2>2, <2>5, <2>6
    <3>2. CASE k < dep[stack[m]]
      <4>1. \/ \E p \in 1..Len(order) : order[p] = j
            \/ m < Len(stack) /\ stack[m + 1] = j
        BY <2>6, <3>1, <3>2 DEF SearchInv, PassedImports
      <4>2. m < Len(stack) => stack'[m + 1] = stack[m + 1]
        BY <1>1, <2>2, <3>1
      <4> QED
        BY <1>1, <2>2, <4>1, <4>2, <3>1
    <3>3. CASE m = Len(stack) /\ asts[stack[m]].imports[k] = CurrentDep
      BY <1>1, <1>3, <2>2, <2>6, <3>1, <3>3
    <3> QED
      BY <1>7, <2>6, <3>1, <3>2, <3>3
  <2>7. PassedImports'
    BY <1>5, <2>6 DEF PassedImports, Index
  <2>8. ASSUME NEW m \in 1..Len(stack'), NEW k \in 1..Len(asts[stack'[m]].imports),
               k < dep'[stack'[m]]
        PROVE  Known(asts[stack'[m]].imports[k])
    <3>1. m \in 1..Len(stack) /\ stack'[m] = stack[m]
      BY <1>1, <2>2, <2>5, <2>8
    <3> QED
      BY <1>7, <1>10, <2>8, <3>1 DEF SearchInv, PassedKnown
  <2>9. PassedKnown'
    BY <1>5, <2>8 DEF SearchInv, PassedKnown, Known, Index
  <2> QED
    BY <1>8, <2>2, <2>4, <2>7, <2>9 DEF SearchInv
<1> QED
  BY <1>11, <1>12

LEMMA LeaveKeeps == ASSUME SearchInv, TypeOK', LeaveVisit PROVE SearchInv'
<1> USE DEF input
<1> DEFINE n == Len(stack)
           o == Len(order)
<1>1. /\ Top = stack[n] /\ Top \in Index /\ n \in 1..n /\ n \in Nat /\ o \in Nat
      /\ UNCHANGED <<asts, compiled, phase, dep, visited, scopes>>
  <2>1. stack \in Seq(Index) /\ stack # <<>> /\ order \in Seq(Index)
    BY DEF LeaveVisit, SearchInv, TypeOK
  <2>2. n \in Nat /\ n # 0 /\ o \in Nat
    BY <2>1
  <2>3. n \in 1..n /\ stack[n] \in Index
    BY <2>1, <2>2
  <2> QED
    BY <2>2, <2>3 DEF LeaveVisit, Top
<1>2. /\ Len(stack') = n - 1
      /\ \A m \in 1..(n - 1) : stack'[m] = stack[m]
  <2>1. stack' = SubSeq(stack, 1, Len(stack) - 1) /\ stack \in Seq(Index) /\ stack # <<>>
    BY DEF LeaveVisit, SearchInv, TypeOK
  <2> QED
    BY <2>1, ButLast
<1>3. /\ Len(order') = o + 1
      /\ \A p \in 1..o : order'[p] = order[p]
      /\ order'[o + 1] = Top
  BY <1>1 DEF LeaveVisit, SearchInv, TypeOK
<1> HIDE DEF n, o
<1>12. /\ Len(asts[Top].imports) \in Nat /\ dep[Top] \in Nat
       /\ dep[Top] > Len(asts[Top].imports)
  <2>1. asts[Top] \in AST
    BY <1>1 DEF SearchInv, TypeOK, Index
  <2>2. asts[Top].imports \in Seq(Name)
    BY <2>1 DEF AST
  <2>3. dep[Top] \in Nat
    BY <1>1 DEF SearchInv, TypeOK
  <2> QED
    BY <2>2, <2>3 DEF LeaveVisit
<1>4. \A m \in 1..n : m # n => stack[m] # Top
  BY <1>1 DEF SearchInv, OnePlace, n
<1>5. \A p \in 1..o : order[p] # Top
  BY <1>1 DEF SearchInv, OnePlace, n, o
<1>6. OnePlace'
  <2>1. \A l, m \in 1..Len(stack') : stack'[l] = stack'[m] => l = m
    BY <1>1, <1>2 DEF SearchInv, OnePlace, n
  <2>2. \A p, q \in 1..Len(order') : order'[p] = order'[q] => p = q
    BY <1>1, <1>3, <1>5 DEF SearchInv, OnePlace, o
  <2>3. ASSUME NEW m \in 1..Len(stack'), NEW p \in 1..Len(order') PROVE stack'[m] # order'[p]
    <3>1. m \in 1..n /\ m # n /\ stack'[m] = stack[m]
      BY <1>1, <1>2
    <3>2. CASE p \in 1..o
      BY <1>3, <3>1, <3>2 DEF SearchInv, OnePlace, n, o
    <3>3. CASE p = o + 1
      BY <1>3, <1>4, <3>1, <3>3
    <3> QED
      BY <1>1, <1>3, <3>2, <3>3
  <2>4. \A m \in 1..Len(stack') : visited'[stack'[m]]
    BY <1>1, <1>2 DEF SearchInv, OnePlace, n
  <2>5. visited[Top]
    BY <1>1 DEF SearchInv, OnePlace, n
  <2>6. \A p \in 1..Len(order') : visited'[order'[p]]
    BY <1>1, <1>3, <2>5 DEF SearchInv, OnePlace, o
  <2>7. ASSUME NEW j \in Index, visited[j]
        PROVE  \/ \E m \in 1..Len(stack') : stack'[m] = j
               \/ \E p \in 1..Len(order') : order'[p] = j
    <3>1. CASE j = Top
      BY <1>1, <1>3, <3>1
    <3>2. CASE \E m \in 1..n : stack[m] = j /\ m # n
      BY <1>1, <1>2, <3>2
    <3>3. CASE \E p \in 1..o : order[p] = j
      BY <1>1, <1>3, <3>3
    <3> QED
      BY <1>1, <2>7, <3>1, <3>2, <3>3 DEF SearchInv, OnePlace, n, o
  <2> QED
    BY <1>1, <2>1, <2>2, <2>3, <2>4, <2>6, <2>7 DEF OnePlace, Index
<1>7. UniqueNames' /\ LoopAhead'
  BY <1>1 DEF SearchInv, UniqueNames, LoopAhead, Index
<1>8. ScopesFollow'
  <2>1. Len(scopes) \in Nat /\ Len(scopes) <= o
    BY DEF SearchInv, TypeOK, ScopesFollow, o
  <2>2. \A p \in 1..Len(scopes) : p \in 1..o /\ scopes[p] = order[p]
    BY <1>1, <2>1 DEF SearchInv, ScopesFollow
  <2> QED
    BY <1>1, <1>3, <2>1, <2>2 DEF ScopesFollow
<1>9. PassedImports'
  <2>1. ASSUME NEW m \in 1..Len(stack'), NEW j \in Index,
               NEW k \in 1..Len(asts[stack'[m]].imports),
               k < dep[stack'[m]], asts[stack'[m]].imports[k] = asts[j].name
        PROVE  \/ \E p \in 1..Len(order') : order'[p] = j
               \/ m < Len(stack') /\ stack'[m + 1] = j
    <3>1. m \in 1..n /\ m \in 1..(n - 1) /\ stack'[m] = stack[m]
      BY <1>1, <1>2
    <3>2. \/ \E p \in 1..o : order[p] = j
          \/ m < n /\ stack[m + 1] = j
      BY <2>1, <3>1 DEF SearchInv, PassedImports, n, o
    <3>3. CASE \E p \in 1..o : order[p] = j
      BY <1>1, <1>3, <3>3
    <3>4. CASE stack[m + 1] = j /\ m + 1 = n
      BY <1>1, <1>3, <3>4
    <3>5. CASE stack[m + 1] = j /\ m + 1 < n
      BY <1>1, <1>2, <3>1, <3>5
    <3> QED
      BY <1>1, <3>1, <3>2, <3>3, <3>4, <3>5
  <2> QED
    BY <1>1, <2>1 DEF PassedImports, Index
<1>10. ImportsFirst'
  <2>1. ASSUME NEW p \in 1..Len(order'), NEW j \in Index, Imports(order'[p], j)
        PROVE  \E q \in 1..(p - 1) : order'[q] = j
    <3>1. CASE p \in 1..o
      <4>1. PICK q \in 1..(p - 1) : order[q] = j
        BY <1>3, <2>1, <3>1 DEF SearchInv, ImportsFirst, o
      <4> QED
        BY <1>1, <1>3, <3>1, <4>1
    <3>2. CASE p = o + 1
      <4>1. PICK k \in 1..Len(asts[Top].imports) : asts[Top].imports[k] = asts[j].name
        BY <1>3, <2>1, <3>2 DEF Imports
      <4>2. k < dep[Top]
        BY <1>12, <4>1
      <4>3. \E q \in 1..o : order[q] = j
        BY <1>1, <4>1, <4>2 DEF SearchInv, PassedImports, n, o
      <4> QED
        BY <1>1, <1>3, <3>2, <4>3
    <3> QED
      BY <1>1, <1>3, <3>1, <3>2
  <2> QED
    BY <1>1, <2>1 DEF ImportsFirst, Imports, Index
<1>11. PassedKnown'
  <2>1. ASSUME NEW m \in 1..Len(stack'), NEW k \in 1..Len(asts[stack'[m]].imports),
               k < dep[stack'[m]]
        PROVE  Known(asts[stack'[m]].imports[k])
    BY <1>1, <1>2, <2>1 DEF SearchInv, PassedKnown, n
  <2>2. ASSUME NEW p \in 1..Len(order'), NEW k \in 1..Len(asts[order'[p]].imports)
        PROVE  Known(asts[order'[p]].imports[k])
    <3>1. CASE p \in 1..o
      BY <1>3, <2>2, <3>1 DEF SearchInv, PassedKnown, o
    <3>2. CASE p = o + 1
      <4>1. order'[p] = Top /\ k \in 1..Len(asts[Top].imports)
        BY <1>3, <2>2, <3>2
      <4>2. k < dep[Top]
        BY <1>12, <4>1
      <4> QED
        BY <1>1, <4>1, <4>2 DEF SearchInv, PassedKnown, n
    <3> QED
      BY <1>1, <1>3, <3>1, <3>2
  <2> QED
    BY <1>1, <2>1, <2>2 DEF PassedKnown, Known, Index
<1> QED
  BY <1>6, <1>7, <1>8, <1>9, <1>10, <1>11 DEF SearchInv

LEMMA CompileKeeps == ASSUME SearchInv, TypeOK', CompileModule PROVE SearchInv'
<1> USE DEF input
<1>1. UNCHANGED <<asts, compiled, stack, dep, visited, order>>
  BY DEF CompileModule
<1>2. Len(scopes) \in Nat /\ Len(order) \in Nat /\ Len(scopes) < Len(order)
  BY DEF CompileModule, SearchInv, TypeOK
<1>3. /\ Len(scopes') = Len(scopes) + 1
      /\ \A p \in 1..Len(scopes) : scopes'[p] = scopes[p]
      /\ scopes'[Len(scopes) + 1] = order[Len(scopes) + 1]
  BY <1>2 DEF CompileModule, SearchInv, TypeOK
<1>4. ScopesFollow'
  BY <1>1, <1>2, <1>3 DEF SearchInv, ScopesFollow
<1>5. UniqueNames'
  BY <1>1 DEF SearchInv, UniqueNames, CompileModule, Index
<1> QED
  BY <1>1, <1>4, <1>5, SearchIdle DEF SearchInv

LEMMA CheckKeeps == ASSUME SearchInv, TypeOK', CheckDuplicateModules PROVE SearchInv'
<1> USE DEF input
<1>1. UNCHANGED <<asts, compiled, stack, dep, visited, order, scopes>>
  BY DEF CheckDuplicateModules
<1>2. ScopesFollow'
  BY <1>1 DEF SearchInv, ScopesFollow
<1>3. UniqueNames'
  <2>1. CASE DuplicateNames
    BY <2>1 DEF CheckDuplicateModules, UniqueNames
  <2>2. CASE ~ DuplicateNames
    <3>1. ASSUME NEW i \in Index, NEW j \in Index, asts[i].name = asts[j].name, i # j
          PROVE  FALSE
      <4> DEFINE names == [k \in 1..(Len(asts) + Len(compiled)) |->
                             IF k <= Len(asts) THEN asts[k].name
                                               ELSE compiled[k - Len(asts)]]
      <4>1. Len(asts) \in Nat /\ Len(compiled) \in Nat
        BY DEF SearchInv, TypeOK
      <4>2. i \in DOMAIN names /\ j \in DOMAIN names
        BY <4>1 DEF Index
      <4>3. names[i] = asts[i].name /\ names[j] = asts[j].name
        BY <4>1, <4>2 DEF Index
      <4> HIDE DEF names
      <4>4. \E k, l \in DOMAIN names : k # l /\ names[k] = names[l]
        BY <3>1, <4>2, <4>3
      <4> QED
        BY <2>2, <4>4 DEF DuplicateNames, names
    <3> QED
      BY <1>1, <3>1 DEF UniqueNames, Index
  <2> QED
    BY <2>1, <2>2
<1> QED
  BY <1>1, <1>2, <1>3, SearchIdle DEF SearchInv

(* The other steps change the phase at most. *)
LEMMA PhaseKeeps ==
  ASSUME SearchInv, TypeOK',
         UNCHANGED <<asts, compiled, stack, dep, visited, order, scopes>>,
         phase' = phase \/ phase \in {"visit", "compile"}
  PROVE  SearchInv'
<1>1. ScopesFollow'
  BY DEF SearchInv, ScopesFollow
<1>2. UniqueNames'
  BY DEF SearchInv, UniqueNames, Index
<1> QED
  BY <1>1, <1>2, SearchIdle DEF SearchInv

LEMMA SearchStep == SearchInv /\ [Next]_vars => SearchInv'
<1> SUFFICES ASSUME SearchInv, [Next]_vars PROVE SearchInv'
  OBVIOUS
<1>0. TypeOK'
  BY TypeStep DEF SearchInv
<1>1. CASE CheckDuplicateModules
  BY <1>0, <1>1, CheckKeeps
<1>2. CASE VisitRoot
  BY <1>0, <1>2, RootKeeps
<1>3. CASE CheckCycle
  BY <1>0, <1>3, PhaseKeeps DEF CheckCycle, AtDep, input
<1>4. CASE VisitDep
  BY <1>0, <1>4, DepKeeps
<1>5. CASE VisitOther
  BY <1>0, <1>5, OtherKeeps
<1>6. CASE LeaveVisit
  BY <1>0, <1>6, LeaveKeeps
<1>7. CASE ReturnOrder
  BY <1>0, <1>7, PhaseKeeps DEF ReturnOrder, input
<1>8. CASE CompileModule
  BY <1>0, <1>8, CompileKeeps
<1>9. CASE CompileNothing
  BY <1>0, <1>9, PhaseKeeps DEF CompileNothing, input
<1>10. CASE UNCHANGED vars
  BY <1>0, <1>10, PhaseKeeps DEF vars
<1> QED
  BY <1>1, <1>2, <1>3, <1>4, <1>5, <1>6, <1>7, <1>8, <1>9, <1>10 DEF Next, Finished

LEMMA SearchInit == Init => SearchInv
<1> SUFFICES ASSUME Init PROVE SearchInv
  OBVIOUS
<1>1. TypeOK
  BY InputsAssumption DEF Init, TypeOK, Phase, Index
<1>2. UniqueNames /\ LoopAhead /\ ScopesFollow
  BY DEF Init, UniqueNames, LoopAhead, ScopesFollow
<1>3. OnePlace /\ PassedImports /\ ImportsFirst /\ PassedKnown
  BY DEF Init, OnePlace, PassedImports, ImportsFirst, PassedKnown
<1> QED
  BY <1>1, <1>2, <1>3 DEF SearchInv

(* At every moment of findModuleOrder's search, for any import graph, an   *)
(* AST in the order comes after every AST it imports.                      *)
THEOREM OrderIsTopological == Spec => []ImportsFirst
<1>1. SearchInv => ImportsFirst
  BY DEF SearchInv
<1> QED
  BY <1>1, SearchInit, SearchStep, PTL DEF Spec

(* compileModules opens each module's scope once, and inside the scopes of *)
(* all the modules it imports that were not compiled earlier.              *)
THEOREM ScopesAreNested == Spec => []ScopesSeeImports
<1>1. ASSUME SearchInv PROVE ScopesSeeImports
  <2>1. ASSUME NEW p \in 1..Len(scopes),
               NEW k \in 1..Len(asts[scopes[p]].imports),
               ~ asts[scopes[p]].imports[k] \in Range(compiled)
        PROVE  \E q \in 1..(p - 1) : asts[scopes[q]].name = asts[scopes[p]].imports[k]
    <3>1. /\ p \in 1..Len(order) /\ scopes[p] = order[p]
          /\ \A q \in 1..(p - 1) : q \in 1..Len(scopes) /\ scopes[q] = order[q]
      <4>0. scopes \in Seq(Index) /\ order \in Seq(Index) /\ Len(scopes) <= Len(order)
        BY <1>1 DEF SearchInv, TypeOK, ScopesFollow
      <4>1. Len(scopes) \in Nat /\ Len(order) \in Nat /\ Len(scopes) <= Len(order)
        BY <4>0
      <4>2. \A q \in 1..Len(scopes) : scopes[q] = order[q]
        BY <1>1 DEF SearchInv, ScopesFollow
      <4> QED
        BY <4>1, <4>2
    <3>2. PICK j \in Index : asts[j].name = asts[order[p]].imports[k]
      BY <1>1, <2>1, <3>1 DEF SearchInv, PassedKnown, Known
    <3>3. Imports(order[p], j)
      BY <3>1, <3>2 DEF Imports
    <3>4. PICK q \in 1..(p - 1) : order[q] = j
      BY <1>1, <3>1, <3>3 DEF SearchInv, ImportsFirst
    <3> QED
      BY <3>1, <3>2, <3>4
  <2>2. ASSUME NEW p \in 1..Len(scopes), NEW q \in 1..(p - 1) PROVE scopes[q] # scopes[p]
    <3>0. scopes \in Seq(Index) /\ order \in Seq(Index) /\ Len(scopes) <= Len(order)
      BY <1>1 DEF SearchInv, TypeOK, ScopesFollow
    <3>1. Len(scopes) \in Nat /\ Len(order) \in Nat
      BY <3>0
    <3>2. /\ p \in 1..Len(order) /\ q \in 1..Len(order)
          /\ q \in 1..Len(scopes) /\ q # p
      BY <3>0, <3>1
    <3>3. scopes[p] = order[p] /\ scopes[q] = order[q]
      BY <1>1, <3>2 DEF SearchInv, ScopesFollow
    <3> QED
      BY <1>1, <3>2, <3>3 DEF SearchInv, OnePlace
  <2> QED
    BY <2>1, <2>2 DEF ScopesSeeImports
<1> QED
  BY <1>1, SearchInit, SearchStep, PTL DEF Spec
-----------------------------------------------------------------------------
(* findModuleOrder and compileModules implement ModulePlan.  What the      *)
(* search keeps besides SearchInv:                                         *)

(* the names differ once checkDuplicateModules has passed; *)
NamesDiffer == phase \notin {"check", "duplicate"} => ~ DuplicateNames

(* each activation was called for an import of the one below it; *)
StackLinked == \A m \in 1..(Len(stack) - 1) : Imports(stack[m], stack[m + 1])

(* the loop of Visitor::visit() leaves only visited ASTs behind; *)
RootsVisited == \A i \in Index : i < root => visited[i]

(* modules are compiled only when that loop has ended. *)
SearchOver == phase \in {"compile", "done"} => stack = <<>> /\ root > Len(asts)

PlanInv == SearchInv /\ NamesDiffer /\ StackLinked /\ RootsVisited /\ SearchOver

LEMMA PlanInit == Init => PlanInv
<1>1. Init => RootsVisited
  BY InputsAssumption DEF Init, RootsVisited, Index
<1> QED
  BY <1>1, SearchInit DEF Init, PlanInv, NamesDiffer, StackLinked, SearchOver

(* Entering visit(i) from the end of the stack, which is empty or imports i. *)
LEMMA EnterLinks ==
  ASSUME TypeOK, StackLinked, RootsVisited, NEW i \in Index, EnterVisit(i), asts' = asts,
         stack # <<>> => Imports(Top, i)
  PROVE  StackLinked' /\ \A j \in Index : j < root \/ j = i => visited'[j]
<1>1. Len(stack) \in Nat
  BY DEF TypeOK
<1>2. /\ Len(stack') = Len(stack) + 1 /\ stack'[Len(stack) + 1] = i
      /\ \A m \in 1..Len(stack) : stack'[m] = stack[m]
  BY OneMore DEF EnterVisit, TypeOK
<1>3. ASSUME NEW m \in 1..(Len(stack') - 1)
      PROVE  (Imports(stack[m], i) /\ m = Len(stack)) \/ m \in 1..(Len(stack) - 1)
  <2>1. m \in 1..Len(stack)
    BY <1>1, <1>2
  <2>2. stack # <<>>
    BY <2>1
  <2>3. Imports(stack[Len(stack)], i)
    BY <2>2 DEF Top
  <2>4. \A l \in Nat : m \in 1..l => m = l \/ m \in 1..(l - 1)
    OBVIOUS
  <2> QED
    BY <1>1, <2>1, <2>3, <2>4
<1>4. StackLinked'
  <2> SUFFICES ASSUME NEW m \in 1..(Len(stack') - 1)
               PROVE  Imports(stack[m], stack[m + 1])'
    BY DEF StackLinked
  <2>1. m \in 1..Len(stack) /\ stack'[m] = stack[m]
    BY <1>1, <1>2
  <2>2. CASE m \in 1..(Len(stack) - 1)
    <3>1. stack'[m + 1] = stack[m + 1]
      BY <1>1, <1>2, <2>2
    <3> QED
      BY <2>1, <2>2, <3>1 DEF StackLinked, Imports
  <2>3. CASE Imports(stack[m], i) /\ m = Len(stack)
    BY <1>2, <2>1, <2>3 DEF Imports
  <2> QED
    BY <1>3, <2>2, <2>3
<1>5. \A j \in Index : j < root \/ j = i => visited'[j]
  BY DEF EnterVisit, RootsVisited, TypeOK
<1> QED
  BY <1>4, <1>5

LEMMA PlanStep == PlanInv /\ [Next]_vars => PlanInv'
<1> SUFFICES ASSUME PlanInv, [Next]_vars PROVE PlanInv'
  OBVIOUS
<1> USE DEF input
<1>0. TypeOK /\ SearchInv' /\ TypeOK'
  BY SearchStep DEF PlanInv, SearchInv
<1>1. asts' = asts /\ compiled' = compiled
  BY DEF Next, vars, CheckDuplicateModules, VisitRoot, CheckCycle, VisitDep, VisitOther,
    LeaveVisit, ReturnOrder, CompileModule, CompileNothing, Finished
<1>2. NamesDiffer'
  <2>1. DuplicateNames' = DuplicateNames
    BY <1>1 DEF DuplicateNames
  <2>2. CASE CheckDuplicateModules
    BY <2>1, <2>2 DEF CheckDuplicateModules, NamesDiffer
  <2>3. CASE phase \in {"visit", "compile"}
    BY <2>1, <2>3 DEF PlanInv, NamesDiffer
  <2>4. CASE phase' = phase
    BY <2>1, <2>4 DEF PlanInv, NamesDiffer
  <2> QED
    BY <2>2, <2>3, <2>4 DEF Next, vars, VisitRoot, CheckCycle, VisitDep, VisitOther, AtDep,
      LeaveVisit, ReturnOrder, CompileModule, CompileNothing, Finished
<1>3. CASE UNCHANGED <<stack, visited, root>>
  <2>1. StackLinked' /\ RootsVisited'
    BY <1>1, <1>3 DEF PlanInv, StackLinked, RootsVisited, Imports, Index
  <2>2. phase' \in {"compile", "done"} =>
          phase \in {"compile", "done"} \/ (stack = <<>> /\ root > Len(asts))
    BY DEF Next, vars, CheckDuplicateModules, VisitRoot, CheckCycle, VisitDep, VisitOther,
      LeaveVisit, ReturnOrder, CompileModule, CompileNothing, Finished
  <2>3. SearchOver'
    BY <1>1, <1>3, <2>2 DEF PlanInv, SearchOver
  <2> QED
    BY <1>0, <1>2, <2>1, <2>3 DEF PlanInv
<1>4. CASE VisitRoot
  <2>1. root \in Index /\ root' = root + 1 /\ phase' = phase /\ phase = "visit"
    BY <1>0, <1>4 DEF VisitRoot, TypeOK, Index
  <2>2. StackLinked' /\ \A j \in Index : j < root \/ j = root => visited'[j]
    <3>1. CASE visited[root]
      BY <1>1, <1>4, <3>1 DEF VisitRoot, PlanInv, StackLinked, RootsVisited, Imports
    <3>2. CASE ~ visited[root]
      BY <1>0, <1>1, <1>4, <2>1, <3>2, EnterLinks DEF VisitRoot, PlanInv
    <3> QED
      BY <3>1, <3>2
  <2>3. \A j \in Index : j < root' => j < root \/ j = root
    BY <2>1 DEF Index
  <2>4. RootsVisited' /\ SearchOver'
    BY <1>1, <2>1, <2>2, <2>3 DEF RootsVisited, SearchOver, Index
  <2> QED
    BY <1>0, <1>2, <2>2, <2>4 DEF PlanInv
<1>5. CASE VisitDep /\ ~ UNCHANGED <<stack, visited, root>>
  <2> DEFINE i == FirstHolder(CurrentDep)
  <2>1. i \in Index /\ asts[i].name = CurrentDep
    BY <1>0, <1>5, HolderFound DEF VisitDep
  <2>2. Imports(Top, i)
    <3>1. stack # <<>> /\ dep[Top] <= Len(asts[Top].imports)
      BY <1>5 DEF VisitDep, AtDep
    <3>2. Top \in Index
      BY <1>0, <3>1 DEF TypeOK, Top
    <3>3. dep[Top] \in Nat \ {0}
      BY <1>0, <3>2 DEF TypeOK
    <3>4. Len(asts[Top].imports) \in Nat
      <4>1. asts[Top] \in AST
        BY <1>0, <3>2 DEF TypeOK, Index
      <4> QED
        BY <4>1 DEF AST
    <3>5. dep[Top] \in 1..Len(asts[Top].imports)
      BY <3>1, <3>3, <3>4
    <3> QED
      BY <2>1, <3>5 DEF Imports, CurrentDep
  <2>3. EnterVisit(i) /\ phase' = phase /\ root' = root /\ phase = "visit"
    BY <1>5 DEF VisitDep, AtDep
  <2> HIDE DEF i
  <2>4. StackLinked' /\ \A j \in Index : j < root \/ j = i => visited'[j]
    BY <1>0, <1>1, <2>1, <2>2, <2>3, EnterLinks DEF PlanInv
  <2>5. RootsVisited' /\ SearchOver'
    BY <1>1, <2>3, <2>4 DEF RootsVisited, SearchOver, Index
  <2> QED
    BY <1>0, <1>2, <2>4, <2>5 DEF PlanInv
<1>6. CASE LeaveVisit
  <2>1. /\ Len(stack) \in Nat /\ Len(stack') = Len(stack) - 1
        /\ \A m \in 1..(Len(stack) - 1) : stack'[m] = stack[m]
    BY <1>0, <1>6, ButLast DEF LeaveVisit, TypeOK
  <2>2. StackLinked'
    <3> SUFFICES ASSUME NEW m \in 1..(Len(stack') - 1)
                 PROVE  Imports(stack[m], stack[m + 1])'
      BY DEF StackLinked
    <3>1. m \in 1..(Len(stack) - 1) /\ m + 1 \in 1..(Len(stack) - 1)
      BY <2>1
    <3> QED
      BY <1>1, <2>1, <3>1 DEF PlanInv, StackLinked, Imports
  <2>3. RootsVisited' /\ SearchOver'
    BY <1>1, <1>6 DEF LeaveVisit, PlanInv, RootsVisited, SearchOver, Index
  <2> QED
    BY <1>0, <1>2, <2>2, <2>3 DEF PlanInv
<1> QED
  BY <1>3, <1>4, <1>5, <1>6 DEF Next, vars, CheckDuplicateModules, CheckCycle, VisitOther,
    ReturnOrder, CompileModule, CompileNothing, Finished
-----------------------------------------------------------------------------
(* The definitions of ModulePlan, in terms of the search. *)
LEMMA PlanCounts == \A S : Plan!Cardinality(S) = Cardinality(S)
  BY DEF Cardinality, Plan!Cardinality

LEMMA PlanRange == \A f : Plan!Range(f) = Range(f)
  BY DEF Range, Plan!Range

LEMMA ImportNames ==
  ASSUME TypeOK, NEW i \in Index
  PROVE  /\ asts[i].imports \in Seq(Name)
         /\ Range(asts[i].imports) =
              {asts[i].imports[k] : k \in 1..Len(asts[i].imports)}
<1>1. asts[i] \in AST
  BY DEF TypeOK, Index
<1>2. asts[i].imports \in Seq(Name)
  BY <1>1 DEF AST
<1> QED
  BY <1>2 DEF Range

LEMMA PlanDepends ==
  ASSUME TypeOK, NEW i \in Index, NEW j \in Index
  PROVE  Plan!DependsOn(i, j) <=> Imports(i, j)
  BY ImportNames, PlanRange DEF Plan!DependsOn, Imports

LEMMA PlanNames ==
  ASSUME TypeOK, NEW name
  PROVE  name \in Plan!Names <=> Known(name)
  BY PlanRange DEF Plan!Names, Plan!Modules, Known, Index

(* Two equal neighbours in the sorted list: fewer names than modules. *)
LEMMA PlanDuplicate ==
  ASSUME TypeOK
  PROVE  DuplicateNames <=> Plan!Duplicate
<1> DEFINE n == Len(asts) + Len(compiled)
           names == [k \in 1..n |-> IF k <= Len(asts) THEN asts[k].name
                                                     ELSE compiled[k - Len(asts)]]
           N == Plan!Names
<1>1. Len(asts) \in Nat /\ Len(compiled) \in Nat /\ n \in Nat
  BY DEF TypeOK
<1>2. \A k \in 1..n : names[k] \in N
  <2> SUFFICES ASSUME NEW k \in 1..n PROVE Known(names[k])
    BY PlanNames
  <2>1. CASE k <= Len(asts)
    BY <1>1, <2>1 DEF Known, Index
  <2>2. CASE ~ k <= Len(asts)
    <3>1. k - Len(asts) \in 1..Len(compiled) /\ names[k] = compiled[k - Len(asts)]
      BY <1>1, <2>2
    <3> QED
      BY <3>1 DEF Known, Range, TypeOK
  <2> QED
    BY <2>1, <2>2
<1>3. \A name \in N : \E k \in 1..n : names[k] = name
  <2> SUFFICES ASSUME NEW name, Known(name) PROVE \E k \in 1..n : names[k] = name
    BY PlanNames
  <2>1. CASE \E j \in Index : asts[j].name = name
    <3>1. PICK j \in Index : asts[j].name = name
      BY <2>1
    <3>2. j \in 1..n /\ j <= Len(asts)
      BY <1>1 DEF Index
    <3> QED
      BY <3>1, <3>2
  <2>2. CASE name \in Range(compiled)
    <3>1. PICK l \in 1..Len(compiled) : compiled[l] = name
      BY <2>2 DEF Range, TypeOK
    <3>2. Len(asts) + l \in 1..n /\ ~ Len(asts) + l <= Len(asts) /\ Len(asts) + l - Len(asts) = l
      BY <1>1
    <3> QED
      BY <3>1, <3>2
  <2> QED
    BY <2>1, <2>2 DEF Known
<1>4. DuplicateNames <=> \E k, l \in 1..n : k # l /\ names[k] = names[l]
  BY DEF DuplicateNames
<1>5. DOMAIN names = 1..n /\ names = [k \in 1..n |-> names[k]]
  OBVIOUS
<1> HIDE DEF names, N
<1>6. names \in Surjection(1..n, N)
  BY <1>2, <1>3, <1>5 DEF Surjection
<1>7. IsFiniteSet(1..n) /\ Cardinality(1..n) = n
  BY <1>1, FS_Interval
<1>8. Cardinality(N) = n <=> names \in Injection(1..n, N)
  BY <1>6, <1>7, FS_Surjection
<1>9. names \in Injection(1..n, N) <=> \A k, l \in 1..n : names[k] = names[l] => k = l
  BY <1>2, <1>5 DEF Injection, IsInjective
<1>10. Plan!Duplicate <=> Cardinality(N) # n
  BY PlanCounts DEF Plan!Duplicate, N
<1> QED
  BY <1>4, <1>8, <1>9, <1>10
-----------------------------------------------------------------------------
(* checkCycle reports a cycle: the activations from the one of the module  *)
(* it was asked for to the top of the stack each import the next, and the  *)
(* last one imports the first.                                             *)
LEMMA CycleFound ==
  ASSUME PlanInv, CheckCycle
  PROVE  Plan!Cyclic
<1> DEFINE n == Len(stack)
           i == FirstHolder(CurrentDep)
<1>0. TypeOK /\ StackLinked
  BY DEF PlanInv, SearchInv
<1>1. n \in Nat /\ stack # <<>> /\ n \in 1..n /\ stack[n] = Top
  BY <1>0 DEF TypeOK, CheckCycle, AtDep, Top
<1>2. i \in Index /\ asts[i].name = CurrentDep
  BY <1>0, HolderFound DEF CheckCycle
<1>3. Imports(Top, i)
  <2>1. Top \in Index
    BY <1>0, <1>1 DEF TypeOK
  <2>2. dep[Top] \in Nat \ {0} /\ dep[Top] <= Len(asts[Top].imports)
    BY <1>0, <2>1 DEF TypeOK, CheckCycle, AtDep
  <2>3. Len(asts[Top].imports) \in Nat
    BY <1>0, <2>1, ImportNames
  <2>4. dep[Top] \in 1..Len(asts[Top].imports)
    BY <2>2, <2>3
  <2> QED
    BY <1>2, <2>4 DEF Imports, CurrentDep
<1>4. PICK q \in 1..n : stack[q] = i
  BY <1>0 DEF CheckCycle, Range, TypeOK
<1> HIDE DEF i
<1> DEFINE S == {stack[m] : m \in q..n}
<1>5. S \subseteq Index /\ i \in S
  BY <1>0, <1>1, <1>4 DEF TypeOK
<1>6. ASSUME NEW a \in S PROVE \E b \in S : Plan!DependsOn(a, b)
  <2>1. PICK m \in q..n : stack[m] = a
    OBVIOUS
  <2>2. \E b \in S : Imports(a, b)
    <3>1. CASE m = n
      <4>1. a = Top
        BY <1>1, <2>1, <3>1
      <4> QED
        BY <1>3, <1>5, <4>1
    <3>2. CASE m # n
      <4>1. m \in 1..(n - 1) /\ m + 1 \in q..n
        <5>1. \A l \in Nat : \A p \in 1..l : \A k \in p..l : k # l => k \in 1..(l - 1) /\ k + 1 \in p..l
          OBVIOUS
        <5>2. n \in Nat /\ q \in 1..n /\ m \in q..n
          BY <1>1
        <5> HIDE DEF n
        <5> QED
          BY ONLY <3>2, <5>1, <5>2
      <4>2. Imports(stack[m], stack[m + 1])
        BY <1>0, <4>1 DEF StackLinked
      <4> QED
        BY <2>1, <4>1, <4>2
    <3> QED
      BY <3>1, <3>2
  <2> QED
    BY <1>0, <1>5, <2>2, PlanDepends
<1>7. S \in SUBSET Plan!Modules /\ S # {}
  BY <1>5 DEF Plan!Modules, Index
<1> QED
  BY <1>6, <1>7 DEF Plan!Cyclic

(* visit(name) reports a module that nobody passed. *)
LEMMA MissingFound ==
  ASSUME PlanInv, VisitOther, phase' = "notfound"
  PROVE  Plan!Missing
<1>0. TypeOK
  BY DEF PlanInv, SearchInv
<1>1. Top \in Index /\ dep[Top] <= Len(asts[Top].imports)
  BY <1>0 DEF TypeOK, VisitOther, AtDep, Top
<1>2. dep[Top] \in Nat \ {0}
  BY <1>0, <1>1 DEF TypeOK
<1>3. Len(asts[Top].imports) \in Nat
  BY <1>0, <1>1, ImportNames
<1>4. dep[Top] \in 1..Len(asts[Top].imports)
  BY <1>1, <1>2, <1>3
<1>5. CurrentDep \in Range(asts[Top].imports)
  BY <1>0, <1>1, <1>4, ImportNames DEF CurrentDep
<1>6. CurrentDep \notin Range(compiled) /\ Holders(CurrentDep) = {}
  BY DEF VisitOther, AtDep
<1>7. CurrentDep \notin Plan!Names
  <2>1. ~ Known(CurrentDep)
    BY <1>6 DEF Known, Holders
  <2> QED
    BY <1>0, <2>1, PlanNames
<1>8. Top \in Plan!Modules /\ ~ Plan!Range(asts[Top].imports) \subseteq Plan!Names
  BY <1>1, <1>5, <1>7, PlanRange DEF Plan!Modules, Index
<1> QED
  BY <1>8 DEF Plan!Missing

(* When the search is over, the order holds every module once. *)
LEMMA OrderComplete ==
  ASSUME PlanInv, phase = "compile"
  PROVE  Len(order) = Len(asts) /\ \A j \in Index : \E p \in 1..Len(order) : order[p] = j
<1>0. TypeOK /\ OnePlace /\ stack = <<>> /\ root > Len(asts) /\ RootsVisited
  BY DEF PlanInv, SearchInv, SearchOver
<1>1. Len(asts) \in Nat /\ Len(order) \in Nat /\ root \in Nat /\ order \in [1..Len(order) -> Index]
  BY <1>0 DEF TypeOK
<1>2. \A j \in Index : visited[j]
  BY <1>0, <1>1 DEF RootsVisited, Index
<1>3. \A j \in Index : \E p \in 1..Len(order) : order[p] = j
  BY <1>0, <1>2 DEF OnePlace
<1>4. order \in Surjection(1..Len(order), Index)
  BY <1>1, <1>3 DEF Surjection
<1>5. order \in Injection(1..Len(order), Index)
  BY <1>0, <1>1 DEF OnePlace, Injection, IsInjective
<1>6. /\ IsFiniteSet(1..Len(order)) /\ Cardinality(1..Len(order)) = Len(order)
      /\ Cardinality(Index) = Len(asts)
  <2>1. \A n \in Nat : IsFiniteSet(1..n) /\ Cardinality(1..n) = n
    BY FS_Interval
  <2> QED
    BY <1>1, <2>1 DEF Index
<1>7. Cardinality(Index) = Cardinality(1..Len(order))
  BY <1>4, <1>5, <1>6, FS_Surjection
<1> QED
  BY <1>3, <1>6, <1>7

(* An input whose modules are all in the order has no defect. *)
LEMMA NoDefect ==
  ASSUME PlanInv, phase = "compile"
  PROVE  ~ (Plan!Duplicate \/ Plan!Cyclic \/ Plan!Missing)
<1>0. TypeOK /\ ImportsFirst /\ PassedKnown /\ NamesDiffer /\ Len(order) \in Nat
  <2>1. TypeOK /\ ImportsFirst /\ PassedKnown /\ NamesDiffer
    BY DEF PlanInv, SearchInv
  <2> QED
    BY <2>1 DEF TypeOK
<1>1. \A j \in Index : \E p \in 1..Len(order) : order[p] = j
  BY OrderComplete
<1>2. ~ Plan!Duplicate
  BY <1>0, PlanDuplicate DEF NamesDiffer
<1>3. ~ Plan!Missing
  <2> SUFFICES ASSUME NEW i \in Index, NEW name \in Range(asts[i].imports)
               PROVE  name \in Plan!Names
    BY PlanRange DEF Plan!Missing, Plan!Modules, Index
  <2>1. PICK k \in 1..Len(asts[i].imports) : asts[i].imports[k] = name
    BY <1>0, ImportNames
  <2>2. Known(name)
    BY <1>0, <1>1, <2>1 DEF PassedKnown
  <2> QED
    BY <1>0, <2>2, PlanNames
<1>4. ~ Plan!Cyclic
  <2> SUFFICES ASSUME NEW S \in SUBSET Index, S # {},
                      \A i \in S : \E j \in S : Plan!DependsOn(i, j)
               PROVE  FALSE
    BY DEF Plan!Cyclic, Plan!Modules, Index
  <2> DEFINE P == {p \in 1..Len(order) : order[p] \in S}
  <2>1. P \subseteq Nat /\ P # {}
    BY <1>0, <1>1
  <2>2. PICK p \in P : \A q \in P : p <= q
    BY <2>1, LeastMember
  <2>3. PICK j \in S : Plan!DependsOn(order[p], j)
    BY <2>2
  <2>4. Imports(order[p], j)
    BY <1>0, <2>2, <2>3, PlanDepends
  <2>5. PICK q \in 1..(p - 1) : order[q] = j
    BY <1>0, <2>2, <2>4 DEF ImportsFirst
  <2>6. q \in P /\ q < p
    BY <1>0, <2>1, <2>2, <2>5
  <2> QED
    BY <1>0, <2>1, <2>2, <2>6
<1> QED
  BY <1>2, <1>3, <1>4

(* Scopes opened for the whole order are a plan. *)
LEMMA ScopesArePlan ==
  ASSUME PlanInv, PlanInv', phase = "compile", UNCHANGED <<asts, compiled, order>>,
         Len(scopes') = Len(order)
  PROVE  Plan!Topological(scopes')
<1>0. /\ TypeOK /\ ImportsFirst /\ scopes' \in Seq(Index) /\ Len(order) \in Nat
      /\ Len(order) = Len(asts)
  BY OrderComplete DEF PlanInv, SearchInv, TypeOK, Index
<1>1. \A p \in 1..Len(order) : scopes'[p] = order[p]
  BY DEF PlanInv, SearchInv, ScopesFollow
<1>2. DOMAIN scopes' = 1..Len(order) /\ 1..Len(order) = Plan!Modules /\ Plan!Modules = Index
  BY <1>0 DEF Plan!Modules, Index
<1>3. Plan!Range(scopes') = Index
  <2>1. \A j \in Index : \E p \in 1..Len(order) : scopes'[p] = j
    BY <1>1, OrderComplete
  <2>2. \A p \in 1..Len(order) : scopes'[p] \in Index
    BY <1>0, <1>2
  <2> QED
    BY <1>2, <2>1, <2>2 DEF Plan!Range
<1>4. ASSUME NEW k \in 1..Len(order), NEW j \in Index, Plan!DependsOn(scopes'[k], j)
      PROVE  \E l \in 1..(k - 1) : scopes'[l] = j
  <2>1. order[k] \in Index /\ Imports(order[k], j)
    BY <1>0, <1>1, <1>4, PlanDepends DEF TypeOK
  <2>2. PICK l \in 1..(k - 1) : order[l] = j
    BY <1>0, <2>1 DEF ImportsFirst
  <2>3. l \in 1..Len(order)
    BY <1>0
  <2> QED
    BY <1>1, <2>2, <2>3
<1> QED
  BY <1>2, <1>3, <1>4 DEF Plan!Topological
LEMMA PlanMapStep ==
  PlanInv /\ PlanInv' /\ [Next]_vars => [Plan!Next]_(Plan!vars)
<1> SUFFICES ASSUME PlanInv, PlanInv', [Next]_vars
             PROVE  Plan!Next \/ UNCHANGED Plan!vars
  OBVIOUS
<1> USE DEF input
<1>0. TypeOK /\ TypeOK' /\ Len(scopes) \in Nat
  <2>1. TypeOK /\ TypeOK'
    BY DEF PlanInv, SearchInv
  <2> QED
    BY <2>1 DEF TypeOK
<1>1. CASE CheckDuplicateModules
  <2>1. CASE DuplicateNames
    <3>1. Plan!Duplicate
      BY <1>0, <2>1, PlanDuplicate
    <3>2. Plan!Reject("duplicate")
      BY <1>1, <2>1 DEF CheckDuplicateModules, Plan!Reject, Failed
    <3> QED
      BY <3>1, <3>2 DEF Plan!Next
  <2>2. CASE ~ DuplicateNames
    BY <1>1, <2>2 DEF CheckDuplicateModules, Plan!vars, Failed
  <2> QED
    BY <2>1, <2>2
<1>2. CASE CheckCycle
  <2>1. Plan!Cyclic
    BY <1>2, CycleFound
  <2>2. Plan!Reject("cyclic")
    BY <1>2 DEF CheckCycle, AtDep, Plan!Reject, Failed
  <2> QED
    BY <2>1, <2>2 DEF Plan!Next
<1>3. CASE VisitOther
  <2>1. CASE phase' = "notfound"
    <3>1. Plan!Missing
      BY <1>3, <2>1, MissingFound
    <3>2. Plan!Reject("notfound")
      BY <1>3, <2>1 DEF VisitOther, AtDep, Plan!Reject, Failed
    <3> QED
      BY <3>1, <3>2 DEF Plan!Next
  <2>2. CASE phase' = phase
    BY <1>3, <2>2 DEF VisitOther, Plan!vars
  <2> QED
    BY <1>3, <2>1, <2>2 DEF VisitOther
<1>4. ASSUME phase = "compile", phase' = "done", Len(scopes') = Len(order),
             UNCHANGED <<asts, compiled, order>>
      PROVE  Plan!Next
  <2>1. Plan!Topological(scopes')
    BY <1>4, ScopesArePlan
  <2>2. ~ (Plan!Duplicate \/ Plan!Cyclic \/ Plan!Missing)
    BY <1>4, NoDefect
  <2>3. Plan!Accept
    BY <1>4, <2>1, <2>2 DEF Plan!Accept, Failed
  <2> QED
    BY <2>3 DEF Plan!Next
<1>5. CASE CompileModule
  <2>1. CASE Len(scopes') = Len(order)
    BY <1>4, <1>5, <2>1 DEF CompileModule
  <2>2. CASE Len(scopes') # Len(order)
    BY <1>5, <2>2 DEF CompileModule, Plan!vars, Failed
  <2> QED
    BY <2>1, <2>2
<1>6. CASE CompileNothing
  <2>1. scopes' = scopes /\ order = <<>> /\ Len(scopes) <= Len(order)
    BY <1>6 DEF CompileNothing, PlanInv, SearchInv, ScopesFollow
  <2>2. Len(scopes') = Len(order)
    BY <1>0, <2>1
  <2> QED
    BY <1>4, <1>6, <2>2 DEF CompileNothing
<1>7. CASE VisitRoot \/ VisitDep \/ LeaveVisit \/ ReturnOrder
  BY <1>7 DEF VisitRoot, VisitDep, AtDep, LeaveVisit, ReturnOrder, Plan!vars, Failed
<1>8. CASE UNCHANGED vars
  BY <1>8 DEF vars, Plan!vars
<1> QED
  BY <1>1, <1>2, <1>3, <1>5, <1>6, <1>7, <1>8 DEF Next, Finished

(* findModuleOrder followed by compileModules implements ModulePlan for    *)
(* every list of ASTs: a DuplicateModule, CyclicImport or ModuleNotFound   *)
(* error is raised only for an input that has that defect, and a call that *)
(* returns has compiled every module of a defect-free input exactly once,  *)
(* each after everything it imports.                                       *)
THEOREM SearchRefinesPlan == Spec => RefinesPlan
<1>1. Init => Plan!Init
  BY DEF Init, Plan!Init, Failed
<1> QED
  BY <1>1, PlanInit, PlanStep, PlanMapStep, PTL DEF Spec, RefinesPlan, Plan!Spec
=============================================================================
