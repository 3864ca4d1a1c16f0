---------------------------- MODULE ClosureProofs ----------------------------
(***************************************************************************)
(* For any number of closures and arrays that hold and capture each other: *)
(* the function of a closure and its captures always belong together, and  *)
(* as long as a closure with captures is assigned only to one with         *)
(* captures, closures behave as the shared functions of SharedFunctions.   *)
(***************************************************************************)
EXTENDS ClosureRuntime, RefPtrProofs

(* What makes BodyMatches inductive: the pointers are in order, and a      *)
(* function is stored exactly where a pointer is.                          *)
CloInv == PtrInv /\ CloTypeOK /\ BodyMatches

(* Closures are slots, and their captures are objects. *)
LEMMA ClosureSlots == Closure \subseteq Slot /\ Captures \subseteq Object
  BY ClosureAssumption

(* An operation on closures or arrays is an operation on a pointer or      *)
(* leaves all pointers alone, so what holds of pointers holds here.        *)
LEMMA CloStepIsPtrStep == CloNext => [Next]_vars
<1> SUFFICES ASSUME CloNext PROVE [Next]_vars
  OBVIOUS
<1>0. Closure \subseteq Slot /\ Captures \subseteq Object /\ Arrays \subseteq Slot
      /\ Storage \subseteq Object
  BY ClosureAssumption DEF Arrays, Storage
<1>1. ASSUME NEW s \in Slot, CloDefCtor(s) PROVE Next
  BY <1>1 DEF CloDefCtor, Next, Operation
<1>2. ASSUME NEW s \in Slot, NEW f \in Func, CloFunCtor(s, f) PROVE Next
  BY <1>2 DEF CloFunCtor, Next, Operation
<1>3. ASSUME NEW s \in Slot, NEW o \in Object, CloLamCtor(s, o) PROVE Next
  BY <1>3 DEF CloLamCtor, Next, Operation
<1>4. ASSUME NEW s \in Slot, CloDtor(s) PROVE Next
  BY <1>4 DEF CloDtor, Next, Operation
<1>5. ASSUME NEW s \in Slot, NEW d \in Slot, CloCopCtor(d, s) PROVE Next
  BY <1>5 DEF CloCopCtor, Next, Operation
<1>6. ASSUME NEW s \in Slot, NEW d \in Slot, CloMovCtor(d, s) PROVE Next
  BY <1>6 DEF CloMovCtor, Next, Operation
<1>7. ASSUME NEW s \in Slot, NEW d \in Slot, CloCopAsgn(d, s) PROVE [Next]_vars
  BY <1>7 DEF CloCopAsgn, FunOnly, Next, Operation
<1>8. ASSUME NEW s \in Slot, NEW d \in Slot, CloMovAsgn(d, s) PROVE [Next]_vars
  BY <1>8 DEF CloMovAsgn, FunOnly, Next, Operation
<1>9. CASE ClosureOperation
  BY <1>0, <1>1, <1>2, <1>3, <1>4, <1>5, <1>6, <1>7, <1>8, <1>9 DEF ClosureOperation
<1>10. CASE ArrayOperation
  BY <1>0, <1>10 DEF ArrayOperation, Next, Operation
<1>11. CASE CloUnwind
  BY <1>0, <1>11 DEF CloUnwind, CloCapDtor, Next, Unwind
<1> QED
  BY <1>9, <1>10, <1>11 DEF CloNext

-----------------------------------------------------------------------------
(* DatOf before and after each operation. *)

(* While the program runs, the captures are what the pointer says. *)
LEMMA DatOfRunning == Running => \A t : DatOf(t) = slot[t]
  BY DEF Running, DatOf

(* The closures as the program sees them: what SharedFunctions calls val.  *)
Val == [s \in Closure |-> IF slot[s] = Dead THEN Dead ELSE <<fun[s], DatOf(s)>>]

ClosureFun == Func \union LambdaBody \union {Stub}

LEMMA ValType ==
  ASSUME PtrInv, CloTypeOK, NEW s \in Closure
  PROVE  /\ DatOf(s) \in Pointer \union {Dead}
         /\ slot[s] # Dead => fun[s] \in ClosureFun /\ DatOf(s) \in Pointer
         /\ Val[s] = Dead <=> slot[s] = Dead
         /\ slot[s] # Dead => Val[s] = <<fun[s], DatOf(s)>>
         /\ slot[s] = Dead => DatOf(s) = Dead
<1>1. /\ slot[s] \in Pointer \union {Dead}
      /\ asgn # NoAsgn => asgn.dst \in Slot /\ asgn.src \in Slot \union {Null} /\ asgn.val \in Pointer
      /\ asgn # NoAsgn /\ asgn.src # Null => slot[asgn.src] \in Pointer
      /\ asgn # NoAsgn => slot[asgn.dst] # Dead
      /\ asgn # NoAsgn /\ asgn.src # Null => slot[asgn.src] # Dead
  BY ClosureSlots DEF PtrInv, TypeOK, AsgnSafe
<1>2. Null \in Pointer /\ Null \notin Slot /\ Dead \notin Pointer
  BY RefPtrAssumption DEF Pointer
<1>3. /\ DatOf(s) \in Pointer \union {Dead}
      /\ slot[s] # Dead => DatOf(s) \in Pointer
      /\ slot[s] = Dead => DatOf(s) = Dead
  BY ClosureSlots, <1>1, <1>2 DEF DatOf
<1>4. slot[s] # Dead => fun[s] \in ClosureFun
  BY DEF CloTypeOK, ClosureFun
<1>5. slot[s] # Dead => <<fun[s], DatOf(s)>> \in ClosureFun \X Pointer
  BY <1>3, <1>4
<1>6. slot[s] # Dead => <<fun[s], DatOf(s)>> # Dead
  BY <1>5, ClosureAssumption DEF ClosureFun
<1> QED
  BY <1>3, <1>4, <1>6 DEF Val

(* A step that gives one closure a function and captures, or destroys it,  *)
(* and leaves the others as they are.                                      *)
LEMMA ValChange ==
  ASSUME CloTypeOK, NEW d \in Closure, NEW g, NEW v,
         fun' = [fun EXCEPT ![d] = g],
         slot'[d] = Dead <=> v = Dead,
         v # Dead => DatOf(d)' = v,
         \A t \in Closure \ {d} : /\ slot'[t] = Dead <=> slot[t] = Dead
                               /\ DatOf(t)' = DatOf(t)
  PROVE  Val' = [Val EXCEPT ![d] = IF v = Dead THEN Dead ELSE <<g, v>>]
<1>1. fun'[d] = g /\ \A t \in Closure \ {d} : fun'[t] = fun[t]
  BY DEF CloTypeOK
<1>2. Val'[d] = IF v = Dead THEN Dead ELSE <<g, v>>
  BY <1>1 DEF Val
<1>3. \A t \in Closure \ {d} : Val'[t] = Val[t]
  BY <1>1 DEF Val
<1> QED
  BY <1>2, <1>3 DEF Val

(* The functions after such a step. *)
LEMMA FunChange ==
  ASSUME CloTypeOK, TypeOK', NEW d \in Closure, NEW g \in ClosureFun \union {Unset},
         fun' = [fun EXCEPT ![d] = g],
         slot'[d] = Dead <=> g = Unset,
         \A t \in Closure \ {d} : slot'[t] = Dead <=> slot[t] = Dead
  PROVE  CloTypeOK'
<1>1. fun' \in [Closure -> Func \union LambdaBody \union {Stub, Unset}]
  BY ClosureSlots DEF CloTypeOK, ClosureFun
<1>2. \A t \in Closure : fun'[t] = Unset <=> slot'[t] = Dead
  BY DEF CloTypeOK
<1> QED
  BY <1>1, <1>2 DEF CloTypeOK

-----------------------------------------------------------------------------
(* What each operation does to the closures. *)

(* clo_def_ctor, clo_fun_ctor, clo_lam_ctor and clo_cop_ctor: a dead slot  *)
(* gets a function and a pointer.                                          *)
LEMMA ConstructsClosure ==
  ASSUME CloInv, PtrInv', NEW d \in Closure, NEW g \in ClosureFun, NEW v \in Pointer,
         Running, Running', slot[d] = Dead,
         slot' = [slot EXCEPT ![d] = v], SetFun(d, g)
  PROVE  /\ CloTypeOK'
         /\ Val[d] = Dead
         /\ Val' = [Val EXCEPT ![d] = <<g, v>>]
<1>1. slot'[d] = v /\ \A t \in Closure \ {d} : slot'[t] = slot[t]
  BY DEF CloInv, PtrInv, TypeOK
<1>2. v # Dead /\ g # Unset
  BY RefPtrAssumption, ClosureAssumption DEF Pointer, ClosureFun
<1>3. DatOf(d)' = v /\ \A t \in Closure \ {d} : DatOf(t)' = DatOf(t)
  BY <1>1, <1>2, DatOfRunning DEF DatOf, Running
<1>4. TypeOK' /\ fun' = [fun EXCEPT ![d] = g] /\ CloTypeOK
  BY DEF PtrInv, SetFun, CloInv
<1>5. CloTypeOK'
  BY <1>1, <1>2, <1>4, FunChange
<1>6. Val' = [Val EXCEPT ![d] = IF v = Dead THEN Dead ELSE <<g, v>>]
  BY <1>1, <1>2, <1>3, <1>4, ValChange
<1>7. Val[d] = Dead
  BY DEF Val
<1> QED
  BY <1>2, <1>5, <1>6, <1>7

(* clo_dtor of a variable, and of a captured closure by clo_cap_dtor. *)
LEMMA DestroysClosure ==
  ASSUME CloInv, PtrInv', NEW s \in Closure, CloDtor(s) \/ CloCapDtor(s)
  PROVE  /\ CloTypeOK'
         /\ Val[s] # Dead
         /\ Val' = [Val EXCEPT ![s] = Dead]
<1>0. /\ PtrInv /\ CloTypeOK /\ TypeOK' /\ slot[s] # Dead
      /\ slot' = [slot EXCEPT ![s] = Dead] /\ asgn' = asgn
      /\ fun' = [fun EXCEPT ![s] = Unset]
  BY DEF CloInv, PtrInv, CloDtor, CloCapDtor, PtrDtor, Alive, DestroyPart, LiveParts, SetFun
<1>1. slot'[s] = Dead /\ \A t \in Slot \ {s} : slot'[t] = slot[t]
  BY ClosureSlots DEF CloInv, PtrInv, TypeOK, CloDtor, CloCapDtor, PtrDtor, DestroyPart
<1>2. asgn # NoAsgn => s # asgn.dst /\ (asgn.src # Null => s # asgn.src)
  BY ClosureSlots, PartNotAssigned DEF CloInv, CloDtor, CloCapDtor, PtrDtor, Running
<1>3. asgn # NoAsgn => asgn.dst \in Slot /\ asgn.src \in Slot \union {Null}
  BY <1>0 DEF PtrInv, TypeOK
<1>4. \A t \in Closure \ {s} : DatOf(t)' = DatOf(t)
  <2>1. asgn # NoAsgn /\ asgn.src # Null => slot'[asgn.src] = slot[asgn.src]
    BY <1>1, <1>2, <1>3
  <2> QED
    BY ClosureSlots, <1>0, <1>1, <2>1 DEF DatOf
<1>5. CloTypeOK'
  BY ClosureSlots, <1>0, <1>1, FunChange
<1>6. Val' = [Val EXCEPT ![s] = IF Dead = Dead THEN Dead ELSE <<Unset, Dead>>]
  BY ClosureSlots, <1>0, <1>1, <1>4, ValChange
<1>7. Val[s] # Dead
  BY <1>0, ValType
<1> QED
  BY <1>5, <1>6, <1>7

(* clo_cop_ctor *)
LEMMA CopyConstructs ==
  ASSUME CloInv, PtrInv', NEW d \in Closure, NEW s \in Closure, CloCopCtor(d, s)
  PROVE  /\ CloTypeOK'
         /\ d # s /\ Val[s] # Dead
         /\ Val' = [Val EXCEPT ![d] = Val[s]]
<1>0. /\ PtrInv /\ CloTypeOK /\ Running /\ Running' /\ slot[d] = Dead /\ slot[s] # Dead
      /\ slot' = [slot EXCEPT ![d] = slot[s]] /\ SetFun(d, fun[s])
  BY DEF CloInv, CloCopCtor, PtrCopCtor, Constructible, Alive, Running
<1>1. fun[s] \in ClosureFun /\ slot[s] \in Pointer /\ Val[s] = <<fun[s], slot[s]>> /\ Val[s] # Dead
  BY <1>0, ValType, DatOfRunning
<1>2. CloTypeOK' /\ Val' = [Val EXCEPT ![d] = <<fun[s], slot[s]>>]
  BY <1>0, <1>1, ConstructsClosure
<1> QED
  BY <1>0, <1>1, <1>2

(* A step that moves closure s to d. *)
LEMMA ValMove ==
  ASSUME CloTypeOK, TypeOK', NEW d \in Closure, NEW s \in Closure, d # s,
         slot[s] # Dead, SetFun(d, fun[s]),
         slot'[d] # Dead, slot'[s] # Dead,
         DatOf(d)' = DatOf(s), DatOf(s)' = Null,
         \A t \in Closure \ {d, s} : /\ slot'[t] = Dead <=> slot[t] = Dead
                                  /\ DatOf(t)' = DatOf(t)
  PROVE  /\ CloTypeOK'
         /\ Val' = [Val EXCEPT ![d] = Val[s], ![s] = <<Val[s][1], Null>>]
<1>1. /\ fun' = [fun EXCEPT ![d] = fun[s]]
      /\ fun'[d] = fun[s] /\ \A t \in Closure \ {d} : fun'[t] = fun[t]
  BY DEF CloTypeOK, SetFun
<1>2. Val[s] = <<fun[s], DatOf(s)>>
  BY DEF Val
<1>3. Val'[d] = Val[s] /\ Val'[s] = <<fun[s], Null>>
  BY <1>1, <1>2 DEF Val
<1>4. \A t \in Closure \ {d, s} : Val'[t] = Val[t]
  BY <1>1 DEF Val
<1>5. Val' = [Val EXCEPT ![d] = Val[s], ![s] = <<Val[s][1], Null>>]
  BY <1>2, <1>3, <1>4 DEF Val
<1>6. fun[s] \in ClosureFun /\ fun[s] # Unset
  BY DEF CloTypeOK, ClosureFun
<1>7. CloTypeOK'
  BY <1>1, <1>6, FunChange
<1> QED
  BY <1>5, <1>7

(* clo_mov_ctor *)
LEMMA MoveConstructs ==
  ASSUME CloInv, PtrInv', NEW d \in Closure, NEW s \in Closure, CloMovCtor(d, s)
  PROVE  /\ CloTypeOK'
         /\ d # s /\ Val[s] # Dead
         /\ Val' = [Val EXCEPT ![d] = Val[s], ![s] = <<Val[s][1], Null>>]
<1>0. /\ PtrInv /\ CloTypeOK /\ TypeOK' /\ Running /\ Running'
      /\ slot[d] = Dead /\ slot[s] # Dead /\ d # s
      /\ slot' = [slot EXCEPT ![d] = slot[s], ![s] = Null] /\ SetFun(d, fun[s])
  BY DEF CloInv, PtrInv, CloMovCtor, PtrMovCtor, Constructible, Alive, Running
<1>1. /\ slot'[d] = slot[s] /\ slot'[s] = Null
      /\ \A t \in Closure \ {d, s} : slot'[t] = slot[t]
  BY ClosureSlots, <1>0 DEF PtrInv, TypeOK
<1>2. /\ DatOf(d)' = DatOf(s) /\ DatOf(s)' = Null
      /\ \A t \in Closure \ {d, s} : DatOf(t)' = DatOf(t)
  BY <1>0, <1>1 DEF DatOf, Running
<1>3. Null # Dead /\ Val[s] # Dead
  BY <1>0, ValType, RefPtrAssumption
<1>4. /\ slot'[d] # Dead /\ slot'[s] # Dead
      /\ \A t \in Closure \ {d, s} : /\ slot'[t] = Dead <=> slot[t] = Dead
                                 /\ DatOf(t)' = DatOf(t)
  BY <1>0, <1>1, <1>2, <1>3
<1> QED
  BY <1>0, <1>2, <1>3, <1>4, ValMove

(* cloAsgn without captures on the left: only the function is stored. *)
LEMMA AssignsFunction ==
  ASSUME CloInv, PtrInv', NEW d \in Closure, NEW s \in Closure, FunOnly(d, s), SetFun(d, fun[s])
  PROVE  /\ CloTypeOK'
         /\ Val[s] # Dead /\ Val[s][1] = fun[s] /\ Val[s][2] = slot[s]
         /\ Val[d] = <<fun[d], Null>>
         /\ Val' = [Val EXCEPT ![d] = <<fun[s], Null>>]
<1>0. /\ PtrInv /\ CloTypeOK /\ TypeOK' /\ Running /\ slot[d] = Null /\ slot[s] # Dead
      /\ slot' = slot /\ asgn' = asgn /\ fun' = [fun EXCEPT ![d] = fun[s]]
  BY DEF CloInv, PtrInv, FunOnly, AssignsData, Alive, vars, SetFun
<1>1. \A t : DatOf(t)' = DatOf(t) /\ DatOf(t) = slot[t]
  BY <1>0, DatOfRunning DEF DatOf
<1>2. Null # Dead
  BY RefPtrAssumption
<1>3. fun[s] \in ClosureFun /\ fun[s] # Unset
  BY <1>0 DEF CloTypeOK, ClosureFun
<1>4. CloTypeOK'
  BY <1>0, <1>2, <1>3, FunChange
<1>5. Val' = [Val EXCEPT ![d] = IF Null = Dead THEN Dead ELSE <<fun[s], Null>>]
  <2>1. /\ slot'[d] = Dead <=> Null = Dead
        /\ DatOf(d)' = Null
        /\ \A t \in Closure \ {d} : /\ slot'[t] = Dead <=> slot[t] = Dead
                                /\ DatOf(t)' = DatOf(t)
    BY <1>0, <1>1, <1>2
  <2> QED
    BY <1>0, <2>1, ValChange
<1>6. Val[s] = <<fun[s], slot[s]>> /\ Val[s] # Dead /\ Val[d] = <<fun[d], Null>>
  BY <1>0, <1>1, <1>2, ValType
<1> QED
  BY <1>2, <1>4, <1>5, <1>6

(* cloAsgn with captures on the left, copying. *)
LEMMA CopyAssigns ==
  ASSUME CloInv, PtrInv', NEW d \in Closure, NEW s \in Closure, PtrCopAsgn(d, s), SetFun(d, fun[s])
  PROVE  /\ CloTypeOK'
         /\ Val[s] # Dead
         /\ Val' = [Val EXCEPT ![d] = Val[s]]
<1>0. /\ PtrInv /\ CloTypeOK /\ TypeOK' /\ Running /\ slot[d] # Dead /\ slot[s] # Dead
      /\ slot' = slot /\ asgn' = [dst |-> d, src |-> Null, val |-> slot[s]]
      /\ fun' = [fun EXCEPT ![d] = fun[s]]
  BY DEF CloInv, PtrInv, PtrCopAsgn, Alive, SetFun
<1>1. Null \notin Slot
  BY RefPtrAssumption
<1>2. asgn'.dst = d /\ asgn'.src = Null /\ asgn'.val = slot[s] /\ asgn' # NoAsgn
  BY ClosureSlots, <1>0, <1>1 DEF NoAsgn
<1>3. DatOf(d)' = slot[s] /\ \A t \in Closure \ {d} : DatOf(t)' = slot[t]
  BY ClosureSlots, <1>0, <1>1, <1>2 DEF DatOf
<1>4. \A t \in Closure \ {d} : DatOf(t)' = DatOf(t)
  BY <1>0, <1>3, DatOfRunning
<1>5. fun[s] \in ClosureFun /\ fun[s] # Unset
  BY <1>0 DEF CloTypeOK, ClosureFun
<1>6. CloTypeOK'
  BY <1>0, <1>5, FunChange
<1>7. Val' = [Val EXCEPT ![d] = IF slot[s] = Dead THEN Dead ELSE <<fun[s], slot[s]>>]
  BY <1>0, <1>3, <1>4, ValChange
<1>8. Val[s] = <<fun[s], slot[s]>> /\ Val[s] # Dead
  BY <1>0, DatOfRunning, ValType
<1> QED
  BY <1>0, <1>6, <1>7, <1>8

(* cloAsgn with captures on the left, moving. *)
LEMMA MoveAssigns ==
  ASSUME CloInv, PtrInv', NEW d \in Closure, NEW s \in Closure, PtrMovAsgn(d, s), SetFun(d, fun[s])
  PROVE  /\ CloTypeOK'
         /\ d # s /\ Val[s] # Dead
         /\ Val' = [Val EXCEPT ![d] = Val[s], ![s] = <<Val[s][1], Null>>]
<1>0. /\ PtrInv /\ CloTypeOK /\ TypeOK' /\ Running /\ d # s /\ slot[d] # Dead /\ slot[s] # Dead
      /\ slot' = slot /\ asgn' = [dst |-> d, src |-> s, val |-> Null]
  BY DEF CloInv, PtrInv, PtrMovAsgn, Alive
<1>1. Null \notin Slot
  BY RefPtrAssumption
<1>2. asgn'.dst = d /\ asgn'.src = s /\ asgn' # NoAsgn /\ s # Null
  BY ClosureSlots, <1>0, <1>1 DEF NoAsgn
<1>3. /\ DatOf(d)' = slot[s] /\ DatOf(s)' = Null
      /\ \A t \in Closure \ {d, s} : DatOf(t)' = slot[t]
  BY <1>0, <1>1, <1>2 DEF DatOf
<1>4. DatOf(d)' = DatOf(s) /\ \A t \in Closure \ {d, s} : DatOf(t)' = DatOf(t)
  BY <1>0, <1>3, DatOfRunning
<1>5. Val[s] # Dead
  BY <1>0, ValType
<1>6. /\ slot'[d] # Dead /\ slot'[s] # Dead
      /\ \A t \in Closure \ {d, s} : /\ slot'[t] = Dead <=> slot[t] = Dead
                                 /\ DatOf(t)' = DatOf(t)
  BY <1>0, <1>4
<1>7. DatOf(d)' = DatOf(s) /\ DatOf(s)' = Null
  BY <1>3, <1>4
<1> QED
  BY <1>0, <1>5, <1>6, <1>7, ValMove

(* The end of a destructor and the store that ends an assignment change    *)
(* nothing that the program can see of its closures.                       *)
LEMMA UnwindingKeeps ==
  ASSUME CloInv, PtrInv', FreeObject \/ FinishAsgn, UNCHANGED fun
  PROVE  CloTypeOK' /\ Val' = Val
<1>0. PtrInv /\ CloTypeOK /\ TypeOK' /\ fun' = fun
  BY DEF CloInv, PtrInv
<1>1. CASE FreeObject
  <2>1. slot' = slot /\ asgn' = asgn
    BY <1>1 DEF FreeObject
  <2>2. CloTypeOK'
    BY <1>0, <2>1 DEF CloTypeOK
  <2> QED
    BY <1>0, <2>1, <2>2 DEF Val, DatOf
<1>2. CASE FinishAsgn
  <2> DEFINE d == asgn.dst
             s == asgn.src
  <2>1. /\ asgn # NoAsgn /\ asgn' = NoAsgn
        /\ d \in Slot /\ s \in Slot \union {Null} /\ asgn.val \in Pointer /\ slot[d] # Dead
        /\ s # Null => s # d /\ slot[s] # Dead
        /\ slot \in [Slot -> Pointer \union {Dead}]
    BY <1>0, <1>2 DEF FinishAsgn, PtrInv, TypeOK, AsgnSafe
  <2>2. Null \notin Slot /\ Null # Dead /\ Dead \notin Pointer
    BY RefPtrAssumption DEF Pointer
  <2>3. slot' = IF s = Null THEN [slot EXCEPT ![d] = asgn.val]
                            ELSE [slot EXCEPT ![d] = slot[s], ![s] = Null]
    BY <1>2 DEF FinishAsgn
  <2> HIDE DEF d, s
  <2>4. ASSUME NEW t \in Closure
        PROVE  slot'[t] = DatOf(t) /\ (slot'[t] = Dead <=> slot[t] = Dead)
    <3>1. CASE s = Null
      BY ClosureSlots, <2>1, <2>2, <2>3, <3>1 DEF DatOf, d, s
    <3>2. CASE s # Null
      BY ClosureSlots, <2>1, <2>2, <2>3, <3>2 DEF DatOf, d, s
    <3> QED
      BY <3>1, <3>2
  <2>5. \A t \in Closure : DatOf(t)' = slot'[t]
    BY <2>1 DEF DatOf
  <2>6. CloTypeOK'
    BY <1>0, <2>4 DEF CloTypeOK
  <2> QED
    BY <1>0, <2>4, <2>5, <2>6 DEF Val
<1> QED
  BY <1>1, <1>2

(* What arrays do to their pointers changes no closure. *)
LEMMA ArraysKeep ==
  ASSUME CloInv, PtrInv', UNCHANGED fun, ArrayOperation \/ \E s \in Arrays : DestroyPart(s)
  PROVE  CloTypeOK' /\ Val' = Val
<1>0. /\ PtrInv /\ CloTypeOK /\ TypeOK' /\ slot \in [Slot -> Pointer \union {Dead}]
      /\ Arrays \subseteq Slot /\ Closure \subseteq Slot /\ Arrays \intersect Closure = {}
      /\ Null \notin Slot
  BY RefPtrAssumption, ClosureAssumption DEF CloInv, PtrInv, TypeOK, Arrays
<1> DEFINE Same == \A t \in Closure : slot'[t] = slot[t] /\ DatOf(t)' = DatOf(t)
<1>1. ASSUME NEW s \in Arrays, NEW o, Construct(s, o) PROVE Same
  BY <1>0, <1>1 DEF Construct, Running, DatOf
<1>2. ASSUME NEW s \in Arrays, PtrDtor(s) PROVE Same
  BY <1>0, <1>2 DEF PtrDtor, Running, DatOf
<1>3. ASSUME NEW d \in Arrays, NEW s \in Arrays, PtrCopCtor(d, s) PROVE Same
  BY <1>0, <1>3 DEF PtrCopCtor, Running, DatOf
<1>4. ASSUME NEW d \in Arrays, NEW s \in Arrays, PtrMovCtor(d, s) PROVE Same
  BY <1>0, <1>4 DEF PtrMovCtor, Running, DatOf
<1>5. ASSUME NEW d \in Arrays, NEW s \in Arrays, PtrCopAsgn(d, s) PROVE Same
  BY <1>0, <1>5 DEF PtrCopAsgn, Running, DatOf
<1>6. ASSUME NEW d \in Arrays, NEW s \in Arrays, PtrMovAsgn(d, s) PROVE Same
  BY <1>0, <1>6 DEF PtrMovAsgn, Running, DatOf
<1>7. ASSUME NEW s \in Arrays, DestroyPart(s) PROVE Same
  <2>1. slot' = [slot EXCEPT ![s] = Dead] /\ asgn' = asgn
    BY <1>7 DEF DestroyPart
  <2>2. asgn # NoAsgn => /\ asgn.src # Null => s # asgn.src
                         /\ asgn.src \in Slot \union {Null}
    BY <1>0, <1>7, PartNotAssigned DEF PtrInv, TypeOK
  <2>3. asgn # NoAsgn /\ asgn.src # Null => slot'[asgn.src] = slot[asgn.src]
    BY <1>0, <2>1, <2>2
  <2> QED
    BY <1>0, <2>1, <2>3 DEF DatOf
<1>8. Same
  BY <1>1, <1>2, <1>3, <1>4, <1>5, <1>6, <1>7 DEF ArrayOperation
<1>9. CloTypeOK'
  BY <1>0, <1>8 DEF CloTypeOK
<1> QED
  BY <1>8, <1>9 DEF Val

-----------------------------------------------------------------------------
(* BodyMatches, said of the closures that the program sees. *)
Whole(v) == v # Dead /\ v[2] \in Object => v[1] = Body[v[2]]
AllWhole == \A s \in Closure : Whole(Val[s])

LEMMA WholeIsMatching == PtrInv /\ CloTypeOK => (BodyMatches <=> AllWhole)
<1> SUFFICES ASSUME PtrInv, CloTypeOK PROVE BodyMatches <=> AllWhole
  OBVIOUS
<1>1. Dead \notin Object
  BY RefPtrAssumption
<1>2. ASSUME NEW s \in Closure
      PROVE  Whole(Val[s]) <=> (DatOf(s) \in Object => fun[s] = Body[DatOf(s)])
  <2>1. CASE slot[s] = Dead
    BY <1>1, <2>1, ValType DEF Whole
  <2>2. CASE slot[s] # Dead
    <3>1. Val[s] = <<fun[s], DatOf(s)>> /\ Val[s] # Dead
      BY <2>2, ValType
    <3> QED
      BY <3>1 DEF Whole
  <2> QED
    BY <2>1, <2>2
<1> QED
  BY <1>2 DEF BodyMatches, AllWhole

(* The closures of SharedFunctions, and its steps. *)
Makeable == {<<Stub, Null>>} \union (Func \X {Null}) \union {<<Body[o], o>> : o \in Captures}
Makes(s) == Val[s] = Dead /\ \E v \in Makeable : Val' = [Val EXCEPT ![s] = v]
Destroys(s) == Val[s] # Dead /\ Val' = [Val EXCEPT ![s] = Dead]
Copies(d, s) == Val[s] # Dead /\ Val' = [Val EXCEPT ![d] = Val[s]]
Moves(d, s) ==
  Val[s] # Dead /\ Val' = [Val EXCEPT ![d] = Val[s], ![s] = <<Val[s][1], Null>>]
(* What cloAsgn does where the destination has no captures. *)
KeepsData(d, s) ==
  /\ AssignAny
  /\ Val[s] # Dead
  /\ Val' = [Val EXCEPT ![d] = <<Val[s][1], Null>>]

Effect ==
  \/ Val' = Val
  \/ \E s \in Closure : Makes(s) \/ Destroys(s)
  \/ \E d, s \in Closure : d # s /\ (Copies(d, s) \/ Moves(d, s))
  \/ \E d, s \in Closure : KeepsData(d, s)

(* Every operation on closures has one of these effects. *)
LEMMA CloEffect == ASSUME CloInv, PtrInv', CloNext PROVE CloTypeOK' /\ Effect
<1>0. PtrInv /\ CloTypeOK
  BY DEF CloInv
<1>1. ASSUME CloTypeOK' /\ Val' = Val PROVE CloTypeOK' /\ Effect
  BY <1>1 DEF Effect
<1>2. ASSUME NEW s \in Closure, NEW g \in ClosureFun, NEW v \in Pointer, <<g, v>> \in Makeable,
             Running, Running', slot[s] = Dead, slot' = [slot EXCEPT ![s] = v], SetFun(s, g)
      PROVE  CloTypeOK' /\ Effect
  <2>1. CloTypeOK' /\ Val[s] = Dead /\ Val' = [Val EXCEPT ![s] = <<g, v>>]
    BY <1>2, ConstructsClosure
  <2>2. Makes(s)
    BY <1>2, <2>1 DEF Makes
  <2> QED
    BY <2>1, <2>2 DEF Effect
<1>3. ASSUME NEW s \in Closure, NEW g \in Func \union {Stub}, ConstructNull(s), SetFun(s, g)
      PROVE  CloTypeOK' /\ Effect
  <2>1. Null \in Pointer /\ g \in ClosureFun /\ <<g, Null>> \in Makeable
    BY DEF Pointer, ClosureFun, Makeable
  <2>2. Running /\ Running' /\ slot[s] = Dead /\ slot' = [slot EXCEPT ![s] = Null]
    BY <1>3 DEF ConstructNull, Constructible, Running
  <2> QED
    BY <1>2, <1>3, <2>1, <2>2
<1>4. ASSUME NEW s \in Closure, NEW o \in Captures, CloLamCtor(s, o)
      PROVE  CloTypeOK' /\ Effect
  <2>1. o \in Pointer /\ Body[o] \in ClosureFun /\ <<Body[o], o>> \in Makeable
    BY ClosureSlots DEF Pointer, ClosureFun, LambdaBody, Makeable
  <2>2. /\ Running /\ Running' /\ slot[s] = Dead /\ slot' = [slot EXCEPT ![s] = o]
        /\ SetFun(s, Body[o])
    BY <1>4 DEF CloLamCtor, Construct, Constructible, Running
  <2> QED
    BY <1>2, <2>1, <2>2
<1>5. ASSUME NEW s \in Closure, CloDtor(s) \/ CloCapDtor(s)
      PROVE  CloTypeOK' /\ Effect
  BY <1>5, DestroysClosure DEF Effect, Destroys
<1>6. ASSUME NEW d \in Closure, NEW s \in Closure, CloCopCtor(d, s)
      PROVE  CloTypeOK' /\ Effect
  BY <1>6, CopyConstructs DEF Effect, Copies
<1>7. ASSUME NEW d \in Closure, NEW s \in Closure, CloMovCtor(d, s)
      PROVE  CloTypeOK' /\ Effect
  <2>1. /\ CloTypeOK'
        /\ d # s /\ Moves(d, s)
    BY <1>7, MoveConstructs DEF Moves
  <2> QED
    BY <2>1 DEF Effect
<1>8. ASSUME NEW d \in Closure, NEW s \in Closure, Considered(d, s), FunOnly(d, s), SetFun(d, fun[s])
      PROVE  CloTypeOK' /\ Effect
  <2>1. /\ CloTypeOK'
        /\ Val[s] # Dead /\ Val[s][1] = fun[s] /\ Val[s][2] = slot[s]
        /\ Val[d] = <<fun[d], Null>>
        /\ Val' = [Val EXCEPT ![d] = <<fun[s], Null>>]
    BY <1>8, AssignsFunction
  <2>2. CASE AssignAny
    BY <2>1, <2>2 DEF Effect, KeepsData
  <2>3. CASE ~ AssignAny
    <3>1. slot[s] = Null /\ slot[s] # Dead
      BY <1>8, <2>3 DEF Considered, FunOnly, AssignsData, Alive
    <3>2. Val[s] = <<fun[s], Null>>
      BY <1>0, <1>8, <3>1, ValType, DatOfRunning DEF FunOnly
    <3>3. CASE d = s
      BY <2>1, <3>2, <3>3 DEF Effect, Val
    <3>4. CASE d # s
      BY <2>1, <3>2, <3>4 DEF Effect, Copies
    <3> QED
      BY <2>1, <3>3, <3>4
  <2> QED
    BY <2>1, <2>2, <2>3
<1>9. ASSUME NEW d \in Closure, NEW s \in Closure, CloCopAsgn(d, s)
      PROVE  CloTypeOK' /\ Effect
  <2>1. CASE PtrCopAsgn(d, s)
    <3>1. CloTypeOK' /\ Val[s] # Dead /\ Val' = [Val EXCEPT ![d] = Val[s]]
      BY <1>9, <2>1, CopyAssigns DEF CloCopAsgn
    <3>2. CASE d = s
      BY <3>1, <3>2 DEF Effect, Val
    <3>3. CASE d # s
      BY <3>1, <3>3 DEF Effect, Copies
    <3> QED
      BY <3>1, <3>2, <3>3
  <2>2. CASE FunOnly(d, s)
    BY <1>8, <1>9, <2>2 DEF CloCopAsgn
  <2> QED
    BY <1>9, <2>1, <2>2 DEF CloCopAsgn
<1>10. ASSUME NEW d \in Closure, NEW s \in Closure, CloMovAsgn(d, s)
       PROVE  CloTypeOK' /\ Effect
  <2>1. CASE PtrMovAsgn(d, s)
    <3>1. /\ CloTypeOK'
          /\ d # s /\ Moves(d, s)
      BY <1>10, <2>1, MoveAssigns DEF CloMovAsgn, Moves
    <3> QED
      BY <3>1 DEF Effect
  <2>2. CASE FunOnly(d, s)
    BY <1>8, <1>10, <2>2 DEF CloMovAsgn
  <2> QED
    BY <1>10, <2>1, <2>2 DEF CloMovAsgn
<1>11. CASE ClosureOperation
  BY <1>3, <1>4, <1>5, <1>6, <1>7, <1>9, <1>10, <1>11 DEF ClosureOperation, CloDefCtor, CloFunCtor
<1>12. CASE ArrayOperation
  BY <1>1, <1>12, ArraysKeep DEF ArrayOperation
<1>13. CASE CloUnwind
  BY <1>1, <1>5, <1>13, ArraysKeep, UnwindingKeeps DEF CloUnwind
<1> QED
  BY <1>11, <1>12, <1>13 DEF CloNext

(* No effect puts a body together with foreign captures. *)
LEMMA EffectKeepsWhole ==
  ASSUME Effect, AllWhole
  PROVE  AllWhole'
<1>0. Null \notin Object
  BY RefPtrAssumption
<1>1. \A g : Whole(<<g, Null>>)
  BY <1>0 DEF Whole
<1>2. Whole(Dead)
  BY DEF Whole
<1>3. \A v \in Makeable : Whole(v)
  <2>1. \A o \in Captures : Whole(<<Body[o], o>>)
    BY DEF Whole
  <2>2. \A v \in Func \X {Null} : Whole(v)
    BY <1>0 DEF Whole
  <2> QED
    BY <1>1, <2>1, <2>2 DEF Makeable
<1>4. DOMAIN Val = Closure
  BY DEF Val
<1> QED
  BY <1>1, <1>2, <1>3, <1>4 DEF AllWhole, Effect, Makes, Destroys, Copies, Moves, KeepsData

LEMMA CloInitInv == CloInit => CloInv
<1> SUFFICES ASSUME CloInit PROVE CloInv
  OBVIOUS
<1>1. PtrInv
  BY InitInv DEF CloInit
<1>2. CloTypeOK
  BY ClosureSlots, <1>1 DEF CloTypeOK, CloInit, Init, PtrInv
<1>3. BodyMatches
  BY ClosureSlots, RefPtrAssumption DEF BodyMatches, CloInit, Init, DatOf
<1> QED
  BY <1>1, <1>2, <1>3 DEF CloInv

LEMMA CloStepInv == CloInv /\ [CloNext]_cvars => CloInv'
<1> SUFFICES ASSUME CloInv, [CloNext]_cvars PROVE CloInv'
  OBVIOUS
<1>1. PtrInv'
  <2>1. [Next]_vars
    BY CloStepIsPtrStep DEF cvars
  <2> QED
    BY <2>1, StepInv DEF CloInv
<1>2. CASE CloNext
  <2>1. CloTypeOK' /\ Effect
    BY <1>1, <1>2, CloEffect
  <2>2. AllWhole'
    BY <2>1, EffectKeepsWhole, WholeIsMatching DEF CloInv
  <2>3. (PtrInv /\ CloTypeOK => (BodyMatches <=> AllWhole))'
    BY WholeIsMatching, PTL
  <2>4. BodyMatches'
    BY <1>1, <2>1, <2>2, <2>3
  <2> QED
    BY <1>1, <2>1, <2>4 DEF CloInv
<1>3. CASE UNCHANGED cvars
  <2>1. slot' = slot /\ asgn' = asgn /\ fun' = fun
    BY <1>3 DEF cvars, vars
  <2>2. CloTypeOK'
    BY <1>1, <2>1 DEF CloInv, CloTypeOK, PtrInv
  <2>3. BodyMatches'
    BY <2>1 DEF CloInv, BodyMatches, DatOf
  <2> QED
    BY <1>1, <2>2, <2>3 DEF CloInv
<1> QED
  BY <1>2, <1>3

LEMMA CloInvAlways == CloSpec => []CloInv
  BY CloInitInv, CloStepInv, PTL DEF CloSpec

-----------------------------------------------------------------------------
(* A slot that was constructed and not destroyed has a function, which is  *)
(* one that some expression put there, and a dead slot has none.           *)
THEOREM ClosuresTyped == CloSpec => []CloTypeOK
<1>1. CloInv => CloTypeOK
  BY DEF CloInv
<1> QED
  BY <1>1, CloInvAlways, PTL

(* No sequence of constructors, copies, moves, assignments and destructors *)
(* of closures combines a lambda body with captures that were made for     *)
(* another one, or a function that is no lambda with captures.             *)
THEOREM BodiesMatchCaptures == CloSpec => []BodyMatches
<1>1. CloInv => BodyMatches
  BY DEF CloInv
<1> QED
  BY <1>1, CloInvAlways, PTL

(* Closures and arrays use the reference counted pointers of generate      *)
(* pointer.cpp only through their operations, so no captures dangle, none  *)
(* are destroyed twice, and what leaks is a circle, as in closure_circle,  *)
(* or held by one.                                                         *)
THEOREM CapturesAreManaged ==
  CloSpec => Spec /\ [](RefExact /\ NoDangling /\ DestroyedOnce /\ OnlyCirclesLeak)
<1>1. CloInit => Init
  BY DEF CloInit
<1>2. [CloNext]_cvars => [Next]_vars
  BY CloStepIsPtrStep DEF cvars
<1>3. CloSpec => Spec
  BY <1>1, <1>2, PTL DEF CloSpec, Spec
<1> QED
  BY <1>3, CountsAreExact, NothingDangles, DestructorsRunOnce, OnlyCirclesAreLeaked, PTL

(* README.md, Closures: as long as a closure with captures is only         *)
(* assigned to one with captures, every operation of generate closure.cpp  *)
(* is one on shared functions: it takes over the body and the captures     *)
(* together, and copies share the captures.                                *)
THEOREM ClosuresAreShared ==
  ASSUME ~ AssignAny
  PROVE  CloSpec => BehavesLikeSharedFunctions
<1>1. CloInit => Shared!Init
  BY ClosureSlots DEF CloInit, Init, Shared!Init
<1>2. CloInv /\ [CloNext]_cvars => [Shared!Next]_Val
  <2> SUFFICES ASSUME CloInv, [CloNext]_cvars PROVE [Shared!Next]_Val
    OBVIOUS
  <2>1. CASE UNCHANGED cvars
    BY <2>1 DEF cvars, vars, Val, DatOf
  <2>2. CASE CloNext
    <3>1. PtrInv'
      BY <2>2, CloStepIsPtrStep, StepInv DEF CloInv
    <3>2. Effect
      BY <2>2, <3>1, CloEffect
    <3>3. ASSUME NEW s \in Closure, Makes(s) PROVE Shared!Make(s)
      BY <3>3 DEF Makes, Shared!Make, Val, Makeable
    <3>4. ASSUME NEW s \in Closure, Destroys(s) PROVE Shared!Destroy(s)
      BY <3>4 DEF Destroys, Shared!Destroy, Val
    <3>5. ASSUME NEW d \in Closure, NEW s \in Closure, Copies(d, s) PROVE Shared!Copy(d, s)
      BY <3>5 DEF Copies, Shared!Copy, Val
    <3>6. ASSUME NEW d \in Closure, NEW s \in Closure, Moves(d, s) PROVE Shared!Move(d, s)
      BY <3>6 DEF Moves, Shared!Move, Val
    <3> QED
      BY <3>2, <3>3, <3>4, <3>5, <3>6 DEF Effect, KeepsData, Shared!Next
  <2> QED
    BY <2>1, <2>2
<1> QED
  BY <1>1, <1>2, CloInvAlways, PTL DEF CloSpec, BehavesLikeSharedFunctions, Shared!Spec, Val
=============================================================================
