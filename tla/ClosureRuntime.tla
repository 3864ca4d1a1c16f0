--------------------------- MODULE ClosureRuntime ---------------------------
(***************************************************************************)
(* The closures of compiled Stela programs (src/CodeGen/generate           *)
(* closure.cpp) beside the arrays that hold them and that they capture.    *)
(* A closure is a pointer to a function, `fun`, and a reference counted    *)
(* pointer to its captures, obj.dat, which is a slot of RefPtr: the        *)
(* operations on closures are operations on that pointer with an           *)
(* assignment of `fun` before them.  The slots of arrays have operations   *)
(* of their own (src/CodeGen/generate array.cpp), which leave `fun` alone. *)
(***************************************************************************)
EXTENDS RefPtr

CONSTANTS
  Closure,    \* the slots that hold closures; the others hold arrays
  Body,       \* Body[o]: the lambda body that the captures o were made for
  Func,       \* functions that are not lambdas
  Stub,       \* clo_stub, the function of an empty closure
  Unset,      \* memory where no closure has been constructed
  AssignAny   \* bound: FALSE leaves out the assignments described below

Captures == DOMAIN Body
Storage == Object \ Captures
LambdaBody == {Body[o] : o \in Captures}

ASSUME ClosureAssumption ==
  /\ Closure \subseteq Slot
  /\ Captures \subseteq Object
  /\ AssignAny \in BOOLEAN
  /\ Func \intersect LambdaBody = {}
  /\ Stub \notin Func \union LambdaBody
  /\ Unset \notin Func \union LambdaBody \union {Stub}
  /\ Dead \notin (Func \union LambdaBody \union {Stub}) \X Pointer

VARIABLE fun   \* obj.fun of the closures, whose obj.dat is slot
cvars == <<vars, fun>>

CloInit == Init /\ fun = [s \in Closure |-> Unset]

SetFun(s, f) == fun' = [fun EXCEPT ![s] = f]

CloDefCtor(s) == ConstructNull(s) /\ SetFun(s, Stub)

CloFunCtor(s, f) == ConstructNull(s) /\ SetFun(s, f)

(* A lambda expression allocates its captures; clo_lam_ctor stores both. *)
CloLamCtor(s, o) == Construct(s, o) /\ SetFun(s, Body[o])

(* clo_dtor does nothing for null and ptr_dtor neither. *)
CloDtor(s) == PtrDtor(s) /\ SetFun(s, Unset)

(* A bug: the copy does not get the captures. *)
CloCopCtorNoData(d, s) == Alive(s) /\ ConstructNull(d) /\ SetFun(d, fun[s])

CloCopCtor(d, s) == PtrCopCtor(d, s) /\ SetFun(d, fun[s])
CloMovCtor(d, s) == PtrMovCtor(d, s) /\ SetFun(d, fun[s])

(* A bug: the wrong side is tested. *)
AssignsDataBySource(d, s) == slot[s] # Null

(* cloAsgn assigns the captures only if the destination has some.  Unless  *)
(* AssignAny, a closure with captures is only assigned to such a one.      *)
AssignsData(d, s) == slot[d] # Null
Considered(d, s) == AssignAny \/ slot[d] # Null \/ slot[s] = Null
FunOnly(d, s) ==
  Running /\ Alive(d) /\ Alive(s) /\ ~ AssignsData(d, s) /\ UNCHANGED vars

CloCopAsgn(d, s) ==
  /\ Considered(d, s)
  /\ (AssignsData(d, s) /\ PtrCopAsgn(d, s)) \/ FunOnly(d, s)
  /\ SetFun(d, fun[s])

CloMovAsgn(d, s) ==
  /\ Considered(d, s)
  /\ (AssignsData(d, s) /\ PtrMovAsgn(d, s)) \/ (d # s /\ FunOnly(d, s))
  /\ SetFun(d, fun[s])

(* A destructor of captures or of an array destroys a closure. *)
CloCapDtor(s) == DestroyPart(s) /\ SetFun(s, Unset)

Arrays == Slot \ Closure
(* A lambda expression copies what it captures; other slots are also       *)
(* constructed from new values.                                            *)
Fresh == {s \in Slot : Owner[s] \notin Captures}

ClosureOperation ==
  \/ \E s \in Closure \intersect Fresh :
       \/ CloDefCtor(s)
       \/ \E f \in Func : CloFunCtor(s, f)
       \/ \E o \in Captures : CloLamCtor(s, o)
       \/ \E t \in Closure : CloMovCtor(s, t)
  \/ \E s \in Closure :
       \/ CloDtor(s)
       \/ \E d \in Closure : CloCopCtor(d, s) \/ CloCopAsgn(d, s) \/ CloMovAsgn(d, s)

(* What arr_def_ctor and the other functions of an array do to its pointer. *)
ArrayOperation ==
  /\ \/ \E s \in Arrays \intersect Fresh :
            \/ \E o \in Storage : Construct(s, o)
            \/ \E t \in Arrays : PtrMovCtor(s, t)
     \/ \E s \in Arrays :
            \/ PtrDtor(s)
            \/ \E d \in Arrays : PtrCopCtor(d, s) \/ PtrCopAsgn(d, s) \/ PtrMovAsgn(d, s)
  /\ UNCHANGED fun

CloUnwind ==
  \/ \E s \in Closure : CloCapDtor(s)
  \/ (FreeObject \/ FinishAsgn \/ \E s \in Arrays : DestroyPart(s)) /\ UNCHANGED fun

CloNext == ClosureOperation \/ ArrayOperation \/ CloUnwind

CloSpec == CloInit /\ [][CloNext]_cvars
(* Destructors and assignments run to their end; the program need not call *)
(* anything.                                                               *)
CloFairSpec == CloSpec /\ WF_cvars(CloUnwind)
-----------------------------------------------------------------------------
CloTypeOK ==
  /\ TypeOK
  /\ fun \in [Closure -> Func \union LambdaBody \union {Stub, Unset}]
  /\ \A s \in Closure : fun[s] = Unset <=> slot[s] = Dead

(* The captures of the closure, as soon as the operation that is under way *)
(* has its effect.                                                         *)
DatOf(s) ==
  IF asgn # NoAsgn /\ s = asgn.dst
  THEN IF asgn.src = Null THEN asgn.val ELSE slot[asgn.src]
  ELSE IF asgn # NoAsgn /\ s = asgn.src THEN Null ELSE slot[s]

(* A lambda body is never combined with the captures of another lambda,    *)
(* which it would read with the wrong layout, nor a function or the stub   *)
(* with captures.                                                          *)
BodyMatches == \A s \in Closure : DatOf(s) \in Object => fun[s] = Body[DatOf(s)]

(* Every operation takes over a closure as a whole. *)
Shared == INSTANCE SharedFunctions WITH
  Slot <- Closure,
  Makeable <- {<<Stub, Null>>} \union (Func \X {Null}) \union {<<Body[o], o>> : o \in Captures},
  val <- [s \in Closure |-> IF slot[s] = Dead THEN Dead ELSE <<fun[s], DatOf(s)>>]
BehavesLikeSharedFunctions == Shared!Spec
=============================================================================
