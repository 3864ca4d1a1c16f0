------------------------------- MODULE RefPtr -------------------------------
(***************************************************************************)
(* Reference counted pointers of compiled Stela programs                   *)
(* (src/CodeGen/generate pointer.cpp) and the destructors that ptr_dec     *)
(* calls back (arr_strg_dtor, clo_cap_dtor).                               *)
(*                                                                         *)
(* An object is a heap block that starts with a reference count: the       *)
(* storage of an array or the captures of a closure.  A slot is a place    *)
(* that may hold a pointer to one: a variable or a temporary of the        *)
(* program, an element of an array storage, a capture of a closure.  The   *)
(* destructor of an object runs in the middle of an assignment or of       *)
(* another destructor, so a call of ptr_dec is not one step here: `dtors`  *)
(* is the stack of destructor activations and `asgn` the assignment that   *)
(* waits for the outermost one.                                            *)
(***************************************************************************)
EXTENDS Integers, Sequences, FiniteSets

CONSTANTS
  Object,    \* heap blocks
  Slot,      \* places for a pointer
  Program,   \* the owner of variables and temporaries
  Owner,     \* Owner[s]: the object that the slot is part of, or Program
  MayHold,   \* <<s, o>>: the type of slot s lets it point to object o
  Null,      \* a null pointer
  Dead       \* no pointer has been constructed in the slot

ASSUME RefPtrAssumption ==
  /\ IsFiniteSet(Slot)
  /\ Program \notin Object /\ Null \notin Slot
  /\ Owner \in [Slot -> Object \union {Program}]
  /\ MayHold \subseteq Slot \X Object
  /\ Null \notin Object /\ Dead \notin Object /\ Null # Dead

VARIABLES
  slot,   \* the contents of the slots
  ref,    \* the reference counts
  heap,   \* the objects that were allocated and not freed
  dtors,  \* the objects whose destructor is running, innermost last
  asgn    \* what ptr_cop_asgn or ptr_mov_asgn still has to do

vars == <<slot, ref, heap, dtors, asgn>>

NoAsgn == [dst |-> Null, src |-> Null, val |-> Null]
Pointer == Object \union {Null}

(* No destructor and no assignment is under way: the program runs. *)
Running == dtors = <<>> /\ asgn = NoAsgn

(* What the slot counts for: from the moment an assignment has counted the *)
(* destination down, the destination stands for the value it will get.     *)
Counted ==
  [s \in Slot |->
     IF asgn = NoAsgn \/ s # asgn.dst THEN slot[s]
     ELSE IF asgn.src = Null THEN asgn.val ELSE Null]

(* The blocks that a variable leads to through the slots in `via`: one of  *)
(* these enters every set of blocks that the block belongs to.             *)
Reached(via) ==
  {o \in heap : \A S \in SUBSET heap :
     o \in S => \E s \in via : Counted[s] \in S /\ Owner[s] \notin S}

(* A program can name a variable, or part of a block that it can get to    *)
(* from a variable.                                                        *)
Accessible(s) == Owner[s] \in Reached(Slot) \union {Program}
Alive(s) == Accessible(s) /\ slot[s] # Dead
Constructible(s) == Accessible(s) /\ slot[s] = Dead

Fits(s, ptr) == ptr \in Object => <<s, ptr>> \in MayHold

-----------------------------------------------------------------------------
Init ==
  /\ slot = [s \in Slot |-> Dead]
  /\ ref = [o \in Object |-> 0]
  /\ heap = {}
  /\ dtors = <<>>
  /\ asgn = NoAsgn

(* The reference counts after ptr_inc, which ignores null. *)
Incremented(ptr) ==
  IF ptr = Null THEN ref ELSE [ref EXCEPT ![ptr] = @ + 1]

(* A bug: the destructor is called at every decrement. *)
DecAlways(ptr, counts) ==
  IF ptr = Null
  THEN ref' = counts /\ UNCHANGED dtors
  ELSE /\ ref' = [counts EXCEPT ![ptr] = @ - 1]
       /\ dtors' = IF counts[ptr] >= 1 THEN Append(dtors, ptr) ELSE dtors

(* ptr_dec: ignores null, counts down and calls the destructor at zero. *)
Dec(ptr, counts) ==
  IF ptr = Null
  THEN ref' = counts /\ UNCHANGED dtors
  ELSE /\ ref' = [counts EXCEPT ![ptr] = @ - 1]
       /\ dtors' = IF counts[ptr] = 1 THEN Append(dtors, ptr) ELSE dtors

(* A block is allocated and its count is set to one: arr_def_ctor,         *)
(* arr_len_ctor, or a lambda expression.                                   *)
Construct(s, o) ==
  /\ Running
  /\ Constructible(s)
  /\ o \notin heap
  /\ Fits(s, o)
  /\ heap' = heap \union {o}
  /\ ref' = [ref EXCEPT ![o] = 1]
  /\ slot' = [slot EXCEPT ![s] = o]
  /\ UNCHANGED <<dtors, asgn>>

(* A bug: ptr_cop_ctor without ptr_inc. *)
PtrCopCtorUncounted(d, s) ==
  /\ Running
  /\ Constructible(d)
  /\ Alive(s)
  /\ Fits(d, slot[s])
  /\ slot' = [slot EXCEPT ![d] = slot[s]]
  /\ UNCHANGED <<ref, heap, dtors, asgn>>

(* clo_def_ctor and clo_fun_ctor: a closure without data. *)
ConstructNull(s) ==
  /\ Running
  /\ Constructible(s)
  /\ slot' = [slot EXCEPT ![s] = Null]
  /\ UNCHANGED <<ref, heap, dtors, asgn>>

PtrCopCtor(d, s) ==
  /\ Running
  /\ Constructible(d)
  /\ Alive(s)
  /\ Fits(d, slot[s])
  /\ ref' = Incremented(slot[s])
  /\ slot' = [slot EXCEPT ![d] = slot[s]]
  /\ UNCHANGED <<heap, dtors, asgn>>

(* From a temporary or a part of one, or from a returned variable. *)
PtrMovCtor(d, s) ==
  /\ Running
  /\ Constructible(d)
  /\ Alive(s)
  /\ Fits(d, slot[s])
  /\ slot' = [slot EXCEPT ![d] = slot[s], ![s] = Null]
  /\ UNCHANGED <<ref, heap, dtors, asgn>>

(* Both pointers are loaded and the source is counted before the count of  *)
(* the destination drops; the store waits for the destructor.              *)
PtrCopAsgn(d, s) ==
  /\ Running
  /\ Alive(d)
  /\ Alive(s)
  /\ Fits(d, slot[s])
  /\ Dec(slot[d], Incremented(slot[s]))
  /\ asgn' = [dst |-> d, src |-> Null, val |-> slot[s]]
  /\ UNCHANGED <<slot, heap>>

(* The source is a temporary, or part of what a temporary other than the   *)
(* destination holds until the end of the expression, however deep.        *)
Held(s, d) == Owner[s] \in Reached(Slot \ {d}) \union {Program}
PtrMovAsgn(d, s) ==
  /\ Running
  /\ Alive(d)
  /\ Alive(s)
  /\ d # s
  /\ Held(s, d)
  /\ Fits(d, slot[s])
  /\ Dec(slot[d], ref)
  /\ asgn' = [dst |-> d, src |-> s, val |-> Null]
  /\ UNCHANGED <<slot, heap>>

(* A bug: the store happens only if the destination was not null. *)
FinishAsgnNotNull ==
  /\ dtors = <<>>
  /\ asgn # NoAsgn
  /\ slot[asgn.dst] # Null
  /\ slot' = IF asgn.src = Null
             THEN [slot EXCEPT ![asgn.dst] = asgn.val]
             ELSE [slot EXCEPT ![asgn.dst] = slot[asgn.src], ![asgn.src] = Null]
  /\ asgn' = NoAsgn
  /\ UNCHANGED <<ref, heap, dtors>>

(* The store that ends an assignment; a move reads the source only now. *)
FinishAsgn ==
  /\ dtors = <<>>
  /\ asgn # NoAsgn
  /\ slot' = IF asgn.src = Null
             THEN [slot EXCEPT ![asgn.dst] = asgn.val]
             ELSE [slot EXCEPT ![asgn.dst] = slot[asgn.src], ![asgn.src] = Null]
  /\ asgn' = NoAsgn
  /\ UNCHANGED <<ref, heap, dtors>>

(* A variable goes out of scope or an element is popped. *)
PtrDtor(s) ==
  /\ Running
  /\ Alive(s)
  /\ Dec(slot[s], ref)
  /\ slot' = [slot EXCEPT ![s] = Dead]
  /\ UNCHANGED <<heap, asgn>>

Top == dtors[Len(dtors)]
LiveParts(o) == {s \in Slot : Owner[s] = o /\ slot[s] # Dead}

(* A bug: the destructor frees what its parts point to without counting. *)
DestroyPartFrees(s) ==
  /\ dtors # <<>>
  /\ s \in LiveParts(Top)
  /\ heap' = heap \ {slot[s]}
  /\ slot' = [slot EXCEPT ![s] = Dead]
  /\ UNCHANGED <<ref, dtors, asgn>>

(* The running destructor (destroy_n or clo_cap_dtor) destroys a part. *)
DestroyPart(s) ==
  /\ dtors # <<>>
  /\ s \in LiveParts(Top)
  /\ Dec(slot[s], ref)
  /\ slot' = [slot EXCEPT ![s] = Dead]
  /\ UNCHANGED <<heap, asgn>>

(* A bug: ptr_dec does not call free. *)
FreeObjectForgets ==
  /\ dtors # <<>>
  /\ LiveParts(Top) = {}
  /\ dtors' = SubSeq(dtors, 1, Len(dtors) - 1)
  /\ UNCHANGED <<slot, ref, heap, asgn>>

(* A bug: the block is freed while its destructor still runs. *)
FreeObjectEarly ==
  /\ dtors # <<>>
  /\ LiveParts(Top) = {}
  /\ heap' = heap \ {Top}
  /\ UNCHANGED <<slot, ref, dtors, asgn>>

(* The destructor returns and ptr_dec frees the block. *)
FreeObject ==
  /\ dtors # <<>>
  /\ LiveParts(Top) = {}
  /\ heap' = heap \ {Top}
  /\ dtors' = SubSeq(dtors, 1, Len(dtors) - 1)
  /\ UNCHANGED <<slot, ref, asgn>>

Operation ==
  \E s \in Slot :
    \/ \E o \in Object : Construct(s, o)
    \/ ConstructNull(s)
    \/ \E d \in Slot : PtrCopCtor(d, s)
    \/ \E d \in Slot : PtrMovCtor(d, s)
    \/ \E d \in Slot : PtrCopAsgn(d, s)
    \/ \E d \in Slot : PtrMovAsgn(d, s)
    \/ PtrDtor(s)
Unwind == FreeObject \/ FinishAsgn \/ \E s \in Slot : DestroyPart(s)
Next == Operation \/ Unwind

Spec == Init /\ [][Next]_vars
(* Destructors and assignments run to their end; the program need not call *)
(* anything.                                                               *)
FairSpec == Spec /\ WF_vars(Unwind)
-----------------------------------------------------------------------------
TypeOK ==
  /\ slot \in [Slot -> Pointer \union {Dead}]
  /\ ref \in [Object -> Nat]
  /\ heap \subseteq Object
  /\ dtors \in Seq(heap)
  /\ asgn \in [dst : Slot, src : Slot \union {Null}, val : Pointer] \union {NoAsgn}

Referrers(o) == {s \in Slot : Counted[s] = o}

(* ptr_inc and ptr_dec keep the count of every block equal to the number   *)
(* of slots that refer to it, also while destructors run.                  *)
RefExact ==
  \A o \in heap : ref[o] = Cardinality(Referrers(o))

(* No slot ever refers to a block that was freed. *)
NoDangling == \A s \in Slot : Counted[s] \in Object => Counted[s] \in heap

(* The destructor of a block runs at most once: an object is destroyed     *)
(* exactly while its count is zero, in one activation.                     *)
DestroyedOnce ==
  /\ \A i, j \in 1..Len(dtors) : dtors[i] = dtors[j] => i = j
  /\ \A o \in heap : ref[o] = 0 <=> \E i \in 1..Len(dtors) : dtors[i] = o

(* Every block of the circle refers to a block of the circle. *)
Circle(C) == C # {} /\ \A o \in C : \E s \in Slot : Owner[s] = o /\ slot[s] \in C

(* Blocks that are left without a reference from outside are freed, unless *)
(* there is a circle of references among them: ptr_dec and the destructors *)
(* it calls forget nothing.                                                *)
OnlyCirclesLeak ==
  Running => \A S \in (SUBSET heap) \ {{}} :
               \/ \E s \in Slot : slot[s] \in S /\ Owner[s] \notin S
               \/ \E C \in SUBSET S : Circle(C)

(* README.md, Arrays: "I'm not aware of any way to leak memory", and       *)
(* "There's no way of creating a circular reference".  Every block that is *)
(* allocated can be reached from a variable.                               *)
NoLeak == Running => Reached(Slot) = heap

(* A chain of destructors comes to its end. *)
UnwindEnds == ~ Running ~> Running
=============================================================================
