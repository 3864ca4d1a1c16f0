---------------------------- MODULE RefPtrProofs ----------------------------
(***************************************************************************)
(* For any number of objects and slots, and any references between them:   *)
(* the counts of generate pointer.cpp are exact, no pointer dangles, no    *)
(* block is destroyed twice, and only circles of references are leaked.    *)
(***************************************************************************)
EXTENDS RefPtr, FiniteSetTheorems, StackLemmas

(* A part of a block that is not allocated is dead. *)
PartsDead ==
  \A s \in Slot : Owner[s] \in Object /\ Owner[s] \notin heap => slot[s] = Dead

(* While an assignment waits for destructors, its destination and its      *)
(* source can still be reached from variables: the destructors destroy     *)
(* blocks that nothing refers to.                                          *)
AsgnSafe ==
  asgn # NoAsgn =>
    /\ slot[asgn.dst] # Dead
    /\ Accessible(asgn.dst)
    /\ asgn.src # Null =>
         /\ asgn.src # asgn.dst
         /\ slot[asgn.src] # Dead
         /\ Accessible(asgn.src)

PtrInv ==
  /\ TypeOK
  /\ RefExact
  /\ NoDangling
  /\ DestroyedOnce
  /\ PartsDead
  /\ AsgnSafe

-----------------------------------------------------------------------------
(* Counting the slots whose contents f are o. *)
SlotsAt(f, o) == PlacesOf(Slot, f, o)

LEMMA CountIsNat ==
  ASSUME NEW f, NEW o
  PROVE  /\ IsFiniteSet(SlotsAt(f, o))
         /\ Cardinality(SlotsAt(f, o)) \in Nat
  BY RefPtrAssumption, PlacesFinite DEF SlotsAt

LEMMA CountZero ==
  ASSUME NEW f, NEW o
  PROVE  Cardinality(SlotsAt(f, o)) = 0 <=> \A s \in Slot : f[s] # o
  BY RefPtrAssumption, NoPlaces DEF SlotsAt

(* Storing v in slot d takes one from the count of its old value and adds  *)
(* one to the count of v.                                                  *)
LEMMA CountChange ==
  ASSUME NEW f, NEW g, NEW d \in Slot, NEW o,
         \A s \in Slot : s # d => g[s] = f[s]
  PROVE  Cardinality(SlotsAt(g, o))
           = Cardinality(SlotsAt(f, o)) - Bit(f[d], o) + Bit(g[d], o)
  BY RefPtrAssumption, PlacesChange DEF SlotsAt, CountMoves

-----------------------------------------------------------------------------
LEMMA CountedType ==
  ASSUME TypeOK
  PROVE  /\ Counted \in [Slot -> Pointer \union {Dead}]
         /\ asgn = NoAsgn => Counted = slot
<1>1. \A s \in Slot : Counted[s] \in Pointer \union {Dead}
  BY DEF TypeOK, Counted, Pointer, NoAsgn
<1>2. Counted \in [Slot -> Pointer \union {Dead}]
  BY <1>1 DEF Counted
<1>3. ASSUME asgn = NoAsgn
      PROVE  Counted = slot
  BY <1>3 DEF TypeOK, Counted
<1> QED
  BY <1>2, <1>3

LEMMA RefersAt == \A o : Referrers(o) = SlotsAt(Counted, o)
  BY DEF Referrers, SlotsAt, PlacesOf

(* A block that some slot refers to is allocated and has been counted. *)
LEMMA Referred ==
  ASSUME TypeOK, RefExact, NoDangling, NEW s \in Slot, Counted[s] \in Object
  PROVE  Counted[s] \in heap /\ ref[Counted[s]] \in Nat /\ ref[Counted[s]] >= 1
<1> DEFINE o == Counted[s]
<1>1. o \in heap
  BY DEF NoDangling
<1>2. ref[o] = Cardinality(Referrers(o))
  BY <1>1 DEF RefExact
<1>3. Cardinality(Referrers(o)) # 0
  BY CountZero, RefersAt
<1>4. ref[o] \in Nat
  BY DEF TypeOK
<1> QED
  BY <1>1, <1>2, <1>3, <1>4

(* What a variable leads to is allocated and counted. *)
LEMMA ReachedCounted ==
  ASSUME TypeOK, RefExact, NoDangling, NEW o \in Reached(Slot)
  PROVE  o \in heap /\ ref[o] \in Nat /\ ref[o] >= 1
<1>1. o \in heap
  BY DEF Reached
<1>2. {o} \in SUBSET heap /\ o \in {o}
  BY <1>1
<1>3. PICK t \in Slot : Counted[t] \in {o}
  BY <1>2, Zenon DEF Reached
<1>4. Counted[t] = o /\ o \in Object
  BY <1>1, <1>3 DEF TypeOK
<1> QED
  BY <1>1, <1>4, Referred

LEMMA AccessibleAllocated ==
  ASSUME NEW s \in Slot, Accessible(s)
  PROVE  Owner[s] \in Object => Owner[s] \in heap
  BY RefPtrAssumption DEF Accessible, Reached

(* The path to the block that a slot is part of does not lead through the  *)
(* slot.                                                                   *)
LEMMA OwnPath ==
  ASSUME NEW d \in Slot, Accessible(d)
  PROVE  Held(d, d)
<1>1. CASE Owner[d] = Program
  BY <1>1 DEF Held
<1>2. CASE Owner[d] \in Reached(Slot)
  <2>1. Owner[d] \in heap
    BY <1>2 DEF Reached
  <2>2. ASSUME NEW S \in SUBSET heap, Owner[d] \in S
        PROVE  \E t \in Slot \ {d} : Counted[t] \in S /\ Owner[t] \notin S
    <3>1. PICK t \in Slot : Counted[t] \in S /\ Owner[t] \notin S
      BY <1>2, <2>2, Zenon DEF Reached
    <3> QED
      BY <2>2, <3>1
  <2>3. Owner[d] \in Reached(Slot \ {d})
    BY <2>1, <2>2 DEF Reached
  <2> QED
    BY <2>3 DEF Held
<1> QED
  BY <1>1, <1>2 DEF Accessible

(* A path that avoids d is still there after d got another value. *)
LEMMA HeldStays ==
  ASSUME UNCHANGED heap, NEW d \in Slot, NEW s \in Slot, Held(s, d),
         \A t \in Slot : t # d => Counted'[t] = Counted[t]
  PROVE  Accessible(s)'
<1>1. CASE Owner[s] = Program
  BY <1>1 DEF Accessible
<1>2. CASE Owner[s] \in Reached(Slot \ {d})
  <2>1. Owner[s] \in heap
    BY <1>2 DEF Reached
  <2>2. ASSUME NEW S \in SUBSET heap, Owner[s] \in S
        PROVE  \E t \in Slot : Counted'[t] \in S /\ Owner[t] \notin S
    <3>1. PICK t \in Slot \ {d} : Counted[t] \in S /\ Owner[t] \notin S
      BY <1>2, <2>2, Zenon DEF Reached
    <3> QED
      BY <3>1
  <2>3. Owner[s] \in Reached(Slot)'
    BY <2>1, <2>2 DEF Reached
  <2> QED
    BY <2>3 DEF Accessible
<1> QED
  BY <1>1, <1>2 DEF Held

(* ptr_inc. *)
LEMMA IncCounts ==
  ASSUME TypeOK, NEW ptr \in Pointer
  PROVE  /\ Incremented(ptr) \in [Object -> Nat]
         /\ \A o \in Object : Incremented(ptr)[o] = ref[o] + Bit(ptr, o)
<1>1. CASE ptr = Null
  BY <1>1, RefPtrAssumption DEF Incremented, Bit, TypeOK
<1>2. CASE ptr # Null
  BY <1>2 DEF Incremented, Bit, TypeOK, Pointer
<1> QED
  BY <1>1, <1>2

(* ptr_dec, given that something refers to the block: it counts one down   *)
(* and starts the destructor of a block exactly when nothing refers to it  *)
(* any more.                                                               *)
LEMMA DecCounts ==
  ASSUME TypeOK, DestroyedOnce, UNCHANGED heap,
         NEW ptr \in Pointer, NEW counts \in [Object -> Nat],
         ptr # Null => ptr \in heap /\ ref[ptr] >= 1 /\ counts[ptr] >= 1,
         \A o \in heap : counts[o] = 0 <=> ref[o] = 0,
         Dec(ptr, counts)
  PROVE  /\ ref' \in [Object -> Nat]
         /\ dtors' \in Seq(heap)
         /\ \A o \in Object : ref'[o] = counts[o] - Bit(ptr, o)
         /\ DestroyedOnce'
         /\ \/ dtors' = dtors
            \/ ptr # Null /\ dtors' = Append(dtors, ptr)
<1>0. dtors \in Seq(heap) /\ Len(dtors) \in Nat
  BY DEF TypeOK
<1>1. CASE ptr = Null
  <2>1. ref' = counts /\ dtors' = dtors
    BY <1>1 DEF Dec
  <2>2. \A o \in Object : ref'[o] = counts[o] - Bit(ptr, o)
    BY <1>1, <2>1, RefPtrAssumption DEF Bit
  <2>3. DestroyedOnce'
    BY <2>1 DEF DestroyedOnce, TypeOK
  <2> QED
    BY <1>0, <2>1, <2>2, <2>3
<1>2. CASE ptr # Null
  <2>1. ptr \in Object /\ ptr \in heap
    BY <1>2 DEF Pointer
  <2>2. ref' = [counts EXCEPT ![ptr] = @ - 1]
    BY <1>2 DEF Dec
  <2>3. ref' \in [Object -> Nat]
    BY <1>2, <2>1, <2>2
  <2>4. \A o \in Object : ref'[o] = counts[o] - Bit(ptr, o)
    BY <2>1, <2>2 DEF Bit
  <2>5. \A o \in heap : ref[o] = 0 <=> \E i \in 1..Len(dtors) : dtors[i] = o
    BY DEF DestroyedOnce
  <2>6. \A i, j \in 1..Len(dtors) : dtors[i] = dtors[j] => i = j
    BY DEF DestroyedOnce
  <2>7. CASE counts[ptr] = 1
    <3>1. dtors' = Append(dtors, ptr)
      BY <1>2, <2>7 DEF Dec
    <3>2. dtors' \in Seq(heap)
      BY <1>0, <2>1, <3>1
    <3>3. /\ Len(dtors') = Len(dtors) + 1
          /\ \A i \in 1..Len(dtors) : dtors'[i] = dtors[i]
          /\ dtors'[Len(dtors) + 1] = ptr
      BY <1>0, <3>1
    <3>4. \A i \in 1..Len(dtors) : dtors[i] # ptr
      BY <1>2, <2>1, <2>5
    <3>5. \A i, j \in 1..Len(dtors') : dtors'[i] = dtors'[j] => i = j
      BY <1>0, <2>6, <3>3, <3>4
    <3>6. \A o \in heap : ref'[o] = 0 <=> ref[o] = 0 \/ o = ptr
      BY <1>2, <2>1, <2>2, <2>7 DEF TypeOK
    <3>7. \A o \in heap : (\E i \in 1..Len(dtors') : dtors'[i] = o)
                       <=> (\E i \in 1..Len(dtors) : dtors[i] = o) \/ o = ptr
      BY <1>0, <3>3
    <3>8. DestroyedOnce'
      BY <2>5, <3>5, <3>6, <3>7 DEF DestroyedOnce
    <3> QED
      BY <1>2, <2>3, <2>4, <3>1, <3>2, <3>8
  <2>8. CASE counts[ptr] # 1
    <3>1. dtors' = dtors
      BY <1>2, <2>8 DEF Dec
    <3>2. \A o \in heap : ref'[o] = 0 <=> ref[o] = 0
      BY <1>2, <2>1, <2>2, <2>8 DEF TypeOK
    <3>3. DestroyedOnce'
      BY <2>5, <2>6, <3>1, <3>2 DEF DestroyedOnce
    <3> QED
      BY <1>0, <2>3, <2>4, <3>1, <3>3
  <2> QED
    BY <2>7, <2>8
<1> QED
  BY <1>1, <1>2

(* One slot gets another value and the counts follow it. *)
LEMMA Recount ==
  ASSUME TypeOK, RefExact, NoDangling, UNCHANGED heap,
         NEW d \in Slot, NEW v \in Pointer \union {Dead},
         Counted'[d] = v, \A s \in Slot : s # d => Counted'[s] = Counted[s],
         v \in Object => v \in heap,
         \A o \in heap : ref'[o] = ref[o] - Bit(Counted[d], o) + Bit(v, o)
  PROVE  RefExact' /\ NoDangling'
<1>1. Counted \in [Slot -> Pointer \union {Dead}]
  BY CountedType
<1>2. ASSUME NEW o \in heap
      PROVE  ref'[o] = Cardinality(SlotsAt(Counted', o))
  <2>1. Cardinality(SlotsAt(Counted', o))
          = Cardinality(SlotsAt(Counted, o)) - Bit(Counted[d], o) + Bit(v, o)
    <3>1. PICK f, g : f = Counted /\ g = Counted'
      OBVIOUS
    <3>2. \A s \in Slot : s # d => g[s] = f[s]
      BY <3>1
    <3>3. Cardinality(SlotsAt(g, o))
            = Cardinality(SlotsAt(f, o)) - Bit(f[d], o) + Bit(g[d], o)
      BY <3>2, CountChange
    <3> QED
      BY <3>1, <3>3
  <2>2. ref[o] = Cardinality(SlotsAt(Counted, o))
    BY RefersAt DEF RefExact
  <2> QED
    BY <2>1, <2>2
<1>3. RefExact'
  BY <1>2 DEF RefExact, Referrers, SlotsAt, PlacesOf
<1>4. NoDangling'
  BY <1>1 DEF NoDangling
<1> QED
  BY <1>3, <1>4

(* One value is moved from slot e to slot d. *)
LEMMA RecountMove ==
  ASSUME TypeOK, RefExact, NoDangling, UNCHANGED <<heap, ref>>,
         NEW d \in Slot, NEW e \in Slot, d # e,
         Counted[d] \notin Object,
         Counted'[d] = Counted[e], Counted'[e] = Null,
         \A s \in Slot : s \notin {d, e} => Counted'[s] = Counted[s]
  PROVE  RefExact' /\ NoDangling'
<1>1. Counted \in [Slot -> Pointer \union {Dead}]
  BY CountedType
<1>2. ASSUME NEW o \in heap
      PROVE  ref'[o] = Cardinality(SlotsAt(Counted', o))
  <2>1. PICK f, g, h : f = Counted /\ g = Counted' /\ h = [f EXCEPT ![d] = f[e]]
    OBVIOUS
  <2>2. /\ \A s \in Slot : s # d => h[s] = f[s]
        /\ h[d] = f[e] /\ h[e] = f[e]
    BY <1>1, <2>1
  <2>3. \A s \in Slot : s # e => g[s] = h[s]
    BY <2>1, <2>2
  <2>4. o \in Object /\ Null # o /\ f[d] # o /\ g[e] = Null
    BY <2>1, RefPtrAssumption DEF TypeOK
  <2>5. Cardinality(SlotsAt(h, o))
          = Cardinality(SlotsAt(f, o)) - Bit(f[d], o) + Bit(h[d], o)
    <3>1. \A s \in Slot : s # d => h[s] = f[s]
      BY <2>2
    <3> QED
      BY <3>1, CountChange
  <2>6. Cardinality(SlotsAt(g, o))
          = Cardinality(SlotsAt(h, o)) - Bit(h[e], o) + Bit(g[e], o)
    BY <2>3, CountChange
  <2>7. Cardinality(SlotsAt(f, o)) \in Nat /\ Bit(h[d], o) = Bit(h[e], o) /\ Bit(h[e], o) \in Nat
    BY <2>2, CountIsNat DEF Bit
  <2>8. Bit(f[d], o) = 0 /\ Bit(g[e], o) = 0
    BY <2>4 DEF Bit
  <2>9. Cardinality(SlotsAt(g, o)) = Cardinality(SlotsAt(f, o))
    BY <2>5, <2>6, <2>7, <2>8
  <2>10. ref[o] = Cardinality(SlotsAt(Counted, o))
    BY RefersAt DEF RefExact
  <2> QED
    BY <2>1, <2>9, <2>10
<1>3. RefExact'
  BY <1>2 DEF RefExact, Referrers, SlotsAt, PlacesOf
<1>4. NoDangling'
  BY <1>1, RefPtrAssumption DEF NoDangling
<1> QED
  BY <1>3, <1>4

-----------------------------------------------------------------------------
(* Each action preserves the invariant. *)
LEMMA InitInv == Init => PtrInv
<1> SUFFICES ASSUME Init PROVE PtrInv
  OBVIOUS
<1>1. TypeOK
  BY DEF Init, TypeOK, Pointer
<1>2. RefExact /\ NoDangling
  BY RefPtrAssumption DEF Init, RefExact, NoDangling, Counted
<1>3. DestroyedOnce /\ PartsDead /\ AsgnSafe
  BY DEF Init, DestroyedOnce, PartsDead, AsgnSafe
<1> QED
  BY <1>1, <1>2, <1>3 DEF PtrInv

LEMMA ConstructInv ==
  ASSUME PtrInv, NEW s \in Slot, NEW o \in Object, Construct(s, o)
  PROVE  PtrInv'
<1>0. /\ TypeOK /\ RefExact /\ NoDangling /\ DestroyedOnce /\ PartsDead
      /\ dtors = <<>> /\ asgn = NoAsgn /\ dtors' = <<>> /\ asgn' = NoAsgn
      /\ slot[s] = Dead /\ Accessible(s) /\ o \notin heap /\ Fits(s, o)
      /\ slot' = [slot EXCEPT ![s] = o]
      /\ ref' = [ref EXCEPT ![o] = 1]
      /\ heap' = heap \union {o}
  BY DEF PtrInv, Construct, Running, Constructible
<1>1. TypeOK'
  <2>1. slot' \in [Slot -> Pointer \union {Dead}] /\ ref' \in [Object -> Nat] /\ heap' \subseteq Object
    BY <1>0 DEF TypeOK, Pointer
  <2> QED
    BY <1>0, <2>1 DEF TypeOK
<1>2. /\ Counted[s] = Dead /\ Counted'[s] = o
      /\ \A t \in Slot : t # s => Counted'[t] = Counted[t]
  BY <1>0 DEF Counted, TypeOK
<1>3. PICK f, g : f = Counted /\ g = Counted'
  OBVIOUS
<1>4. \A t \in Slot : t # s => g[t] = f[t]
  BY <1>2, <1>3
<1>5. \A p : Cardinality(SlotsAt(g, p))
                = Cardinality(SlotsAt(f, p)) - Bit(f[s], p) + Bit(g[s], p)
  BY <1>4, CountChange
<1>6. ASSUME NEW p \in heap'
      PROVE  ref'[p] = Cardinality(SlotsAt(Counted', p))
  <2>1. f = Counted /\ g = Counted'
    BY <1>3
  <2>2. Cardinality(SlotsAt(g, p))
          = Cardinality(SlotsAt(f, p)) - Bit(f[s], p) + Bit(g[s], p)
    BY <1>5
  <2>3. p \in Object /\ Cardinality(SlotsAt(f, p)) \in Nat /\ Bit(f[s], p) = 0
    BY <1>0, <1>2, <2>1, CountIsNat, RefPtrAssumption DEF Bit, TypeOK
  <2>4. CASE p = o
    <3>1. \A t \in Slot : f[t] # p
      BY <1>0, <2>1, <2>4 DEF NoDangling
    <3>2. Cardinality(SlotsAt(f, p)) = 0 /\ Bit(g[s], p) = 1
      BY <1>2, <2>1, <2>4, <3>1, CountZero DEF Bit
    <3>3. ref'[p] = 1
      BY <1>0, <2>4 DEF TypeOK
    <3> QED
      BY <2>1, <2>2, <2>3, <3>2, <3>3
  <2>5. CASE p # o
    <3>1. Bit(g[s], p) = 0
      BY <1>2, <2>1, <2>5 DEF Bit
    <3>2. ref'[p] = ref[p] /\ ref[p] = Cardinality(SlotsAt(Counted, p))
      BY <1>0, <2>5, RefersAt DEF TypeOK, RefExact
    <3> QED
      BY <2>1, <2>2, <2>3, <3>1, <3>2
  <2> QED
    BY <2>4, <2>5
<1>7. RefExact'
  BY <1>6 DEF RefExact, Referrers, SlotsAt, PlacesOf
<1>8. NoDangling'
  BY <1>0, <1>2 DEF NoDangling
<1>9. DestroyedOnce'
  <2>1. \A p \in heap : ref[p] # 0
    BY <1>0 DEF DestroyedOnce
  <2>2. \A p \in heap' : ref'[p] # 0
    BY <1>0, <2>1 DEF TypeOK
  <2> QED
    BY <1>0, <2>2 DEF DestroyedOnce
<1>10. PartsDead'
  BY <1>0, AccessibleAllocated DEF PartsDead, TypeOK
<1>11. AsgnSafe'
  BY <1>0 DEF AsgnSafe
<1> QED
  BY <1>1, <1>7, <1>8, <1>9, <1>10, <1>11 DEF PtrInv

LEMMA ConstructNullInv ==
  ASSUME PtrInv, NEW s \in Slot, ConstructNull(s)
  PROVE  PtrInv'
<1>0. /\ TypeOK /\ RefExact /\ NoDangling /\ DestroyedOnce /\ PartsDead
      /\ asgn = NoAsgn /\ asgn' = NoAsgn
      /\ slot[s] = Dead /\ Accessible(s)
      /\ slot' = [slot EXCEPT ![s] = Null]
      /\ ref' = ref /\ heap' = heap /\ dtors' = dtors
  BY DEF PtrInv, ConstructNull, Running, Constructible
<1>1. TypeOK'
  BY <1>0 DEF TypeOK, Pointer
<1>2. /\ Counted[s] = Dead /\ Counted'[s] = Null
      /\ \A t \in Slot : t # s => Counted'[t] = Counted[t]
  BY <1>0 DEF Counted, TypeOK
<1>3. \A o \in heap : ref'[o] = ref[o] - Bit(Counted[s], o) + Bit(Null, o)
  BY <1>0, <1>2, RefPtrAssumption DEF Bit, TypeOK
<1>4. Null \in Pointer \union {Dead} /\ (Null \in Object => Null \in heap)
  BY RefPtrAssumption DEF Pointer
<1>5. RefExact' /\ NoDangling'
  BY <1>0, <1>2, <1>3, <1>4, Recount
<1>6. DestroyedOnce'
  BY <1>0 DEF DestroyedOnce
<1>7. PartsDead'
  BY <1>0, AccessibleAllocated DEF PartsDead, TypeOK
<1>8. AsgnSafe'
  BY <1>0 DEF AsgnSafe
<1> QED
  BY <1>1, <1>5, <1>6, <1>7, <1>8 DEF PtrInv

LEMMA PtrCopCtorInv ==
  ASSUME PtrInv, NEW d \in Slot, NEW s \in Slot, PtrCopCtor(d, s)
  PROVE  PtrInv'
<1>0. /\ TypeOK /\ RefExact /\ NoDangling /\ DestroyedOnce /\ PartsDead
      /\ dtors = <<>> /\ asgn = NoAsgn /\ dtors' = <<>> /\ asgn' = NoAsgn
      /\ slot[d] = Dead /\ Accessible(d) /\ slot[s] # Dead /\ Fits(d, slot[s])
      /\ slot' = [slot EXCEPT ![d] = slot[s]]
      /\ ref' = Incremented(slot[s]) /\ heap' = heap
  BY DEF PtrInv, PtrCopCtor, Running, Constructible, Alive
<1>1. slot[s] \in Pointer
  BY <1>0 DEF TypeOK
<1>2. ref' \in [Object -> Nat] /\ \A o \in Object : ref'[o] = ref[o] + Bit(slot[s], o)
  BY <1>0, <1>1, IncCounts
<1>3. TypeOK'
  BY <1>0, <1>1, <1>2 DEF TypeOK
<1>4. /\ Counted[d] = Dead /\ Counted'[d] = slot[s] /\ Counted[s] = slot[s]
      /\ \A t \in Slot : t # d => Counted'[t] = Counted[t]
  BY <1>0 DEF Counted, TypeOK
<1>5. \A o \in heap : ref'[o] = ref[o] - Bit(Counted[d], o) + Bit(slot[s], o)
  <2>1. \A o \in heap : o \in Object /\ Bit(Dead, o) = 0 /\ Bit(slot[s], o) \in Nat /\ ref[o] \in Nat
    BY <1>0, RefPtrAssumption DEF Bit, TypeOK
  <2> QED
    BY <1>2, <1>4, <2>1
<1>6. slot[s] \in Object => slot[s] \in heap
  BY <1>0, <1>4 DEF NoDangling
<1>7. RefExact' /\ NoDangling'
  BY <1>0, <1>1, <1>4, <1>5, <1>6, Recount
<1>8. DestroyedOnce'
  <2>1. \A p \in heap : ref[p] # 0 /\ ref[p] \in Nat /\ p \in Object
    BY <1>0 DEF DestroyedOnce, TypeOK
  <2>2. \A p \in heap' : ref'[p] # 0
    BY <1>0, <1>2, <2>1 DEF Bit
  <2> QED
    BY <1>0, <2>2 DEF DestroyedOnce
<1>9. PartsDead'
  BY <1>0, AccessibleAllocated DEF PartsDead, TypeOK
<1>10. AsgnSafe'
  BY <1>0 DEF AsgnSafe
<1> QED
  BY <1>3, <1>7, <1>8, <1>9, <1>10 DEF PtrInv

LEMMA PtrMovCtorInv ==
  ASSUME PtrInv, NEW d \in Slot, NEW s \in Slot, PtrMovCtor(d, s)
  PROVE  PtrInv'
<1>0. /\ TypeOK /\ RefExact /\ NoDangling /\ DestroyedOnce /\ PartsDead
      /\ asgn = NoAsgn /\ asgn' = NoAsgn
      /\ slot[d] = Dead /\ Accessible(d) /\ slot[s] # Dead /\ Accessible(s)
      /\ Fits(d, slot[s])
      /\ slot' = [slot EXCEPT ![d] = slot[s], ![s] = Null]
      /\ ref' = ref /\ heap' = heap /\ dtors' = dtors
  BY DEF PtrInv, PtrMovCtor, Running, Constructible, Alive
<1>1. d # s
  BY <1>0
<1>2. slot'[d] = slot[s] /\ slot'[s] = Null /\ \A t \in Slot : t \notin {d, s} => slot'[t] = slot[t]
  BY <1>0, <1>1 DEF TypeOK
<1>3. TypeOK'
  BY <1>0 DEF TypeOK, Pointer
<1>4. /\ Counted[d] = Dead /\ Counted[s] = slot[s]
      /\ Counted'[d] = Counted[s] /\ Counted'[s] = Null
      /\ \A t \in Slot : t \notin {d, s} => Counted'[t] = Counted[t]
  BY <1>0, <1>2 DEF Counted
<1>5. Counted[d] \notin Object
  BY <1>4, RefPtrAssumption
<1>6. RefExact' /\ NoDangling'
  BY <1>0, <1>1, <1>4, <1>5, RecountMove
<1>7. DestroyedOnce'
  BY <1>0 DEF DestroyedOnce
<1>8. PartsDead'
  BY <1>0, <1>2, AccessibleAllocated DEF PartsDead
<1>9. AsgnSafe'
  BY <1>0 DEF AsgnSafe
<1> QED
  BY <1>3, <1>6, <1>7, <1>8, <1>9 DEF PtrInv

LEMMA PtrCopAsgnInv ==
  ASSUME PtrInv, NEW d \in Slot, NEW s \in Slot, PtrCopAsgn(d, s)
  PROVE  PtrInv'
<1>0. /\ TypeOK /\ RefExact /\ NoDangling /\ DestroyedOnce /\ PartsDead
      /\ dtors = <<>> /\ asgn = NoAsgn
      /\ asgn' = [dst |-> d, src |-> Null, val |-> slot[s]]
      /\ slot[d] # Dead /\ Accessible(d) /\ slot[s] # Dead
      /\ Fits(d, slot[s])
      /\ Dec(slot[d], Incremented(slot[s]))
      /\ slot' = slot /\ heap' = heap
  BY DEF PtrInv, PtrCopAsgn, Running, Alive
<1>1. slot[s] \in Pointer /\ slot[d] \in Pointer
  BY <1>0 DEF TypeOK
<1>2. asgn' # NoAsgn
  BY <1>0, RefPtrAssumption DEF NoAsgn
<1>3. /\ Counted[d] = slot[d] /\ Counted[s] = slot[s] /\ Counted'[d] = slot[s]
      /\ \A t \in Slot : t # d => Counted'[t] = Counted[t]
  BY <1>0, <1>2 DEF Counted
<1>4. /\ slot[s] # Null => slot[s] \in heap /\ ref[slot[s]] \in Nat /\ ref[slot[s]] >= 1
      /\ slot[d] # Null => slot[d] \in heap /\ ref[slot[d]] \in Nat /\ ref[slot[d]] >= 1
  BY <1>0, <1>1, <1>3, Referred DEF Pointer
<1> DEFINE counts == Incremented(slot[s])
<1>5. /\ counts \in [Object -> Nat]
      /\ \A o \in Object : counts[o] = ref[o] + Bit(slot[s], o)
  BY <1>0, <1>1, IncCounts
<1>6. Dec(slot[d], counts)
  BY <1>0
<1> HIDE DEF counts
<1>7. \A o \in heap : o \in Object /\ ref[o] \in Nat
  BY <1>0 DEF TypeOK
<1>8. \A o \in heap : counts[o] = 0 <=> ref[o] = 0
  BY <1>4, <1>5, <1>7, RefPtrAssumption DEF Bit
<1>9. slot[d] # Null => counts[slot[d]] >= 1
  BY <1>4, <1>5, <1>7 DEF Bit
<1>10. /\ ref' \in [Object -> Nat] /\ dtors' \in Seq(heap)
       /\ \A o \in Object : ref'[o] = counts[o] - Bit(slot[d], o)
       /\ DestroyedOnce'
       /\ \/ dtors' = dtors
          \/ slot[d] # Null /\ dtors' = Append(dtors, slot[d])
  BY <1>0, <1>1, <1>4, <1>5, <1>6, <1>8, <1>9, DecCounts
<1>11. TypeOK'
  BY <1>0, <1>1, <1>10 DEF TypeOK
<1>12. \A o \in heap : ref'[o] = ref[o] - Bit(Counted[d], o) + Bit(slot[s], o)
  <2>1. \A o \in heap : Bit(slot[s], o) \in Nat /\ Bit(slot[d], o) \in Nat
    BY DEF Bit
  <2> QED
    BY <1>3, <1>5, <1>7, <1>10, <2>1
<1>13. RefExact' /\ NoDangling'
  <2>1. slot[s] \in Object => slot[s] \in heap
    BY <1>4, RefPtrAssumption
  <2> QED
    BY <1>0, <1>1, <1>3, <1>12, <2>1, Recount
<1>14. PartsDead'
  BY <1>0 DEF PartsDead
<1>15. AsgnSafe'
  <2>1. Accessible(d)'
    BY <1>0, <1>3, OwnPath, HeldStays
  <2> QED
    BY <1>0, <2>1 DEF AsgnSafe
<1> QED
  BY <1>10, <1>11, <1>13, <1>14, <1>15 DEF PtrInv

LEMMA PtrMovAsgnInv ==
  ASSUME PtrInv, NEW d \in Slot, NEW s \in Slot, PtrMovAsgn(d, s)
  PROVE  PtrInv'
<1>0. /\ TypeOK /\ RefExact /\ NoDangling /\ DestroyedOnce /\ PartsDead
      /\ dtors = <<>> /\ asgn = NoAsgn
      /\ asgn' = [dst |-> d, src |-> s, val |-> Null]
      /\ slot[d] # Dead /\ Accessible(d) /\ slot[s] # Dead /\ d # s
      /\ Held(s, d)
      /\ Fits(d, slot[s])
      /\ Dec(slot[d], ref)
      /\ slot' = slot /\ heap' = heap
  BY DEF PtrInv, PtrMovAsgn, Running, Alive
<1>1. slot[d] \in Pointer /\ Null \in Pointer
  BY <1>0 DEF TypeOK, Pointer
<1>2. asgn' # NoAsgn /\ s # Null
  BY <1>0, RefPtrAssumption DEF NoAsgn
<1>3. /\ Counted[d] = slot[d] /\ Counted'[d] = Null
      /\ \A t \in Slot : t # d => Counted'[t] = Counted[t]
  BY <1>0, <1>2 DEF Counted
<1>4. slot[d] # Null => slot[d] \in heap /\ ref[slot[d]] \in Nat /\ ref[slot[d]] >= 1
  BY <1>0, <1>1, <1>3, Referred DEF Pointer
<1>5. ref \in [Object -> Nat]
  BY <1>0 DEF TypeOK
<1>6. /\ ref' \in [Object -> Nat] /\ dtors' \in Seq(heap)
      /\ \A o \in Object : ref'[o] = ref[o] - Bit(slot[d], o)
      /\ DestroyedOnce'
      /\ \/ dtors' = dtors
         \/ slot[d] # Null /\ dtors' = Append(dtors, slot[d])
  BY <1>0, <1>1, <1>4, <1>5, DecCounts
<1>7. TypeOK'
  BY <1>0, <1>1, <1>6 DEF TypeOK
<1>8. \A o \in heap : ref'[o] = ref[o] - Bit(Counted[d], o) + Bit(Null, o)
  <2>1. \A o \in heap : o \in Object /\ Bit(Null, o) = 0 /\ Bit(slot[d], o) \in Nat /\ ref[o] \in Nat
    BY <1>0, RefPtrAssumption DEF Bit, TypeOK
  <2> QED
    BY <1>3, <1>6, <2>1
<1>9. RefExact' /\ NoDangling'
  <2>1. Null \in Object => Null \in heap
    BY RefPtrAssumption
  <2> QED
    BY <1>0, <1>1, <1>3, <1>8, <2>1, Recount
<1>10. PartsDead'
  BY <1>0 DEF PartsDead
<1>11. AsgnSafe'
  <2>1. Accessible(d)'
    BY <1>0, <1>3, OwnPath, HeldStays
  <2>2. Accessible(s)'
    BY <1>0, <1>3, HeldStays
  <2> QED
    BY <1>0, <1>2, <2>1, <2>2 DEF AsgnSafe
<1> QED
  BY <1>6, <1>7, <1>9, <1>10, <1>11 DEF PtrInv

LEMMA FinishAsgnInv ==
  ASSUME PtrInv, FinishAsgn
  PROVE  PtrInv'
<1> DEFINE d == asgn.dst
           s == asgn.src
<1>0. /\ TypeOK /\ RefExact /\ NoDangling /\ DestroyedOnce /\ PartsDead /\ AsgnSafe
      /\ dtors = <<>> /\ asgn # NoAsgn /\ asgn' = NoAsgn
      /\ slot' = IF s = Null
                 THEN [slot EXCEPT ![d] = asgn.val]
                 ELSE [slot EXCEPT ![d] = slot[s], ![s] = Null]
      /\ ref' = ref /\ heap' = heap /\ dtors' = dtors
  BY DEF PtrInv, FinishAsgn
<1>1. /\ asgn \in [dst : Slot, src : Slot \union {Null}, val : Pointer]
      /\ d \in Slot /\ s \in Slot \union {Null} /\ asgn.val \in Pointer
  BY <1>0 DEF TypeOK
<1>2. /\ slot[d] # Dead
      /\ Accessible(d)
      /\ s # Null => s # d /\ slot[s] # Dead /\ Accessible(s)
  BY <1>0 DEF AsgnSafe
<1>3. /\ Owner[d] \in Object => Owner[d] \in heap
      /\ s # Null => (Owner[s] \in Object => Owner[s] \in heap)
  BY <1>1, <1>2, AccessibleAllocated
<1>4. slot' \in [Slot -> Pointer \union {Dead}]
  BY <1>0, <1>1 DEF TypeOK, Pointer
<1>5. TypeOK'
  BY <1>0, <1>4 DEF TypeOK
<1>6. Counted' = slot'
  BY <1>0, <1>4 DEF Counted
<1>7. RefExact' /\ NoDangling'
  <2>1. CASE s = Null
    <3>1. \A t \in Slot : slot'[t] = Counted[t]
      BY <1>0, <1>1, <2>1 DEF Counted, TypeOK
    <3>2. \A t \in Slot : Counted'[t] = Counted[t]
      BY <1>6, <3>1
    <3> QED
      BY <1>0, <3>2 DEF RefExact, NoDangling, Referrers
  <2>2. CASE s # Null
    <3>1. s \in Slot /\ d \in Slot /\ d # s
      BY <1>1, <1>2, <2>2
    <3>2. Counted[d] = Null /\ Counted[s] = slot[s]
      BY <1>0, <2>2, <3>1 DEF Counted
    <3>3. slot'[d] = slot[s] /\ slot'[s] = Null
      BY <1>0, <2>2, <3>1 DEF TypeOK
    <3>4. \A t \in Slot : t \notin {d, s} => slot'[t] = slot[t] /\ Counted[t] = slot[t]
      BY <1>0, <2>2, <3>1 DEF Counted, TypeOK
    <3>5. Counted[d] \notin Object
      BY <3>2, RefPtrAssumption
    <3> HIDE DEF d, s
    <3>6. Counted'[d] = Counted[s] /\ Counted'[s] = Null
      BY <1>6, <3>2, <3>3
    <3>7. \A t \in Slot : t \notin {d, s} => Counted'[t] = Counted[t]
      BY <1>6, <3>4
    <3> QED
      BY <1>0, <3>1, <3>5, <3>6, <3>7, RecountMove
  <2> QED
    BY <2>1, <2>2
<1>8. DestroyedOnce'
  BY <1>0 DEF DestroyedOnce
<1>9. PartsDead'
  BY <1>0, <1>1, <1>2, <1>3 DEF PartsDead, TypeOK
<1>10. AsgnSafe'
  BY <1>0 DEF AsgnSafe
<1> QED
  BY <1>5, <1>7, <1>8, <1>9, <1>10 DEF PtrInv

LEMMA PtrDtorInv ==
  ASSUME PtrInv, NEW s \in Slot, PtrDtor(s)
  PROVE  PtrInv'
<1>0. /\ TypeOK /\ RefExact /\ NoDangling /\ DestroyedOnce /\ PartsDead
      /\ asgn = NoAsgn /\ asgn' = NoAsgn
      /\ slot[s] # Dead /\ Dec(slot[s], ref)
      /\ slot' = [slot EXCEPT ![s] = Dead] /\ heap' = heap
  BY DEF PtrInv, PtrDtor, Running, Alive
<1>1. slot[s] \in Pointer
  BY <1>0 DEF TypeOK
<1>2. /\ Counted[s] = slot[s] /\ Counted'[s] = Dead
      /\ \A t \in Slot : t # s => Counted'[t] = Counted[t]
  BY <1>0 DEF Counted, TypeOK
<1>3. slot[s] # Null => slot[s] \in heap /\ ref[slot[s]] \in Nat /\ ref[slot[s]] >= 1
  BY <1>0, <1>1, <1>2, Referred DEF Pointer
<1>4. ref \in [Object -> Nat]
  BY <1>0 DEF TypeOK
<1>5. /\ ref' \in [Object -> Nat] /\ dtors' \in Seq(heap)
      /\ \A o \in Object : ref'[o] = ref[o] - Bit(slot[s], o)
      /\ DestroyedOnce'
  BY <1>0, <1>1, <1>3, <1>4, DecCounts
<1>6. TypeOK'
  BY <1>0, <1>1, <1>5 DEF TypeOK
<1>7. \A o \in heap : ref'[o] = ref[o] - Bit(Counted[s], o) + Bit(Dead, o)
  <2>1. \A o \in heap : o \in Object /\ Bit(Dead, o) = 0 /\ Bit(slot[s], o) \in Nat /\ ref[o] \in Nat
    BY <1>0, RefPtrAssumption DEF Bit, TypeOK
  <2> QED
    BY <1>2, <1>5, <2>1
<1>8. RefExact' /\ NoDangling'
  <2>1. Dead \in Pointer \union {Dead} /\ (Dead \in Object => Dead \in heap)
    BY RefPtrAssumption
  <2> QED
    BY <1>0, <1>2, <1>7, <2>1, Recount
<1>9. PartsDead' /\ AsgnSafe'
  BY <1>0 DEF PartsDead, AsgnSafe, TypeOK
<1> QED
  BY <1>5, <1>6, <1>8, <1>9 DEF PtrInv

(* The block that is being destroyed is allocated and nothing refers to it. *)
LEMMA TopUncounted ==
  ASSUME PtrInv, dtors # <<>>
  PROVE  /\ Len(dtors) \in 1..Len(dtors) /\ Top = dtors[Len(dtors)]
         /\ Top \in heap /\ Top \in Object /\ ref[Top] = 0
<1>1. dtors \in Seq(heap) /\ Len(dtors) \in Nat /\ Len(dtors) # 0
  BY DEF PtrInv, TypeOK
<1>2. Top \in heap /\ Top \in Object
  BY <1>1 DEF Top, PtrInv, TypeOK
<1>3. ref[Top] = 0
  BY <1>1, <1>2 DEF PtrInv, DestroyedOnce, Top
<1> QED
  BY <1>1, <1>2, <1>3 DEF Top

(* The destructor of a block that nothing refers to takes none of its      *)
(* parts from what variables lead to.                                      *)
LEMMA TopUnreached ==
  ASSUME PtrInv, dtors # <<>>
  PROVE  Top \notin Reached(Slot) \union {Program}
<1>1. Top \in Object /\ ref[Top] = 0
  BY TopUncounted
<1>2. Top \notin Reached(Slot)
  BY <1>1, ReachedCounted DEF PtrInv
<1> QED
  BY <1>1, <1>2, RefPtrAssumption

(* A destructor that runs inside an assignment destroys neither the        *)
(* destination nor the source of the assignment that waits.                *)
LEMMA PartNotAssigned ==
  ASSUME PtrInv, NEW s \in Slot, DestroyPart(s), asgn # NoAsgn
  PROVE  s # asgn.dst /\ (asgn.src # Null => s # asgn.src)
<1>1. dtors # <<>> /\ Owner[s] = Top /\ AsgnSafe
  BY DEF PtrInv, DestroyPart, LiveParts
<1>2. ~ Accessible(s)
  BY <1>1, TopUnreached DEF Accessible
<1> QED
  BY <1>1, <1>2 DEF AsgnSafe

(* What variables lead to stays so while a part of such a block is         *)
(* destroyed: a path to s that led through the block would enter it.       *)
LEMMA PathsSurvive ==
  ASSUME PtrInv, dtors # <<>>, NEW d \in Slot, Owner[d] = Top, UNCHANGED heap,
         \A t \in Slot : t # d => Counted'[t] = Counted[t],
         NEW s \in Slot, Accessible(s)
  PROVE  Accessible(s)'
<1>0. TypeOK /\ RefExact /\ NoDangling
  BY DEF PtrInv
<1>1. Top \in heap /\ Top \in Object /\ ref[Top] = 0
  BY TopUncounted
<1>2. \A t \in Slot : Counted[t] # Top
  BY <1>0, <1>1, Referred
<1>3. CASE Owner[s] = Program
  BY <1>3 DEF Accessible
<1>4. CASE Owner[s] \in Reached(Slot)
  <2>1. Owner[s] \in heap
    BY <1>4 DEF Reached
  <2>2. ASSUME NEW S \in SUBSET heap, Owner[s] \in S
        PROVE  \E t \in Slot : Counted'[t] \in S /\ Owner[t] \notin S
    <3>1. S \union {Top} \in SUBSET heap /\ Owner[s] \in S \union {Top}
      BY <1>1, <2>2
    <3>2. PICK t \in Slot : Counted[t] \in S \union {Top} /\ Owner[t] \notin S \union {Top}
      BY <1>4, <3>1, Zenon DEF Reached
    <3>3. t # d /\ Counted[t] \in S /\ Owner[t] \notin S
      BY <1>2, <3>2
    <3> QED
      BY <3>3
  <2>3. Owner[s] \in Reached(Slot)'
    BY <2>1, <2>2 DEF Reached
  <2> QED
    BY <2>3 DEF Accessible
<1> QED
  BY <1>3, <1>4 DEF Accessible

LEMMA DestroyPartInv ==
  ASSUME PtrInv, NEW s \in Slot, DestroyPart(s)
  PROVE  PtrInv'
<1>0. /\ TypeOK /\ RefExact /\ NoDangling /\ DestroyedOnce /\ PartsDead /\ AsgnSafe
      /\ dtors # <<>> /\ Owner[s] = Top
      /\ slot[s] # Dead /\ Dec(slot[s], ref)
      /\ slot' = [slot EXCEPT ![s] = Dead] /\ heap' = heap /\ asgn' = asgn
  BY DEF PtrInv, DestroyPart, LiveParts
<1>1. /\ Len(dtors) \in 1..Len(dtors) /\ Top = dtors[Len(dtors)]
      /\ Top \in heap /\ Top \in Object /\ ref[Top] = 0
  BY <1>0, TopUncounted
<1>2. Owner[s] # Program
  BY <1>0, <1>1, RefPtrAssumption
(* The assignment that waits is not disturbed. *)
<1>3. asgn # NoAsgn => s # asgn.dst /\ (asgn.src # Null => s # asgn.src)
  BY PartNotAssigned
<1>4. slot[s] \in Pointer
  BY <1>0 DEF TypeOK
<1>5. /\ Counted[s] = slot[s] /\ Counted'[s] = Dead
      /\ \A t \in Slot : t # s => Counted'[t] = Counted[t]
  BY <1>0, <1>3 DEF Counted, TypeOK
<1>6. slot[s] # Null => slot[s] \in heap /\ ref[slot[s]] \in Nat /\ ref[slot[s]] >= 1
  BY <1>0, <1>4, <1>5, Referred DEF Pointer
<1>7. ref \in [Object -> Nat]
  BY <1>0 DEF TypeOK
<1>8. /\ ref' \in [Object -> Nat] /\ dtors' \in Seq(heap)
      /\ \A o \in Object : ref'[o] = ref[o] - Bit(slot[s], o)
      /\ DestroyedOnce'
      /\ \/ dtors' = dtors
         \/ slot[s] # Null /\ dtors' = Append(dtors, slot[s])
  BY <1>0, <1>4, <1>6, <1>7, DecCounts
<1>9. TypeOK'
  BY <1>0, <1>4, <1>8 DEF TypeOK
<1>10. \A o \in heap : ref'[o] = ref[o] - Bit(Counted[s], o) + Bit(Dead, o)
  <2>1. \A o \in heap : o \in Object /\ Bit(Dead, o) = 0 /\ Bit(slot[s], o) \in Nat /\ ref[o] \in Nat
    BY <1>0, RefPtrAssumption DEF Bit, TypeOK
  <2> QED
    BY <1>5, <1>8, <2>1
<1>11. RefExact' /\ NoDangling'
  <2>1. Dead \in Pointer \union {Dead} /\ (Dead \in Object => Dead \in heap)
    BY RefPtrAssumption
  <2> QED
    BY <1>0, <1>5, <1>10, <2>1, Recount
<1>12. PartsDead'
  BY <1>0 DEF PartsDead, TypeOK
<1>13. AsgnSafe'
  <2> SUFFICES ASSUME asgn # NoAsgn
               PROVE  AsgnSafe'
    BY <1>0 DEF AsgnSafe
  <2>1. /\ asgn.dst \in Slot /\ slot'[asgn.dst] = slot[asgn.dst]
        /\ asgn.src # Null => asgn.src \in Slot /\ slot'[asgn.src] = slot[asgn.src]
    BY <1>0, <1>3 DEF TypeOK
  <2>2. \A t \in Slot : Accessible(t) => Accessible(t)'
    BY <1>0, <1>5, PathsSurvive
  <2>3. Accessible(asgn.dst)' /\ (asgn.src # Null => Accessible(asgn.src)')
    BY <1>0, <2>1, <2>2 DEF AsgnSafe
  <2> QED
    BY <1>0, <2>1, <2>3 DEF AsgnSafe, Accessible
<1> QED
  BY <1>8, <1>9, <1>11, <1>12, <1>13 DEF PtrInv

LEMMA FreeObjectInv ==
  ASSUME PtrInv, FreeObject
  PROVE  PtrInv'
<1> DEFINE n == Len(dtors)
<1>0. /\ TypeOK /\ RefExact /\ NoDangling /\ DestroyedOnce /\ PartsDead /\ AsgnSafe
      /\ dtors # <<>> /\ LiveParts(Top) = {}
      /\ heap' = heap \ {Top}
      /\ dtors' = SubSeq(dtors, 1, Len(dtors) - 1)
      /\ slot' = slot /\ ref' = ref /\ asgn' = asgn
  BY DEF PtrInv, FreeObject
<1>1. dtors \in Seq(heap) /\ n \in Nat /\ n # 0 /\ n \in 1..n /\ Top = dtors[n]
  BY <1>0 DEF TypeOK, Top
<1>2. Top \in heap /\ Top \in Object /\ ref[Top] = 0
  <2>1. Top \in heap /\ Top \in Object
    BY <1>0, <1>1 DEF TypeOK
  <2> QED
    BY <1>0, <1>1, <2>1 DEF DestroyedOnce
<1>3. /\ \A i, j \in 1..n : dtors[i] = dtors[j] => i = j
      /\ \A o \in heap : ref[o] = 0 <=> \E i \in 1..n : dtors[i] = o
  BY <1>0 DEF DestroyedOnce
<1>4. \A i \in 1..(n - 1) : i \in 1..n /\ dtors[i] \in heap \ {Top}
  <2> SUFFICES ASSUME NEW i \in 1..(n - 1) PROVE i \in 1..n /\ dtors[i] \in heap \ {Top}
    OBVIOUS
  <2>1. i \in 1..n /\ i # n
    BY <1>1
  <2>2. dtors[i] \in heap
    BY <1>1, <2>1
  <2> QED
    BY <1>1, <1>3, <2>1, <2>2
<1>5. /\ Len(dtors') = n - 1
      /\ \A i \in 1..(n - 1) : dtors'[i] = dtors[i]
      /\ dtors' \in Seq(heap \ {Top})
  BY <1>0, <1>1, <1>4, ButLast
<1>6. TypeOK'
  BY <1>0, <1>5 DEF TypeOK
<1>7. Counted' = Counted
  BY <1>0 DEF Counted
<1>8. RefExact'
  BY <1>0, <1>7 DEF RefExact, Referrers
<1>9. NoDangling'
  <2>1. \A t \in Slot : Counted[t] # Top
    <3>1. ASSUME NEW t \in Slot, Counted[t] = Top PROVE FALSE
      <4>1. ref[Top] >= 1
        BY <1>0, <1>2, <3>1, Referred
      <4> QED
        BY <1>2, <4>1
    <3> QED
      BY <3>1
  <2> QED
    BY <1>0, <1>7, <2>1 DEF NoDangling
<1>10. DestroyedOnce'
  <2>1. \A i, j \in 1..Len(dtors') : dtors'[i] = dtors'[j] => i = j
    BY <1>3, <1>4, <1>5
  <2>2. ASSUME NEW o \in heap'
        PROVE  ref'[o] = 0 <=> \E i \in 1..Len(dtors') : dtors'[i] = o
    <3>1. o \in heap /\ o # Top
      BY <1>0
    <3>2. ref[o] = 0 <=> \E i \in 1..n : dtors[i] = o
      BY <1>3, <3>1
    <3>3. \A i \in 1..n : i = n \/ i \in 1..(n - 1)
      BY <1>1
    <3>4. (\E i \in 1..n : dtors[i] = o) <=> \E i \in 1..(n - 1) : dtors[i] = o
      BY <1>1, <1>4, <3>1, <3>3
    <3> HIDE DEF n
    <3> QED
      BY <1>0, <1>5, <3>2, <3>4
  <2> QED
    BY <2>1, <2>2 DEF DestroyedOnce
<1>11. PartsDead'
  BY <1>0 DEF PartsDead, LiveParts
<1>12. AsgnSafe'
  <2> SUFFICES ASSUME asgn # NoAsgn
               PROVE  AsgnSafe'
    BY <1>0 DEF AsgnSafe
  <2>1. Reached(Slot) \subseteq Reached(Slot)'
    <3> SUFFICES ASSUME NEW o \in Reached(Slot) PROVE o \in Reached(Slot)'
      OBVIOUS
    <3>1. o \in heap' /\ heap' \subseteq heap
      BY <1>0, TopUnreached DEF Reached
    <3>2. \A S \in SUBSET heap' :
            o \in S => \E t \in Slot : Counted'[t] \in S /\ Owner[t] \notin S
      BY <1>7, <3>1, Zenon DEF Reached
    <3> QED
      BY <3>1, <3>2 DEF Reached
  <2> QED
    BY <1>0, <2>1 DEF AsgnSafe, Accessible
<1> QED
  BY <1>6, <1>8, <1>9, <1>10, <1>11, <1>12 DEF PtrInv

LEMMA StepInv == PtrInv /\ [Next]_vars => PtrInv'
<1> SUFFICES ASSUME PtrInv, [Next]_vars PROVE PtrInv'
  OBVIOUS
<1>1. ASSUME NEW s \in Slot, NEW o \in Object, Construct(s, o) PROVE PtrInv'
  BY <1>1, ConstructInv
<1>2. ASSUME NEW s \in Slot, ConstructNull(s) PROVE PtrInv'
  BY <1>2, ConstructNullInv
<1>3. ASSUME NEW d \in Slot, NEW s \in Slot, PtrCopCtor(d, s) PROVE PtrInv'
  BY <1>3, PtrCopCtorInv
<1>4. ASSUME NEW d \in Slot, NEW s \in Slot, PtrMovCtor(d, s) PROVE PtrInv'
  BY <1>4, PtrMovCtorInv
<1>5. ASSUME NEW d \in Slot, NEW s \in Slot, PtrCopAsgn(d, s) PROVE PtrInv'
  BY <1>5, PtrCopAsgnInv
<1>6. ASSUME NEW d \in Slot, NEW s \in Slot, PtrMovAsgn(d, s) PROVE PtrInv'
  BY <1>6, PtrMovAsgnInv
<1>7. ASSUME NEW s \in Slot, PtrDtor(s) PROVE PtrInv'
  BY <1>7, PtrDtorInv
<1>8. CASE Unwind
  BY <1>8, DestroyPartInv, FreeObjectInv, FinishAsgnInv DEF Unwind
<1>9. CASE UNCHANGED vars
  <2>0. slot' = slot /\ ref' = ref /\ heap' = heap /\ dtors' = dtors /\ asgn' = asgn
    BY <1>9 DEF vars
  <2>1. TypeOK' /\ DestroyedOnce' /\ PartsDead'
    BY <2>0 DEF PtrInv, TypeOK, DestroyedOnce, PartsDead
  <2>2. Counted' = Counted
    BY <2>0 DEF Counted
  <2>3. RefExact' /\ NoDangling'
    BY <2>0, <2>2 DEF PtrInv, RefExact, Referrers, NoDangling
  <2>4. AsgnSafe'
    BY <2>0, <2>2 DEF PtrInv, AsgnSafe, Accessible, Reached
  <2> QED
    BY <2>1, <2>3, <2>4 DEF PtrInv
<1> QED
  BY <1>1, <1>2, <1>3, <1>4, <1>5, <1>6, <1>7, <1>8, <1>9 DEF Next, Operation

LEMMA PtrInvAlways == Spec => []PtrInv
  BY InitInv, StepInv, PTL DEF Spec

(* The blocks of S whose references are followed back stay in S; the least *)
(* set that is closed under that is a circle.                              *)
Backward(S, T) ==
  /\ T \subseteq S /\ T # {}
  /\ \A s \in Slot : Counted[s] \in T => Owner[s] \in T

(* Every block is referred to, so there are finitely many. *)
LEMMA HeapFinite == ASSUME PtrInv, Running PROVE IsFiniteSet(heap)
<1>0. TypeOK /\ RefExact /\ DestroyedOnce /\ dtors = <<>>
  BY DEF PtrInv, Running
<1>1. \A o \in heap : \E s \in Slot : Counted[s] = o
  <2> SUFFICES ASSUME NEW o \in heap PROVE \E s \in Slot : Counted[s] = o
    OBVIOUS
  <2>1. ref[o] # 0
    BY <1>0 DEF DestroyedOnce
  <2> QED
    BY <1>0, <2>1, CountZero, RefersAt DEF RefExact
<1> DEFINE held == {s \in Slot : Counted[s] \in heap}
           pointee == [s \in held |-> Counted[s]]
<1>2. IsFiniteSet(held)
  BY RefPtrAssumption, FS_Subset
<1>3. pointee \in [held -> heap]
  OBVIOUS
<1>4. \A o \in heap : \E s \in held : pointee[s] = o
  BY <1>1
<1>5. pointee \in Surjection(held, heap)
  BY <1>3, <1>4 DEF Surjection
<1> QED
  BY <1>2, <1>5, FS_Surjection

(* Follow the references to blocks of S back: as long as none comes from   *)
(* outside, this ends in a circle.                                         *)
LEMMA CircleInside ==
  ASSUME PtrInv, Running, NEW S \in SUBSET heap, S # {},
         \A s \in Slot : slot[s] \in S => Owner[s] \in S
  PROVE  \E C \in SUBSET S : Circle(C)
<1>0. TypeOK /\ RefExact /\ DestroyedOnce /\ dtors = <<>> /\ asgn = NoAsgn
  BY DEF PtrInv, Running
<1>1. Counted = slot
  BY <1>0, CountedType
<1>2. IsFiniteSet(S)
  BY HeapFinite, FS_Subset
<1> DEFINE N == {Cardinality(T) : T \in {T \in SUBSET S : Backward(S, T)}}
<1>3. N \subseteq Nat
  BY <1>2, FS_Subset, FS_CardinalityType
<1>4. Cardinality(S) \in N
  BY <1>1 DEF Backward
<1>5. PICK n \in N : \A m \in N : n <= m
  <2> HIDE DEF N
  <2> QED
    BY <1>3, <1>4, LeastMember
<1>6. PICK T \in SUBSET S : Backward(S, T) /\ n = Cardinality(T)
  BY <1>5
<1>7. IsFiniteSet(T) /\ T # {}
  BY <1>2, <1>6, FS_Subset DEF Backward
<1>8. ASSUME NEW o \in T, \A s \in Slot : ~ (Owner[s] = o /\ slot[s] \in T)
      PROVE  FALSE
  <2>1. ref[o] # 0 /\ o \in heap
    BY <1>0, <1>6 DEF DestroyedOnce
  <2>2. PICK s \in Slot : slot[s] = o
    BY <1>0, <1>1, <2>1, CountZero, RefersAt DEF RefExact
  <2>3. Owner[s] \in T /\ Owner[s] # o
    BY <1>1, <1>6, <1>8, <2>2 DEF Backward
  <2>4. Backward(S, T \ {o})
    BY <1>1, <1>6, <1>8, <2>3 DEF Backward
  <2>5. Cardinality(T \ {o}) = Cardinality(T) - 1
    BY <1>7, FS_RemoveElement
  <2>6. Cardinality(T \ {o}) \in N
    BY <1>6, <2>4
  <2>7. Cardinality(T) \in Nat
    BY <1>7, FS_CardinalityType
  <2> HIDE DEF N
  <2> QED
    BY <1>5, <1>6, <2>5, <2>6, <2>7
<1>9. Circle(T)
  BY <1>7, <1>8 DEF Circle
<1> QED
  BY <1>6, <1>9

-----------------------------------------------------------------------------
(* Counts are natural numbers, destructors run only for allocated blocks,  *)
(* and an assignment under way has a destination: TypeOK always holds.     *)
THEOREM PtrTypeCorrect == Spec => []TypeOK
<1>1. PtrInv => TypeOK
  BY DEF PtrInv
<1> QED
  BY <1>1, PtrInvAlways, PTL

(* After every ptr_inc and ptr_dec, and while destructors that they call   *)
(* are running, a count is the number of slots that refer to the block.    *)
THEOREM CountsAreExact == Spec => []RefExact
<1>1. PtrInv => RefExact
  BY DEF PtrInv
<1> QED
  BY <1>1, PtrInvAlways, PTL

(* ptr_dec never frees a block that a slot still refers to. *)
THEOREM NothingDangles == Spec => []NoDangling
<1>1. PtrInv => NoDangling
  BY DEF PtrInv
<1> QED
  BY <1>1, PtrInvAlways, PTL

(* ptr_dec starts the destructor of a block once, when its count is zero,  *)
(* also when destructors nest.                                             *)
THEOREM DestructorsRunOnce == Spec => []DestroyedOnce
<1>1. PtrInv => DestroyedOnce
  BY DEF PtrInv
<1> QED
  BY <1>1, PtrInvAlways, PTL

(* ptr_dec frees everything that is left without a reference from outside, *)
(* unless it is part of a circle, or held by one: the only way to leak.    *)
THEOREM OnlyCirclesAreLeaked == Spec => []OnlyCirclesLeak
<1>1. PtrInv => OnlyCirclesLeak
  <2> SUFFICES ASSUME PtrInv, Running, NEW S \in (SUBSET heap) \ {{}},
                      ~ \E s \in Slot : slot[s] \in S /\ Owner[s] \notin S
               PROVE  \E C \in SUBSET S : Circle(C)
    BY DEF OnlyCirclesLeak
  <2> QED
    BY CircleInside
<1> QED
  BY <1>1, PtrInvAlways, PTL
=============================================================================
