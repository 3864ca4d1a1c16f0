---------------------------- MODULE ArrayRuntime ----------------------------
(***************************************************************************)
(* The arrays of compiled Stela programs: the functions that generate      *)
(* array.cpp and generate builtin.cpp emit for an array type whose         *)
(* elements are themselves counted (closures, arrays).                     *)
(*                                                                         *)
(* A storage has a reference count, a capacity, a length and a block of    *)
(* cells.  A cell is Raw memory or holds an element.  Lengths are unsigned *)
(* numbers of W bits.  The functions run to their end before the next call *)
(* (the steps inside a pointer assignment are those of RefPtr), so a call  *)
(* is made in one step and performed in the next.                          *)
(***************************************************************************)
EXTENDS Integers, Sequences, FiniteSets

CONSTANTS
  Var,        \* variables and temporaries of the array type
  Storage,    \* array storages
  Elem,       \* elements that count their handles
  Default,    \* what the default constructor of the element type makes
  Raw,        \* memory without an object
  Null, Dead, \* a variable that was moved from, or is not constructed
  W,          \* bits of a length
  MaxLen,     \* bound: no array gets longer
  Reserves,   \* bound: arguments of reserve
  Literals    \* bound: the array literals of the program

ASSUME ArrayAssumption ==
  /\ W \in Nat \ {0} /\ MaxLen \in Nat
  /\ MaxLen < 2^(W - 1)        \* longer ones overflow CreateNSWAdd
  /\ Reserves \subseteq 0..(2^W - 1)
  /\ \A s \in Literals : s \in Seq(Elem) /\ Len(s) \in 1..MaxLen
  /\ Raw \notin Elem \union {Default} /\ Default \notin Elem
  /\ Null \notin Storage /\ Dead \notin Storage /\ Null # Dead
  /\ IsFiniteSet(Var) /\ IsFiniteSet(Storage)

(* Arithmetic that the provers do not know. *)
ASSUME PowersOfTwo == \A k \in 1..W : 2^k = 2 * 2^(k - 1)

VARIABLES
  var,       \* [Var -> Storage, Null or Dead]
  ref,       \* reference counts of the storages
  len,       \* lengths
  dat,       \* the cells: Len(dat[o]) is the capacity
  live,      \* allocated storages
  eref,      \* handles to each element, the program's own one included
  call,      \* the call being performed, Null between calls
  panicked   \* panic was called

strg == <<ref, len, dat, live, eref>>
vars == <<var, strg, call, panicked>>

Object == Elem \union {Default}
Cell == Object \union {Raw}
cap == [o \in Storage |-> Len(dat[o])]

(* The value of a W-bit number as a sint. *)
Signed(n) == IF n >= 2^(W - 1) THEN n - 2^W ELSE n

-----------------------------------------------------------------------------
(* Calls the compiled program may make: constructors on dead variables,    *)
(* everything else on variables that hold an array.  A variable that was   *)
(* moved from is a temporary or was returned; it is only destroyed.        *)
Index == 0..MaxLen \union {2^W - 1}
Calls ==
  [op : {"def_ctor", "dtor", "pop_back"}, x : Var]
  \union [op : {"literal"}, x : Var, s : Literals]
  \union [op : {"cop_ctor", "mov_ctor", "cop_asgn", "mov_asgn", "append"}, x : Var, y : Var]
  \union [op : {"push_back"}, x : Var, e : Elem]
  \union [op : {"resize"}, x : Var, n : 0..MaxLen]
  \union [op : {"reserve"}, x : Var, n : Reserves]
  \union {[op |-> "store", x |-> x, i |-> Signed(n), signed |-> TRUE, e |-> e] :
            x \in Var, n \in Index, e \in Elem}
  \union {[op |-> "store", x |-> x, i |-> n, signed |-> FALSE, e |-> e] :
            x \in Var, n \in Index, e \in Elem}

HoldsArray(x) == var[x] \in Storage
Allowed(c) ==
  CASE c.op \in {"def_ctor", "literal"} -> var[c.x] = Dead /\ live # Storage
    [] c.op = "dtor" -> var[c.x] # Dead
    [] c.op \in {"cop_ctor", "mov_ctor"} -> var[c.x] = Dead /\ HoldsArray(c.y)
    [] c.op = "cop_asgn" -> HoldsArray(c.x) /\ HoldsArray(c.y)
    [] c.op = "mov_asgn" -> HoldsArray(c.x) /\ HoldsArray(c.y) /\ c.x # c.y
    [] c.op = "push_back" -> HoldsArray(c.x) /\ len[var[c.x]] < MaxLen
    [] c.op = "append" -> HoldsArray(c.x) /\ HoldsArray(c.y) /\ len[var[c.x]] + len[var[c.y]] <= MaxLen
    [] OTHER -> HoldsArray(c.x)

Init ==
  /\ var = [x \in Var |-> Dead]
  /\ ref = [o \in Storage |-> 0]
  /\ len = [o \in Storage |-> 0]
  /\ dat = [o \in Storage |-> <<>>]
  /\ live = {}
  /\ eref = [e \in Elem |-> 1]
  /\ call = Null
  /\ panicked = FALSE

MakeCall ==
  /\ call = Null
  /\ ~ panicked
  /\ \E c \in Calls : Allowed(c) /\ call' = c
  /\ UNCHANGED <<var, strg, panicked>>

Calling(op) == call # Null /\ call.op = op
Return == call' = Null /\ UNCHANGED panicked
Panic == call' = Null /\ panicked' = TRUE /\ UNCHANGED <<var, strg>>

-----------------------------------------------------------------------------
(* Bits up to the highest one that is set: W less the leading zeros. *)
BitLength(n) == CHOOSE k \in 0..W : n < 2^k /\ (k > 0 => 2^(k - 1) <= n)

(* A bug: the leading zeros of n, not of n - 1. *)
CeilToPow2Next(n) ==
  LET log2 == BitLength(n)
  IN  IF log2 < W THEN {2^log2} ELSE 0..(2^W - 1)

(* ceil_to_pow_2: a shift by the bit length of n - 1.  Shifting by W bits  *)
(* is undefined: any number may come out.                                  *)
CeilToPow2(n) ==
  LET log2 == BitLength(n - 1)
  IN  IF log2 < W THEN {2^log2} ELSE 0..(2^W - 1)

Blank(n) == [i \in 1..n |-> Raw]
(* The cells from first on get new contents. *)
Written(cells, first, contents) ==
  [i \in 1..Len(cells) |->
     IF i - first + 1 \in DOMAIN contents THEN contents[i - first + 1] ELSE cells[i]]

(* The handles that the cells from..to of a block hold to element e. *)
Handles(cells, from, to, e) ==
  Cardinality({i \in DOMAIN cells \intersect (from..to) : cells[i] = e})

(* reallocate: a new block, the elements are moved to its start. *)
Reallocated(cells, length, capacity) ==
  Written(Blank(capacity), 1, SubSeq(cells, 1, length))

(* A bug: arr_strg_dtor frees the cells without destroying the elements. *)
DropStorageOnly(o, counts) ==
  IF counts[o] = 1
  THEN /\ ref' = [counts EXCEPT ![o] = 0]
       /\ live' = live \ {o}
       /\ len' = [len EXCEPT ![o] = 0]
       /\ dat' = [dat EXCEPT ![o] = <<>>]
       /\ UNCHANGED eref
  ELSE ref' = [counts EXCEPT ![o] = @ - 1] /\ UNCHANGED <<live, eref, len, dat>>

(* ptr_dec of o: at zero arr_strg_dtor destroys the elements up to the     *)
(* length, and the cells and the storage are freed.                        *)
DropStorage(o, counts) ==
  IF counts[o] = 1
  THEN /\ ref' = [counts EXCEPT ![o] = 0]
       /\ live' = live \ {o}
       /\ eref' = [e \in Elem |-> eref[e] - Handles(dat[o], 1, len[o], e)]
       /\ len' = [len EXCEPT ![o] = 0]
       /\ dat' = [dat EXCEPT ![o] = <<>>]
  ELSE ref' = [counts EXCEPT ![o] = @ - 1] /\ UNCHANGED <<live, eref, len, dat>>

(* A storage with the elements of s, and a variable that holds it. *)
NewStorage(x, s) ==
  \E o \in Storage \ live :
    /\ live' = live \union {o}
    /\ ref' = [ref EXCEPT ![o] = 1]
    /\ len' = [len EXCEPT ![o] = Len(s)]
    /\ dat' = [dat EXCEPT ![o] = s]
    /\ var' = [var EXCEPT ![x] = o]
    /\ eref' = [e \in Elem |-> eref[e] + Handles(s, 1, Len(s), e)]

ArrDefCtor == Calling("def_ctor") /\ NewStorage(call.x, <<>>) /\ Return

(* arr_len_ctor and the constructors of the elements of an array literal. *)
ArrLenCtor == Calling("literal") /\ NewStorage(call.x, call.s) /\ Return

ArrDtor ==
  /\ Calling("dtor")
  /\ IF HoldsArray(call.x) THEN DropStorage(var[call.x], ref) ELSE UNCHANGED strg
  /\ var' = [var EXCEPT ![call.x] = Dead]
  /\ Return

ArrCopCtor ==
  /\ Calling("cop_ctor")
  /\ ref' = [ref EXCEPT ![var[call.y]] = @ + 1]
  /\ var' = [var EXCEPT ![call.x] = var[call.y]]
  /\ UNCHANGED <<len, dat, live, eref>>
  /\ Return

ArrMovCtor ==
  /\ Calling("mov_ctor")
  /\ var' = [var EXCEPT ![call.x] = var[call.y], ![call.y] = Null]
  /\ UNCHANGED strg
  /\ Return

(* The source is counted up before the destination is counted down, so an  *)
(* array may be assigned to itself.                                        *)
ArrCopAsgn ==
  /\ Calling("cop_asgn")
  /\ DropStorage(var[call.x], [ref EXCEPT ![var[call.y]] = @ + 1])
  /\ var' = [var EXCEPT ![call.x] = var[call.y]]
  /\ Return

ArrMovAsgn ==
  /\ Calling("mov_asgn")
  /\ DropStorage(var[call.x], ref)
  /\ var' = [var EXCEPT ![call.x] = var[call.y], ![call.y] = Null]
  /\ Return

-----------------------------------------------------------------------------
This == var[call.x]

(* The blocks that the storage may have after growing for n elements. *)
WithRoom(o, grow, n) ==
  IF grow
  THEN {Reallocated(dat[o], len[o], c) : c \in CeilToPow2(n)}
  ELSE {dat[o]}

(* The storage gets other cells and another length. *)
Change(o, cells, length) ==
  /\ dat' = [dat EXCEPT ![o] = cells]
  /\ len' = [len EXCEPT ![o] = length]
  /\ UNCHANGED <<var, ref, live>>

PushBack ==
  /\ Calling("push_back")
  /\ \E block \in WithRoom(This, len[This] = cap[This], len[This] + 1) :
       Change(This, Written(block, len[This] + 1, <<call.e>>), len[This] + 1)
  /\ eref' = [eref EXCEPT ![call.e] = @ + 1]
  /\ Return

(* The cells of the other array are read after this one was reallocated:   *)
(* they may be the same array.                                             *)
AppendOther ==
  /\ Calling("append")
  /\ LET other == var[call.y]
         total == len[This] + len[other]
     IN  \E block \in WithRoom(This, total > cap[This], total) :
           LET cells == SubSeq(IF other = This THEN block ELSE dat[other], 1, len[other])
           IN  Change(This, Written(block, len[This] + 1, cells), total)
  /\ LET other == var[call.y]
     IN  eref' = [e \in Elem |-> eref[e] + Handles(dat[other], 1, len[other], e)]
  /\ Return

(* destroy_n from a cell on. *)
DestroyFrom(o, first) ==
  /\ Change(o, Written(dat[o], first, Blank(len[o] - first + 1)), first - 1)
  /\ eref' = [e \in Elem |-> eref[e] - Handles(dat[o], first, len[o], e)]

PopBack ==
  /\ Calling("pop_back")
  /\ IF len[This] # 0
     THEN DestroyFrom(This, len[This]) /\ Return
     ELSE Panic

(* A bug: shrinking only sets the length. *)
ResizeShrinkOnly ==
  /\ Calling("resize")
  /\ call.n <= len[This]
  /\ Change(This, dat[This], call.n)
  /\ UNCHANGED eref
  /\ Return

ResizeShrink ==
  /\ Calling("resize")
  /\ call.n <= len[This]
  /\ DestroyFrom(This, call.n + 1)
  /\ Return

ResizeGrow ==
  /\ Calling("resize")
  /\ call.n > len[This]
  /\ \E block \in WithRoom(This, call.n > cap[This], call.n) :
       LET new == [i \in 1..(call.n - len[This]) |-> Default]
       IN  Change(This, Written(block, len[This] + 1, new), call.n)
  /\ UNCHANGED eref
  /\ Return

Reserve ==
  /\ Calling("reserve")
  /\ Change(This, IF call.n > cap[This] THEN Reallocated(dat[This], len[This], call.n)
                                        ELSE dat[This], len[This])
  /\ UNCHANGED eref
  /\ Return

(* A bug: the last element is out of bounds. *)
InBoundsButLast(index, signed, size) == index >= 0 /\ index < size - 1

(* arr_idx_s and arr_idx_u. *)
InBounds(index, signed, size) ==
  IF signed THEN index >= 0 /\ index < Signed(size) ELSE index < size

(* The subscript on the left of an assignment: the element there is copy   *)
(* assigned.                                                               *)
Store ==
  /\ Calling("store")
  /\ IF InBounds(call.i, call.signed, len[This])
     THEN /\ Change(This, Written(dat[This], call.i + 1, <<call.e>>), len[This])
          /\ eref' = [e \in Elem |->
               eref[e] + Handles(<<call.e>>, 1, 1, e)
                       - Handles(dat[This], call.i + 1, call.i + 1, e)]
          /\ Return
     ELSE Panic

Next ==
  \/ MakeCall
  \/ ArrDefCtor \/ ArrLenCtor \/ ArrDtor
  \/ ArrCopCtor \/ ArrMovCtor \/ ArrCopAsgn \/ ArrMovAsgn
  \/ PushBack \/ AppendOther \/ PopBack
  \/ ResizeShrink \/ ResizeGrow \/ Reserve
  \/ Store

Spec == Init /\ [][Next]_vars
-----------------------------------------------------------------------------
TypeOK ==
  /\ var \in [Var -> Storage \union {Null, Dead}]
  /\ ref \in [Storage -> Nat]
  /\ len \in [Storage -> 0..MaxLen]
  /\ dat \in [Storage -> Seq(Cell)]
  /\ live \subseteq Storage
  /\ eref \in [Elem -> Nat]
  /\ call \in Calls \union {Null}
  /\ panicked \in BOOLEAN

(* Growing, moving to a new block, shrinking and popping keep exactly the  *)
(* cells up to the length constructed: none is destroyed twice or used     *)
(* before it is constructed, and none is left behind the length.           *)
CellsConstructed ==
  \A o \in live :
    /\ len[o] <= cap[o]
    /\ \A i \in 1..cap[o] : dat[o][i] \in Object <=> i <= len[o]

(* Every element is counted once per cell that holds it and once for the   *)
(* program, in whatever order elements were copied, moved and destroyed;   *)
(* storages that were freed have given their handles back.                 *)
ElementsCounted ==
  \A e \in Elem :
    eref[e] = 1 + Cardinality({p \in live \X (1..MaxLen) :
                                 p[2] <= len[p[1]] /\ dat[p[1]][p[2]] = e})

(* Growth goes to the least power of two that has room (ceil_to_pow_2), so *)
(* that pushing costs constant time on average.                            *)
GrowthIsLeast ==
  [][\A o \in live :
       cap'[o] > cap[o] /\ call.op # "reserve" =>
         /\ \E k \in 0..W : cap'[o] = 2^k
         /\ len'[o] <= cap'[o] /\ cap'[o] < 2 * len'[o]]_vars

(* README.md, Arrays: an array behaves like std::shared_ptr<std::vector>;  *)
(* and the runtime panics exactly on an index out of bounds or on popping  *)
(* from an empty array.                                                    *)
Vectors == INSTANCE SharedVectors WITH
  Vector <- Storage,
  vec <- [o \in Storage |-> SubSeq(dat[o], 1, len[o])]
BehavesLikeVectors == Vectors!Spec
=============================================================================
