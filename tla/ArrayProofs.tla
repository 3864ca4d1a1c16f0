---------------------------- MODULE ArrayProofs ----------------------------
(***************************************************************************)
(* For any number of variables, storages and elements and any width of a   *)
(* length: the array functions keep exactly the cells up to the length     *)
(* constructed, and count every element once per cell that holds it.       *)
(***************************************************************************)
EXTENDS ArrayRuntime, StackLemmas

(* Cells of which the first n hold objects and the others are raw. *)
Built(cells, n) ==
  /\ cells \in Seq(Cell)
  /\ n \in 0..MaxLen
  /\ n <= Len(cells)
  /\ \A i \in 1..Len(cells) : cells[i] \in Object <=> i <= n

(* The types, with counts that may be negative. *)
StateTyped ==
  /\ var \in [Var -> Storage \union {Null, Dead}]
  /\ ref \in [Storage -> Int]
  /\ len \in [Storage -> 0..MaxLen]
  /\ dat \in [Storage -> Seq(Cell)]
  /\ live \subseteq Storage
  /\ eref \in [Elem -> Int]
  /\ call \in Calls \union {Null}
  /\ panicked \in BOOLEAN

(* The cells of every storage, allocated or not, are built up to its length. *)
AllBuilt == \A o \in Storage : Built(dat[o], len[o])

(* The call that is being performed was allowed, and still is. *)
CallAllowed == call # Null => Allowed(call)

BlockInv == StateTyped /\ AllBuilt /\ CallAllowed

-----------------------------------------------------------------------------
(* The operators on blocks of cells. *)
LEMMA Objects == Raw \notin Object /\ Default \in Object /\ Elem \subseteq Object /\ Object \subseteq Cell
  BY ArrayAssumption DEF Object, Cell

LEMMA WrittenCells ==
  ASSUME NEW cells \in Seq(Cell), NEW first \in Nat \ {0}, NEW contents \in Seq(Cell)
  PROVE  /\ Written(cells, first, contents) \in Seq(Cell)
         /\ Len(Written(cells, first, contents)) = Len(cells)
         /\ \A i \in 1..Len(cells) : Written(cells, first, contents)[i] =
              IF first <= i /\ i < first + Len(contents)
              THEN contents[i - first + 1] ELSE cells[i]
<1> DEFINE w == Written(cells, first, contents)
<1>1. Len(cells) \in Nat /\ Len(contents) \in Nat /\ DOMAIN contents = 1..Len(contents)
  OBVIOUS
<1>2. \A i \in 1..Len(cells) :
        i - first + 1 \in DOMAIN contents <=> first <= i /\ i < first + Len(contents)
  BY <1>1
<1>3. \A i \in 1..Len(cells) : w[i] =
        IF first <= i /\ i < first + Len(contents) THEN contents[i - first + 1] ELSE cells[i]
  BY <1>2 DEF Written
<1>4. \A i \in 1..Len(cells) : w[i] \in Cell
  <2> SUFFICES ASSUME NEW i \in 1..Len(cells) PROVE w[i] \in Cell
    OBVIOUS
  <2>1. CASE i - first + 1 \in DOMAIN contents
    BY <1>1, <1>2, <1>3, <2>1
  <2>2. CASE i - first + 1 \notin DOMAIN contents
    BY <1>2, <1>3, <2>2
  <2> QED
    BY <2>1, <2>2
<1>5. w \in [1..Len(cells) -> Cell]
  BY <1>4 DEF Written
<1>6. w \in Seq(Cell) /\ Len(w) = Len(cells)
  BY <1>1, <1>5
<1> QED
  BY <1>3, <1>6

LEMMA BlankCells ==
  ASSUME NEW n \in Nat
  PROVE  /\ Blank(n) \in Seq(Cell) /\ Len(Blank(n)) = n
         /\ \A i \in 1..n : Blank(n)[i] = Raw
  BY DEF Blank, Cell

(* reallocate keeps the elements. *)
LEMMA ReallocatedCells ==
  ASSUME NEW cells, NEW n, Built(cells, n), NEW c \in Nat, n <= c
  PROVE  /\ Built(Reallocated(cells, n, c), n)
         /\ Len(Reallocated(cells, n, c)) = c
         /\ \A i \in 1..n : Reallocated(cells, n, c)[i] = cells[i]
<1> DEFINE kept == SubSeq(cells, 1, n)
           new == Reallocated(cells, n, c)
<1>1. cells \in Seq(Cell) /\ n \in Nat /\ n <= Len(cells) /\ Len(cells) \in Nat
  BY ArrayAssumption DEF Built
<1>2. kept \in Seq(Cell) /\ Len(kept) = n /\ \A i \in 1..n : kept[i] = cells[i]
  BY <1>1
<1> HIDE DEF kept
<1> DEFINE blank == Blank(c)
<1>3. blank \in Seq(Cell) /\ Len(blank) = c /\ \A i \in 1..c : blank[i] = Raw
  BY BlankCells
<1>4. new = Written(blank, 1, kept)
  BY DEF Reallocated, kept
<1> HIDE DEF new, blank
<1>5. /\ new \in Seq(Cell) /\ Len(new) = c
      /\ \A i \in 1..c : new[i] = IF 1 <= i /\ i < 1 + n THEN kept[i - 1 + 1] ELSE blank[i]
  <2>1. 1 \in Nat \ {0}
    OBVIOUS
  <2> QED
    BY <1>2, <1>3, <1>4, <2>1, WrittenCells
<1>6. \A i \in 1..c : new[i] = IF i <= n THEN cells[i] ELSE Raw
  <2> SUFFICES ASSUME NEW i \in 1..c PROVE new[i] = IF i <= n THEN cells[i] ELSE Raw
    OBVIOUS
  <2>1. CASE i <= n
    <3>1. i \in 1..n /\ i - 1 + 1 = i /\ 1 <= i /\ i < 1 + n
      BY <1>1, <2>1
    <3> QED
      BY <1>2, <1>5, <2>1, <3>1
  <2>2. CASE ~ i <= n
    BY <1>1, <1>3, <1>5, <2>2
  <2> QED
    BY <2>1, <2>2
<1>7. \A i \in 1..c : new[i] \in Object <=> i <= n
  BY <1>1, <1>6, Objects DEF Built
<1>8. Built(new, n)
  BY <1>1, <1>5, <1>7 DEF Built
<1> QED
  BY <1>1, <1>5, <1>6, <1>8 DEF new

(* ceil_to_pow_2 of a length is a power of two with room for it; the shift *)
(* is smaller than the width.                                              *)
LEMMA BitLengthFits ==
  ASSUME NEW n \in 0..(MaxLen - 1)
  PROVE  /\ BitLength(n) \in 0..(W - 1)
         /\ n < 2^BitLength(n)
         /\ BitLength(n) > 0 => 2^(BitLength(n) - 1) <= n
<1> DEFINE K == {k \in 0..W : n < 2^k}
           Fits(k) == n < 2^k /\ (k > 0 => 2^(k - 1) <= n)
<1>0. W \in Nat \ {0} /\ MaxLen \in Nat /\ MaxLen < 2^(W - 1) /\ n \in Nat /\ n < MaxLen
  BY ArrayAssumption
<1>1. \A k \in 0..W : 2^k \in Int
  OBVIOUS
<1>2. W - 1 \in K
  BY <1>0, <1>1
<1>3. K \subseteq Nat
  BY <1>0
<1>4. PICK k \in K : \A j \in K : k <= j
  BY <1>2, <1>3, LeastMember
<1>5. Fits(k)
  <2>1. k \in 0..W /\ n < 2^k
    BY <1>4
  <2>2. CASE k > 0
    <3>1. k - 1 \in 0..W /\ ~ k <= k - 1
      BY <1>0, <2>1, <2>2
    <3>2. ~ n < 2^(k - 1)
      BY <1>4, <3>1
    <3> QED
      BY <1>0, <1>1, <2>1, <3>1, <3>2
  <2> QED
    BY <2>1, <2>2
<1>6. BitLength(n) = CHOOSE j \in 0..W : Fits(j)
  BY DEF BitLength
<1>7. BitLength(n) \in 0..W /\ Fits(BitLength(n))
  <2>1. k \in 0..W
    BY <1>4
  <2> HIDE DEF Fits
  <2> QED
    BY <1>5, <1>6, <2>1
<1>8. BitLength(n) # W
  <2> SUFFICES ASSUME BitLength(n) = W PROVE FALSE
    OBVIOUS
  <2>1. W > 0 /\ 2^(W - 1) <= n
    BY <1>0, <1>7
  <2> QED
    BY <1>0, <2>1
<1> QED
  BY <1>0, <1>7, <1>8

LEMMA PowerHasRoom ==
  ASSUME NEW n \in 1..MaxLen
  PROVE  \E k \in 0..(W - 1) :
           /\ CeilToPow2(n) = {2^k}
           /\ 2^k \in Nat /\ n <= 2^k /\ 2^k < 2 * n
<1> DEFINE k == BitLength(n - 1)
<1>0. W \in Nat \ {0} /\ MaxLen \in Nat /\ n - 1 \in 0..(MaxLen - 1) /\ n \in Nat
  BY ArrayAssumption
<1>1. k \in 0..(W - 1) /\ n - 1 < 2^k /\ (k > 0 => 2^(k - 1) <= n - 1)
  BY <1>0, BitLengthFits
<1>2. CeilToPow2(n) = {2^k}
  BY <1>0, <1>1 DEF CeilToPow2
<1> HIDE DEF k
<1>3. 2^k \in Int
  BY <1>1
<1>4. 2^k \in Nat /\ n <= 2^k
  BY <1>0, <1>1, <1>3
<1>5. 2^k < 2 * n
  <2>1. CASE k = 0
    <3>1. 2^k = 1
      BY <2>1
    <3> QED
      BY <1>0, <3>1
  <2>2. CASE k # 0
    <3>1. k \in 1..W /\ k - 1 \in Nat
      BY <1>0, <1>1, <2>2
    <3>2. 2^k = 2 * 2^(k - 1) /\ 2^(k - 1) \in Int
      BY <3>1, PowersOfTwo
    <3>3. 2^(k - 1) <= n - 1
      BY <1>1, <3>1
    <3> QED
      BY <1>0, <3>2, <3>3
  <2> QED
    BY <2>1, <2>2
<1> QED
  BY <1>1, <1>2, <1>4, <1>5
(* What WithRoom offers: the old block if it has room for n elements, or a *)
(* new one.                                                                *)
Roomy(o, block, n) ==
  \/ \E c \in CeilToPow2(n) : block = Reallocated(dat[o], len[o], c)
  \/ block = dat[o] /\ n <= Len(dat[o])

(* A block that is large enough for n elements: the old one, or a new one  *)
(* whose size is the least power of two.                                   *)
LEMMA RoomCells ==
  ASSUME NEW o, Built(dat[o], len[o]), NEW n \in 1..MaxLen, len[o] <= n,
         NEW block, Roomy(o, block, n)
  PROVE  /\ Built(block, len[o])
         /\ n <= Len(block)
         /\ \A i \in 1..len[o] : block[i] = dat[o][i]
         /\ block # dat[o] => \E k \in 0..W : Len(block) = 2^k
         /\ block # dat[o] => Len(block) < 2 * n
<1>1. CASE \E c \in CeilToPow2(n) : block = Reallocated(dat[o], len[o], c)
  <2>1. PICK k \in 0..(W - 1) :
          CeilToPow2(n) = {2^k} /\ 2^k \in Nat /\ n <= 2^k /\ 2^k < 2 * n
    BY PowerHasRoom
  <2>2. block = Reallocated(dat[o], len[o], 2^k)
    BY <1>1, <2>1
  <2>3. len[o] \in Nat /\ n \in Nat /\ W \in Nat
    BY ArrayAssumption DEF Built
  <2>4. len[o] <= 2^k /\ k \in 0..W
    BY <2>1, <2>3
  <2>5. /\ Built(block, len[o]) /\ Len(block) = 2^k
        /\ \A i \in 1..len[o] : block[i] = dat[o][i]
    BY <2>1, <2>2, <2>4, ReallocatedCells
  <2> QED
    BY <2>1, <2>4, <2>5
<1>2. CASE block = dat[o] /\ n <= Len(dat[o])
  BY <1>2
<1> QED
  BY <1>1, <1>2 DEF Roomy

(* Elements written behind the last one. *)
LEMMA ExtendedCells ==
  ASSUME NEW cells, NEW n, Built(cells, n), NEW contents \in Seq(Object),
         n + Len(contents) <= Len(cells), n + Len(contents) <= MaxLen
  PROVE  /\ Built(Written(cells, n + 1, contents), n + Len(contents))
         /\ Len(Written(cells, n + 1, contents)) = Len(cells)
         /\ \A i \in 1..n : Written(cells, n + 1, contents)[i] = cells[i]
         /\ \A j \in 1..Len(contents) : Written(cells, n + 1, contents)[n + j] = contents[j]
<1> DEFINE w == Written(cells, n + 1, contents)
<1>0. /\ cells \in Seq(Cell) /\ n \in Nat /\ n + 1 \in Nat \ {0} /\ Len(cells) \in Nat /\ MaxLen \in Nat
      /\ Len(contents) \in Nat /\ \A j \in 1..Len(contents) : contents[j] \in Object
      /\ contents \in Seq(Cell)
  BY ArrayAssumption, Objects DEF Built
<1>1. /\ w \in Seq(Cell) /\ Len(w) = Len(cells)
      /\ \A i \in 1..Len(cells) : w[i] =
           IF n + 1 <= i /\ i < n + 1 + Len(contents) THEN contents[i - (n + 1) + 1] ELSE cells[i]
  BY <1>0, WrittenCells
<1> DEFINE In(i) == n + 1 <= i /\ i < n + 1 + Len(contents)
<1>6. /\ \A i \in 1..Len(cells) : In(i) => w[i] = contents[i - (n + 1) + 1]
      /\ \A i \in 1..Len(cells) : ~ In(i) => w[i] = cells[i]
  BY <1>1
<1>7. \A i \in 1..Len(cells) : In(i) <=> n < i /\ i <= n + Len(contents)
  BY <1>0
<1> HIDE DEF w, In
<1>2. \A i \in 1..n : i \in 1..Len(cells) /\ w[i] = cells[i]
  <2> SUFFICES ASSUME NEW i \in 1..n PROVE i \in 1..Len(cells) /\ w[i] = cells[i]
    OBVIOUS
  <2>1. i \in 1..Len(cells) /\ ~ (n < i)
    BY <1>0 DEF Built
  <2>2. ~ In(i)
    BY <1>7, <2>1
  <2> QED
    BY <1>6, <2>1, <2>2
<1>3. ASSUME NEW j \in 1..Len(contents) PROVE n + j \in 1..Len(cells) /\ w[n + j] = contents[j]
  <2>1. n + j \in 1..Len(cells) /\ n < n + j /\ n + j <= n + Len(contents) /\ n + j - (n + 1) + 1 = j
    BY <1>0
  <2>2. In(n + j)
    BY <1>0, <1>7, <2>1
  <2> QED
    BY <1>0, <1>6, <2>1, <2>2
<1>4. ASSUME NEW i \in 1..Len(cells) PROVE w[i] \in Object <=> i <= n + Len(contents)
  <2>1. CASE i <= n
    <3>1. i \in 1..n /\ i <= n + Len(contents)
      BY <1>0, <2>1
    <3> QED
      BY <1>2, <2>1, <3>1 DEF Built
  <2>2. CASE n < i /\ i <= n + Len(contents)
    <3>1. i - n \in 1..Len(contents) /\ n + (i - n) = i
      BY <1>0, <2>2
    <3> QED
      BY <1>0, <1>3, <2>2, <3>1
  <2>3. CASE n + Len(contents) < i
    <3>1. ~ In(i) /\ ~ i <= n /\ ~ i <= n + Len(contents)
      BY <1>0, <1>7, <2>3
    <3>2. w[i] = cells[i] /\ ~ cells[i] \in Object
      BY <1>6, <3>1 DEF Built
    <3> QED
      BY <3>1, <3>2
  <2> QED
    BY <1>0, <2>1, <2>2, <2>3
<1>5. Built(w, n + Len(contents))
  BY <1>0, <1>1, <1>4 DEF Built
<1> QED
  BY <1>1, <1>2, <1>3, <1>5 DEF w

(* destroy_n from a cell on. *)
LEMMA ShrunkCells ==
  ASSUME NEW cells, NEW n, Built(cells, n), NEW first \in 1..(n + 1)
  PROVE  /\ Built(Written(cells, first, Blank(n - first + 1)), first - 1)
         /\ Len(Written(cells, first, Blank(n - first + 1))) = Len(cells)
         /\ \A i \in 1..(first - 1) : Written(cells, first, Blank(n - first + 1))[i] = cells[i]
<1> DEFINE m == n - first + 1
           b == Blank(m)
           w == Written(cells, first, b)
<1>0. /\ cells \in Seq(Cell) /\ n \in Nat /\ Len(cells) \in Nat /\ n <= Len(cells) /\ MaxLen \in Nat
      /\ n <= MaxLen
  BY ArrayAssumption DEF Built
<1>1. first \in Nat \ {0} /\ m \in Nat
  BY <1>0
<1>2. b \in Seq(Cell) /\ Len(b) = m /\ \A i \in 1..m : b[i] = Raw
  BY <1>1, BlankCells
<1> HIDE DEF b
<1>3. /\ w \in Seq(Cell) /\ Len(w) = Len(cells)
      /\ \A i \in 1..Len(cells) : w[i] =
           IF first <= i /\ i < first + m THEN b[i - first + 1] ELSE cells[i]
  BY <1>0, <1>1, <1>2, WrittenCells
<1> HIDE DEF w
<1>4. \A i \in 1..(first - 1) : i \in 1..Len(cells) /\ w[i] = cells[i] /\ i <= n
  BY <1>0, <1>1, <1>3
<1>5. ASSUME NEW i \in 1..Len(cells) PROVE w[i] \in Object <=> i <= first - 1
  <2>1. CASE i <= first - 1
    <3>1. i \in 1..(first - 1)
      BY <2>1
    <3> QED
      BY <1>4, <2>1, <3>1 DEF Built
  <2>2. CASE first <= i /\ i <= n
    <3>1. i < first + m /\ i - first + 1 \in 1..m
      BY <1>0, <1>1, <2>2
    <3>2. w[i] = Raw
      BY <1>2, <1>3, <2>2, <3>1
    <3> QED
      BY <1>1, <2>2, <3>2, Objects
  <2>3. CASE first <= i /\ n < i
    <3>1. ~ i < first + m
      BY <1>0, <1>1, <2>3
    <3>2. w[i] = cells[i]
      BY <1>3, <3>1
    <3> QED
      BY <1>0, <1>1, <2>3, <3>2 DEF Built
  <2> QED
    BY <1>0, <1>1, <2>1, <2>2, <2>3
<1>6. Built(w, first - 1)
  <2>1. first - 1 \in 0..MaxLen /\ first - 1 <= Len(w)
    BY <1>0, <1>1, <1>3
  <2> QED
    BY <1>3, <1>5, <2>1 DEF Built
<1> QED
  BY <1>3, <1>4, <1>6 DEF w, b

(* The assignment to an element. *)
LEMMA StoredCells ==
  ASSUME NEW cells, NEW n, Built(cells, n), NEW i \in 1..n, NEW one \in Seq(Object), Len(one) = 1
  PROVE  /\ Built(Written(cells, i, one), n)
         /\ Len(Written(cells, i, one)) = Len(cells)
         /\ \A j \in 1..n : Written(cells, i, one)[j] = IF j = i THEN one[1] ELSE cells[j]
<1> DEFINE w == Written(cells, i, one)
<1>0. /\ cells \in Seq(Cell) /\ n \in Nat /\ Len(cells) \in Nat /\ n <= Len(cells)
      /\ i \in Nat \ {0} /\ one \in Seq(Cell) /\ Len(one) = 1 /\ one[1] \in Object
  <2>1. cells \in Seq(Cell) /\ n \in Nat /\ Len(cells) \in Nat /\ n <= Len(cells) /\ i \in Nat \ {0}
    BY DEF Built
  <2>2. one[1] \in Object
    OBVIOUS
  <2>3. one \in Seq(Cell)
    BY Objects
  <2> QED
    BY <2>1, <2>2, <2>3
<1>1. /\ w \in Seq(Cell) /\ Len(w) = Len(cells)
      /\ \A j \in 1..Len(cells) : w[j] =
           IF i <= j /\ j < i + Len(one) THEN one[j - i + 1] ELSE cells[j]
  BY <1>0, WrittenCells
<1> HIDE DEF w
<1>2. ASSUME NEW j \in 1..Len(cells) PROVE w[j] = IF j = i THEN one[1] ELSE cells[j]
  <2>1. CASE j = i
    <3>1. i <= j /\ j < i + 1 /\ j - i + 1 = 1
      BY <1>0, <2>1
    <3> QED
      BY <1>0, <1>1, <2>1, <3>1
  <2>2. CASE j # i
    <3>1. ~ (i <= j /\ j < i + 1)
      BY <1>0, <2>2
    <3> QED
      BY <1>0, <1>1, <2>2, <3>1
  <2> QED
    BY <2>1, <2>2
<1>3. \A j \in 1..Len(cells) : w[j] \in Object <=> j <= n
  BY <1>0, <1>2 DEF Built
<1>4. Built(w, n)
  BY <1>1, <1>3 DEF Built
<1>5. \A j \in 1..n : j \in 1..Len(cells)
  BY <1>0
<1> QED
  BY <1>1, <1>2, <1>4, <1>5 DEF w
-----------------------------------------------------------------------------
(* The calls, and what is known when one is performed. *)
LEMMA IndexTyped ==
  \A n \in Index : n \in Nat /\ Signed(n) \in Int
<1>1. W \in Nat \ {0} /\ MaxLen \in Nat /\ MaxLen < 2^(W - 1)
  BY ArrayAssumption
<1>2. W \in 1..W /\ 2^W \in Int /\ 2^(W - 1) \in Int
  BY <1>1
<1>3. 2^W = 2 * 2^(W - 1)
  BY <1>2, PowersOfTwo
<1>4. 2^W - 1 \in Nat
  BY <1>1, <1>2, <1>3
<1> QED
  BY <1>1, <1>2, <1>4 DEF Index, Signed

LEMMA CallShape ==
  ASSUME NEW c \in Calls
  PROVE  /\ c.x \in Var
         /\ c.op \in {"cop_ctor", "mov_ctor", "cop_asgn", "mov_asgn", "append"} => c.y \in Var
         /\ c.op = "literal" => c.s \in Literals
         /\ c.op = "push_back" => c.e \in Elem
         /\ c.op = "resize" => c.n \in 0..MaxLen
         /\ c.op = "reserve" => c.n \in Reserves
         /\ c.op = "store" => c.e \in Elem /\ c.i \in Int /\ (~ c.signed => c.i >= 0)
<1>1. CASE c \in [op : {"def_ctor", "dtor", "pop_back"}, x : Var]
  BY <1>1
<1>2. CASE c \in [op : {"literal"}, x : Var, s : Literals]
  BY <1>2
<1>3. CASE c \in [op : {"cop_ctor", "mov_ctor", "cop_asgn", "mov_asgn", "append"}, x : Var, y : Var]
  BY <1>3
<1>4. CASE c \in [op : {"push_back"}, x : Var, e : Elem]
  BY <1>4
<1>5. CASE c \in [op : {"resize"}, x : Var, n : 0..MaxLen]
  BY <1>5
<1>6. CASE c \in [op : {"reserve"}, x : Var, n : Reserves]
  BY <1>6
<1>7. CASE c \in {[op |-> "store", x |-> x, i |-> Signed(n), signed |-> TRUE, e |-> e] :
                    x \in Var, n \in Index, e \in Elem}
  <2>1. PICK x \in Var, n \in Index, e \in Elem :
          c = [op |-> "store", x |-> x, i |-> Signed(n), signed |-> TRUE, e |-> e]
    BY <1>7
  <2>2. c.op = "store" /\ c.x = x /\ c.e = e /\ c.i = Signed(n) /\ c.signed = TRUE
    BY <2>1
  <2> QED
    BY <2>2, IndexTyped
<1>8. CASE c \in {[op |-> "store", x |-> x, i |-> n, signed |-> FALSE, e |-> e] :
                    x \in Var, n \in Index, e \in Elem}
  <2>1. PICK x \in Var, n \in Index, e \in Elem :
          c = [op |-> "store", x |-> x, i |-> n, signed |-> FALSE, e |-> e]
    BY <1>8
  <2>2. c.op = "store" /\ c.x = x /\ c.e = e /\ c.i = n /\ n \in Nat
    BY <2>1, IndexTyped
  <2> QED
    BY <2>2
<1> QED
  BY <1>1, <1>2, <1>3, <1>4, <1>5, <1>6, <1>7, <1>8 DEF Calls

(* The handles that a call works on hold arrays. *)
LEMMA Performed ==
  ASSUME BlockInv, NEW op, Calling(op)
  PROVE  /\ call \in Calls /\ call.op = op
         /\ op \in {"def_ctor", "literal"} => var[call.x] = Dead
         /\ op = "dtor" => var[call.x] # Dead
         /\ op \in {"cop_ctor", "mov_ctor"} => var[call.x] = Dead /\ var[call.y] \in Storage
         /\ op \in {"cop_asgn", "mov_asgn", "append"} => var[call.x] \in Storage /\ var[call.y] \in Storage
         /\ op = "mov_asgn" => call.x # call.y
         /\ op \in {"push_back", "pop_back", "resize", "reserve", "store"} => var[call.x] \in Storage
         /\ op = "push_back" => len[var[call.x]] < MaxLen
         /\ op = "append" => len[var[call.x]] + len[var[call.y]] <= MaxLen
<1>1. call \in Calls /\ call.op = op /\ Allowed(call)
  BY DEF BlockInv, StateTyped, CallAllowed, Calling
<1> QED
  BY <1>1 DEF Allowed, HoldsArray
-----------------------------------------------------------------------------
(* What each call does to the storage it works on. *)

(* A block that is larger than that of o is the least power of two with    *)
(* room for n elements.                                                    *)
Least(o, cells, n) ==
  Len(cells) > Len(dat[o]) => (\E k \in 0..W : Len(cells) = 2^k) /\ Len(cells) < 2 * n

LEMMA ThisBuilt ==
  ASSUME BlockInv, NEW o \in Storage
  PROVE  /\ Built(dat[o], len[o]) /\ len[o] \in Nat /\ len[o] <= MaxLen /\ Len(dat[o]) \in Nat
         /\ cap[o] = Len(dat[o]) /\ len[o] <= Len(dat[o]) /\ dat[o] \in Seq(Cell)
<1>1. Built(dat[o], len[o])
  BY DEF BlockInv, AllBuilt
<1>2. cap[o] = Len(dat[o])
  BY DEF cap
<1> QED
  BY <1>1, <1>2, ArrayAssumption DEF Built

LEMMA PushEffect ==
  ASSUME BlockInv, PushBack
  PROVE  /\ This \in Storage /\ call.e \in Elem /\ len[This] + 1 <= MaxLen
         /\ \E cells :
              /\ Change(This, cells, len[This] + 1)
              /\ Built(cells, len[This] + 1)
              /\ \A i \in 1..len[This] : cells[i] = dat[This][i]
              /\ cells[len[This] + 1] = call.e
              /\ Least(This, cells, len[This] + 1)
         /\ eref' = [eref EXCEPT ![call.e] = @ + 1]
         /\ call' = Null /\ panicked' = panicked
<1> DEFINE o == This
           n == len[o]
<1>1. o \in Storage /\ call.e \in Elem /\ n < MaxLen
  BY Performed, CallShape DEF PushBack, This
<1>2. /\ Built(dat[o], n) /\ n \in Nat /\ Len(dat[o]) \in Nat /\ cap[o] = Len(dat[o])
      /\ n <= Len(dat[o]) /\ MaxLen \in Nat
  BY <1>1, ThisBuilt, ArrayAssumption
<1>3. PICK block : /\ block \in WithRoom(o, n = cap[o], n + 1)
                   /\ Change(o, Written(block, n + 1, <<call.e>>), n + 1)
  BY DEF PushBack
<1> HIDE DEF o
<1>4. n + 1 \in 1..MaxLen /\ n <= n + 1 /\ Roomy(o, block, n + 1)
  <2>1. n + 1 \in 1..MaxLen /\ n <= n + 1 /\ (n # cap[o] => n + 1 <= Len(dat[o]))
    BY <1>1, <1>2
  <2>2. Roomy(o, block, n + 1)
    BY <1>3, <2>1 DEF Roomy, WithRoom
  <2> QED
    BY <2>1, <2>2
<1>5. /\ Built(block, n) /\ n + 1 <= Len(block)
      /\ \A i \in 1..n : block[i] = dat[o][i]
      /\ block # dat[o] => (\E k \in 0..W : Len(block) = 2^k) /\ Len(block) < 2 * (n + 1)
  BY <1>2, <1>4, RoomCells
<1> DEFINE w == Written(block, n + 1, <<call.e>>)
<1>6. <<call.e>> \in Seq(Object) /\ Len(<<call.e>>) = 1 /\ 1 \in 1..1 /\ <<call.e>>[1] = call.e
  BY <1>1, Objects
<1>7. /\ Built(w, n + 1) /\ Len(w) = Len(block)
      /\ \A i \in 1..n : w[i] = block[i]
      /\ w[n + 1] = call.e
  <2> DEFINE one == <<call.e>>
  <2>1. one \in Seq(Object)
    BY <1>6
  <2>2. Len(one) = 1 /\ 1 \in 1..Len(one) /\ one[1] = call.e
    BY <1>6
  <2> HIDE DEF one
  <2>3. n + Len(one) <= Len(block) /\ n + Len(one) <= MaxLen
    BY <1>4, <1>5, <2>2
  <2>4. Built(block, n)
    BY <1>5
  <2>5. /\ Built(Written(block, n + 1, one), n + Len(one))
        /\ Len(Written(block, n + 1, one)) = Len(block)
        /\ \A i \in 1..n : Written(block, n + 1, one)[i] = block[i]
        /\ \A j \in 1..Len(one) : Written(block, n + 1, one)[n + j] = one[j]
    BY <2>1, <2>3, <2>4, ExtendedCells
  <2> QED
    BY <2>2, <2>5 DEF one
<1>8. Least(o, w, n + 1)
  BY <1>5, <1>7 DEF Least
<1>9. Change(o, w, n + 1) /\ \A i \in 1..n : w[i] = dat[o][i]
  BY <1>3, <1>5, <1>7
<1> HIDE DEF w
<1>10. eref' = [eref EXCEPT ![call.e] = @ + 1] /\ call' = Null /\ panicked' = panicked
  BY DEF PushBack, Return
<1>11. n + 1 <= MaxLen
  BY <1>1, <1>2
<1> QED
  BY <1>1, <1>7, <1>8, <1>9, <1>10, <1>11 DEF o

(* append, with n elements here and m in the other array. *)
LEMMA AppendEffect ==
  ASSUME BlockInv, AppendOther
  PROVE  /\ This \in Storage /\ var[call.y] \in Storage
         /\ len[This] + len[var[call.y]] <= MaxLen
         /\ \E cells :
              /\ Change(This, cells, len[This] + len[var[call.y]])
              /\ Built(cells, len[This] + len[var[call.y]])
              /\ \A i \in 1..len[This] : cells[i] = dat[This][i]
              /\ \A j \in 1..len[var[call.y]] : cells[len[This] + j] = dat[var[call.y]][j]
              /\ Least(This, cells, len[This] + len[var[call.y]])
         /\ eref' = [e \in Elem |->
              eref[e] + Handles(dat[var[call.y]], 1, len[var[call.y]], e)]
         /\ call' = Null /\ panicked' = panicked
<1> DEFINE o == This
           p == var[call.y]
           n == len[o]
           m == len[p]
<1>1. o \in Storage /\ p \in Storage /\ n + m <= MaxLen
  BY Performed, CallShape DEF AppendOther, This
<1>2. /\ Built(dat[o], n) /\ n \in Nat /\ Len(dat[o]) \in Nat /\ cap[o] = Len(dat[o])
      /\ Built(dat[p], m) /\ m \in Nat /\ m <= Len(dat[p]) /\ dat[p] \in Seq(Cell) /\ Len(dat[p]) \in Nat
      /\ n <= Len(dat[o])
  BY <1>1, ThisBuilt
<1>3. PICK block \in WithRoom(o, n + m > cap[o], n + m) :
        Change(o, Written(block, n + 1, SubSeq(IF p = o THEN block ELSE dat[p], 1, m)), n + m)
  BY DEF AppendOther
<1>4. /\ eref' = [e \in Elem |-> eref[e] + Handles(dat[p], 1, m, e)]
      /\ call' = Null /\ panicked' = panicked
  BY DEF AppendOther, Return
<1> HIDE DEF o, p
<1>5. /\ Built(block, n) /\ n + m <= Len(block)
      /\ \A i \in 1..n : block[i] = dat[o][i]
      /\ block # dat[o] => (\E k \in 0..W : Len(block) = 2^k) /\ Len(block) < 2 * (n + m)
  <2>1. CASE n + m \in 1..MaxLen
    <3>1. n <= n + m /\ (~ n + m > cap[o] => n + m <= Len(dat[o]))
      BY <1>2
    <3>2. Roomy(o, block, n + m)
      BY <1>3, <3>1 DEF Roomy, WithRoom
    <3> QED
      BY <1>2, <2>1, <3>1, <3>2, RoomCells
  <2>2. CASE n + m \notin 1..MaxLen
    <3>1. n + m = 0 /\ n = 0 /\ ~ (n + m > cap[o])
      BY <1>1, <1>2, <2>2
    <3>2. block = dat[o]
      BY <1>3, <3>1 DEF WithRoom
    <3> QED
      BY <1>2, <3>1, <3>2
  <2> QED
    BY <2>1, <2>2
<1> DEFINE from == IF p = o THEN block ELSE dat[p]
           contents == SubSeq(from, 1, m)
           w == Written(block, n + 1, contents)
<1>6. from \in Seq(Cell) /\ m <= Len(from) /\ \A j \in 1..m : from[j] = dat[p][j]
  BY <1>2, <1>5 DEF Built
<1> HIDE DEF from
<1>7. Len(contents) = m /\ \A j \in 1..m : contents[j] = dat[p][j]
  BY <1>2, <1>6
<1>8. \A j \in 1..m : dat[p][j] \in Object
  BY <1>2 DEF Built
<1>9. contents \in Seq(Object)
  <2>1. contents \in Seq(Cell)
    BY <1>2, <1>6
  <2>2. \A j \in 1..Len(contents) : contents[j] \in Object
    BY <1>7, <1>8
  <2> HIDE DEF contents
  <2> QED
    BY <2>1, <2>2, SeqOfMembers
<1>10. Change(o, w, n + m)
  BY <1>3 DEF from
<1> HIDE DEF contents
<1>11. /\ Built(w, n + m) /\ Len(w) = Len(block)
       /\ \A i \in 1..n : w[i] = block[i]
       /\ \A j \in 1..m : w[n + j] = contents[j]
  <2>1. n + Len(contents) <= Len(block) /\ n + Len(contents) <= MaxLen
    BY <1>1, <1>5, <1>7
  <2> QED
    BY <1>5, <1>7, <1>9, <2>1, ExtendedCells
<1>12. /\ \A i \in 1..n : w[i] = dat[o][i]
       /\ \A j \in 1..m : w[n + j] = dat[p][j]
  BY <1>5, <1>7, <1>11
<1>13. Least(o, w, n + m)
  BY <1>5, <1>11 DEF Least
<1> HIDE DEF w
<1> QED
  BY <1>1, <1>4, <1>10, <1>11, <1>12, <1>13 DEF o, p
LEMMA DestroyEffect ==
  ASSUME BlockInv, NEW o \in Storage, NEW first \in 1..(len[o] + 1), DestroyFrom(o, first)
  PROVE  \E cells :
           /\ Change(o, cells, first - 1)
           /\ Built(cells, first - 1)
           /\ \A i \in 1..(first - 1) : cells[i] = dat[o][i]
           /\ Len(cells) = Len(dat[o])
<1> DEFINE cells == Written(dat[o], first, Blank(len[o] - first + 1))
<1>1. Change(o, cells, first - 1)
  BY DEF DestroyFrom
<1>2. /\ Built(cells, first - 1) /\ Len(cells) = Len(dat[o])
      /\ \A i \in 1..(first - 1) : cells[i] = dat[o][i]
  <2>1. Built(dat[o], len[o])
    BY ThisBuilt
  <2> QED
    BY <2>1, ShrunkCells
<1> HIDE DEF cells
<1> QED
  BY <1>1, <1>2

(* pop_back and a resize to at most the length destroy from a cell on. *)
LEMMA PopEffect ==
  ASSUME BlockInv, PopBack
  PROVE  /\ This \in Storage
         /\ \/ /\ DestroyFrom(This, len[This]) /\ len[This] \in 1..(len[This] + 1)
               /\ call' = Null /\ panicked' = panicked
            \/ len[This] = 0 /\ Panic
<1>1. This \in Storage
  BY Performed, CallShape DEF PopBack, This
<1>2. len[This] \in Nat
  BY <1>1, ThisBuilt
<1> QED
  BY <1>1, <1>2 DEF PopBack, Return

LEMMA ShrinkEffect ==
  ASSUME BlockInv, ResizeShrink
  PROVE  /\ This \in Storage /\ call.n \in 0..MaxLen /\ call.n <= len[This]
         /\ DestroyFrom(This, call.n + 1) /\ call.n + 1 \in 1..(len[This] + 1)
         /\ call' = Null /\ panicked' = panicked
<1>1. This \in Storage /\ call.n \in 0..MaxLen
  BY Performed, CallShape DEF ResizeShrink, This
<1>2. len[This] \in Nat
  BY <1>1, ThisBuilt
<1> QED
  BY <1>1, <1>2 DEF ResizeShrink, Return

LEMMA GrowEffect ==
  ASSUME BlockInv, ResizeGrow
  PROVE  /\ This \in Storage /\ call.n \in 0..MaxLen /\ len[This] < call.n
         /\ \E cells :
              /\ Change(This, cells, call.n)
              /\ Built(cells, call.n)
              /\ \A i \in 1..len[This] : cells[i] = dat[This][i]
              /\ \A i \in (len[This] + 1)..call.n : cells[i] = Default
              /\ Least(This, cells, call.n)
         /\ eref' = eref /\ call' = Null /\ panicked' = panicked
<1> DEFINE o == This
           l == len[o]
           n == call.n
<1>1. o \in Storage /\ n \in 0..MaxLen
  BY Performed, CallShape DEF ResizeGrow, This
<1>2. /\ Built(dat[o], l) /\ l \in Nat /\ Len(dat[o]) \in Nat /\ cap[o] = Len(dat[o])
      /\ MaxLen \in Nat /\ n > l /\ n \in Nat /\ n <= MaxLen
  BY <1>1, ThisBuilt, ArrayAssumption DEF ResizeGrow
<1>3. PICK block : /\ block \in WithRoom(o, n > cap[o], n)
                   /\ Change(o, Written(block, l + 1, [i \in 1..(n - l) |-> Default]), n)
  BY DEF ResizeGrow
<1>4. eref' = eref /\ call' = Null /\ panicked' = panicked
  BY DEF ResizeGrow, Return
<1> HIDE DEF o, n
<1>5. n \in 1..MaxLen /\ l <= n /\ Roomy(o, block, n)
  <2>1. n \in 1..MaxLen /\ l <= n /\ (~ n > cap[o] => n <= Len(dat[o]))
    BY <1>2
  <2>2. Roomy(o, block, n)
    BY <1>3, <2>1 DEF Roomy, WithRoom
  <2> QED
    BY <2>1, <2>2
<1>6. /\ Built(block, l) /\ n <= Len(block)
      /\ \A i \in 1..l : block[i] = dat[o][i]
      /\ block # dat[o] => (\E k \in 0..W : Len(block) = 2^k) /\ Len(block) < 2 * n
  BY <1>2, <1>5, RoomCells
<1> DEFINE new == [i \in 1..(n - l) |-> Default]
           w == Written(block, l + 1, new)
<1>7. new \in Seq(Object) /\ Len(new) = n - l /\ \A j \in 1..(n - l) : new[j] = Default
  BY <1>2, Objects
<1> HIDE DEF new
<1>8. /\ Built(w, l + Len(new)) /\ Len(w) = Len(block)
      /\ \A i \in 1..l : w[i] = block[i]
      /\ \A j \in 1..Len(new) : w[l + j] = new[j]
  <2>1. new \in Seq(Object) /\ Built(block, l)
    BY <1>6, <1>7
  <2>2. l + Len(new) <= Len(block) /\ l + Len(new) <= MaxLen
    BY <1>2, <1>6, <1>7
  <2> QED
    BY <2>1, <2>2, ExtendedCells
<1>9. Change(o, w, n)
  BY <1>3 DEF new
<1> HIDE DEF w
<1>10. l + Len(new) = n
  BY <1>2, <1>7
<1>11. ASSUME NEW i \in (l + 1)..n PROVE w[i] = Default
  <2>1. i - l \in 1..(n - l) /\ l + (i - l) = i
    BY <1>2
  <2> QED
    BY <1>7, <1>8, <2>1
<1>12. Built(w, n) /\ Least(o, w, n)
  BY <1>6, <1>8, <1>10 DEF Least
<1>13. \A i \in 1..l : w[i] = dat[o][i]
  BY <1>6, <1>8
<1> QED
  BY <1>1, <1>2, <1>4, <1>9, <1>11, <1>12, <1>13 DEF o, n

LEMMA ReserveEffect ==
  ASSUME BlockInv, Reserve
  PROVE  /\ This \in Storage
         /\ \E cells :
              /\ Change(This, cells, len[This])
              /\ Built(cells, len[This])
              /\ \A i \in 1..len[This] : cells[i] = dat[This][i]
         /\ eref' = eref /\ call' = Null /\ panicked' = panicked /\ call.op = "reserve"
<1> DEFINE o == This
<1>1. o \in Storage /\ call.n \in Reserves
  BY Performed, CallShape DEF Reserve, This
<1>2. call.n \in Nat
  <2>1. call.n \in 0..(2^W - 1)
    BY <1>1, ArrayAssumption
  <2> QED
    BY <2>1
<1>3. /\ Built(dat[o], len[o]) /\ len[o] \in Nat /\ Len(dat[o]) \in Nat /\ cap[o] = Len(dat[o])
      /\ len[o] <= Len(dat[o])
  BY <1>1, ThisBuilt
<1>4. eref' = eref /\ call' = Null /\ panicked' = panicked /\ call.op = "reserve"
  BY DEF Reserve, Return, Calling
<1>5. CASE call.n > cap[o]
  <2>1. Change(o, Reallocated(dat[o], len[o], call.n), len[o])
    BY <1>5 DEF Reserve
  <2>2. len[o] <= call.n
    BY <1>2, <1>3, <1>5
  <2> HIDE DEF o
  <2>3. /\ Built(Reallocated(dat[o], len[o], call.n), len[o])
        /\ \A i \in 1..len[o] : Reallocated(dat[o], len[o], call.n)[i] = dat[o][i]
    BY <1>2, <1>3, <2>2, ReallocatedCells
  <2> QED
    BY <1>1, <1>4, <2>1, <2>3 DEF o
<1>6. CASE ~ call.n > cap[o]
  <2>1. Change(o, dat[o], len[o])
    BY <1>6 DEF Reserve
  <2> HIDE DEF o
  <2> QED
    BY <1>1, <1>3, <1>4, <2>1 DEF o
<1> QED
  BY <1>5, <1>6

(* arr_idx_s and arr_idx_u accept exactly the indices of the elements. *)
LEMMA IndexChecked ==
  ASSUME NEW i \in Int, NEW signed, NEW n \in 0..MaxLen, ~ signed => i >= 0
  PROVE  InBounds(i, signed, n) <=> i \in 0..(n - 1)
<1>1. MaxLen \in Nat /\ MaxLen < 2^(W - 1) /\ 2^(W - 1) \in Int
  BY ArrayAssumption
<1>2. Signed(n) = n
  BY <1>1 DEF Signed
<1> QED
  BY <1>1, <1>2 DEF InBounds

LEMMA StoreEffect ==
  ASSUME BlockInv, Store
  PROVE  /\ This \in Storage /\ call.e \in Elem /\ call.i \in Int
         /\ \/ /\ call.i + 1 \in 1..len[This]
               /\ \E cells :
                    /\ Change(This, cells, len[This])
                    /\ Built(cells, len[This])
                    /\ Len(cells) = Len(dat[This])
                    /\ \A j \in 1..len[This] :
                         cells[j] = IF j = call.i + 1 THEN call.e ELSE dat[This][j]
               /\ eref' = [e \in Elem |->
                    eref[e] + Handles(<<call.e>>, 1, 1, e)
                            - Handles(dat[This], call.i + 1, call.i + 1, e)]
               /\ call' = Null /\ panicked' = panicked
            \/ call.i \notin 0..(len[This] - 1) /\ Panic
<1> DEFINE o == This
<1>1. o \in Storage /\ call.e \in Elem /\ call.i \in Int /\ (~ call.signed => call.i >= 0)
  BY Performed, CallShape DEF Store, This
<1>2. Built(dat[o], len[o]) /\ len[o] \in Nat /\ len[o] \in 0..MaxLen
  BY <1>1, ThisBuilt DEF Built
<1>3. InBounds(call.i, call.signed, len[o]) <=> call.i \in 0..(len[o] - 1)
  BY <1>1, <1>2, IndexChecked
<1>4. CASE call.i \in 0..(len[o] - 1)
  <2>1. /\ Change(o, Written(dat[o], call.i + 1, <<call.e>>), len[o])
        /\ eref' = [e \in Elem |->
             eref[e] + Handles(<<call.e>>, 1, 1, e)
                     - Handles(dat[o], call.i + 1, call.i + 1, e)]
        /\ call' = Null /\ panicked' = panicked
    BY <1>3, <1>4 DEF Store, Return
  <2>2. call.i + 1 \in 1..len[o] /\ call.e \in Object
    <3>1. call.e \in Object
      BY <1>1, Objects
    <3>2. call.i + 1 \in 1..len[o]
      BY <1>1, <1>2, <1>4
    <3> QED
      BY <3>1, <3>2
  <2> DEFINE w == Written(dat[o], call.i + 1, <<call.e>>)
  <2>3. /\ Built(w, len[o]) /\ Len(w) = Len(dat[o])
        /\ \A j \in 1..len[o] : w[j] = IF j = call.i + 1 THEN call.e ELSE dat[o][j]
    <3> HIDE DEF o
    <3>1. Built(dat[o], len[o])
      BY <1>2
    <3>2. PICK k \in 1..len[o] : k = call.i + 1
      BY <2>2
    <3> DEFINE one == <<call.e>>
    <3>3. one \in Seq(Object) /\ Len(one) = 1 /\ one[1] = call.e
      BY <2>2
    <3> HIDE DEF one
    <3>4. /\ Built(Written(dat[o], k, one), len[o])
          /\ Len(Written(dat[o], k, one)) = Len(dat[o])
          /\ \A j \in 1..len[o] : Written(dat[o], k, one)[j] = IF j = k THEN one[1] ELSE dat[o][j]
      BY <3>1, <3>3, StoredCells
    <3> QED
      BY <3>2, <3>3, <3>4 DEF one
  <2> HIDE DEF w
  <2>4. Change(o, w, len[o])
    BY <2>1 DEF w
  <2> HIDE DEF o
  <2>5. \E cells :
          /\ Change(o, cells, len[o])
          /\ Built(cells, len[o])
          /\ Len(cells) = Len(dat[o])
          /\ \A j \in 1..len[o] : cells[j] = IF j = call.i + 1 THEN call.e ELSE dat[o][j]
    BY <2>3, <2>4
  <2> QED
    BY <1>1, <2>1, <2>2, <2>5 DEF o
<1>5. CASE call.i \notin 0..(len[o] - 1)
  BY <1>1, <1>3, <1>5 DEF Store
<1> QED
  BY <1>4, <1>5
-----------------------------------------------------------------------------
(* The types and the blocks. *)
LEMMA HandlesCounted ==
  ASSUME NEW cells, NEW from \in Int, NEW to \in Int, NEW e
  PROVE  /\ Handles(cells, from, to, e) \in Nat
         /\ IsFiniteSet({i \in DOMAIN cells \intersect (from..to) : cells[i] = e})
<1> DEFINE H == {i \in DOMAIN cells \intersect (from..to) : cells[i] = e}
<1>1. IsFiniteSet(from..to) /\ H \in SUBSET (from..to)
  BY FS_Interval
<1>2. IsFiniteSet(H)
  BY <1>1, FS_Subset
<1> QED
  BY <1>2, FS_CardinalityType DEF Handles

LEMMA Rebuilt ==
  ASSUME BlockInv, NEW o \in Storage, NEW cells, NEW n, Built(cells, n),
         dat' = [dat EXCEPT ![o] = cells], len' = [len EXCEPT ![o] = n]
  PROVE  AllBuilt' /\ dat' \in [Storage -> Seq(Cell)] /\ len' \in [Storage -> 0..MaxLen]
<1>1. cells \in Seq(Cell) /\ n \in 0..MaxLen
  BY DEF Built
<1>2. dat' \in [Storage -> Seq(Cell)] /\ len' \in [Storage -> 0..MaxLen]
  BY <1>1 DEF BlockInv, StateTyped
<1>3. ASSUME NEW p \in Storage PROVE Built(dat'[p], len'[p])
  <2>1. CASE p = o
    <3>1. dat'[p] = cells /\ len'[p] = n
      BY <2>1 DEF BlockInv, StateTyped
    <3> QED
      BY <3>1
  <2>2. CASE p # o
    <3>1. dat'[p] = dat[p] /\ len'[p] = len[p]
      BY <2>2 DEF BlockInv, StateTyped
    <3> QED
      BY <3>1 DEF BlockInv, AllBuilt
  <2> QED
    BY <2>1, <2>2
<1>4. AllBuilt'
  BY <1>3 DEF AllBuilt, Built
<1> QED
  BY <1>2, <1>4

(* Calls that change the cells of one storage. *)
LEMMA ChangeBlocks ==
  ASSUME BlockInv, NEW o \in Storage, NEW cells, NEW n, Built(cells, n), Change(o, cells, n),
         eref' \in [Elem -> Int], call' = Null, panicked' = panicked
  PROVE  BlockInv'
<1>1. AllBuilt' /\ dat' \in [Storage -> Seq(Cell)] /\ len' \in [Storage -> 0..MaxLen]
  BY Rebuilt DEF Change
<1>2. StateTyped'
  BY <1>1 DEF BlockInv, StateTyped, Change
<1> QED
  BY <1>1, <1>2 DEF BlockInv, CallAllowed

LEMMA NewBlocks ==
  ASSUME BlockInv, NEW x \in Var, NEW s \in Seq(Object), Len(s) <= MaxLen, NewStorage(x, s), Return
  PROVE  BlockInv'
<1>1. PICK o \in Storage \ live :
        /\ live' = live \union {o}
        /\ ref' = [ref EXCEPT ![o] = 1]
        /\ len' = [len EXCEPT ![o] = Len(s)]
        /\ dat' = [dat EXCEPT ![o] = s]
        /\ var' = [var EXCEPT ![x] = o]
        /\ eref' = [e \in Elem |-> eref[e] + Handles(s, 1, Len(s), e)]
  BY DEF NewStorage
<1>2. /\ Len(s) \in Nat /\ s \in Seq(Cell) /\ MaxLen \in Nat
      /\ \A i \in 1..Len(s) : s[i] \in Object
  BY ArrayAssumption, Objects
<1>3. Built(s, Len(s))
  BY <1>2 DEF Built
<1>4. AllBuilt' /\ dat' \in [Storage -> Seq(Cell)] /\ len' \in [Storage -> 0..MaxLen]
  BY <1>1, <1>3, Rebuilt
<1>5. eref' \in [Elem -> Int]
  <2>1. ASSUME NEW e \in Elem PROVE Handles(s, 1, Len(s), e) \in Nat
    <3>1. 1 \in Int /\ Len(s) \in Int
      BY <1>2
    <3> QED
      BY <3>1, HandlesCounted
  <2>2. \A e \in Elem : eref[e] \in Int
    BY DEF BlockInv, StateTyped
  <2> QED
    BY <1>1, <2>1, <2>2
<1>6. var' \in [Var -> Storage \union {Null, Dead}] /\ ref' \in [Storage -> Int] /\ live' \subseteq Storage
  BY <1>1 DEF BlockInv, StateTyped
<1>7. StateTyped'
  BY <1>4, <1>5, <1>6 DEF BlockInv, StateTyped, Return
<1> QED
  BY <1>4, <1>7 DEF BlockInv, CallAllowed, Return

(* Calls that give a handle back. *)
LEMMA DropBlocks ==
  ASSUME BlockInv, NEW o \in Storage, NEW counts \in [Storage -> Int], DropStorage(o, counts),
         var' \in [Var -> Storage \union {Null, Dead}], Return
  PROVE  BlockInv'
<1>1. /\ ref' \in [Storage -> Int] /\ live' \subseteq Storage
  BY DEF DropStorage, BlockInv, StateTyped
<1>2. AllBuilt' /\ dat' \in [Storage -> Seq(Cell)] /\ len' \in [Storage -> 0..MaxLen] /\ eref' \in [Elem -> Int]
  <2>1. CASE counts[o] = 1
    <3>1. Built(<<>>, 0)
      BY ArrayAssumption DEF Built
    <3>2. dat' = [dat EXCEPT ![o] = <<>>] /\ len' = [len EXCEPT ![o] = 0]
      BY <2>1 DEF DropStorage
    <3>3. AllBuilt' /\ dat' \in [Storage -> Seq(Cell)] /\ len' \in [Storage -> 0..MaxLen]
      <4> DEFINE empty == <<>>
      <4>1. Built(empty, 0) /\ dat' = [dat EXCEPT ![o] = empty]
        BY <3>1, <3>2
      <4> HIDE DEF empty
      <4> QED
        BY <3>2, <4>1, Rebuilt
    <3>4. ASSUME NEW e \in Elem PROVE Handles(dat[o], 1, len[o], e) \in Nat
      <4>1. 1 \in Int /\ len[o] \in Int
        BY ThisBuilt
      <4> QED
        BY <4>1, HandlesCounted
    <3>5. \A e \in Elem : eref[e] \in Int
      BY DEF BlockInv, StateTyped
    <3>6. eref' \in [Elem -> Int]
      <4> DEFINE h(e) == Handles(dat[o], 1, len[o], e)
      <4>1. eref' = [e \in Elem |-> eref[e] - h(e)]
        BY <2>1 DEF DropStorage
      <4>2. \A e \in Elem : h(e) \in Nat
        BY <3>4
      <4> HIDE DEF h
      <4>3. \A e \in Elem : eref[e] - h(e) \in Int
        BY <3>5, <4>2
      <4> QED
        BY ONLY <4>1, <4>3
    <3> QED
      BY <3>3, <3>6
  <2>2. CASE counts[o] # 1
    <3>1. UNCHANGED <<eref, len, dat>>
      BY <2>2 DEF DropStorage
    <3> QED
      BY <3>1 DEF BlockInv, StateTyped, AllBuilt, Built
  <2> QED
    BY <2>1, <2>2
<1>3. StateTyped'
  BY <1>1, <1>2 DEF BlockInv, StateTyped, Return
<1> QED
  BY <1>2, <1>3 DEF BlockInv, CallAllowed, Return

(* Calls that leave the cells alone. *)
LEMMA IdleBlocks ==
  ASSUME BlockInv, UNCHANGED <<len, dat, live, eref>>,
         var' \in [Var -> Storage \union {Null, Dead}], ref' \in [Storage -> Int],
         call' \in Calls \union {Null}, panicked' \in BOOLEAN, CallAllowed'
  PROVE  BlockInv'
<1>1. AllBuilt'
  BY DEF BlockInv, AllBuilt, Built
<1> QED
  BY <1>1 DEF BlockInv, StateTyped
LEMMA BlockStep == BlockInv /\ [Next]_vars => BlockInv'
<1> SUFFICES ASSUME BlockInv, [Next]_vars PROVE BlockInv'
  OBVIOUS
<1>0. StateTyped
  BY DEF BlockInv
<1>1. CASE MakeCall
  <2>1. UNCHANGED <<var, ref, len, dat, live, eref, panicked>> /\ call' \in Calls
    BY <1>1 DEF MakeCall, strg
  <2>2. PICK c \in Calls : Allowed(c) /\ call' = c
    BY <1>1 DEF MakeCall
  <2>3. CallAllowed'
    BY <2>1, <2>2 DEF CallAllowed, Allowed, HoldsArray
  <2> QED
    BY <1>0, <2>1, <2>3, IdleBlocks DEF StateTyped
<1>2. CASE ArrDefCtor
  <2>1. call.x \in Var
    BY <1>2, Performed, CallShape DEF ArrDefCtor
  <2> DEFINE empty == <<>>
  <2>2. empty \in Seq(Object) /\ Len(empty) <= MaxLen /\ NewStorage(call.x, empty) /\ Return
    BY <1>2, ArrayAssumption DEF ArrDefCtor
  <2> HIDE DEF empty
  <2> QED
    BY <2>1, <2>2, NewBlocks
<1>3. CASE ArrLenCtor
  <2>1. call.x \in Var /\ call.s \in Literals
    BY <1>3, Performed, CallShape DEF ArrLenCtor
  <2>2. call.s \in Seq(Elem) /\ Len(call.s) \in 1..MaxLen /\ MaxLen \in Nat
    BY <2>1, ArrayAssumption
  <2>3. call.s \in Seq(Object) /\ Len(call.s) <= MaxLen
    BY <2>2, Objects
  <2> QED
    BY <1>3, <2>1, <2>3, NewBlocks DEF ArrLenCtor
<1>4. CASE ArrDtor
  <2>1. call.x \in Var
    BY <1>4, Performed, CallShape DEF ArrDtor
  <2>2. var' \in [Var -> Storage \union {Null, Dead}] /\ Return
    BY <1>0, <1>4 DEF ArrDtor, StateTyped
  <2>3. CASE var[call.x] \in Storage
    BY <1>0, <1>4, <2>2, <2>3, DropBlocks DEF ArrDtor, HoldsArray, StateTyped
  <2>4. CASE var[call.x] \notin Storage
    BY <1>0, <1>4, <2>2, <2>4, IdleBlocks DEF ArrDtor, HoldsArray, StateTyped, strg, Return, CallAllowed
  <2> QED
    BY <2>3, <2>4
<1>5. CASE ArrCopCtor
  <2>1. call.x \in Var /\ var[call.y] \in Storage
    BY <1>5, Performed, CallShape DEF ArrCopCtor
  <2>2. var' \in [Var -> Storage \union {Null, Dead}] /\ ref' \in [Storage -> Int] /\ Return
    BY <1>0, <1>5, <2>1 DEF ArrCopCtor, StateTyped
  <2> QED
    BY <1>0, <1>5, <2>2, IdleBlocks DEF ArrCopCtor, StateTyped, Return, CallAllowed
<1>6. CASE ArrMovCtor
  <2>1. call.x \in Var /\ call.y \in Var /\ var[call.y] \in Storage
    BY <1>6, Performed, CallShape DEF ArrMovCtor
  <2>2. var' \in [Var -> Storage \union {Null, Dead}] /\ Return
    BY <1>0, <1>6, <2>1 DEF ArrMovCtor, StateTyped
  <2> QED
    BY <1>0, <1>6, <2>2, IdleBlocks DEF ArrMovCtor, StateTyped, strg, Return, CallAllowed
<1>7. CASE ArrCopAsgn
  <2>1. call.x \in Var /\ var[call.x] \in Storage /\ var[call.y] \in Storage
    BY <1>7, Performed, CallShape DEF ArrCopAsgn
  <2> DEFINE counts == [ref EXCEPT ![var[call.y]] = @ + 1]
  <2>2. /\ var' \in [Var -> Storage \union {Null, Dead}] /\ Return
        /\ counts \in [Storage -> Int] /\ DropStorage(var[call.x], counts)
    BY <1>0, <1>7, <2>1 DEF ArrCopAsgn, StateTyped
  <2> HIDE DEF counts
  <2> QED
    BY <2>1, <2>2, DropBlocks
<1>8. CASE ArrMovAsgn
  <2>1. call.x \in Var /\ call.y \in Var /\ var[call.x] \in Storage /\ var[call.y] \in Storage
    BY <1>8, Performed, CallShape DEF ArrMovAsgn
  <2>2. var' \in [Var -> Storage \union {Null, Dead}] /\ Return /\ DropStorage(var[call.x], ref)
    BY <1>0, <1>8, <2>1 DEF ArrMovAsgn, StateTyped
  <2> QED
    BY <1>0, <2>1, <2>2, DropBlocks DEF StateTyped
<1>9. CASE PushBack
  <2>1. eref' \in [Elem -> Int]
    BY <1>0, <1>9, PushEffect DEF StateTyped
  <2> QED
    BY <1>9, <2>1, PushEffect, ChangeBlocks
<1>10. CASE AppendOther
  <2>1. eref' \in [Elem -> Int]
    <3>1. ASSUME NEW e \in Elem PROVE Handles(dat[var[call.y]], 1, len[var[call.y]], e) \in Nat
      <4>1. 1 \in Int /\ len[var[call.y]] \in Int
        BY <1>10, AppendEffect, ThisBuilt
      <4> QED
        BY <4>1, HandlesCounted
    <3>2. \A e \in Elem : eref[e] \in Int
      BY <1>0 DEF StateTyped
    <3> QED
      BY <1>10, <3>1, <3>2, AppendEffect
  <2> QED
    BY <1>10, <2>1, AppendEffect, ChangeBlocks
<1>11. ASSUME NEW o \in Storage, NEW first \in 1..(len[o] + 1), DestroyFrom(o, first),
              call' = Null, panicked' = panicked
       PROVE  BlockInv'
  <2>1. eref' \in [Elem -> Int]
    <3>1. ASSUME NEW e \in Elem PROVE Handles(dat[o], first, len[o], e) \in Nat
      <4>1. first \in Int /\ len[o] \in Int
        BY ThisBuilt
      <4> QED
        BY <4>1, HandlesCounted
    <3>2. \A e \in Elem : eref[e] \in Int
      BY <1>0 DEF StateTyped
    <3> QED
      BY <1>11, <3>1, <3>2 DEF DestroyFrom
  <2>2. PICK cells : Change(o, cells, first - 1) /\ Built(cells, first - 1)
    BY <1>11, DestroyEffect
  <2> QED
    BY <1>11, <2>1, <2>2, ChangeBlocks
<1>12. ASSUME Panic PROVE BlockInv'
  BY <1>0, <1>12, IdleBlocks DEF Panic, strg, StateTyped, CallAllowed
<1>13. CASE PopBack
  BY <1>11, <1>12, <1>13, PopEffect
<1>14. CASE ResizeShrink
  BY <1>11, <1>14, ShrinkEffect
<1>15. CASE ResizeGrow
  BY <1>0, <1>15, GrowEffect, ChangeBlocks DEF StateTyped
<1>16. CASE Reserve
  BY <1>0, <1>16, ReserveEffect, ChangeBlocks DEF StateTyped
<1>17. CASE Store
  <2>1. CASE Panic
    BY <1>12, <2>1
  <2>2. CASE ~ Panic
    <3>1. /\ This \in Storage /\ call.i + 1 \in 1..len[This]
          /\ eref' = [e \in Elem |->
               eref[e] + Handles(<<call.e>>, 1, 1, e) - Handles(dat[This], call.i + 1, call.i + 1, e)]
          /\ call' = Null /\ panicked' = panicked
      BY <1>17, <2>2, StoreEffect
    <3>2. PICK cells : Change(This, cells, len[This]) /\ Built(cells, len[This])
      BY <1>17, <2>2, StoreEffect
    <3>3. eref' \in [Elem -> Int]
      <4> DEFINE one == <<call.e>>
                 k == call.i + 1
      <4>1. 1 \in Int /\ k \in Int
        BY <3>1, ThisBuilt
      <4> HIDE DEF one, k
      <4>2. \A e \in Elem : Handles(one, 1, 1, e) \in Nat /\ Handles(dat[This], k, k, e) \in Nat
        BY <4>1, HandlesCounted
      <4>3. \A e \in Elem : eref[e] \in Int
        BY <1>0 DEF StateTyped
      <4>4. eref' = [e \in Elem |-> eref[e] + Handles(one, 1, 1, e) - Handles(dat[This], k, k, e)]
        BY <3>1 DEF one, k
      <4> QED
        BY <4>2, <4>3, <4>4
    <3> QED
      BY <3>1, <3>2, <3>3, ChangeBlocks
  <2> QED
    BY <2>1, <2>2
<1>18. CASE UNCHANGED vars
  BY <1>0, <1>18, IdleBlocks DEF vars, strg, StateTyped, BlockInv, CallAllowed, Allowed, HoldsArray
<1> QED
  BY <1>1, <1>2, <1>3, <1>4, <1>5, <1>6, <1>7, <1>8, <1>9, <1>10, <1>13, <1>14, <1>15, <1>16,
     <1>17, <1>18 DEF Next
LEMMA BlockInit == Init => BlockInv
<1> SUFFICES ASSUME Init PROVE BlockInv
  OBVIOUS
<1>1. \A o \in Storage : len[o] = 0 /\ dat[o] = <<>>
  BY DEF Init
<1>2. AllBuilt
  <2>1. Built(<<>>, 0)
    BY ArrayAssumption DEF Built
  <2> DEFINE empty == <<>>
  <2>2. Built(empty, 0) /\ \A o \in Storage : len[o] = 0 /\ dat[o] = empty
    BY <1>1, <2>1
  <2> HIDE DEF empty
  <2> QED
    BY <2>2 DEF AllBuilt
<1>3. /\ var \in [Var -> Storage \union {Null, Dead}] /\ ref \in [Storage -> Int]
      /\ eref \in [Elem -> Int] /\ live \subseteq Storage
  BY DEF Init
<1>4. len \in [Storage -> 0..MaxLen] /\ dat \in [Storage -> Seq(Cell)]
  BY ArrayAssumption DEF Init
<1>5. call = Null /\ panicked \in BOOLEAN
  BY Zenon DEF Init
<1> QED
  BY <1>2, <1>3, <1>4, <1>5 DEF BlockInv, StateTyped, CallAllowed

LEMMA BlockAlways == Spec => []BlockInv
  BY BlockInit, BlockStep, PTL DEF Spec

(* For any sequence of calls on any number of arrays, resize, reserve,     *)
(* append, push_back, pop_back and reallocate keep exactly the cells up to *)
(* the length constructed.                                                 *)
THEOREM CellsAreConstructed == Spec => []CellsConstructed
<1>1. ASSUME BlockInv PROVE CellsConstructed
  <2>1. ASSUME NEW o \in live
        PROVE  len[o] <= cap[o] /\ \A i \in 1..cap[o] : (dat[o][i] \in Object <=> i <= len[o])
    <3>1. o \in Storage
      BY <1>1 DEF BlockInv, StateTyped
    <3>2. Built(dat[o], len[o]) /\ cap[o] = Len(dat[o])
      BY <1>1, <3>1, ThisBuilt
    <3>3. \A i \in 1..cap[o] : (dat[o][i] \in Object <=> i <= len[o])
      BY <3>2 DEF Built
    <3> QED
      BY <3>2, <3>3 DEF Built
  <2> QED
    BY <2>1 DEF CellsConstructed
<1> QED
  BY <1>1, BlockAlways, PTL

-----------------------------------------------------------------------------
(* What GrowthIsLeast says of a step and a storage. *)
GrowsLeast(o) ==
  cap'[o] > cap[o] /\ call.op # "reserve" =>
    /\ \E k \in 0..W : cap'[o] = 2^k
    /\ len'[o] <= cap'[o] /\ cap'[o] < 2 * len'[o]

LEMMA ChangeGrows ==
  ASSUME BlockInv, NEW o \in Storage, NEW cells, NEW n, Change(o, cells, n), Built(cells, n),
         call.op = "reserve" \/ Least(o, cells, n), NEW p \in Storage
  PROVE  GrowsLeast(p)
<1>1. cap[p] = Len(dat[p]) /\ cap'[p] = Len(dat'[p]) /\ Len(dat[p]) \in Nat
  BY ThisBuilt DEF cap
<1>2. CASE p = o
  <2>1. dat'[p] = cells /\ len'[p] = n
    BY <1>2 DEF Change, BlockInv, StateTyped
  <2> QED
    BY <1>1, <1>2, <2>1 DEF GrowsLeast, Least, Built
<1>3. CASE p # o
  <2>1. dat'[p] = dat[p]
    BY <1>3 DEF Change, BlockInv, StateTyped
  <2> QED
    BY <1>1, <2>1 DEF GrowsLeast
<1> QED
  BY <1>2, <1>3

LEMMA GrowStep ==
  ASSUME BlockInv, Next, NEW p \in live
  PROVE  GrowsLeast(p)
<1>0. p \in Storage /\ dat \in [Storage -> Seq(Cell)]
  BY DEF BlockInv, StateTyped
<1>1. cap[p] = Len(dat[p]) /\ cap'[p] = Len(dat'[p]) /\ Len(dat[p]) \in Nat
  BY <1>0, ThisBuilt DEF cap
<1>2. ASSUME Len(dat'[p]) <= Len(dat[p]) PROVE GrowsLeast(p)
  <2>1. ~ cap'[p] > cap[p]
    <3>1. CASE Len(dat'[p]) \in Int
      BY <1>1, <1>2, <3>1
    <3> QED
      BY <3>1, <1>1, <1>2
  <2> QED
    BY <2>1 DEF GrowsLeast
<1>3. ASSUME dat' = dat PROVE GrowsLeast(p)
  BY <1>1, <1>2, <1>3
<1>4. ASSUME NEW x, NEW s, NewStorage(x, s) PROVE GrowsLeast(p)
  <2>1. dat'[p] = dat[p]
    BY <1>0, <1>4 DEF NewStorage
  <2> QED
    BY <1>1, <1>2, <2>1
<1>5. ASSUME NEW o \in Storage, NEW counts, DropStorage(o, counts) PROVE GrowsLeast(p)
  <2>1. dat'[p] = dat[p] \/ dat'[p] = <<>>
    BY <1>0, <1>5 DEF DropStorage
  <2> QED
    BY <1>1, <1>2, <2>1
<1>6. ASSUME NEW o \in Storage, NEW first \in 1..(len[o] + 1), DestroyFrom(o, first)
      PROVE  GrowsLeast(p)
  <2>1. PICK cells : /\ Change(o, cells, first - 1) /\ Built(cells, first - 1)
                     /\ Len(cells) = Len(dat[o])
    BY <1>6, DestroyEffect
  <2>2. Least(o, cells, first - 1)
    BY <1>6, <2>1, ThisBuilt DEF Least
  <2> QED
    BY <1>0, <2>1, <2>2, ChangeGrows
<1>7. CASE MakeCall \/ ArrCopCtor \/ ArrMovCtor
  BY <1>3, <1>7 DEF MakeCall, ArrCopCtor, ArrMovCtor, strg
<1>8. CASE ArrDefCtor \/ ArrLenCtor
  BY <1>4, <1>8 DEF ArrDefCtor, ArrLenCtor
<1>9. CASE ArrDtor
  BY <1>3, <1>5, <1>9 DEF ArrDtor, HoldsArray, strg
<1>10. CASE ArrCopAsgn
  <2>1. var[call.x] \in Storage
    BY <1>10, Performed DEF ArrCopAsgn
  <2> QED
    BY <1>5, <1>10, <2>1 DEF ArrCopAsgn
<1>11. CASE ArrMovAsgn
  <2>1. var[call.x] \in Storage
    BY <1>11, Performed DEF ArrMovAsgn
  <2> QED
    BY <1>5, <1>11, <2>1 DEF ArrMovAsgn
<1>12. CASE PushBack
  BY <1>0, <1>12, PushEffect, ChangeGrows
<1>13. CASE AppendOther
  BY <1>0, <1>13, AppendEffect, ChangeGrows
<1>14. CASE PopBack
  BY <1>3, <1>6, <1>14, PopEffect DEF Panic, strg
<1>15. CASE ResizeShrink
  BY <1>6, <1>15, ShrinkEffect
<1>16. CASE ResizeGrow
  BY <1>0, <1>16, GrowEffect, ChangeGrows
<1>17. CASE Reserve
  BY <1>0, <1>17, ReserveEffect, ChangeGrows
<1>18. CASE Store
  <2>1. CASE Panic
    BY <1>3, <2>1 DEF Panic, strg
  <2>2. CASE ~ Panic
    <3>1. This \in Storage
      BY <1>18, StoreEffect
    <3>2. PICK cells : /\ Change(This, cells, len[This]) /\ Built(cells, len[This])
                       /\ Len(cells) = Len(dat[This])
      BY <1>18, <2>2, StoreEffect
    <3>3. Least(This, cells, len[This])
      BY <3>1, <3>2, ThisBuilt DEF Least
    <3> QED
      BY <1>0, <3>1, <3>2, <3>3, ChangeGrows
  <2> QED
    BY <2>1, <2>2
<1> QED
  BY <1>7, <1>8, <1>9, <1>10, <1>11, <1>12, <1>13, <1>14, <1>15, <1>16, <1>17, <1>18 DEF Next

(* For any width of a length: when push_back, append or resize grow an     *)
(* array, ceil_to_pow_2 gives a block that is a power of two, has room and *)
(* is less than twice the new length.                                      *)
THEOREM GrowthIsBounded == Spec => GrowthIsLeast
<1> DEFINE Grows == \A o \in live :
       cap'[o] > cap[o] /\ call.op # "reserve" =>
         /\ \E k \in 0..W : cap'[o] = 2^k
         /\ len'[o] <= cap'[o] /\ cap'[o] < 2 * len'[o]
<1>1. BlockInv /\ [Next]_vars => [Grows]_vars
  BY GrowStep DEF GrowsLeast
<1> HIDE DEF Grows
<1>2. Spec => [][Grows]_vars
  BY <1>1, BlockAlways, PTL DEF Spec
<1> QED
  BY <1>2 DEF GrowthIsLeast, Grows
-----------------------------------------------------------------------------
(* The variables that hold a storage. *)
Holders(o) == Cardinality(PlacesOf(Var, var, o))

(* A storage is counted once per variable that holds it, is allocated as   *)
(* long as it is counted, and has given its elements back when it is not.  *)
CountInv ==
  \A o \in Storage :
    /\ ref[o] = Holders(o)
    /\ o \in live <=> ref[o] > 0
    /\ o \notin live => len[o] = 0

LEMMA NoArray == Null \notin Storage /\ Dead \notin Storage /\ IsFiniteSet(Var)
  BY ArrayAssumption

LEMMA HeldIsLive ==
  ASSUME BlockInv, CountInv, NEW x \in Var, var[x] \in Storage
  PROVE  var[x] \in live
<1> DEFINE o == var[x]
<1>1. Holders(o) \in Nat /\ Holders(o) # 0
  <2>1. Cardinality(PlacesOf(Var, var, o)) \in Nat
    BY NoArray, PlacesFinite
  <2>2. Cardinality(PlacesOf(Var, var, o)) # 0
    BY NoArray, NoPlaces
  <2> QED
    BY <2>1, <2>2 DEF Holders
<1>2. ref[o] = Holders(o) /\ (o \in live <=> ref[o] > 0)
  BY DEF CountInv
<1> HIDE DEF o
<1>3. o \in live
  BY <1>1, <1>2
<1> QED
  BY <1>3 DEF o

LEMMA HoldersTyped == \A o \in Storage : Holders(o) \in Nat
<1>1. ASSUME NEW o \in Storage PROVE Cardinality(PlacesOf(Var, var, o)) \in Nat
  BY NoArray, PlacesFinite
<1> QED
  BY <1>1 DEF Holders

(* One variable gets other contents. *)
LEMMA VariableSet ==
  ASSUME NEW f, NEW g, NEW x \in Var, NEW p, \A y \in Var : y # x => g[y] = f[y]
  PROVE  CountMoves(Var, f, g, x, p)
  BY NoArray, PlacesChange

(* The count of what variable x held before is one less. *)
CountLess(f, g, x, p) ==
  Cardinality(PlacesOf(Var, g, p)) = Cardinality(PlacesOf(Var, f, p)) - Bit(f[x], p)

(* A storage is moved from one variable to another. *)
LEMMA VariableMoved ==
  ASSUME NEW f, NEW g, NEW x \in Var, NEW y \in Var, x # y, NEW p \in Storage,
         g[x] = f[y], g[y] = Null, \A z \in Var \ {x, y} : g[z] = f[z]
  PROVE  CountLess(f, g, x, p)
<1> DEFINE h == [z \in Var |-> IF z = y THEN Null ELSE f[z]]
<1>1. /\ h[x] = f[x] /\ h[y] = Null
      /\ \A z \in Var : z # y => h[z] = f[z]
      /\ \A z \in Var : z # x => g[z] = h[z]
  OBVIOUS
<1> HIDE DEF h
<1>3. CountMoves(Var, f, h, y, p)
  BY <1>1, VariableSet
<1>4. CountMoves(Var, h, g, x, p)
  BY <1>1, VariableSet
<1>5. Bit(h[y], p) = 0 /\ Bit(f[y], p) \in Int /\ Bit(f[x], p) \in Int
  BY <1>1, NoArray DEF Bit
<1>6. Cardinality(PlacesOf(Var, f, p)) \in Nat
  BY NoArray, PlacesFinite
<1> QED
  BY <1>1, <1>3, <1>4, <1>5, <1>6 DEF CountMoves, CountLess

LEMMA ChangeCounts ==
  ASSUME BlockInv, CountInv, NEW o \in Storage, o \in live, NEW cells, NEW n, Change(o, cells, n)
  PROVE  CountInv'
<1> SUFFICES ASSUME NEW p \in Storage
             PROVE  ref'[p] = Holders(p)' /\ (p \in live' <=> ref'[p] > 0) /\ (p \notin live' => len'[p] = 0)
  BY DEF CountInv
<1>1. var' = var /\ ref' = ref /\ live' = live /\ (p # o => len'[p] = len[p])
  BY DEF Change, BlockInv, StateTyped
<1>2. Holders(p)' = Holders(p)
  BY <1>1 DEF Holders
<1> QED
  BY <1>1, <1>2 DEF CountInv

LEMMA IdleCounts ==
  ASSUME CountInv, UNCHANGED <<var, ref, len, live>>
  PROVE  CountInv'
<1> SUFFICES ASSUME NEW p \in Storage
             PROVE  ref'[p] = Holders(p)' /\ (p \in live' <=> ref'[p] > 0) /\ (p \notin live' => len'[p] = 0)
  BY DEF CountInv
<1>1. Holders(p)' = Holders(p)
  BY DEF Holders
<1> QED
  BY <1>1 DEF CountInv

LEMMA NewCounts ==
  ASSUME BlockInv, CountInv, NEW x \in Var, var[x] = Dead, NEW s, NewStorage(x, s)
  PROVE  CountInv'
<1>1. PICK o \in Storage \ live :
        /\ live' = live \union {o}
        /\ ref' = [ref EXCEPT ![o] = 1]
        /\ len' = [len EXCEPT ![o] = Len(s)]
        /\ var' = [var EXCEPT ![x] = o]
  BY DEF NewStorage
<1> SUFFICES ASSUME NEW p \in Storage
             PROVE  ref'[p] = Holders(p)' /\ (p \in live' <=> ref'[p] > 0) /\ (p \notin live' => len'[p] = 0)
  BY DEF CountInv
<1>2. ref[p] = Holders(p) /\ (p \in live <=> ref[p] > 0) /\ (p \notin live => len[p] = 0)
  BY DEF CountInv
<1>3. Holders(p)' = Holders(p) - Bit(Dead, p) + Bit(o, p)
  <2>1. var'[x] = o /\ \A y \in Var : y # x => var'[y] = var[y]
    BY <1>1 DEF BlockInv, StateTyped
  <2>2. CountMoves(Var, var, var', x, p)
    BY <2>1, VariableSet
  <2> QED
    BY <2>1, <2>2 DEF Holders, CountMoves
<1>4. Bit(Dead, p) = 0 /\ Holders(p) \in Nat
  BY NoArray, HoldersTyped DEF Bit
<1>5. CASE p = o
  <2>1. ref'[p] = 1 /\ p \in live' /\ Bit(o, p) = 1
    BY <1>1, <1>5 DEF BlockInv, StateTyped, Bit
  <2> QED
    BY <1>1, <1>2, <1>3, <1>4, <1>5, <2>1
<1>6. CASE p # o
  <2>1. ref'[p] = ref[p] /\ (p \in live' <=> p \in live) /\ len'[p] = len[p] /\ Bit(o, p) = 0
    BY <1>1, <1>6 DEF BlockInv, StateTyped, Bit
  <2> QED
    BY <1>2, <1>3, <1>4, <2>1
<1> QED
  BY <1>5, <1>6

(* A storage loses a handle, after counts was set for the other changes. *)
LEMMA DropCounts ==
  ASSUME BlockInv, CountInv, NEW o \in Storage, o \in live, NEW counts \in [Storage -> Int],
         \A p \in Storage : p \in live <=> counts[p] > 0,
         \A p \in Storage : Cardinality(PlacesOf(Var, var', p)) = counts[p] - Bit(o, p),
         DropStorage(o, counts)
  PROVE  CountInv'
<1> SUFFICES ASSUME NEW p \in Storage
             PROVE  ref'[p] = Holders(p)' /\ (p \in live' <=> ref'[p] > 0) /\ (p \notin live' => len'[p] = 0)
  BY DEF CountInv
<1>1. Holders(p)' = counts[p] - Bit(o, p)
  BY DEF Holders
<1>2. (p \in live <=> counts[p] > 0) /\ (p \notin live => len[p] = 0) /\ counts[p] \in Int /\ len \in [Storage -> 0..MaxLen]
  BY DEF CountInv, BlockInv, StateTyped
<1>3. CASE p # o
  <2>1. ref'[p] = counts[p] /\ (p \in live' <=> p \in live) /\ len'[p] = len[p]
    BY <1>2, <1>3 DEF DropStorage
  <2>2. Bit(o, p) = 0
    BY <1>3 DEF Bit
  <2> QED
    BY <1>1, <1>2, <2>1, <2>2
<1>4. CASE p = o /\ counts[o] = 1
  <2>1. ref'[p] = 0 /\ p \notin live' /\ len'[p] = 0
    BY <1>2, <1>4 DEF DropStorage
  <2>2. Bit(o, p) = 1
    BY <1>4 DEF Bit
  <2> QED
    BY <1>1, <1>4, <2>1, <2>2
<1>5. CASE p = o /\ counts[o] # 1
  <2>1. ref'[p] = counts[p] - 1 /\ live' = live
    BY <1>2, <1>5 DEF DropStorage
  <2>2. Bit(o, p) = 1
    BY <1>5 DEF Bit
  <2> QED
    BY <1>1, <1>2, <1>5, <2>1, <2>2
<1> QED
  BY <1>3, <1>4, <1>5
LEMMA CountNext ==
  ASSUME BlockInv, CountInv, Next
  PROVE  CountInv'
<1>0. StateTyped
  BY DEF BlockInv
<1>00. \A p \in Storage : ref[p] = Holders(p) /\ Holders(p) \in Nat /\ (p \in live <=> ref[p] > 0)
  BY HoldersTyped DEF CountInv
<1>1. CASE MakeCall
  BY <1>1, IdleCounts DEF MakeCall, strg
<1>2. CASE ArrDefCtor
  <2>1. call.x \in Var /\ var[call.x] = Dead
    BY <1>2, Performed, CallShape DEF ArrDefCtor
  <2> QED
    BY <1>2, <2>1, NewCounts DEF ArrDefCtor
<1>3. CASE ArrLenCtor
  <2>1. call.x \in Var /\ var[call.x] = Dead
    BY <1>3, Performed, CallShape DEF ArrLenCtor
  <2> QED
    BY <1>3, <2>1, NewCounts DEF ArrLenCtor
<1>4. CASE ArrDtor
  <2>1. call.x \in Var
    BY <1>4, Performed, CallShape DEF ArrDtor
  <2> DEFINE x == call.x
  <2>2. var'[x] = Dead /\ \A y \in Var : y # x => var'[y] = var[y]
    BY <1>0, <1>4, <2>1 DEF ArrDtor, StateTyped
  <2>3. ASSUME NEW p \in Storage PROVE Cardinality(PlacesOf(Var, var', p)) = ref[p] - Bit(var[x], p)
    <3>1. CountMoves(Var, var, var', x, p)
      BY <2>1, <2>2, VariableSet
    <3>2. Bit(var'[x], p) = 0 /\ Bit(var[x], p) \in Int
      BY <2>2, NoArray DEF Bit
    <3> QED
      BY <1>00, <3>1, <3>2 DEF CountMoves, Holders
  <2>4. CASE var[x] \in Storage
    <3>1. var[x] \in live
      BY <2>1, <2>4, HeldIsLive
    <3>2. DropStorage(var[x], ref)
      BY <1>4, <2>4 DEF ArrDtor, HoldsArray
    <3>3. ref \in [Storage -> Int]
      BY <1>0 DEF StateTyped
    <3> QED
      BY <1>00, <2>3, <2>4, <3>1, <3>2, <3>3, DropCounts
  <2>5. CASE var[x] \notin Storage
    <3>1. ASSUME NEW p \in Storage PROVE Holders(p)' = ref[p]
      <4>1. Bit(var[x], p) = 0
        BY <2>5 DEF Bit
      <4> QED
        BY <1>00, <2>3, <4>1 DEF Holders
    <3>2. ref' = ref /\ live' = live /\ len' = len
      BY <1>4, <2>5 DEF ArrDtor, HoldsArray, strg
    <3> QED
      BY <3>1, <3>2 DEF CountInv
  <2> QED
    BY <2>4, <2>5
<1>5. CASE ArrCopCtor
  <2>1. call.x \in Var /\ var[call.x] = Dead /\ call.y \in Var /\ var[call.y] \in Storage
    BY <1>5, Performed, CallShape DEF ArrCopCtor
  <2> DEFINE x == call.x
             o == var[call.y]
  <2>2. var'[x] = o /\ \A y \in Var : y # x => var'[y] = var[y]
    BY <1>0, <1>5, <2>1 DEF ArrCopCtor, StateTyped
  <2>3. o \in live
    BY <2>1, HeldIsLive
  <2>4. ref' = [ref EXCEPT ![o] = @ + 1] /\ live' = live /\ len' = len
    BY <1>5 DEF ArrCopCtor
  <2>5. ASSUME NEW p \in Storage
        PROVE  ref'[p] = Holders(p)' /\ (p \in live' <=> ref'[p] > 0) /\ (p \notin live' => len'[p] = 0)
    <3>1. CountMoves(Var, var, var', x, p)
      BY <2>1, <2>2, VariableSet
    <3>2. Bit(var[x], p) = 0
      BY <2>1, NoArray DEF Bit
    <3>3. Holders(p)' = ref[p] + Bit(var'[x], p)
      <4>1. Bit(var'[x], p) \in Int
        BY DEF Bit
      <4> QED
        BY <1>00, <3>1, <3>2, <4>1 DEF CountMoves, Holders
    <3>4. CASE p = o
      <4>1. ref'[p] = ref[p] + 1 /\ Bit(var'[x], p) = 1
        BY <1>0, <2>1, <2>2, <2>4, <3>4 DEF StateTyped, Bit
      <4> QED
        BY <1>00, <2>3, <2>4, <3>3, <3>4, <4>1
    <3>5. CASE p # o
      <4>1. ref'[p] = ref[p] /\ Bit(var'[x], p) = 0
        BY <1>0, <2>1, <2>2, <2>4, <3>5 DEF StateTyped, Bit
      <4> QED
        BY <1>00, <2>4, <3>3, <4>1 DEF CountInv
    <3> QED
      BY <3>4, <3>5
  <2> QED
    BY <2>5 DEF CountInv
<1>6. ASSUME call.x \in Var, call.y \in Var, call.x # call.y, var[call.y] \in Storage,
             var' = [var EXCEPT ![call.x] = var[call.y], ![call.y] = Null]
      PROVE  \A p \in Storage : Cardinality(PlacesOf(Var, var', p)) = ref[p] - Bit(var[call.x], p)
  <2> DEFINE x == call.x
             y == call.y
  <2>1. var'[x] = var[y] /\ var'[y] = Null /\ \A z \in Var \ {x, y} : var'[z] = var[z]
    BY <1>0, <1>6 DEF StateTyped
  <2>2. x \in Var /\ y \in Var /\ x # y
    BY <1>6
  <2> HIDE DEF x, y
  <2>3. ASSUME NEW p \in Storage
        PROVE  CountLess(var, var', x, p)
    BY <2>1, <2>2, VariableMoved
  <2> QED
    BY <1>00, <2>3 DEF Holders, CountLess, x
<1>7. CASE ArrMovCtor
  <2>1. call.x \in Var /\ call.y \in Var /\ var[call.x] = Dead /\ var[call.y] \in Storage
    BY <1>7, Performed, CallShape DEF ArrMovCtor
  <2>2. \A p \in Storage : Cardinality(PlacesOf(Var, var', p)) = ref[p] - Bit(var[call.x], p)
    <3>1. call.x # call.y
      BY <2>1, NoArray
    <3>2. var' = [var EXCEPT ![call.x] = var[call.y], ![call.y] = Null]
      BY <1>7 DEF ArrMovCtor
    <3> QED
      BY <1>6, <2>1, <3>1, <3>2
  <2>3. ASSUME NEW p \in Storage PROVE Holders(p)' = ref[p]
    <3>1. Bit(var[call.x], p) = 0
      BY <2>1, NoArray DEF Bit
    <3> QED
      BY <1>00, <2>2, <3>1 DEF Holders
  <2>4. ref' = ref /\ live' = live /\ len' = len
    BY <1>7 DEF ArrMovCtor, strg
  <2> QED
    BY <2>3, <2>4 DEF CountInv
<1>8. CASE ArrMovAsgn
  <2>1. call.x \in Var /\ call.y \in Var /\ call.x # call.y /\ var[call.x] \in Storage /\ var[call.y] \in Storage
    BY <1>8, Performed, CallShape DEF ArrMovAsgn
  <2>2. \A p \in Storage : Cardinality(PlacesOf(Var, var', p)) = ref[p] - Bit(var[call.x], p)
    BY <1>6, <1>8, <2>1 DEF ArrMovAsgn
  <2>3. var[call.x] \in live /\ ref \in [Storage -> Int] /\ DropStorage(var[call.x], ref)
    BY <1>0, <1>8, <2>1, HeldIsLive DEF StateTyped, ArrMovAsgn
  <2> QED
    BY <1>00, <2>1, <2>2, <2>3, DropCounts
<1>9. CASE ArrCopAsgn
  <2>1. call.x \in Var /\ call.y \in Var /\ var[call.x] \in Storage /\ var[call.y] \in Storage
    BY <1>9, Performed, CallShape DEF ArrCopAsgn
  <2> DEFINE x == call.x
             o == var[call.y]
             counts == [ref EXCEPT ![o] = @ + 1]
  <2>2. var[x] \in live /\ o \in live
    BY <2>1, HeldIsLive
  <2>3. var'[x] = o /\ \A y \in Var : y # x => var'[y] = var[y]
    BY <1>0, <1>9, <2>1 DEF ArrCopAsgn, StateTyped
  <2>4. counts \in [Storage -> Int] /\ DropStorage(var[x], counts)
    BY <1>0, <1>9, <2>1 DEF ArrCopAsgn, StateTyped
  <2>5. \A p \in Storage : counts[p] = ref[p] + Bit(o, p)
    BY <1>0, <2>1 DEF StateTyped, Bit
  <2> HIDE DEF counts
  <2>6. ASSUME NEW p \in Storage PROVE p \in live <=> counts[p] > 0
    <3>1. CASE p = o
      <4>1. Bit(o, p) = 1
        BY <3>1 DEF Bit
      <4> QED
        BY <1>00, <2>2, <2>5, <3>1, <4>1
    <3>2. CASE p # o
      <4>1. Bit(o, p) = 0
        BY <3>2 DEF Bit
      <4> QED
        BY <1>00, <2>5, <4>1
    <3> QED
      BY <3>1, <3>2
  <2>7. ASSUME NEW p \in Storage PROVE Cardinality(PlacesOf(Var, var', p)) = counts[p] - Bit(var[x], p)
    <3>1. CountMoves(Var, var, var', x, p)
      BY <2>1, <2>3, VariableSet
    <3>2. Bit(var'[x], p) = Bit(o, p) /\ Bit(o, p) \in Int /\ Bit(var[x], p) \in Int
      BY <2>3 DEF Bit
    <3> QED
      BY <1>00, <2>5, <3>1, <3>2 DEF CountMoves, Holders
  <2> QED
    BY <2>1, <2>2, <2>4, <2>6, <2>7, DropCounts
<1>10. ASSUME Panic PROVE CountInv'
  BY <1>10, IdleCounts DEF Panic, strg
<1>11. ASSUME call.x \in Var, This \in Storage, NEW cells, NEW n, Change(This, cells, n) PROVE CountInv'
  <2>1. This \in live
    BY <1>11, HeldIsLive DEF This
  <2> QED
    BY <1>11, <2>1, ChangeCounts
<1>12. CASE PushBack
  <2>1. call.x \in Var
    BY <1>12, Performed, CallShape DEF PushBack
  <2> QED
    BY <1>11, <1>12, <2>1, PushEffect
<1>13. CASE AppendOther
  <2>1. call.x \in Var
    BY <1>13, Performed, CallShape DEF AppendOther
  <2> QED
    BY <1>11, <1>13, <2>1, AppendEffect
<1>14. CASE PopBack
  <2>1. call.x \in Var
    BY <1>14, Performed, CallShape DEF PopBack
  <2> QED
    BY <1>10, <1>11, <1>14, <2>1, PopEffect DEF DestroyFrom
<1>15. CASE ResizeShrink
  <2>1. call.x \in Var
    BY <1>15, Performed, CallShape DEF ResizeShrink
  <2> QED
    BY <1>11, <1>15, <2>1, ShrinkEffect DEF DestroyFrom
<1>16. CASE ResizeGrow
  <2>1. call.x \in Var
    BY <1>16, Performed, CallShape DEF ResizeGrow
  <2> QED
    BY <1>11, <1>16, <2>1, GrowEffect
<1>17. CASE Reserve
  <2>1. call.x \in Var
    BY <1>17, Performed, CallShape DEF Reserve
  <2> QED
    BY <1>11, <1>17, <2>1, ReserveEffect
<1>18. CASE Store
  <2>1. call.x \in Var
    BY <1>18, Performed, CallShape DEF Store
  <2> QED
    BY <1>10, <1>11, <1>18, <2>1, StoreEffect
<1> QED
  BY <1>1, <1>2, <1>3, <1>4, <1>5, <1>7, <1>8, <1>9, <1>12, <1>13, <1>14, <1>15, <1>16, <1>17,
     <1>18 DEF Next
-----------------------------------------------------------------------------
(* The cells up to n that hold element e. *)
InBlock(cells, n, e) == Cardinality(PlacesOf(1..n, cells, e))

LEMMA BlockFinite ==
  ASSUME NEW n \in Nat, NEW cells, NEW e
  PROVE  IsFiniteSet(PlacesOf(1..n, cells, e)) /\ InBlock(cells, n, e) \in Nat
<1>1. IsFiniteSet(1..n)
  BY FS_Interval
<1> QED
  BY <1>1, PlacesFinite DEF InBlock

LEMMA HandlesInBlock ==
  ASSUME NEW S, NEW cells \in Seq(S), NEW n \in Nat, n <= Len(cells), NEW e
  PROVE  Handles(cells, 1, n, e) = InBlock(cells, n, e)
<1>1. DOMAIN cells \intersect (1..n) = 1..n
  OBVIOUS
<1>2. {i \in DOMAIN cells \intersect (1..n) : cells[i] = e} = PlacesOf(1..n, cells, e)
  BY <1>1 DEF PlacesOf
<1> QED
  BY <1>2 DEF Handles, InBlock

LEMMA SameInBlock ==
  ASSUME NEW n, NEW a, NEW b, NEW e, \A i \in 1..n : a[i] = b[i]
  PROVE  InBlock(a, n, e) = InBlock(b, n, e)
<1>1. PlacesOf(1..n, a, e) = PlacesOf(1..n, b, e)
  BY DEF PlacesOf
<1> QED
  BY <1>1 DEF InBlock

(* The elements from m on are counted apart. *)
LEMMA BlockSplit ==
  ASSUME NEW S, NEW cells \in Seq(S), NEW n \in Nat, NEW m \in Nat, m <= n, n <= Len(cells), NEW e
  PROVE  InBlock(cells, n, e) = InBlock(cells, m, e) + Handles(cells, m + 1, n, e)
<1> DEFINE A == PlacesOf(1..m, cells, e)
           B == {i \in DOMAIN cells \intersect ((m + 1)..n) : cells[i] = e}
<1>1. PlacesOf(1..n, cells, e) = A \union B
  <2>1. DOMAIN cells = 1..Len(cells) /\ Len(cells) \in Nat
    OBVIOUS
  <2>2. \A i : i \in 1..n <=> i \in 1..m \/ i \in DOMAIN cells \intersect ((m + 1)..n)
    BY <2>1
  <2> QED
    BY <2>2 DEF PlacesOf
<1>2. A \intersect B = {}
  BY DEF PlacesOf
<1>3. IsFiniteSet(A)
  BY BlockFinite
<1>4. IsFiniteSet(B)
  <2>1. IsFiniteSet((m + 1)..n)
    BY FS_Interval
  <2>2. B \subseteq (m + 1)..n
    OBVIOUS
  <2> HIDE DEF B
  <2> QED
    BY <2>1, <2>2, FS_Subset
<1> HIDE DEF A, B
<1>5. Cardinality(A \union B) = Cardinality(A) + Cardinality(B)
  BY <1>2, <1>3, <1>4, CountDisjoint
<1> QED
  BY <1>1, <1>5 DEF InBlock, Handles, A, B

(* Elements that were copied behind others. *)
LEMMA HandlesShifted ==
  ASSUME NEW S, NEW cells \in Seq(S), NEW n \in Nat, NEW m \in Nat, n + m <= Len(cells), NEW b, NEW e,
         \A j \in 1..m : cells[n + j] = b[j]
  PROVE  Handles(cells, n + 1, n + m, e) = InBlock(b, m, e)
<1> DEFINE A == PlacesOf(1..m, b, e)
           B == {i \in DOMAIN cells \intersect ((n + 1)..(n + m)) : cells[i] = e}
           f == [j \in A |-> n + j]
<1>1. IsFiniteSet(A)
  BY BlockFinite
<1>2. \A j \in A : j \in 1..m /\ b[j] = e /\ f[j] = n + j
  BY DEF PlacesOf
<1>3. DOMAIN cells = 1..Len(cells) /\ Len(cells) \in Nat
  OBVIOUS
<1>4. f \in [A -> B]
  <2>1. \A j \in A : n + j \in DOMAIN cells \intersect ((n + 1)..(n + m)) /\ cells[n + j] = e
    BY <1>2, <1>3
  <2> QED
    BY <2>1
<1>5. ASSUME NEW i \in B PROVE \E j \in A : f[j] = i
  <2>1. i \in (n + 1)..(n + m) /\ cells[i] = e
    OBVIOUS
  <2>2. i - n \in 1..m /\ n + (i - n) = i
    BY <2>1
  <2>3. b[i - n] = e
    BY <2>1, <2>2
  <2>4. i - n \in A
    BY <2>2, <2>3 DEF PlacesOf
  <2> QED
    BY <1>2, <2>2, <2>4
<1>6. \A j, k \in A : f[j] = f[k] => j = k
  BY <1>2
<1> HIDE DEF A, B, f
<1>7. Cardinality(B) = Cardinality(A)
  BY <1>1, <1>4, <1>5, <1>6, CountImage
<1> QED
  BY <1>7 DEF A, B, InBlock, Handles

(* What append does to the counts. *)
LEMMA BlockJoin ==
  ASSUME NEW S, NEW cells \in Seq(S), NEW n \in Nat, NEW m \in Nat, n + m <= Len(cells),
         NEW a, NEW b, NEW e,
         \A i \in 1..n : cells[i] = a[i], \A j \in 1..m : cells[n + j] = b[j]
  PROVE  InBlock(cells, n + m, e) = InBlock(a, n, e) + InBlock(b, m, e)
<1>1. n <= n + m /\ n + m \in Nat
  OBVIOUS
<1>2. InBlock(cells, n + m, e) = InBlock(cells, n, e) + Handles(cells, n + 1, n + m, e)
  BY <1>1, BlockSplit
<1>3. Handles(cells, n + 1, n + m, e) = InBlock(b, m, e)
  BY HandlesShifted
<1>4. InBlock(cells, n, e) = InBlock(a, n, e)
  BY SameInBlock
<1> QED
  BY <1>2, <1>3, <1>4

LEMMA OneHandle ==
  ASSUME NEW S, NEW cells \in Seq(S), NEW k \in 1..Len(cells), NEW e
  PROVE  Handles(cells, k, k, e) = Bit(cells[k], e)
<1> DEFINE B == {i \in DOMAIN cells \intersect (k..k) : cells[i] = e}
<1>1. DOMAIN cells \intersect (k..k) = {k}
  OBVIOUS
<1>2. B = IF cells[k] = e THEN {k} ELSE {}
  BY <1>1
<1>3. Cardinality({k}) = 1 /\ Cardinality({}) = 0
  BY FS_Singleton, FS_EmptySet
<1> HIDE DEF B
<1>4. Cardinality(B) = Bit(cells[k], e)
  BY <1>2, <1>3 DEF Bit
<1> QED
  BY <1>4 DEF B, Handles
-----------------------------------------------------------------------------
(* The cells of the storages lv, of lengths ln, that hold element e. *)
CellsWith(lv, ln, dt, e) ==
  {p \in lv \X (1..MaxLen) : p[2] <= ln[p[1]] /\ dt[p[1]][p[2]] = e}

(* Those of one storage. *)
InStorage(lv, ln, dt, o, e) == IF o \in lv THEN InBlock(dt[o], ln[o], e) ELSE 0

(* When only storage o changes, the handles change as those of o do. *)
CellsMove(lv, ln, dt, lv2, ln2, dt2, o, e) ==
  Cardinality(CellsWith(lv2, ln2, dt2, e))
    = Cardinality(CellsWith(lv, ln, dt, e))
      - InStorage(lv, ln, dt, o, e) + InStorage(lv2, ln2, dt2, o, e)

LEMMA CellsFinite ==
  ASSUME NEW lv \in SUBSET Storage, NEW ln, NEW dt, NEW e
  PROVE  IsFiniteSet(CellsWith(lv, ln, dt, e)) /\ Cardinality(CellsWith(lv, ln, dt, e)) \in Nat
<1>1. IsFiniteSet(lv)
  BY ArrayAssumption, FS_Subset
<1>2. MaxLen \in Int /\ 1 \in Int
  BY ArrayAssumption
<1>3. IsFiniteSet(1..MaxLen)
  BY <1>2, FS_Interval
<1>4. IsFiniteSet(lv \X (1..MaxLen))
  BY <1>1, <1>3, FS_Product
<1>5. CellsWith(lv, ln, dt, e) \subseteq lv \X (1..MaxLen)
  BY DEF CellsWith
<1>6. IsFiniteSet(CellsWith(lv, ln, dt, e))
  BY <1>4, <1>5, FS_Subset
<1> QED
  BY <1>6, FS_CardinalityType

(* The handles of storage o and the others. *)
Elsewhere(lv, ln, dt, o, e) == {p \in CellsWith(lv, ln, dt, e) : p[1] # o}

LEMMA CellsSplit ==
  ASSUME NEW lv \in SUBSET Storage, NEW ln, NEW dt, NEW o \in Storage, NEW e,
         o \in lv => ln[o] \in 0..MaxLen
  PROVE  /\ Cardinality(CellsWith(lv, ln, dt, e))
              = Cardinality(Elsewhere(lv, ln, dt, o, e)) + InStorage(lv, ln, dt, o, e)
         /\ Cardinality(Elsewhere(lv, ln, dt, o, e)) \in Nat
         /\ InStorage(lv, ln, dt, o, e) \in Nat
<1> DEFINE C == CellsWith(lv, ln, dt, e)
           A == Elsewhere(lv, ln, dt, o, e)
           B == {p \in C : p[1] = o}
<1>1. C = A \union B /\ A \intersect B = {}
  BY DEF Elsewhere
<1>2. IsFiniteSet(A) /\ IsFiniteSet(B)
  <2>1. IsFiniteSet(C)
    BY CellsFinite
  <2>2. A \subseteq C /\ B \subseteq C
    BY DEF Elsewhere
  <2> HIDE DEF A, B, C
  <2> QED
    BY <2>1, <2>2, FS_Subset
<1>3. Cardinality(B) = InStorage(lv, ln, dt, o, e) /\ InStorage(lv, ln, dt, o, e) \in Nat
  <2>1. CASE o \notin lv
    <3>1. B = {}
      BY <2>1 DEF CellsWith
    <3> QED
      BY <2>1, <3>1, FS_EmptySet DEF InStorage
  <2>2. CASE o \in lv
    <3> DEFINE D == PlacesOf(1..ln[o], dt[o], e)
               f == [i \in D |-> <<o, i>>]
    <3>1. ln[o] \in Nat /\ ln[o] <= MaxLen /\ MaxLen \in Nat
      BY <2>2, ArrayAssumption
    <3>2. \A i : i \in D <=> i \in 1..ln[o] /\ dt[o][i] = e
      BY DEF PlacesOf
    <3>3. \A i \in D : <<o, i>> \in B
      BY <2>2, <3>1, <3>2 DEF CellsWith
    <3>4. f \in [D -> B]
      BY <3>3
    <3>5. ASSUME NEW p \in B PROVE \E i \in D : f[i] = p
      <4>1. p \in lv \X (1..MaxLen) /\ p[1] = o /\ p[2] <= ln[o] /\ dt[o][p[2]] = e
        BY DEF CellsWith
      <4>2. p[2] \in 1..MaxLen /\ p = <<o, p[2]>>
        BY <4>1
      <4>3. p[2] \in D
        BY <3>1, <3>2, <4>1, <4>2
      <4> QED
        BY <4>2, <4>3
    <3>6. \A i, j \in D : f[i] = f[j] => i = j
      OBVIOUS
    <3>7. IsFiniteSet(D) /\ InBlock(dt[o], ln[o], e) \in Nat
      BY <3>1, BlockFinite
    <3> HIDE DEF D, f, B
    <3>8. Cardinality(B) = Cardinality(D)
      BY <3>4, <3>5, <3>6, <3>7, CountImage
    <3> QED
      BY <2>2, <3>7, <3>8 DEF D, InStorage, InBlock
  <2> QED
    BY <2>1, <2>2
<1> HIDE DEF A, B, C
<1>4. Cardinality(A \union B) = Cardinality(A) + Cardinality(B) /\ Cardinality(A) \in Nat
  BY <1>1, <1>2, CountDisjoint
<1> QED
  BY <1>1, <1>3, <1>4 DEF A, C

LEMMA CellsChange ==
  ASSUME NEW lv \in SUBSET Storage, NEW ln, NEW dt, NEW lv2 \in SUBSET Storage, NEW ln2, NEW dt2,
         NEW o \in Storage, NEW e,
         o \in lv => ln[o] \in 0..MaxLen, o \in lv2 => ln2[o] \in 0..MaxLen,
         \A p \in Storage \ {o} : (p \in lv <=> p \in lv2) /\ ln[p] = ln2[p] /\ dt[p] = dt2[p]
  PROVE  CellsMove(lv, ln, dt, lv2, ln2, dt2, o, e)
<1>1. Elsewhere(lv, ln, dt, o, e) = Elsewhere(lv2, ln2, dt2, o, e)
  <2>1. ASSUME NEW p
        PROVE  p \in Elsewhere(lv, ln, dt, o, e) <=> p \in Elsewhere(lv2, ln2, dt2, o, e)
    <3>1. p \in Elsewhere(lv, ln, dt, o, e) <=>
            p \in lv \X (1..MaxLen) /\ p[2] <= ln[p[1]] /\ dt[p[1]][p[2]] = e /\ p[1] # o
      BY DEF Elsewhere, CellsWith
    <3>2. p \in Elsewhere(lv2, ln2, dt2, o, e) <=>
            p \in lv2 \X (1..MaxLen) /\ p[2] <= ln2[p[1]] /\ dt2[p[1]][p[2]] = e /\ p[1] # o
      BY DEF Elsewhere, CellsWith
    <3>3. CASE p \in Storage \X (1..MaxLen) /\ p[1] # o
      <4>1. p[1] \in Storage \ {o}
        BY <3>3
      <4>2. ln[p[1]] = ln2[p[1]] /\ dt[p[1]] = dt2[p[1]] /\ (p[1] \in lv <=> p[1] \in lv2)
        BY <4>1
      <4>3. p \in lv \X (1..MaxLen) <=> p \in lv2 \X (1..MaxLen)
        BY <3>3, <4>2
      <4> QED
        BY <3>1, <3>2, <4>2, <4>3
    <3>4. CASE ~ (p \in Storage \X (1..MaxLen) /\ p[1] # o)
      <4>1. p[1] # o => p \notin lv \X (1..MaxLen) /\ p \notin lv2 \X (1..MaxLen)
        BY <3>4
      <4> QED
        BY <3>1, <3>2, <4>1
    <3> QED
      BY <3>3, <3>4
  <2> QED
    BY <2>1 DEF Elsewhere
<1> DEFINE n == InStorage(lv, ln, dt, o, e)
           n2 == InStorage(lv2, ln2, dt2, o, e)
           c == Cardinality(CellsWith(lv, ln, dt, e))
           c2 == Cardinality(CellsWith(lv2, ln2, dt2, e))
           r == Cardinality(Elsewhere(lv, ln, dt, o, e))
           r2 == Cardinality(Elsewhere(lv2, ln2, dt2, o, e))
<1>2. c = r + n /\ r \in Nat /\ n \in Nat
  BY CellsSplit
<1>3. c2 = r2 + n2 /\ n2 \in Nat
  BY CellsSplit
<1>4. r = r2
  BY <1>1
<1> HIDE DEF n, n2, c, c2, r, r2
<1>5. c2 = c - n + n2
  BY <1>2, <1>3, <1>4
<1> QED
  BY <1>5 DEF CellsMove, n, n2, c, c2
-----------------------------------------------------------------------------
(* Cells of allocated storages that hold element e. *)
Copies(e) == Cardinality(CellsWith(live, len, dat, e))

LEMMA ElementsAre == ElementsCounted <=> \A e \in Elem : eref[e] = 1 + Copies(e)
  BY DEF ElementsCounted, Copies, CellsWith

(* The counts follow when they change as the cells of storage o do. *)
LEMMA CountsFollow ==
  ASSUME BlockInv, BlockInv', ElementsCounted, NEW o \in Storage,
         \A p \in Storage \ {o} : (p \in live <=> p \in live') /\ len[p] = len'[p] /\ dat[p] = dat'[p],
         \A e \in Elem :
           eref'[e] = eref[e] - InStorage(live, len, dat, o, e) + InStorage(live', len', dat', o, e)
  PROVE  ElementsCounted'
<1>1. /\ live \in SUBSET Storage /\ live' \in SUBSET Storage
      /\ len[o] \in 0..MaxLen /\ len'[o] \in 0..MaxLen
  BY DEF BlockInv, StateTyped
<1>2. ASSUME NEW e \in Elem PROVE eref'[e] = 1 + Copies(e)'
  <2> DEFINE n == InStorage(live, len, dat, o, e)
             n2 == InStorage(live', len', dat', o, e)
             c == Cardinality(CellsWith(live, len, dat, e))
             c2 == Cardinality(CellsWith(live', len', dat', e))
  <2>1. CellsMove(live, len, dat, live', len', dat', o, e)
    BY <1>1, CellsChange
  <2>2. c2 = c - n + n2
    BY <2>1 DEF CellsMove
  <2>3. n \in Nat /\ n2 \in Nat
    BY <1>1, CellsSplit
  <2>4. c \in Nat
    BY <1>1, CellsFinite
  <2>5. eref[e] = 1 + c
    BY ElementsAre DEF Copies
  <2>6. eref'[e] = eref[e] - n + n2
    OBVIOUS
  <2>7. Copies(e)' = c2
    BY DEF Copies
  <2> HIDE DEF n, n2, c, c2
  <2> QED
    BY <2>2, <2>3, <2>4, <2>5, <2>6, <2>7
<1>3. \A e \in Elem : eref'[e] = 1 + Cardinality(CellsWith(live', len', dat', e))
  BY <1>2 DEF Copies
<1> QED
  BY <1>3 DEF ElementsCounted, CellsWith

LEMMA ChangeFollows ==
  ASSUME BlockInv, BlockInv', ElementsCounted, NEW o \in Storage, o \in live, NEW cells, NEW n,
         Change(o, cells, n),
         \A e \in Elem : eref'[e] = eref[e] - InBlock(dat[o], len[o], e) + InBlock(cells, n, e)
  PROVE  ElementsCounted'
<1>1. /\ live' = live /\ dat'[o] = cells /\ len'[o] = n
      /\ \A p \in Storage \ {o} : len[p] = len'[p] /\ dat[p] = dat'[p]
  BY DEF Change, BlockInv, StateTyped
<1>2. \A e \in Elem : /\ InStorage(live, len, dat, o, e) = InBlock(dat[o], len[o], e)
                      /\ InStorage(live', len', dat', o, e) = InBlock(cells, n, e)
  BY <1>1 DEF InStorage
<1>3. \A e \in Elem :
        eref'[e] = eref[e] - InStorage(live, len, dat, o, e) + InStorage(live', len', dat', o, e)
  BY <1>2
<1>4. \A p \in Storage \ {o} : (p \in live <=> p \in live') /\ len[p] = len'[p] /\ dat[p] = dat'[p]
  BY <1>1
<1> QED
  BY <1>3, <1>4, CountsFollow

LEMMA NewFollows ==
  ASSUME BlockInv, BlockInv', ElementsCounted, NEW x, NEW s \in Seq(Object), NewStorage(x, s)
  PROVE  ElementsCounted'
<1>1. PICK o \in Storage \ live :
        /\ live' = live \union {o}
        /\ len' = [len EXCEPT ![o] = Len(s)]
        /\ dat' = [dat EXCEPT ![o] = s]
        /\ eref' = [e \in Elem |-> eref[e] + Handles(s, 1, Len(s), e)]
  BY DEF NewStorage
<1>2. /\ dat'[o] = s /\ len'[o] = Len(s) /\ o \in live' /\ o \notin live
      /\ \A p \in Storage \ {o} : (p \in live <=> p \in live') /\ len[p] = len'[p] /\ dat[p] = dat'[p]
  BY <1>1 DEF BlockInv, StateTyped
<1>3. ASSUME NEW e \in Elem
      PROVE  eref'[e] = eref[e] - InStorage(live, len, dat, o, e) + InStorage(live', len', dat', o, e)
  <2>1. InStorage(live, len, dat, o, e) = 0 /\ InStorage(live', len', dat', o, e) = InBlock(s, Len(s), e)
    BY <1>2 DEF InStorage
  <2>2. Len(s) \in Nat /\ Len(s) <= Len(s)
    OBVIOUS
  <2>3. Handles(s, 1, Len(s), e) = InBlock(s, Len(s), e) /\ InBlock(s, Len(s), e) \in Nat
    BY <2>2, HandlesInBlock, BlockFinite
  <2>4. eref[e] \in Int /\ eref'[e] = eref[e] + Handles(s, 1, Len(s), e)
    BY <1>1 DEF BlockInv, StateTyped
  <2> QED
    BY <2>1, <2>3, <2>4
<1> QED
  BY <1>1, <1>2, <1>3, CountsFollow

LEMMA DropFollows ==
  ASSUME BlockInv, BlockInv', ElementsCounted, NEW o \in Storage, o \in live, NEW counts, DropStorage(o, counts)
  PROVE  ElementsCounted'
<1>1. CASE counts[o] = 1
  <2>1. /\ o \notin live'
        /\ \A p \in Storage \ {o} : (p \in live <=> p \in live') /\ len[p] = len'[p] /\ dat[p] = dat'[p]
    BY <1>1 DEF DropStorage, BlockInv, StateTyped
  <2>2. ASSUME NEW e \in Elem
        PROVE  eref'[e] = eref[e] - InStorage(live, len, dat, o, e) + InStorage(live', len', dat', o, e)
    <3>1. InStorage(live', len', dat', o, e) = 0 /\ InStorage(live, len, dat, o, e) = InBlock(dat[o], len[o], e)
      BY <2>1 DEF InStorage
    <3>2. dat[o] \in Seq(Cell) /\ len[o] \in Nat /\ len[o] <= Len(dat[o])
      BY ThisBuilt
    <3>3. Handles(dat[o], 1, len[o], e) = InBlock(dat[o], len[o], e) /\ InBlock(dat[o], len[o], e) \in Nat
      BY <3>2, HandlesInBlock, BlockFinite
    <3>4. eref[e] \in Int /\ eref'[e] = eref[e] - Handles(dat[o], 1, len[o], e)
      BY <1>1 DEF DropStorage, BlockInv, StateTyped
    <3> QED
      BY <3>1, <3>3, <3>4
  <2> QED
    BY <2>1, <2>2, CountsFollow
<1>2. CASE counts[o] # 1
  <2>1. UNCHANGED <<live, eref, len, dat>>
    BY <1>2 DEF DropStorage
  <2> QED
    BY <2>1 DEF ElementsCounted
<1> QED
  BY <1>1, <1>2

LEMMA DestroyFollows ==
  ASSUME BlockInv, BlockInv', ElementsCounted, NEW o \in Storage, o \in live,
         NEW first \in 1..(len[o] + 1), DestroyFrom(o, first)
  PROVE  ElementsCounted'
<1>1. PICK cells : /\ Change(o, cells, first - 1) /\ Built(cells, first - 1)
                   /\ \A i \in 1..(first - 1) : cells[i] = dat[o][i]
  BY DestroyEffect
<1>2. dat[o] \in Seq(Cell) /\ len[o] \in Nat /\ len[o] <= Len(dat[o])
  BY ThisBuilt
<1> DEFINE m == first - 1
<1>3. m \in Nat /\ m <= len[o] /\ m + 1 = first
  BY <1>2
<1>4. ASSUME NEW e \in Elem
      PROVE  eref'[e] = eref[e] - InBlock(dat[o], len[o], e) + InBlock(cells, m, e)
  <2>1. eref[e] \in Int /\ eref'[e] = eref[e] - Handles(dat[o], first, len[o], e)
    BY DEF DestroyFrom, BlockInv, StateTyped
  <2> HIDE DEF m
  <2>2. InBlock(dat[o], len[o], e) = InBlock(dat[o], m, e) + Handles(dat[o], m + 1, len[o], e)
    BY <1>2, <1>3, BlockSplit
  <2>3. InBlock(cells, m, e) = InBlock(dat[o], m, e)
    BY <1>1, SameInBlock DEF m
  <2>4. InBlock(dat[o], m, e) \in Nat
    BY <1>3, BlockFinite
  <2>5. Handles(dat[o], first, len[o], e) \in Nat
    <3>1. first \in Int /\ len[o] \in Int
      BY <1>2
    <3> QED
      BY <3>1, HandlesCounted
  <2> QED
    BY <1>3, <2>1, <2>2, <2>3, <2>4, <2>5
<1> QED
  BY <1>1, <1>4, ChangeFollows
LEMMA PushFollows ==
  ASSUME BlockInv, BlockInv', CountInv, ElementsCounted, PushBack
  PROVE  ElementsCounted'
<1> DEFINE o == This
           n == len[o]
<1>1. o \in Storage /\ call.e \in Elem /\ eref' = [eref EXCEPT ![call.e] = @ + 1]
  BY PushEffect
<1>2. PICK cells : /\ Change(o, cells, n + 1) /\ Built(cells, n + 1)
                   /\ \A i \in 1..n : cells[i] = dat[o][i]
                   /\ cells[n + 1] = call.e
  BY PushEffect
<1>3. call.x \in Var
  BY Performed, CallShape DEF PushBack
<1>4. o \in live
  BY <1>1, <1>3, HeldIsLive DEF This
<1>5. n \in Nat /\ eref \in [Elem -> Int]
  BY <1>1, ThisBuilt DEF BlockInv, StateTyped
<1> HIDE DEF o
<1>6. cells \in Seq(Cell) /\ n + 1 <= Len(cells) /\ Len(cells) \in Nat
  BY <1>2, <1>5 DEF Built
<1>7. ASSUME NEW e \in Elem
      PROVE  eref'[e] = eref[e] - InBlock(dat[o], n, e) + InBlock(cells, n + 1, e)
  <2> DEFINE k == n + 1
  <2>1. k \in Nat /\ n <= k /\ k <= Len(cells) /\ k \in 1..Len(cells)
    BY <1>5, <1>6
  <2>2. InBlock(cells, k, e) = InBlock(cells, n, e) + Handles(cells, n + 1, k, e)
    <3> HIDE DEF n, k
    <3> QED
      BY <1>5, <1>6, <2>1, BlockSplit
  <2>3. Handles(cells, k, k, e) = Bit(call.e, e)
    <3>1. cells[k] = call.e
      BY <1>2
    <3> HIDE DEF k
    <3>2. Handles(cells, k, k, e) = Bit(cells[k], e)
      BY <1>6, <2>1, OneHandle
    <3> QED
      BY <3>1, <3>2
  <2>4. InBlock(cells, n, e) = InBlock(dat[o], n, e)
    BY <1>2, SameInBlock
  <2>5. InBlock(dat[o], n, e) \in Nat
    BY <1>5, BlockFinite
  <2>6. eref'[e] = eref[e] + Bit(call.e, e) /\ eref[e] \in Int
    BY <1>1, <1>5 DEF Bit
  <2>7. Bit(call.e, e) \in Int
    BY DEF Bit
  <2> QED
    BY <2>2, <2>3, <2>4, <2>5, <2>6, <2>7
<1> QED
  BY <1>1, <1>2, <1>4, <1>7, ChangeFollows

LEMMA AppendFollows ==
  ASSUME BlockInv, BlockInv', CountInv, ElementsCounted, AppendOther
  PROVE  ElementsCounted'
<1> DEFINE o == This
           p == var[call.y]
           n == len[o]
           m == len[p]
<1>1. o \in Storage /\ p \in Storage /\ eref' = [e \in Elem |-> eref[e] + Handles(dat[p], 1, m, e)]
  BY AppendEffect
<1>2. PICK cells : /\ Change(o, cells, n + m) /\ Built(cells, n + m)
                   /\ \A i \in 1..n : cells[i] = dat[o][i]
                   /\ \A j \in 1..m : cells[n + j] = dat[p][j]
  BY AppendEffect
<1>3. call.x \in Var
  BY Performed, CallShape DEF AppendOther
<1>4. o \in live
  BY <1>1, <1>3, HeldIsLive DEF This
<1> HIDE DEF o, p
<1>5. n \in Nat /\ m \in Nat /\ m <= Len(dat[p]) /\ dat[p] \in Seq(Cell)
  BY <1>1, ThisBuilt
<1>6. cells \in Seq(Cell) /\ n + m <= Len(cells)
  BY <1>2 DEF Built
<1>7. ASSUME NEW e \in Elem
      PROVE  eref'[e] = eref[e] - InBlock(dat[o], n, e) + InBlock(cells, n + m, e)
  <2>1. eref[e] \in Int /\ eref'[e] = eref[e] + Handles(dat[p], 1, m, e)
    BY <1>1 DEF BlockInv, StateTyped
  <2> HIDE DEF n, m
  <2>2. InBlock(cells, n + m, e) = InBlock(dat[o], n, e) + InBlock(dat[p], m, e)
    BY <1>2, <1>5, <1>6, BlockJoin
  <2>3. Handles(dat[p], 1, m, e) = InBlock(dat[p], m, e)
    BY <1>5, HandlesInBlock
  <2>4. InBlock(dat[p], m, e) \in Nat /\ InBlock(dat[o], n, e) \in Nat
    BY <1>5, BlockFinite
  <2> QED
    BY <2>1, <2>2, <2>3, <2>4
<1> QED
  BY <1>1, <1>2, <1>4, <1>7, ChangeFollows

LEMMA GrowFollows ==
  ASSUME BlockInv, BlockInv', CountInv, ElementsCounted, ResizeGrow
  PROVE  ElementsCounted'
<1> DEFINE o == This
           n == len[o]
           m == call.n
<1>1. o \in Storage /\ m \in 0..MaxLen /\ n < m /\ eref' = eref
  BY GrowEffect
<1>2. PICK cells : /\ Change(o, cells, m) /\ Built(cells, m)
                   /\ \A i \in 1..n : cells[i] = dat[o][i]
                   /\ \A i \in (n + 1)..m : cells[i] = Default
  BY GrowEffect
<1>3. call.x \in Var
  BY Performed, CallShape DEF ResizeGrow
<1>4. o \in live
  BY <1>1, <1>3, HeldIsLive DEF This
<1> HIDE DEF o, m
<1>5. n \in Nat /\ m \in Nat /\ n <= m
  BY <1>1, ThisBuilt
<1>6. cells \in Seq(Cell) /\ m <= Len(cells)
  BY <1>2 DEF Built
<1>7. ASSUME NEW e \in Elem
      PROVE  eref'[e] = eref[e] - InBlock(dat[o], n, e) + InBlock(cells, m, e)
  <2>1. eref[e] \in Int /\ eref'[e] = eref[e]
    BY <1>1 DEF BlockInv, StateTyped
  <2>2. {i \in DOMAIN cells \intersect ((n + 1)..m) : cells[i] = e} = {}
    BY <1>2, ArrayAssumption
  <2>3. Handles(cells, n + 1, m, e) = 0
    BY <2>2, FS_EmptySet DEF Handles
  <2>4. InBlock(cells, n, e) = InBlock(dat[o], n, e)
    BY <1>2, SameInBlock
  <2> HIDE DEF n
  <2>5. InBlock(cells, m, e) = InBlock(cells, n, e) + Handles(cells, n + 1, m, e)
    BY <1>5, <1>6, BlockSplit
  <2>6. InBlock(dat[o], n, e) \in Nat
    BY <1>5, BlockFinite
  <2> QED
    BY <2>1, <2>3, <2>4, <2>5, <2>6
<1> QED
  BY <1>1, <1>2, <1>4, <1>7, ChangeFollows

LEMMA ReserveFollows ==
  ASSUME BlockInv, BlockInv', CountInv, ElementsCounted, Reserve
  PROVE  ElementsCounted'
<1> DEFINE o == This
           n == len[o]
<1>1. o \in Storage /\ eref' = eref
  BY ReserveEffect
<1>2. PICK cells : Change(o, cells, n) /\ \A i \in 1..n : cells[i] = dat[o][i]
  BY ReserveEffect
<1>3. call.x \in Var
  BY Performed, CallShape DEF Reserve
<1>4. o \in live
  BY <1>1, <1>3, HeldIsLive DEF This
<1> HIDE DEF o
<1>5. ASSUME NEW e \in Elem
      PROVE  eref'[e] = eref[e] - InBlock(dat[o], n, e) + InBlock(cells, n, e)
  <2>1. eref[e] \in Int /\ eref'[e] = eref[e] /\ n \in Nat
    BY <1>1, ThisBuilt DEF BlockInv, StateTyped
  <2>2. InBlock(cells, n, e) = InBlock(dat[o], n, e)
    BY <1>2, SameInBlock
  <2>3. InBlock(dat[o], n, e) \in Nat
    BY <2>1, BlockFinite
  <2> QED
    BY <2>1, <2>2, <2>3
<1> QED
  BY <1>1, <1>2, <1>4, <1>5, ChangeFollows

LEMMA StoreFollows ==
  ASSUME BlockInv, BlockInv', CountInv, ElementsCounted, Store, ~ Panic
  PROVE  ElementsCounted'
<1> DEFINE o == This
           n == len[o]
           k == call.i + 1
           one == <<call.e>>
<1>1. /\ o \in Storage /\ k \in 1..n /\ call.e \in Elem
      /\ eref' = [e \in Elem |-> eref[e] + Handles(one, 1, 1, e) - Handles(dat[o], k, k, e)]
  BY StoreEffect
<1>2. PICK cells : /\ Change(o, cells, n) /\ Built(cells, n)
                   /\ \A j \in 1..n : cells[j] = IF j = k THEN call.e ELSE dat[o][j]
  BY StoreEffect
<1>3. call.x \in Var
  BY Performed, CallShape DEF Store
<1>4. o \in live
  BY <1>1, <1>3, HeldIsLive DEF This
<1>5. one \in Seq(Elem) /\ one[1] = call.e /\ 1 \in 1..Len(one)
  BY <1>1
<1> HIDE DEF o, k, one
<1>6. dat[o] \in Seq(Cell) /\ n \in Nat /\ k \in 1..Len(dat[o])
  BY <1>1, ThisBuilt
<1>7. ASSUME NEW e \in Elem
      PROVE  eref'[e] = eref[e] - InBlock(dat[o], n, e) + InBlock(cells, n, e)
  <2>1. eref[e] \in Int /\ eref'[e] = eref[e] + Handles(one, 1, 1, e) - Handles(dat[o], k, k, e)
    BY <1>1 DEF BlockInv, StateTyped
  <2>2. Handles(one, 1, 1, e) = Bit(call.e, e)
    <3>1. Handles(one, 1, 1, e) = Bit(one[1], e)
      BY <1>5, OneHandle
    <3> QED
      BY <1>5, <3>1
  <2>3. Handles(dat[o], k, k, e) = Bit(dat[o][k], e)
    BY <1>6, OneHandle
  <2> HIDE DEF n
  <2>4. CountMoves(1..n, dat[o], cells, k, e)
    <3>1. IsFiniteSet(1..n)
      BY <1>6, FS_Interval
    <3>2. \A j \in 1..n : j # k => cells[j] = dat[o][j]
      BY <1>2
    <3> QED
      BY <1>1, <3>1, <3>2, PlacesChange
  <2>5. cells[k] = call.e
    BY <1>1, <1>2
  <2>6. InBlock(cells, n, e) = InBlock(dat[o], n, e) - Bit(dat[o][k], e) + Bit(call.e, e)
    BY <2>4, <2>5 DEF CountMoves, InBlock
  <2>7. InBlock(dat[o], n, e) \in Nat
    BY <1>6, BlockFinite
  <2>8. Bit(call.e, e) \in Int /\ Bit(dat[o][k], e) \in Int
    BY DEF Bit
  <2> QED
    BY <2>1, <2>2, <2>3, <2>6, <2>7, <2>8
<1> QED
  BY <1>1, <1>2, <1>4, <1>7, ChangeFollows
-----------------------------------------------------------------------------
ArrayInv == BlockInv /\ CountInv /\ ElementsCounted

LEMMA ArrayInit == Init => ArrayInv
<1> SUFFICES ASSUME Init PROVE ArrayInv
  OBVIOUS
<1>1. ASSUME NEW o \in Storage
      PROVE  ref[o] = Holders(o) /\ (o \in live <=> ref[o] > 0) /\ (o \notin live => len[o] = 0)
  <2>1. \A x \in Var : var[x] # o
    BY NoArray DEF Init
  <2>2. Cardinality(PlacesOf(Var, var, o)) = 0
    BY <2>1, NoArray, NoPlaces
  <2> QED
    BY <2>2 DEF Init, Holders
<1>2. ASSUME NEW e \in Elem PROVE eref[e] = 1 + Copies(e)
  <2>1. CellsWith(live, len, dat, e) = {}
    BY DEF Init, CellsWith
  <2>2. Copies(e) = 0
    BY <2>1, FS_EmptySet DEF Copies
  <2> QED
    BY <2>2 DEF Init
<1> QED
  BY <1>1, <1>2, BlockInit, ElementsAre DEF ArrayInv, CountInv

LEMMA ElementsNext ==
  ASSUME BlockInv, BlockInv', CountInv, ElementsCounted, Next
  PROVE  ElementsCounted'
<1>1. ASSUME UNCHANGED <<len, dat, live, eref>> PROVE ElementsCounted'
  BY <1>1 DEF ElementsCounted
<1>2. CASE MakeCall \/ ArrCopCtor \/ ArrMovCtor
  BY <1>1, <1>2 DEF MakeCall, ArrCopCtor, ArrMovCtor, strg
<1>3. CASE ArrDefCtor
  <2> DEFINE empty == <<>>
  <2>1. empty \in Seq(Object) /\ NewStorage(call.x, empty)
    BY <1>3 DEF ArrDefCtor
  <2> HIDE DEF empty
  <2> QED
    BY <2>1, NewFollows
<1>4. CASE ArrLenCtor
  <2>1. call.s \in Literals
    BY <1>4, Performed, CallShape DEF ArrLenCtor
  <2>2. call.s \in Seq(Elem)
    BY <2>1, ArrayAssumption
  <2>3. call.s \in Seq(Object)
    BY <2>2, Objects
  <2> QED
    BY <1>4, <2>3, NewFollows DEF ArrLenCtor
<1>5. ASSUME NEW counts, call.x \in Var, var[call.x] \in Storage, DropStorage(var[call.x], counts)
      PROVE  ElementsCounted'
  BY <1>5, HeldIsLive, DropFollows
<1>6. CASE ArrDtor
  <2>1. call.x \in Var
    BY <1>6, Performed, CallShape DEF ArrDtor
  <2>2. CASE var[call.x] \in Storage
    BY <1>5, <1>6, <2>1, <2>2 DEF ArrDtor, HoldsArray
  <2>3. CASE var[call.x] \notin Storage
    BY <1>1, <1>6, <2>3 DEF ArrDtor, HoldsArray, strg
  <2> QED
    BY <2>2, <2>3
<1>7. CASE ArrCopAsgn
  <2>1. call.x \in Var /\ var[call.x] \in Storage
    BY <1>7, Performed, CallShape DEF ArrCopAsgn
  <2> QED
    BY <1>5, <1>7, <2>1 DEF ArrCopAsgn
<1>8. CASE ArrMovAsgn
  <2>1. call.x \in Var /\ var[call.x] \in Storage
    BY <1>8, Performed, CallShape DEF ArrMovAsgn
  <2> QED
    BY <1>5, <1>8, <2>1 DEF ArrMovAsgn
<1>9. ASSUME Panic PROVE ElementsCounted'
  BY <1>1, <1>9 DEF Panic, strg
<1>10. CASE PopBack
  <2>1. call.x \in Var
    BY <1>10, Performed, CallShape DEF PopBack
  <2>2. This \in Storage
    BY <1>10, PopEffect
  <2>3. This \in live
    BY <2>1, <2>2, HeldIsLive DEF This
  <2> QED
    BY <1>9, <1>10, <2>2, <2>3, PopEffect, DestroyFollows
<1>11. CASE ResizeShrink
  <2>1. call.x \in Var
    BY <1>11, Performed, CallShape DEF ResizeShrink
  <2>2. This \in Storage
    BY <1>11, ShrinkEffect
  <2>3. This \in live
    BY <2>1, <2>2, HeldIsLive DEF This
  <2> QED
    BY <1>11, <2>2, <2>3, ShrinkEffect, DestroyFollows
<1>12. CASE Store
  BY <1>9, <1>12, StoreFollows
<1> QED
  BY <1>2, <1>3, <1>4, <1>6, <1>7, <1>8, <1>10, <1>11, <1>12, PushFollows, AppendFollows, GrowFollows,
     ReserveFollows DEF Next

LEMMA ArrayStep == ArrayInv /\ [Next]_vars => ArrayInv'
<1> SUFFICES ASSUME ArrayInv, [Next]_vars PROVE ArrayInv'
  OBVIOUS
<1>1. BlockInv'
  BY BlockStep DEF ArrayInv
<1>2. CASE Next
  BY <1>1, <1>2, CountNext, ElementsNext DEF ArrayInv
<1>3. CASE UNCHANGED vars
  <2>1. UNCHANGED <<var, ref, len, dat, live, eref>>
    BY <1>3 DEF vars, strg
  <2>2. CountInv'
    BY <2>1, IdleCounts DEF ArrayInv
  <2>3. ElementsCounted'
    BY <2>1 DEF ArrayInv, ElementsCounted
  <2> QED
    BY <1>1, <2>2, <2>3 DEF ArrayInv
<1> QED
  BY <1>2, <1>3

LEMMA ArrayAlways == Spec => []ArrayInv
  BY ArrayInit, ArrayStep, PTL DEF Spec

(* However arrays are copied, moved, assigned and destroyed, no count of a *)
(* storage or of an element goes below zero: arr_dtor and destroy_n give   *)
(* back only handles that were counted.                                    *)
THEOREM ArraysTyped == Spec => []TypeOK
<1>1. ASSUME ArrayInv PROVE TypeOK
  <2>1. StateTyped
    BY <1>1 DEF ArrayInv, BlockInv
  <2>2. ref \in [Storage -> Nat]
    <3>1. \A o \in Storage : ref[o] \in Nat
      BY <1>1, HoldersTyped DEF ArrayInv, CountInv
    <3> QED
      BY <2>1, <3>1 DEF StateTyped
  <2>3. eref \in [Elem -> Nat]
    <3>1. ASSUME NEW e \in Elem PROVE eref[e] \in Nat
      <4>1. Cardinality(CellsWith(live, len, dat, e)) \in Nat
        BY <2>1, CellsFinite DEF StateTyped
      <4> QED
        BY <1>1, <4>1, ElementsAre DEF ArrayInv, Copies
    <3> QED
      BY <2>1, <3>1 DEF StateTyped
  <2> QED
    BY <2>1, <2>2, <2>3 DEF TypeOK, StateTyped
<1> QED
  BY <1>1, ArrayAlways, PTL

(* For any number of variables, storages and elements: every element is    *)
(* counted once per cell that holds it, however reallocate moved it,       *)
(* append copied it (of the same array too) and arr_strg_dtor, destroy_n   *)
(* and the assignment of a cell gave it back.                              *)
THEOREM ElementsAreCounted == Spec => []ElementsCounted
<1>1. ArrayInv => ElementsCounted
  BY DEF ArrayInv
<1> QED
  BY <1>1, ArrayAlways, PTL

(* A storage is counted once per variable that holds it, and is allocated  *)
(* exactly while a variable does.                                          *)
StoragesCounted ==
  \A o \in Storage :
    /\ ref[o] = Cardinality({x \in Var : var[x] = o})
    /\ o \in live <=> \E x \in Var : var[x] = o

(* ptr_dec frees a storage when the last variable lets go of it, not       *)
(* before (no variable holds memory that was freed) and not later (none is *)
(* leaked), for any number of variables and storages.                      *)
THEOREM StoragesAreCounted == Spec => []StoragesCounted
<1>1. ASSUME ArrayInv PROVE StoragesCounted
  <2>1. ASSUME NEW o \in Storage
        PROVE  /\ ref[o] = Cardinality({x \in Var : var[x] = o})
               /\ o \in live <=> \E x \in Var : var[x] = o
    <3>1. ref[o] = Cardinality(PlacesOf(Var, var, o)) /\ (o \in live <=> ref[o] > 0)
      BY <1>1 DEF ArrayInv, CountInv, Holders
    <3>2. Cardinality(PlacesOf(Var, var, o)) \in Nat
      BY NoArray, PlacesFinite
    <3>3. Cardinality(PlacesOf(Var, var, o)) = 0 <=> \A x \in Var : var[x] # o
      BY NoArray, NoPlaces
    <3>4. o \in live <=> \E x \in Var : var[x] = o
      BY <3>1, <3>2, <3>3
    <3> QED
      BY <3>1, <3>4 DEF PlacesOf
  <2> QED
    BY <2>1 DEF StoragesCounted
<1> QED
  BY <1>1, ArrayAlways, PTL
=============================================================================
