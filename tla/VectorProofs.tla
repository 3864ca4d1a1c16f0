---------------------------- MODULE VectorProofs ----------------------------
(***************************************************************************)
(* For any number of variables, storages and elements and any width of a   *)
(* length: the arrays of ArrayRuntime implement SharedVectors.             *)
(***************************************************************************)
EXTENDS ArrayProofs

(* The vector that a storage stands for. *)
View(o) == SubSeq(dat[o], 1, len[o])
vec == [o \in Storage |-> SubSeq(dat[o], 1, len[o])]

(* The cells up to the length as a sequence. *)
LEMMA PrefixIs ==
  ASSUME NEW cells, NEW n, Built(cells, n)
  PROVE  /\ SubSeq(cells, 1, n) \in Seq(Object)
         /\ Len(SubSeq(cells, 1, n)) = n
         /\ \A i \in 1..n : SubSeq(cells, 1, n)[i] = cells[i]
<1>1. n \in Nat /\ n <= Len(cells) /\ cells \in Seq(Cell)
  BY ArrayAssumption DEF Built
<1>2. \A i \in 1..n : cells[i] \in Object
  BY <1>1 DEF Built
<1>3. /\ SubSeq(cells, 1, n) \in Seq(Cell) /\ Len(SubSeq(cells, 1, n)) = n
      /\ \A i \in 1..n : SubSeq(cells, 1, n)[i] = cells[i]
  <2>1. \A i \in 1..n : cells[i] \in Cell
    BY <1>1
  <2> QED
    BY <1>1, <2>1, SubSeqProperties
<1>4. SubSeq(cells, 1, n) \in Seq(Object)
  BY <1>2, <1>3, SeqOfMembers
<1> QED
  BY <1>3, <1>4

(* A prefix is the sequence that has its length and its members. *)
LEMMA PrefixEqual ==
  ASSUME NEW cells, NEW n, Built(cells, n), NEW S, NEW s \in Seq(S), Len(s) = n, \A i \in 1..n : s[i] = cells[i]
  PROVE  SubSeq(cells, 1, n) = s
<1> DEFINE t == SubSeq(cells, 1, n)
<1>1. t \in Seq(Object) /\ Len(t) = n /\ \A i \in 1..n : t[i] = cells[i]
  BY PrefixIs
<1> HIDE DEF t
<1>2. s \in Seq(S \union Object) /\ t \in Seq(S \union Object)
  BY <1>1
<1>3. Len(s) = Len(t) /\ \A i \in 1..Len(s) : s[i] = t[i]
  BY <1>1
<1>4. s = t
  BY <1>2, <1>3, SeqEqual
<1> QED
  BY <1>4 DEF t

LEMMA ViewIs ==
  ASSUME BlockInv, NEW o \in Storage
  PROVE  /\ View(o) \in Seq(Object) /\ Len(View(o)) = len[o]
         /\ \A i \in 1..len[o] : View(o)[i] = dat[o][i]
<1>1. Built(dat[o], len[o])
  BY ThisBuilt
<1> QED
  BY <1>1, PrefixIs DEF View

-----------------------------------------------------------------------------
(* The kinds of steps of SharedVectors. *)
LEMMA SetVarStep ==
  ASSUME \A v \in Storage : (\E x \in Var : var'[x] = v) => View(v)' = View(v)
  PROVE  Vectors!Same(vec)
<1>1. \A v \in Vectors!Held' : v \in Storage /\ \E x \in Var : var'[x] = v
  BY DEF Vectors!Held
<1>2. \A v \in Vectors!Held' : vec'[v] = vec[v]
  BY <1>1 DEF View, vec
<1> QED
  BY <1>2 DEF Vectors!Same, vec

LEMMA NewStep ==
  ASSUME BlockInv, CountInv, NEW x \in Var, NEW s \in Seq(Object), NewStorage(x, s)
  PROVE  \E v \in Storage \ Vectors!Held :
           /\ var' = [var EXCEPT ![x] = v]
           /\ \A w \in Vectors!Held' : vec'[w] = [vec EXCEPT ![v] = s][w]
<1>1. PICK o \in Storage \ live :
        /\ len' = [len EXCEPT ![o] = Len(s)]
        /\ dat' = [dat EXCEPT ![o] = s]
        /\ var' = [var EXCEPT ![x] = o]
  BY DEF NewStorage
<1>2. o \in Storage \ Vectors!Held
  BY <1>1, HeldIsLive DEF Vectors!Held
<1>3. /\ dat'[o] = s /\ len'[o] = Len(s)
      /\ \A v \in Storage : v # o => dat'[v] = dat[v] /\ len'[v] = len[v]
  BY <1>1 DEF BlockInv, StateTyped
<1>4. SubSeq(s, 1, Len(s)) = s
  BY SubSeqFull
<1>5. \A v \in Storage : SubSeq(dat'[v], 1, len'[v]) =
        IF v = o THEN s ELSE SubSeq(dat[v], 1, len[v])
  BY <1>3, <1>4
<1>6. \A v \in Storage : vec'[v] = [vec EXCEPT ![o] = s][v]
  BY <1>5 DEF vec
<1>7. Vectors!Held' \subseteq Storage
  BY DEF Vectors!Held
<1> QED
  BY <1>1, <1>2, <1>6, <1>7

LEMMA PanicStep ==
  ASSUME Panic
  PROVE  Vectors!Panic
<1>1. UNCHANGED <<var, len, dat>> /\ call' = Null /\ panicked' = TRUE
  BY DEF Panic, strg
<1> QED
  BY <1>1 DEF Vectors!Panic, Vectors!Same
-----------------------------------------------------------------------------
LEMMA PushMaps ==
  ASSUME BlockInv, PushBack
  PROVE  Vectors!Perform
<1> DEFINE o == var[call.x]
           n == len[o]
<1>1. o \in Storage /\ call.e \in Elem /\ call' = Null /\ panicked' = panicked
  BY PushEffect DEF This
<1>2. PICK cells : /\ Change(o, cells, n + 1) /\ Built(cells, n + 1)
                   /\ \A i \in 1..n : cells[i] = dat[o][i]
                   /\ cells[n + 1] = call.e
  BY PushEffect DEF This
<1>3. call # Null /\ call.op = "push_back"
  BY DEF PushBack, Calling
<1> DEFINE s == Append(View(o), call.e)
<1>4. /\ View(o) \in Seq(Object) /\ Len(View(o)) = n /\ n \in Nat
      /\ \A i \in 1..n : View(o)[i] = dat[o][i]
  BY <1>1, ViewIs, ThisBuilt
<1>5. call.e \in Object
  BY <1>1, Objects
<1>6. s \in Seq(Object) /\ Len(s) = n + 1 /\ (\A i \in 1..n : s[i] = View(o)[i]) /\ s[n + 1] = call.e
  <2> DEFINE t == View(o)
  <2> HIDE DEF t
  <2>1. t \in Seq(Object) /\ Len(t) = n
    BY <1>4 DEF t
  <2>2. Append(t, call.e) \in Seq(Object) /\ Len(Append(t, call.e)) = n + 1
        /\ (\A i \in 1..n : Append(t, call.e)[i] = t[i]) /\ Append(t, call.e)[n + 1] = call.e
    BY <1>5, <2>1, OneMore
  <2> QED
    BY <2>2 DEF t
<1> HIDE DEF s
<1>7. \A i \in 1..(n + 1) : s[i] = cells[i]
  <2>1. \A i \in 1..(n + 1) : i \in 1..n \/ i = n + 1
    BY <1>4
  <2> QED
    BY <1>2, <1>4, <1>6, <2>1
<1>8. SubSeq(cells, 1, n + 1) = s
  BY <1>2, <1>6, <1>7, PrefixEqual
<1>9. /\ var' = var
      /\ \A v \in Storage : SubSeq(dat'[v], 1, len'[v]) = IF v = o THEN s ELSE SubSeq(dat[v], 1, len[v])
  <2>1. /\ var' = var /\ dat'[o] = cells /\ len'[o] = n + 1
        /\ \A v \in Storage : v # o => dat'[v] = dat[v] /\ len'[v] = len[v]
    BY <1>1, <1>2 DEF Change, BlockInv, StateTyped
  <2> QED
    BY <1>8, <2>1
<1>10. s = Append(vec[var[call.x]], call.e)
  BY <1>1 DEF s, View, vec
<1>11. Vectors!Update(call.x, Append(vec[var[call.x]], call.e))
  BY <1>1, <1>9, <1>10 DEF Vectors!Update, Vectors!Return, Vectors!Same, Vectors!Held, vec
<1> QED
  BY <1>3, <1>11 DEF Vectors!Perform, vec

LEMMA AppendMaps ==
  ASSUME BlockInv, AppendOther
  PROVE  Vectors!Perform
<1> DEFINE o == var[call.x]
           p == var[call.y]
           n == len[o]
           m == len[p]
<1>1. o \in Storage /\ p \in Storage /\ call' = Null /\ panicked' = panicked
  BY AppendEffect DEF This
<1>2. PICK cells : /\ Change(o, cells, n + m) /\ Built(cells, n + m)
                   /\ \A i \in 1..n : cells[i] = dat[o][i]
                   /\ \A j \in 1..m : cells[n + j] = dat[p][j]
  BY AppendEffect DEF This
<1>3. call # Null /\ call.op = "append"
  BY DEF AppendOther, Calling
<1> DEFINE s == View(o) \o View(p)
<1>4. /\ View(o) \in Seq(Object) /\ Len(View(o)) = n /\ n \in Nat
      /\ \A i \in 1..n : View(o)[i] = dat[o][i]
  BY <1>1, ViewIs, ThisBuilt
<1>5. /\ View(p) \in Seq(Object) /\ Len(View(p)) = m /\ m \in Nat
      /\ \A i \in 1..m : View(p)[i] = dat[p][i]
  BY <1>1, ViewIs, ThisBuilt
<1>6. /\ s \in Seq(Object) /\ Len(s) = n + m
      /\ \A i \in 1..(n + m) : s[i] = IF i <= n THEN View(o)[i] ELSE View(p)[i - n]
  <2> DEFINE u == View(o)
             v == View(p)
  <2>1. u \in Seq(Object) /\ v \in Seq(Object) /\ Len(u) = n /\ Len(v) = m
    BY <1>4, <1>5
  <2> HIDE DEF u, v, n, m
  <2>2. /\ u \o v \in Seq(Object) /\ Len(u \o v) = n + m
        /\ \A i \in 1..(n + m) : (u \o v)[i] = IF i <= n THEN u[i] ELSE v[i - n]
    BY <2>1, ConcatProperties
  <2> QED
    BY <2>2 DEF u, v
<1> HIDE DEF s
<1>7. ASSUME NEW i \in 1..(n + m) PROVE s[i] = cells[i]
  <2>1. CASE i <= n
    <3>1. i \in 1..n
      BY <1>4, <1>5, <2>1
    <3> QED
      BY <1>2, <1>4, <1>6, <2>1, <3>1
  <2>2. CASE ~ i <= n
    <3>1. i - n \in 1..m /\ n + (i - n) = i
      BY <1>4, <1>5, <2>2
    <3>2. cells[n + (i - n)] = dat[p][i - n]
      BY <1>2, <3>1
    <3>3. s[i] = View(p)[i - n]
      BY <1>6, <2>2
    <3> QED
      BY <1>5, <3>1, <3>2, <3>3
  <2> QED
    BY <2>1, <2>2
<1>8. SubSeq(cells, 1, n + m) = s
  BY <1>2, <1>6, <1>7, PrefixEqual
<1>9. /\ var' = var
      /\ \A v \in Storage : SubSeq(dat'[v], 1, len'[v]) = IF v = o THEN s ELSE SubSeq(dat[v], 1, len[v])
  <2>1. /\ var' = var /\ dat'[o] = cells /\ len'[o] = n + m
        /\ \A v \in Storage : v # o => dat'[v] = dat[v] /\ len'[v] = len[v]
    BY <1>1, <1>2 DEF Change, BlockInv, StateTyped
  <2> QED
    BY <1>8, <2>1
<1>10. s = vec[var[call.x]] \o vec[var[call.y]]
  BY <1>1 DEF s, View, vec
<1>11. Vectors!Update(call.x, vec[var[call.x]] \o vec[var[call.y]])
  BY <1>1, <1>9, <1>10 DEF Vectors!Update, Vectors!Return, Vectors!Same, Vectors!Held, vec
<1> QED
  BY <1>3, <1>11 DEF Vectors!Perform, vec

LEMMA ReserveMaps ==
  ASSUME BlockInv, Reserve
  PROVE  Vectors!Perform
<1> DEFINE o == var[call.x]
           n == len[o]
<1>1. o \in Storage /\ call' = Null /\ panicked' = panicked /\ call # Null /\ call.op = "reserve"
  BY ReserveEffect DEF This, Reserve, Calling
<1>2. PICK cells : /\ Change(o, cells, n) /\ Built(cells, n)
                   /\ \A i \in 1..n : cells[i] = dat[o][i]
  BY ReserveEffect DEF This
<1> DEFINE s == View(o)
<1>3. s \in Seq(Object) /\ Len(s) = n /\ \A i \in 1..n : s[i] = dat[o][i]
  BY <1>1, ViewIs
<1> HIDE DEF s
<1>4. SubSeq(cells, 1, n) = s
  BY <1>2, <1>3, PrefixEqual
<1>5. /\ var' = var
      /\ \A v \in Storage : SubSeq(dat'[v], 1, len'[v]) = IF v = o THEN s ELSE SubSeq(dat[v], 1, len[v])
  <2>1. /\ var' = var /\ dat'[o] = cells /\ len'[o] = n
        /\ \A v \in Storage : v # o => dat'[v] = dat[v] /\ len'[v] = len[v]
    BY <1>1, <1>2 DEF Change, BlockInv, StateTyped
  <2> QED
    BY <1>4, <2>1
<1>6. s = vec[var[call.x]]
  BY <1>1 DEF s, View, vec
<1>7. Vectors!Update(call.x, vec[var[call.x]])
  BY <1>1, <1>5, <1>6 DEF Vectors!Update, Vectors!Return, Vectors!Same, Vectors!Held, vec
<1> QED
  BY <1>1, <1>7 DEF Vectors!Perform, vec
(* pop_back and the shrinking resize: the first m elements are left. *)
LEMMA DestroyMaps ==
  ASSUME BlockInv, NEW o \in Storage, NEW m \in Nat, m <= len[o], NEW cells,
         var' = var, dat' = [dat EXCEPT ![o] = cells], len' = [len EXCEPT ![o] = m],
         Built(cells, m), \A i \in 1..m : cells[i] = dat[o][i],
         NEW s \in Seq(Object), Len(s) = m, \A i \in 1..m : s[i] = View(o)[i]
  PROVE  \A v \in Storage : SubSeq(dat'[v], 1, len'[v]) = IF v = o THEN s ELSE SubSeq(dat[v], 1, len[v])
<1>1. len[o] \in Nat
  BY ThisBuilt
<1>2. \A i \in 1..m : s[i] = cells[i]
  BY <1>1, ViewIs
<1>3. SubSeq(cells, 1, m) = s
  BY <1>2, PrefixEqual
<1>4. /\ dat'[o] = cells /\ len'[o] = m
      /\ \A v \in Storage : v # o => dat'[v] = dat[v] /\ len'[v] = len[v]
  BY DEF BlockInv, StateTyped
<1>5. ASSUME NEW v \in Storage
      PROVE  SubSeq(dat'[v], 1, len'[v]) = IF v = o THEN s ELSE SubSeq(dat[v], 1, len[v])
  <2>1. CASE v = o
    BY ONLY <1>3, <1>4, <2>1
  <2>2. CASE v # o
    BY ONLY v \in Storage, <1>4, <2>2
  <2> QED
    BY <2>1, <2>2
<1> QED
  BY <1>5

LEMMA PopMaps ==
  ASSUME BlockInv, PopBack
  PROVE  Vectors!Perform
<1> DEFINE o == var[call.x]
           n == len[o]
<1>1. o \in Storage /\ call # Null /\ call.op = "pop_back"
  BY PopEffect DEF This, PopBack, Calling
<1>2. View(o) \in Seq(Object) /\ Len(View(o)) = n /\ n \in Nat
  BY <1>1, ViewIs, ThisBuilt
<1>3. vec[var[call.x]] = View(o)
  BY <1>1 DEF vec, View
<1>4. CASE n = 0
  <2>1. Vectors!Panic
    BY <1>4, PanicStep DEF PopBack, This
  <2>2. vec[var[call.x]] = <<>>
    BY <1>2, <1>3, <1>4, EmptySeq
  <2> QED
    BY <1>1, <2>1, <2>2 DEF Vectors!Perform, vec
<1>5. CASE n # 0
  <2> DEFINE s == SubSeq(View(o), 1, Len(View(o)) - 1)
             m == n - 1
  <2>1. DestroyFrom(o, n) /\ call' = Null /\ panicked' = panicked
    BY <1>5 DEF PopBack, This, Return
  <2>2. m \in Nat /\ m <= len[o] /\ m + 1 = n
    BY <1>2, <1>5
  <2>3. View(o) # <<>>
    BY <1>2, <1>5
  <2>4. s \in Seq(Object) /\ Len(s) = m /\ \A i \in 1..m : s[i] = View(o)[i]
    <3> DEFINE t == View(o)
    <3>1. t \in Seq(Object) /\ t # <<>> /\ Len(t) = n
      BY <1>2, <2>3
    <3> HIDE DEF t
    <3>2. \A i \in 1..(Len(t) - 1) : t[i] \in Object
      BY <1>2, <3>1
    <3>3. /\ SubSeq(t, 1, Len(t) - 1) \in Seq(Object) /\ Len(SubSeq(t, 1, Len(t) - 1)) = Len(t) - 1
          /\ \A i \in 1..(Len(t) - 1) : SubSeq(t, 1, Len(t) - 1)[i] = t[i]
      BY <3>1, <3>2, ButLast
    <3> QED
      BY <3>1, <3>3 DEF t
  <2> HIDE DEF s
  <2>5. /\ var' = var
        /\ \A v \in Storage : SubSeq(dat'[v], 1, len'[v]) = IF v = o THEN s ELSE SubSeq(dat[v], 1, len[v])
    <3> DEFINE first == m + 1
    <3>1. first \in 1..(len[o] + 1) /\ first - 1 = m /\ DestroyFrom(o, first)
      BY <1>2, <2>1, <2>2
    <3> HIDE DEF first
    <3>2. PICK cells : /\ Change(o, cells, first - 1) /\ Built(cells, first - 1)
                       /\ \A i \in 1..(first - 1) : cells[i] = dat[o][i]
      BY <1>1, <3>1, DestroyEffect
    <3>3. /\ var' = var /\ dat' = [dat EXCEPT ![o] = cells] /\ len' = [len EXCEPT ![o] = m]
          /\ Built(cells, m) /\ \A i \in 1..m : cells[i] = dat[o][i]
      BY <3>1, <3>2 DEF Change
    <3> HIDE DEF m, o
    <3> QED
      BY <1>1, <2>2, <2>4, <3>3, DestroyMaps
  <2>6. s = SubSeq(vec[var[call.x]], 1, Len(vec[var[call.x]]) - 1)
    BY <1>3 DEF s
  <2>7. Vectors!Update(call.x, SubSeq(vec[var[call.x]], 1, Len(vec[var[call.x]]) - 1))
    BY <1>1, <2>1, <2>5, <2>6 DEF Vectors!Update, Vectors!Return, Vectors!Same, Vectors!Held, vec
  <2>8. vec[var[call.x]] # <<>>
    BY <1>3, <2>3
  <2> QED
    BY <1>1, <2>7, <2>8 DEF Vectors!Perform, vec
<1> QED
  BY <1>4, <1>5

LEMMA ResizedIs ==
  ASSUME NEW s \in Seq(Object), NEW n \in Nat
  PROVE  /\ Vectors!Resized(s, n) \in Seq(Object) /\ Len(Vectors!Resized(s, n)) = n
         /\ \A i \in 1..n : Vectors!Resized(s, n)[i] = IF i <= Len(s) THEN s[i] ELSE Default
<1> DEFINE r == Vectors!Resized(s, n)
<1>1. Len(s) \in Nat
  OBVIOUS
<1>2. r = [i \in 1..n |-> IF i <= Len(s) THEN s[i] ELSE Default]
  BY DEF Vectors!Resized
<1>3. \A i \in 1..n : (IF i <= Len(s) THEN s[i] ELSE Default) \in Object
  BY <1>1, Objects
<1> HIDE DEF r
<1>4. r \in [1..n -> Object] /\ \A i \in 1..n : r[i] = IF i <= Len(s) THEN s[i] ELSE Default
  BY <1>2, <1>3
<1> QED
  BY <1>4 DEF r

LEMMA ShrinkMaps ==
  ASSUME BlockInv, ResizeShrink
  PROVE  Vectors!Perform
<1> DEFINE o == var[call.x]
           m == call.n
           s == Vectors!Resized(View(o), m)
<1>1. o \in Storage /\ call # Null /\ call.op = "resize" /\ call' = Null /\ panicked' = panicked
  BY ShrinkEffect DEF This, ResizeShrink, Calling
<1>2. m \in 0..MaxLen /\ m <= len[o] /\ DestroyFrom(o, m + 1)
  BY ShrinkEffect DEF This
<1>3. m \in Nat /\ len[o] \in Nat /\ View(o) \in Seq(Object) /\ Len(View(o)) = len[o]
  BY <1>1, <1>2, ViewIs, ThisBuilt
<1>4. /\ s \in Seq(Object) /\ Len(s) = m
      /\ \A i \in 1..m : s[i] = IF i <= Len(View(o)) THEN View(o)[i] ELSE Default
  <2> HIDE DEF m, o
  <2> QED
    BY <1>3, ResizedIs
<1> HIDE DEF s
<1>5. \A i \in 1..m : s[i] = View(o)[i]
  BY <1>2, <1>3, <1>4
<1>6. /\ var' = var
      /\ \A v \in Storage : SubSeq(dat'[v], 1, len'[v]) = IF v = o THEN s ELSE SubSeq(dat[v], 1, len[v])
  <2> DEFINE first == m + 1
  <2>1. first \in 1..(len[o] + 1) /\ first - 1 = m /\ DestroyFrom(o, first)
    BY <1>2, <1>3
  <2> HIDE DEF first
  <2>2. PICK cells : /\ Change(o, cells, first - 1) /\ Built(cells, first - 1)
                     /\ \A i \in 1..(first - 1) : cells[i] = dat[o][i]
    BY <1>1, <2>1, DestroyEffect
  <2>3. /\ var' = var /\ dat' = [dat EXCEPT ![o] = cells] /\ len' = [len EXCEPT ![o] = m]
        /\ Built(cells, m) /\ \A i \in 1..m : cells[i] = dat[o][i]
    BY <2>1, <2>2 DEF Change
  <2> HIDE DEF m, o
  <2> QED
    BY <1>1, <1>2, <1>3, <1>4, <1>5, <2>3, DestroyMaps
<1>7. s = Vectors!Resized(vec[var[call.x]], call.n)
  BY <1>1 DEF s, View, vec
<1>8. Vectors!Update(call.x, Vectors!Resized(vec[var[call.x]], call.n))
  BY <1>1, <1>6, <1>7 DEF Vectors!Update, Vectors!Return, Vectors!Same, Vectors!Held, vec
<1> QED
  BY <1>1, <1>8 DEF Vectors!Perform, vec

LEMMA GrowMaps ==
  ASSUME BlockInv, ResizeGrow
  PROVE  Vectors!Perform
<1> DEFINE o == var[call.x]
           n == call.n
           s == Vectors!Resized(View(o), n)
<1>1. o \in Storage /\ call # Null /\ call.op = "resize" /\ call' = Null /\ panicked' = panicked
  BY GrowEffect DEF This, ResizeGrow, Calling
<1>2. PICK cells : /\ Change(o, cells, n) /\ Built(cells, n)
                   /\ \A i \in 1..len[o] : cells[i] = dat[o][i]
                   /\ \A i \in (len[o] + 1)..n : cells[i] = Default
  BY GrowEffect DEF This
<1>3. /\ n \in Nat /\ len[o] \in Nat /\ View(o) \in Seq(Object) /\ Len(View(o)) = len[o]
      /\ \A i \in 1..len[o] : View(o)[i] = dat[o][i]
  BY <1>1, GrowEffect, ViewIs, ThisBuilt
<1>4. /\ s \in Seq(Object) /\ Len(s) = n
      /\ \A i \in 1..n : s[i] = IF i <= Len(View(o)) THEN View(o)[i] ELSE Default
  <2> HIDE DEF n, o
  <2> QED
    BY <1>3, ResizedIs
<1> HIDE DEF s
<1>5. ASSUME NEW i \in 1..n PROVE s[i] = cells[i]
  <2>1. i \in 1..len[o] \/ i \in (len[o] + 1)..n
    BY <1>3
  <2> QED
    BY <1>2, <1>3, <1>4, <2>1
<1>6. SubSeq(cells, 1, n) = s
  <2> HIDE DEF n, o
  <2> QED
    BY <1>2, <1>4, <1>5, PrefixEqual
<1>7. /\ var' = var
      /\ \A v \in Storage : SubSeq(dat'[v], 1, len'[v]) = IF v = o THEN s ELSE SubSeq(dat[v], 1, len[v])
  <2>1. /\ var' = var /\ dat'[o] = cells /\ len'[o] = n
        /\ \A v \in Storage : v # o => dat'[v] = dat[v] /\ len'[v] = len[v]
    BY <1>1, <1>2 DEF Change, BlockInv, StateTyped
  <2> QED
    BY <1>6, <2>1
<1>8. s = Vectors!Resized(vec[var[call.x]], call.n)
  BY <1>1 DEF s, View, vec
<1>9. Vectors!Update(call.x, Vectors!Resized(vec[var[call.x]], call.n))
  BY <1>1, <1>7, <1>8 DEF Vectors!Update, Vectors!Return, Vectors!Same, Vectors!Held, vec
<1> QED
  BY <1>1, <1>9 DEF Vectors!Perform, vec

LEMMA StoreMaps ==
  ASSUME BlockInv, Store
  PROVE  Vectors!Perform
<1> DEFINE o == var[call.x]
           n == len[o]
           k == call.i + 1
<1>1. o \in Storage /\ call # Null /\ call.op = "store" /\ call.e \in Elem /\ call.i \in Int
  BY StoreEffect DEF This, Store, Calling
<1>2. /\ View(o) \in Seq(Object) /\ Len(View(o)) = n /\ n \in Nat
      /\ \A i \in 1..n : View(o)[i] = dat[o][i]
  BY <1>1, ViewIs, ThisBuilt
<1>3. vec[var[call.x]] = View(o)
  BY <1>1 DEF vec, View
<1>4. CASE call.i \notin 0..(n - 1)
  <2>1. Panic
    BY <1>1, <1>2, <1>4, StoreEffect DEF This
  <2>2. Vectors!Panic
    BY <2>1, PanicStep
  <2>3. ~ (call.i >= 0 /\ call.i < Len(vec[var[call.x]]))
    BY <1>1, <1>2, <1>3, <1>4
  <2>4. Vectors!Store(call.x, call.i, call.e)
    BY <2>2, <2>3 DEF Vectors!Store, vec
  <2> QED
    BY <1>1, <2>4 DEF Vectors!Perform
<1>5. CASE call.i \in 0..(n - 1)
  <2>1. k \in 1..n /\ call' = Null /\ panicked' = panicked
    BY <1>1, <1>2, <1>5, StoreEffect DEF This
  <2>2. PICK cells : /\ Change(o, cells, n) /\ Built(cells, n)
                     /\ \A j \in 1..n : cells[j] = IF j = k THEN call.e ELSE dat[o][j]
    BY <1>1, <1>2, <1>5, StoreEffect DEF This
  <2> DEFINE s == [View(o) EXCEPT ![k] = call.e]
  <2>3. call.e \in Object /\ k \in 1..Len(View(o))
    BY <1>1, <1>2, <2>1, Objects
  <2>4. /\ s \in Seq(Object) /\ Len(s) = n
        /\ \A j \in 1..n : s[j] = IF j = k THEN call.e ELSE View(o)[j]
    <3> DEFINE t == View(o)
               e == call.e
    <3>1. t \in Seq(Object) /\ Len(t) = n /\ k \in 1..Len(t) /\ e \in Object
      BY <1>2, <2>3
    <3> HIDE DEF t, e, k
    <3>2. /\ [t EXCEPT ![k] = e] \in Seq(Object)
          /\ Len([t EXCEPT ![k] = e]) = Len(t)
          /\ \A j \in 1..Len(t) : [t EXCEPT ![k] = e][j] = IF j = k THEN e ELSE t[j]
      BY <3>1, ExceptSeq
    <3> QED
      BY <3>1, <3>2 DEF t, e
  <2> HIDE DEF s
  <2>5. \A j \in 1..n : s[j] = cells[j]
    BY <1>2, <2>2, <2>4
  <2>6. SubSeq(cells, 1, n) = s
    <3> HIDE DEF n, o
    <3> QED
      BY <2>2, <2>4, <2>5, PrefixEqual
  <2>7. /\ var' = var
        /\ \A v \in Storage : SubSeq(dat'[v], 1, len'[v]) = IF v = o THEN s ELSE SubSeq(dat[v], 1, len[v])
    <3>1. /\ var' = var /\ dat'[o] = cells /\ len'[o] = n
          /\ \A v \in Storage : v # o => dat'[v] = dat[v] /\ len'[v] = len[v]
      BY <1>1, <2>2 DEF Change, BlockInv, StateTyped
    <3> QED
      BY <2>6, <3>1
  <2>8. s = [vec[var[call.x]] EXCEPT ![call.i + 1] = call.e]
    BY <1>3 DEF s
  <2>9. Vectors!Update(call.x, [vec[var[call.x]] EXCEPT ![call.i + 1] = call.e])
    BY <1>1, <2>1, <2>7, <2>8 DEF Vectors!Update, Vectors!Return, Vectors!Same, Vectors!Held, vec
  <2>10. call.i >= 0 /\ call.i < Len(vec[var[call.x]])
    BY <1>1, <1>2, <1>3, <1>5
  <2>11. Vectors!Store(call.x, call.i, call.e)
    BY <2>9, <2>10 DEF Vectors!Store, vec
  <2> QED
    BY <1>1, <2>11 DEF Vectors!Perform
<1> QED
  BY <1>4, <1>5

-----------------------------------------------------------------------------
(* A storage that loses its last handle is not looked at any more. *)
LEMMA DropKeeps ==
  ASSUME BlockInv, CountInv', NEW o \in Storage, NEW counts, DropStorage(o, counts),
         NEW v \in Storage, NEW x \in Var, var'[x] = v
  PROVE  View(v)' = View(v)
<1>1. v \in live'
  <2>1. Cardinality(PlacesOf(Var, var', v)) # 0
    BY NoArray, NoPlaces
  <2>2. Cardinality(PlacesOf(Var, var', v)) \in Nat
    BY NoArray, PlacesFinite
  <2>3. ref'[v] = Cardinality(PlacesOf(Var, var', v)) /\ (v \in live' <=> ref'[v] > 0)
    BY DEF CountInv, Holders
  <2> QED
    BY <2>1, <2>2, <2>3
<1>2. dat'[v] = dat[v] /\ len'[v] = len[v]
  BY <1>1 DEF DropStorage, BlockInv, StateTyped
<1> QED
  BY <1>2 DEF View

LEMMA VectorStep ==
  ASSUME BlockInv, CountInv, CountInv', Next
  PROVE  Vectors!Next \/ UNCHANGED Vectors!vars
<1>1. CASE MakeCall
  <2>1. /\ call = Null /\ ~ panicked /\ panicked' = panicked
        /\ var' = var /\ dat' = dat /\ len' = len
    BY <1>1 DEF MakeCall, strg
  <2>2. CASE call' = Null
    BY <2>1, <2>2 DEF Vectors!vars
  <2>3. CASE call' # Null
    BY <2>1, <2>3 DEF Vectors!Next, Vectors!MakeCall
  <2> QED
    BY <2>2, <2>3
<1>2. CASE ArrDefCtor
  <2>1. call.x \in Var
    BY <1>2, Performed, CallShape DEF ArrDefCtor
  <2>2. Vectors!New(call.x, <<>>)
    <3> DEFINE s == <<>>
               x == call.x
    <3>1. s \in Seq(Object) /\ x \in Var /\ NewStorage(x, s) /\ call' = Null /\ panicked' = panicked
      BY <1>2, <2>1 DEF ArrDefCtor, Return
    <3> HIDE DEF s, x
    <3>2. \E v \in Storage \ Vectors!Held :
            /\ var' = [var EXCEPT ![x] = v]
            /\ \A w \in Vectors!Held' : vec'[w] = [vec EXCEPT ![v] = s][w]
      BY <3>1, NewStep
    <3> QED
      BY <3>1, <3>2 DEF s, x, vec, Vectors!New, Vectors!Return, Vectors!Same
  <2> QED
    BY <1>2, <2>2 DEF ArrDefCtor, Calling, Vectors!Perform, Vectors!Next
<1>3. CASE ArrLenCtor
  <2>1. call.x \in Var /\ call.s \in Literals
    BY <1>3, Performed, CallShape DEF ArrLenCtor
  <2>2. call.s \in Seq(Elem)
    BY <2>1, ArrayAssumption
  <2>3. Vectors!New(call.x, call.s)
    <3> DEFINE s == call.s
               x == call.x
    <3>1. s \in Seq(Object) /\ x \in Var /\ NewStorage(x, s) /\ call' = Null /\ panicked' = panicked
      BY <1>3, <2>1, <2>2, Objects DEF ArrLenCtor, Return
    <3> HIDE DEF s, x
    <3>2. \E v \in Storage \ Vectors!Held :
            /\ var' = [var EXCEPT ![x] = v]
            /\ \A w \in Vectors!Held' : vec'[w] = [vec EXCEPT ![v] = s][w]
      BY <3>1, NewStep
    <3> QED
      BY <3>1, <3>2 DEF s, x, vec, Vectors!New, Vectors!Return, Vectors!Same
  <2> QED
    BY <1>3, <2>3 DEF ArrLenCtor, Calling, Vectors!Perform, Vectors!Next
<1>4. ASSUME NEW counts, var[call.x] \in Storage, DropStorage(var[call.x], counts)
      PROVE  \A v \in Storage : (\E x \in Var : var'[x] = v) => View(v)' = View(v)
  BY <1>4, DropKeeps
<1>5. ASSUME UNCHANGED <<len, dat>>
      PROVE  \A v \in Storage : (\E x \in Var : var'[x] = v) => View(v)' = View(v)
  BY <1>5 DEF View
<1>6. CASE ArrDtor
  <2>1. \A v \in Storage : (\E x \in Var : var'[x] = v) => View(v)' = View(v)
    <3>1. CASE var[call.x] \in Storage
      BY <1>4, <1>6, <3>1 DEF ArrDtor, HoldsArray
    <3>2. CASE var[call.x] \notin Storage
      BY <1>5, <1>6, <3>2 DEF ArrDtor, HoldsArray, strg
    <3> QED
      BY <3>1, <3>2
  <2>2. Vectors!SetVar([var EXCEPT ![call.x] = Dead])
    <3>1. var' = [var EXCEPT ![call.x] = Dead] /\ call' = Null /\ panicked' = panicked
      BY <1>6 DEF ArrDtor, Return
    <3>2. Vectors!Same(vec)
      BY <2>1, SetVarStep
    <3> QED
      BY <3>1, <3>2 DEF Vectors!SetVar, Vectors!Return, vec
  <2> QED
    BY <1>6, <2>2 DEF ArrDtor, Calling, Vectors!Perform, Vectors!Next
<1>7. CASE ArrCopCtor \/ ArrCopAsgn
  <2>1. \A v \in Storage : (\E x \in Var : var'[x] = v) => View(v)' = View(v)
    <3>1. CASE ArrCopCtor
      BY <1>5, <3>1 DEF ArrCopCtor
    <3>2. CASE ArrCopAsgn
      <4>1. var[call.x] \in Storage
        BY <3>2, Performed DEF ArrCopAsgn
      <4> QED
        BY <1>4, <3>2, <4>1 DEF ArrCopAsgn
    <3> QED
      BY <1>7, <3>1, <3>2
  <2>2. Vectors!SetVar([var EXCEPT ![call.x] = var[call.y]])
    <3>1. var' = [var EXCEPT ![call.x] = var[call.y]] /\ call' = Null /\ panicked' = panicked
      BY <1>7 DEF ArrCopCtor, ArrCopAsgn, Return
    <3>2. Vectors!Same(vec)
      BY <2>1, SetVarStep
    <3> QED
      BY <3>1, <3>2 DEF Vectors!SetVar, Vectors!Return, vec
  <2>3. call # Null /\ call.op \in {"cop_ctor", "cop_asgn"}
    BY <1>7 DEF ArrCopCtor, ArrCopAsgn, Calling
  <2> QED
    BY <2>2, <2>3 DEF Vectors!Perform, Vectors!Next
<1>8. CASE ArrMovCtor \/ ArrMovAsgn
  <2>1. \A v \in Storage : (\E x \in Var : var'[x] = v) => View(v)' = View(v)
    <3>1. CASE ArrMovCtor
      BY <1>5, <3>1 DEF ArrMovCtor, strg
    <3>2. CASE ArrMovAsgn
      <4>1. var[call.x] \in Storage
        BY <3>2, Performed DEF ArrMovAsgn
      <4> QED
        BY <1>4, <3>2, <4>1 DEF ArrMovAsgn
    <3> QED
      BY <1>8, <3>1, <3>2
  <2>2. Vectors!SetVar([var EXCEPT ![call.x] = var[call.y], ![call.y] = Null])
    <3>1. var' = [var EXCEPT ![call.x] = var[call.y], ![call.y] = Null] /\ call' = Null /\ panicked' = panicked
      BY <1>8 DEF ArrMovCtor, ArrMovAsgn, Return
    <3>2. Vectors!Same(vec)
      BY <2>1, SetVarStep
    <3> QED
      BY <3>1, <3>2 DEF Vectors!SetVar, Vectors!Return, vec
  <2>3. call # Null /\ call.op \in {"mov_ctor", "mov_asgn"}
    BY <1>8 DEF ArrMovCtor, ArrMovAsgn, Calling
  <2> QED
    BY <2>2, <2>3 DEF Vectors!Perform, Vectors!Next
<1> QED
  BY <1>1, <1>2, <1>3, <1>6, <1>7, <1>8, PushMaps, AppendMaps, PopMaps, ShrinkMaps, GrowMaps, ReserveMaps,
     StoreMaps DEF Next, Vectors!Next

LEMMA VectorInit == Init => Vectors!Init
<1> SUFFICES ASSUME Init PROVE Vectors!Init
  OBVIOUS
<1>1. \A o \in Storage : SubSeq(dat[o], 1, len[o]) = <<>>
  <2>1. SubSeq(<<>>, 1, 0) = <<>>
    OBVIOUS
  <2> QED
    BY <2>1 DEF Init
<1>2. [o \in Storage |-> SubSeq(dat[o], 1, len[o])] \in [Storage -> {<<>>}]
  BY <1>1
<1> QED
  BY <1>2 DEF Init, Vectors!Init

(* README.md, Arrays: for any program, the generated array functions       *)
(* behave like handles to shared vectors: push_back, append (of an array   *)
(* to itself too), pop_back, resize, reserve and the subscript change the  *)
(* vector that every handle sees, constructors and assignments only the    *)
(* handles, and the program panics exactly when the vector has no such     *)
(* element.                                                                *)
THEOREM ArraysAreVectors == Spec => BehavesLikeVectors
<1>1. ArrayInv /\ ArrayInv' /\ [Next]_vars => [Vectors!Next]_(Vectors!vars)
  <2> SUFFICES ASSUME ArrayInv, ArrayInv', [Next]_vars
               PROVE  Vectors!Next \/ UNCHANGED Vectors!vars
    OBVIOUS
  <2>1. CASE Next
    BY <2>1, VectorStep DEF ArrayInv
  <2>2. CASE UNCHANGED vars
    BY <2>2 DEF vars, strg, Vectors!vars
  <2> QED
    BY <2>1, <2>2
<1> QED
  BY <1>1, VectorInit, ArrayAlways, PTL DEF Spec, BehavesLikeVectors, Vectors!Spec
=============================================================================
