---------------------------- MODULE LexerProofs ----------------------------
(***************************************************************************)
(* tokenize takes what stands outside of comments, every token is as long  *)
(* as it can be, a number is read as it is written, and no string ends in  *)
(* an escape, for every text and all widths of the types.                  *)
(***************************************************************************)
EXTENDS Literals, StackLemmas

(* What holds where a range begins and passes from each place of it to the *)
(* next holds in all of it.                                                *)
LEMMA AlongRange ==
  ASSUME NEW a \in Nat, NEW b \in Int, NEW S, a \in S, \A i \in a..(b - 1) : i \in S => i + 1 \in S
  PROVE  a..b \subseteq S
<1> DEFINE N == {i \in a..b : i \notin S}
<1> SUFFICES ASSUME N # {} PROVE FALSE
  OBVIOUS
<1>1. N \subseteq Nat
  OBVIOUS
<1> HIDE DEF N
<1>2. PICK i \in N : \A j \in N : i <= j
  BY <1>1, LeastMember
<1>3. i \in a..b /\ i \notin S /\ i # a
  BY DEF N
<1>4. i - 1 \in a..(b - 1) /\ i - 1 \in a..b /\ ~ (i <= i - 1)
  BY <1>3
<1>5. i - 1 \notin N
  BY <1>2, <1>4
<1>6. i - 1 \in S
  BY <1>4, <1>5 DEF N
<1>7. (i - 1) + 1 \in S
  BY <1>4, <1>6
<1> QED
  BY <1>3, <1>7
-----------------------------------------------------------------------------
(* At and Starts *)
LEMMA AtChar ==
  ASSUME NEW s \in Seq(Char), NEW i
  PROVE  /\ i \in 1..Len(s) => At(s, i) = s[i] /\ At(s, i) # NoChar
         /\ i \notin 1..Len(s) => At(s, i) = NoChar
  BY DEF At, Char

(* A position with a character is one of the text. *)
LEMMA AtText ==
  ASSUME NEW s \in Seq(Char), NEW i, At(s, i) # NoChar
  PROVE  i \in 1..Len(s) /\ At(s, i) = s[i]
  BY AtChar

LEMMA StartsPair ==
  ASSUME NEW s, NEW i \in Int, NEW a, NEW b
  PROVE  Starts(s, i, <<a, b>>) <=> At(s, i) = a /\ At(s, i + 1) = b
<1>1. Len(<<a, b>>) = 2 /\ <<a, b>>[1] = a /\ <<a, b>>[2] = b
  OBVIOUS
<1>2. 1..2 = {1, 2} /\ i + 1 - 1 = i /\ i + 2 - 1 = i + 1
  OBVIOUS
<1> QED
  BY <1>1, <1>2 DEF Starts

LEMMA StartsTriple ==
  ASSUME NEW s, NEW i \in Int, NEW a, NEW b, NEW c
  PROVE  Starts(s, i, <<a, b, c>>) <=> At(s, i) = a /\ At(s, i + 1) = b /\ At(s, i + 2) = c
<1>1. Len(<<a, b, c>>) = 3 /\ <<a, b, c>>[1] = a /\ <<a, b, c>>[2] = b /\ <<a, b, c>>[3] = c
  OBVIOUS
<1>2. 1..3 = {1, 2, 3} /\ i + 1 - 1 = i /\ i + 2 - 1 = i + 1 /\ i + 3 - 1 = i + 2
  OBVIOUS
<1> QED
  BY <1>1, <1>2 DEF Starts

(* skip stops at the first character that is not one of chars. *)
Skipped(s, i, chars, j) ==
  /\ j \in i..(Len(s) + 1)
  /\ At(s, j) \notin chars
  /\ \A k \in i..(j - 1) : At(s, k) \in chars
LEMMA SkipAllStops ==
  ASSUME NEW s \in Seq(Char), NEW i \in 1..(Len(s) + 1), NEW chars, NoChar \notin chars
  PROVE  Skipped(s, i, chars, SkipAll(s, i, chars))
<1> DEFINE N == {j \in i..(Len(s) + 1) : At(s, j) \notin chars}
<1>0. Len(s) \in Nat
  OBVIOUS
<1>1. N \subseteq Nat
  BY <1>0
<1>2. Len(s) + 1 \in N
  BY <1>0, AtChar
<1> HIDE DEF N
<1>3. PICK j \in N : \A k \in N : j <= k
  BY <1>1, <1>2, LeastMember
<1>4. j \in i..(Len(s) + 1) /\ At(s, j) \notin chars
  BY DEF N
<1>5. ASSUME NEW k \in i..(j - 1) PROVE At(s, k) \in chars
  <2>1. k \in i..(Len(s) + 1) /\ ~ (j <= k)
    BY <1>0, <1>4
  <2> QED
    BY <1>3, <2>1 DEF N
<1>6. \E m \in i..(Len(s) + 1) : At(s, m) \notin chars /\ \A k \in i..(m - 1) : At(s, k) \in chars
  BY <1>4, <1>5
<1> QED
  BY <1>6 DEF SkipAll, Skipped

(* skipUntil stops at the first of chars, or at the end. *)
SkippedUntil(s, i, chars, j) ==
  /\ j \in i..(Len(s) + 1)
  /\ At(s, j) \in chars \union {NoChar}
  /\ \A k \in i..(j - 1) : At(s, k) \notin chars
LEMMA SkipUntilStops ==
  ASSUME NEW s \in Seq(Char), NEW i \in 1..(Len(s) + 1), NEW chars
  PROVE  SkippedUntil(s, i, chars, SkipUntil(s, i, chars))
<1> DEFINE N == {j \in i..(Len(s) + 1) : At(s, j) \in chars \union {NoChar}}
<1>0. Len(s) \in Nat
  OBVIOUS
<1>1. N \subseteq Nat
  BY <1>0
<1>2. Len(s) + 1 \in N
  BY <1>0, AtChar
<1> HIDE DEF N
<1>3. PICK j \in N : \A k \in N : j <= k
  BY <1>1, <1>2, LeastMember
<1>4. j \in i..(Len(s) + 1) /\ At(s, j) \in chars \union {NoChar}
  BY DEF N
<1>5. ASSUME NEW k \in i..(j - 1) PROVE At(s, k) \notin chars
  <2>1. k \in i..(Len(s) + 1) /\ ~ (j <= k)
    BY <1>0, <1>4
  <2> QED
    BY <1>3, <2>1 DEF N
<1>6. \E m \in i..(Len(s) + 1) : At(s, m) \in chars \union {NoChar} /\ \A k \in i..(m - 1) : At(s, k) \notin chars
  BY <1>4, <1>5
<1> QED
  BY <1>6 DEF SkipUntil, SkippedUntil
-----------------------------------------------------------------------------
(* The classes of characters *)
NumberChar == {"0", "1", "2", "3", "4", "5", "6", "7", "8", "9", "a", "b", "c", "d", "e", "f", "n", "x", "r", "s", "u",
               ".", "-", "+"}
LEMMA Quotes ==
  /\ Quote("string") # Quote("character")
  /\ \A m \in {"string", "character"} : Quote(m) \notin {"/", "*", "\\", "\n", NoChar} \union Space \union ContinueIdent \union NumberChar
  BY Zenon DEF Quote, NoChar, Space, ContinueIdent, Alpha, Digits, NumberChar

LEMMA Spaces ==
  /\ "\n" \in Space
  /\ {"/", "*", "\\", NoChar} \cap Space = {}
  /\ NumberChar \cap Space = {}
  /\ ContinueIdent \cap Space = {}
  BY Zenon DEF NoChar, Space, ContinueIdent, Alpha, Digits, NumberChar

LEMMA Idents ==
  /\ StartIdent \subseteq ContinueIdent
  /\ {"/", "*", "\\", "\n", NoChar} \cap ContinueIdent = {}
  BY Zenon DEF NoChar, StartIdent, ContinueIdent, Alpha, Digits
-----------------------------------------------------------------------------
(* The table of operators: the longer ones come first, and only the first  *)
(* character of one can begin a comment.                                   *)
Operator(n) ==
  /\ Len(Oper[n]) = IF n <= 2 THEN 3 ELSE IF n <= 22 THEN 2 ELSE 1
  /\ Oper[n][1] \notin Space \union ContinueIdent \union {Quote("string"), Quote("character"), NoChar}
  /\ n <= 22 => Oper[n][2] \in {"=", "<", ">", "&", "|", "-", "+"}
  /\ n <= 2 => Oper[n][3] \in {"=", "<", ">", "&", "|", "-", "+"}
LEMMA OperTable ==
  DOMAIN Oper = 1..46 /\ \A n \in 1..46 : Operator(n)
<1>0. DOMAIN Oper = 1..46
  BY DEF Oper
<1>1. Operator(1) /\ Operator(2) /\ Operator(3) /\ Operator(4) /\ Operator(5) /\ Operator(6) /\ Operator(7) /\ Operator(8)
  BY DEF Operator, Oper, Space, Quote, NoChar, ContinueIdent, Alpha, Digits
<1>2. Operator(9) /\ Operator(10) /\ Operator(11) /\ Operator(12) /\ Operator(13) /\ Operator(14) /\ Operator(15) /\ Operator(16)
  BY DEF Operator, Oper, Space, Quote, NoChar, ContinueIdent, Alpha, Digits
<1>3. Operator(17) /\ Operator(18) /\ Operator(19) /\ Operator(20) /\ Operator(21) /\ Operator(22) /\ Operator(23) /\ Operator(24)
  BY DEF Operator, Oper, Space, Quote, NoChar, ContinueIdent, Alpha, Digits
<1>4. Operator(25) /\ Operator(26) /\ Operator(27) /\ Operator(28) /\ Operator(29) /\ Operator(30) /\ Operator(31) /\ Operator(32)
  BY DEF Operator, Oper, Space, Quote, NoChar, ContinueIdent, Alpha, Digits
<1>5. Operator(33) /\ Operator(34) /\ Operator(35) /\ Operator(36) /\ Operator(37) /\ Operator(38) /\ Operator(39) /\ Operator(40)
  BY DEF Operator, Oper, Space, Quote, NoChar, ContinueIdent, Alpha, Digits
<1>6. Operator(41) /\ Operator(42) /\ Operator(43) /\ Operator(44) /\ Operator(45) /\ Operator(46)
  BY DEF Operator, Oper, Space, Quote, NoChar, ContinueIdent, Alpha, Digits
<1> QED
  BY <1>0, <1>1, <1>2, <1>3, <1>4, <1>5, <1>6
-----------------------------------------------------------------------------
(* The reference is defined: there is a function that follows ReadNext.    *)
Follows(s, f, n) == f = [i \in 0..n |-> IF i = 0 THEN In("code") ELSE ReadNext(s, f[i - 1], i)]
LEMMA ReadsExist ==
  ASSUME NEW s, NEW n \in Nat
  PROVE  \E f : Follows(s, f, n)
<1> DEFINE S == {k \in Nat : \E f : Follows(s, f, k)}
<1>1. 0 \in S
  <2> DEFINE f == [i \in 0..0 |-> In("code")]
  <2>1. f = [i \in 0..0 |-> IF i = 0 THEN In("code") ELSE ReadNext(s, f[i - 1], i)]
    OBVIOUS
  <2>2. Follows(s, f, 0)
    BY <2>1 DEF Follows
  <2> QED
    BY <2>2
<1>2. ASSUME NEW k \in 0..(n - 1), k \in S PROVE k + 1 \in S
  <2>1. PICK f : Follows(s, f, k)
    BY <1>2
  <2> DEFINE g == [i \in 0..(k + 1) |-> IF i <= k THEN f[i] ELSE ReadNext(s, f[k], k + 1)]
  <2>2. ASSUME NEW i \in 0..(k + 1)
        PROVE  g[i] = IF i = 0 THEN In("code") ELSE ReadNext(s, g[i - 1], i)
    <3>1. CASE i = k + 1
      <4>1. g[i] = ReadNext(s, f[k], k + 1) /\ g[i - 1] = f[k] /\ i - 1 = k /\ i # 0
        BY <3>1
      <4> QED
        BY <3>1, <4>1
    <3>2. CASE i # k + 1
      <4>1. i \in 0..k /\ g[i] = f[i] /\ (i # 0 => g[i - 1] = f[i - 1])
        BY <3>2
      <4>2. f[i] = IF i = 0 THEN In("code") ELSE ReadNext(s, f[i - 1], i)
        BY <2>1, <4>1 DEF Follows
      <4> QED
        BY <4>1, <4>2
    <3> QED
      BY <3>1, <3>2
  <2>3. g = [i \in 0..(k + 1) |-> g[i]]
    OBVIOUS
  <2> HIDE DEF g
  <2>4. g = [i \in 0..(k + 1) |-> IF i = 0 THEN In("code") ELSE ReadNext(s, g[i - 1], i)]
    BY <2>2, <2>3, Zenon
  <2>5. Follows(s, g, k + 1)
    BY <2>4 DEF Follows
  <2> QED
    BY <2>5
<1> HIDE DEF S
<1>3. 0..n \subseteq S
  BY <1>1, <1>2, AlongRange
<1> QED
  BY <1>3 DEF S

(* So Reads(s) follows it. *)
LEMMA ReadsFollow ==
  ASSUME NEW s \in Seq(Char)
  PROVE  /\ Reads(s)[0] = In("code")
         /\ \A i \in 1..Len(s) : Reads(s)[i] = ReadNext(s, Reads(s)[i - 1], i)
<1>1. Len(s) \in Nat
  OBVIOUS
<1>2. \E f : f = [i \in 0..Len(s) |-> IF i = 0 THEN In("code") ELSE ReadNext(s, f[i - 1], i)]
  BY <1>1, ReadsExist DEF Follows
<1>3. Reads(s) = [i \in 0..Len(s) |-> IF i = 0 THEN In("code") ELSE ReadNext(s, Reads(s)[i - 1], i)]
  BY <1>2 DEF Reads
<1> QED
  BY <1>1, <1>3
-----------------------------------------------------------------------------
(* One character of the reference, from each of its states *)
Block(depth, left) == [mode |-> "block", depth |-> depth, left |-> left]
Escaped(mode) == [mode |-> mode, depth |-> 0, left |-> 1]
Clear == {In("code"), In("closed"), Block(0, 0)}
Quoted == {"string", "character"}

LEMMA FromClear ==
  ASSUME NEW s, NEW r \in Clear, NEW i \in Nat
  PROVE  ReadNext(s, r, i) = ReadOutside(s, i)
  BY DEF ReadNext, Clear, In, Block, Outside

(* A character that begins neither a comment nor a quote is code. *)
LEMMA ReadPlain ==
  ASSUME NEW s, NEW r \in Clear, NEW i \in Nat,
         At(s, i) \notin {Quote("string"), Quote("character")},
         At(s, i) = "/" => At(s, i + 1) \notin {"/", "*"}
  PROVE  ReadNext(s, r, i) = In("code")
<1>1. ~ Starts(s, i, <<"/", "/">>) /\ ~ Starts(s, i, <<"/", "*">>)
  BY StartsPair
<1> QED
  BY <1>1, FromClear DEF ReadOutside, ReadInBlock, In

LEMMA ReadLine ==
  ASSUME NEW s, NEW i \in Nat
  PROVE  /\ \A r \in Clear : Starts(s, i, <<"/", "/">>) => ReadNext(s, r, i) = In("line")
         /\ At(s, i) # "\n" => ReadNext(s, In("line"), i) = In("line")
         /\ At(s, i) = "\n" => ReadNext(s, In("line"), i) = In("code")
<1>1. \A r \in Clear : Starts(s, i, <<"/", "/">>) => ReadNext(s, r, i) = In("line")
  BY FromClear DEF ReadOutside
<1>2. /\ At(s, i) # "\n" => ReadNext(s, In("line"), i) = In("line")
      /\ At(s, i) = "\n" => ReadNext(s, In("line"), i) = In("code")
  BY DEF ReadNext, In
<1> QED
  BY <1>1, <1>2

LEMMA ReadBlock ==
  ASSUME NEW s, NEW i \in Nat
  PROVE  /\ \A r \in Clear : Starts(s, i, <<"/", "*">>) => ReadNext(s, r, i) = Block(1, 1)
         /\ \A d \in Nat : ReadNext(s, Block(d, 1), i) = Block(d, 0)
         /\ \A d \in Nat \ {0} :
              /\ Starts(s, i, <<"/", "*">>) => ReadNext(s, Block(d, 0), i) = Block(d + 1, 1)
              /\ Starts(s, i, <<"*", "/">>) => ReadNext(s, Block(d, 0), i) = Block(d - 1, 1)
              /\ ~ Starts(s, i, <<"/", "*">>) /\ ~ Starts(s, i, <<"*", "/">>) => ReadNext(s, Block(d, 0), i) = Block(d, 0)
<1>1. ASSUME NEW r \in Clear, Starts(s, i, <<"/", "*">>) PROVE ReadNext(s, r, i) = Block(1, 1)
  <2>1. At(s, i) = "/" /\ ~ Starts(s, i, <<"/", "/">>)
    BY <1>1, StartsPair
  <2>2. At(s, i) \notin {Quote("string"), Quote("character")}
    BY <2>1, Quotes
  <2>3. ReadOutside(s, i) = ReadInBlock(s, i, 0)
    BY <2>1, <2>2 DEF ReadOutside
  <2>4. ReadInBlock(s, i, 0) = Block(1, 1)
    BY <1>1 DEF ReadInBlock, Block
  <2> QED
    BY <2>3, <2>4, FromClear
<1>2. \A d \in Nat : ReadNext(s, Block(d, 1), i) = Block(d, 0)
  BY DEF ReadNext, Block
<1>3. ASSUME NEW d \in Nat \ {0} PROVE ReadNext(s, Block(d, 0), i) = ReadInBlock(s, i, d)
  BY DEF ReadNext, Block, Outside
<1>4. ~ (Starts(s, i, <<"/", "*">>) /\ Starts(s, i, <<"*", "/">>))
  BY StartsPair
<1>5. ASSUME NEW d \in Nat \ {0}
      PROVE  /\ Starts(s, i, <<"/", "*">>) => ReadInBlock(s, i, d) = Block(d + 1, 1)
             /\ Starts(s, i, <<"*", "/">>) => ReadInBlock(s, i, d) = Block(d - 1, 1)
             /\ ~ Starts(s, i, <<"/", "*">>) /\ ~ Starts(s, i, <<"*", "/">>) => ReadInBlock(s, i, d) = Block(d, 0)
  BY <1>4 DEF ReadInBlock, Block
<1> QED
  BY <1>1, <1>2, <1>3, <1>5

LEMMA ReadQuoted ==
  ASSUME NEW s, NEW i \in Nat, NEW m \in Quoted
  PROVE  /\ \A r \in Clear : At(s, i) = Quote(m) => ReadNext(s, r, i) = In(m)
         /\ ReadNext(s, Escaped(m), i) = In(m)
         /\ At(s, i) = "\\" => ReadNext(s, In(m), i) = Escaped(m)
         /\ At(s, i) = Quote(m) => ReadNext(s, In(m), i) = In("closed")
         /\ At(s, i) \notin {"\\", Quote(m)} => ReadNext(s, In(m), i) = In(m)
<1>1. ASSUME NEW r \in Clear, At(s, i) = Quote(m) PROVE ReadNext(s, r, i) = In(m)
  <2>1. At(s, i) # "/"
    BY <1>1, Quotes DEF Quoted
  <2>2. ~ Starts(s, i, <<"/", "/">>)
    BY <2>1, StartsPair
  <2>3. ReadOutside(s, i) = In(m)
    BY <1>1, <2>2, Quotes DEF ReadOutside, Quoted
  <2> QED
    BY <2>3, FromClear
<1>2. ReadNext(s, Escaped(m), i) = In(m)
  BY DEF ReadNext, Escaped, In
<1>3. Quote(m) # "\\"
  BY Quotes DEF Quoted
<1>4. ReadNext(s, In(m), i) = ReadInQuotes(In(m), At(s, i))
  BY DEF ReadNext, In, Quoted
<1>5. /\ In(m).mode = m
      /\ [In(m) EXCEPT !.left = 1] = Escaped(m)
  BY DEF In, Escaped
<1>6. /\ At(s, i) = "\\" => ReadInQuotes(In(m), At(s, i)) = Escaped(m)
      /\ At(s, i) = Quote(m) => ReadInQuotes(In(m), At(s, i)) = In("closed")
      /\ At(s, i) \notin {"\\", Quote(m)} => ReadInQuotes(In(m), At(s, i)) = In(m)
  BY <1>3, <1>5 DEF ReadInQuotes
<1> QED
  BY <1>1, <1>2, <1>4, <1>6
-----------------------------------------------------------------------------
(* Runs of characters of the reference *)
LEMMA ReadsRun ==
  ASSUME NEW s \in Seq(Char), NEW a \in Nat, NEW b \in Int, b <= Len(s), NEW V, Reads(s)[a] \in V,
         \A k \in (a + 1)..b : \A r \in V : ReadNext(s, r, k) \in V
  PROVE  \A k \in a..b : Reads(s)[k] \in V
<1> DEFINE S == {k \in Nat : Reads(s)[k] \in V}
<1>0. Len(s) \in Nat
  OBVIOUS
<1>1. a \in S
  OBVIOUS
<1>2. ASSUME NEW k \in a..(b - 1), k \in S PROVE k + 1 \in S
  <2>1. k + 1 \in (a + 1)..b /\ k + 1 \in 1..Len(s) /\ (k + 1) - 1 = k /\ k + 1 \in Nat
    BY <1>0
  <2>2. Reads(s)[k + 1] = ReadNext(s, Reads(s)[k], k + 1)
    BY <2>1, ReadsFollow
  <2>3. ReadNext(s, Reads(s)[k], k + 1) \in V
    BY <1>2, <2>1
  <2> QED
    BY <2>1, <2>2, <2>3
<1> HIDE DEF S
<1>3. a..b \subseteq S
  BY <1>1, <1>2, AlongRange
<1> QED
  BY <1>3 DEF S

(* What is read next *)
LEMMA ReadsNext ==
  ASSUME NEW s \in Seq(Char), NEW k \in 1..Len(s)
  PROVE  Reads(s)[k] = ReadNext(s, Reads(s)[k - 1], k)
  BY ReadsFollow

(* The last character of a comment is a slash. *)
Modes == {"code", "closed", "line", "string", "character", "block"}
ReadForm(s, k) ==
  LET was == Reads(s)[k]
  IN /\ was \in [mode : Modes, depth : Nat, left : {0, 1}]
     /\ was = Block(0, 1) => At(s, k + 1) = "/"
     /\ was = Block(0, 0) => At(s, k) = "/"
LEMMA ReadFormNext ==
  ASSUME NEW s \in Seq(Char), NEW k \in 1..Len(s), ReadForm(s, k - 1)
  PROVE  ReadForm(s, k)
<1> DEFINE was == Reads(s)[k - 1]
           now == Reads(s)[k]
           Form == [mode : Modes, depth : Nat, left : {0, 1}]
<1>1. now = ReadNext(s, was, k) /\ (k - 1) + 1 = k /\ k \in Nat
  BY ReadsNext
<1>2. was \in Form /\ (was = Block(0, 1) => At(s, k) = "/")
  BY <1>1 DEF ReadForm
<1> HIDE DEF was, now
<1> SUFFICES /\ now \in Form
             /\ now = Block(0, 1) => At(s, k + 1) = "/"
             /\ now = Block(0, 0) => At(s, k) = "/"
  BY DEF ReadForm, now
<1>3. \A m \in Modes \ {"block"} : In(m) \in Form /\ \A d, l : In(m) # Block(d, l)
  BY DEF In, Block, Modes
<1>4. ASSUME NEW d \in Nat
      PROVE  LET b == ReadInBlock(s, k, d)
             IN b \in Form /\ b # Block(0, 0) /\ (b = Block(0, 1) => At(s, k + 1) = "/")
  <2>1. CASE Starts(s, k, <<"/", "*">>)
    <3>1. ReadInBlock(s, k, d) = Block(d + 1, 1)
      BY <2>1 DEF ReadInBlock, Block
    <3>2. Block(d + 1, 1).depth = d + 1 /\ Block(0, 1).depth = 0 /\ Block(0, 0).depth = 0 /\ d + 1 # 0
      BY DEF Block
    <3>3. Block(d + 1, 1) \in Form
      BY DEF Block, Modes
    <3> QED
      BY <3>1, <3>2, <3>3
  <2>2. CASE ~ Starts(s, k, <<"/", "*">>) /\ d > 0 /\ Starts(s, k, <<"*", "/">>)
    <3>1. ReadInBlock(s, k, d) = Block(d - 1, 1)
      BY <2>2 DEF ReadInBlock, Block
    <3>2. Block(d - 1, 1).left = 1 /\ Block(0, 0).left = 0
      BY DEF Block
    <3>3. Block(d - 1, 1) \in Form
      BY <2>2 DEF Block, Modes
    <3>4. At(s, k + 1) = "/"
      BY <1>1, <2>2, StartsPair
    <3> QED
      BY <3>1, <3>2, <3>3, <3>4
  <2>3. CASE ~ Starts(s, k, <<"/", "*">>) /\ ~ (d > 0 /\ Starts(s, k, <<"*", "/">>))
    <3> DEFINE b == ReadInBlock(s, k, d)
    <3>1. b = [mode |-> IF d > 0 THEN "block" ELSE "code", depth |-> d, left |-> 0]
      BY <2>3 DEF ReadInBlock
    <3> HIDE DEF b
    <3>2. b \in Form /\ b.left = 0 /\ b.depth = d /\ (b.mode = "block" => d > 0)
      BY <3>1 DEF Modes
    <3>3. Block(0, 1).left = 1 /\ Block(0, 0).depth = 0 /\ Block(0, 0).mode = "block"
      BY DEF Block
    <3>4. b # Block(0, 1) /\ b # Block(0, 0)
      BY <3>2, <3>3
    <3> QED
      BY <3>2, <3>4 DEF b
  <2> QED
    BY <2>1, <2>2, <2>3
<1>5. CASE was.left = 1
  <2>1. now = [was EXCEPT !.left = 0]
    BY <1>1, <1>5 DEF ReadNext
  <2>2. now \in Form /\ now.left = 0 /\ now.mode = was.mode /\ now.depth = was.depth
    BY <1>2, <2>1
  <2>3. ASSUME now = Block(0, 0) PROVE At(s, k) = "/"
    <3>1. was.mode = "block" /\ was.depth = 0
      BY <2>2, <2>3 DEF Block
    <3>2. was = Block(0, 1)
      BY <1>2, <1>5, <3>1 DEF Block
    <3> QED
      BY <1>2, <3>2
  <2>4. now # Block(0, 1)
    BY <2>2 DEF Block
  <2> QED
    BY <2>2, <2>3, <2>4
<1>6. CASE was.left # 1 /\ was.mode = "line"
  <2>1. now = In("code") \/ now = was
    BY <1>1, <1>6 DEF ReadNext
  <2>2. \A d, l : Block(d, l).mode = "block"
    BY DEF Block
  <2>3. \A d, l : was # Block(d, l)
    BY <1>6, <2>2
  <2> QED
    BY <1>2, <1>3, <2>1, <2>3 DEF Modes
<1>7. CASE was.left # 1 /\ was.mode \in Quoted
  <2>1. now = [was EXCEPT !.left = 1] \/ now = In("closed") \/ now = was
    BY <1>1, <1>7 DEF ReadNext, ReadInQuotes, Quoted
  <2>2. \A d, l : Block(d, l).mode = "block"
    BY DEF Block
  <2>3. [was EXCEPT !.left = 1] \in Form /\ [was EXCEPT !.left = 1].mode = was.mode
    BY <1>2
  <2>4. \A d, l : was # Block(d, l) /\ [was EXCEPT !.left = 1] # Block(d, l)
    BY <1>7, <2>2, <2>3 DEF Quoted
  <2> QED
    BY <1>2, <1>3, <2>1, <2>3, <2>4 DEF Modes
<1>8. CASE was.left # 1 /\ was.mode \notin Quoted \union {"line"}
  <2>1. now \in {In("line"), In("string"), In("character")} \/ \E d \in Nat : now = ReadInBlock(s, k, d)
    <3>1. CASE Outside(was)
      <4>1. now = ReadOutside(s, k)
        BY <1>1, <1>8, <3>1 DEF ReadNext, Quoted
      <4> QED
        BY <4>1 DEF ReadOutside
    <3>2. CASE ~ Outside(was)
      <4>1. now = ReadInBlock(s, k, was.depth)
        BY <1>1, <1>8, <3>2 DEF ReadNext, Quoted
      <4> QED
        BY <1>2, <4>1
    <3> QED
      BY <3>1, <3>2
  <2> QED
    BY <1>3, <1>4, <2>1 DEF Modes
<1> QED
  BY <1>5, <1>6, <1>7, <1>8

LEMMA ClosedBySlash ==
  ASSUME NEW s \in Seq(Char), NEW k \in 1..Len(s), Reads(s)[k] = Block(0, 0)
  PROVE  At(s, k) = "/"
<1> DEFINE S == {i \in Nat : ReadForm(s, i)}
<1>1. 0 \in S
  <2>1. Reads(s)[0] = In("code")
    BY ReadsFollow
  <2>2. In("code") \in [mode : Modes, depth : Nat, left : {0, 1}] /\ \A d, l : In("code") # Block(d, l)
    BY DEF In, Block, Modes
  <2> QED
    BY <2>1, <2>2 DEF ReadForm
<1>2. ASSUME NEW i \in 0..(Len(s) - 1), i \in S PROVE i + 1 \in S
  <2>1. i + 1 \in 1..Len(s) /\ (i + 1) - 1 = i /\ i + 1 \in Nat
    OBVIOUS
  <2> QED
    BY <1>2, <2>1, ReadFormNext
<1> HIDE DEF S
<1>3. Len(s) \in Int /\ 0 \in Nat
  OBVIOUS
<1>4. 0..Len(s) \subseteq S
  BY <1>1, <1>2, <1>3, AlongRange
<1>5. k \in S
  BY <1>4
<1> QED
  BY <1>5 DEF S, ReadForm

(* The characters from i to e - 1 are those of a token that is no string:  *)
(* only the first may be a slash, and it begins no comment.                *)
TokenText(s, i, e) ==
  /\ e \in (i + 1)..(Len(s) + 1)
  /\ \A k \in i..(e - 1) :
       /\ At(s, k) \notin Space \union {Quote("string"), Quote("character")}
       /\ At(s, k) = "/" => k = i /\ At(s, i + 1) \notin {"/", "*"}
LEMMA CodeRun ==
  ASSUME NEW s \in Seq(Char), NEW i \in 1..Len(s), NEW e, TokenText(s, i, e), Reads(s)[i - 1] \in Clear
  PROVE  /\ \A k \in i..(e - 1) : OfToken(Reads(s)[k], At(s, k))
         /\ Reads(s)[e - 1] \in Clear
<1>0. Len(s) \in Nat /\ i - 1 \in Nat /\ e - 1 \in Int /\ e - 1 <= Len(s) /\ (i - 1) + 1 = i /\ e - 1 \in (i - 1)..(e - 1)
  BY DEF TokenText
<1>1. ASSUME NEW k \in i..(e - 1), NEW r \in Clear PROVE ReadNext(s, r, k) = In("code")
  <2>1. At(s, k) \notin {Quote("string"), Quote("character")}
    BY DEF TokenText
  <2>2. At(s, k) = "/" => At(s, k + 1) \notin {"/", "*"}
    BY DEF TokenText
  <2>3. k \in Nat
    OBVIOUS
  <2> QED
    BY <2>1, <2>2, <2>3, ReadPlain
<1>2. In("code") \in Clear
  BY DEF Clear
<1>3. \A k \in (i - 1)..(e - 1) : Reads(s)[k] \in Clear
  <2>1. \A k \in ((i - 1) + 1)..(e - 1) : \A r \in Clear : ReadNext(s, r, k) \in Clear
    BY <1>0, <1>1, <1>2
  <2> QED
    BY <1>0, <2>1, ReadsRun
<1>4. ASSUME NEW k \in i..(e - 1) PROVE OfToken(Reads(s)[k], At(s, k))
  <2>1. k \in 1..Len(s) /\ k - 1 \in (i - 1)..(e - 1)
    BY <1>0
  <2>2. Reads(s)[k] = In("code")
    BY <1>1, <1>3, <2>1, ReadsNext
  <2>3. At(s, k) \notin Space
    BY DEF TokenText
  <2>4. In("code").mode = "code"
    BY DEF In
  <2> QED
    BY <2>2, <2>3, <2>4 DEF OfToken
<1> QED
  BY <1>0, <1>3, <1>4

(* Where tokenize begins a turn: outside, or at the end of a line comment *)
AtCode(s, p) == Reads(s)[p - 1] \in Clear \/ (Reads(s)[p - 1] = In("line") /\ At(s, p) \in {"\n", NoChar})
LEMMA SpaceRun ==
  ASSUME NEW s \in Seq(Char), NEW p \in 1..(Len(s) + 1), AtCode(s, p), NEW j, Skipped(s, p, Space, j)
  PROVE  /\ \A k \in p..(j - 1) : ~ OfToken(Reads(s)[k], At(s, k))
         /\ j <= Len(s) => Reads(s)[j - 1] \in Clear
<1>0. Len(s) \in Nat /\ j \in Nat /\ j <= Len(s) + 1 /\ p <= j /\ p - 1 \in Nat
  BY DEF Skipped
<1> DEFINE V == Clear \union {In("line")}
<1>1. ASSUME NEW k \in p..(j - 1), NEW r \in Clear PROVE ReadNext(s, r, k) = In("code")
  <2>1. At(s, k) \in Space
    BY DEF Skipped
  <2>2. At(s, k) \notin {Quote("string"), Quote("character"), "/"}
    BY <2>1, Quotes, Spaces
  <2>3. k \in Nat
    OBVIOUS
  <2> QED
    BY <2>2, <2>3, ReadPlain
<1>2. In("code") \in Clear /\ In("code").mode = "code"
  BY DEF Clear, In
<1>3. CASE p = j
  <2>1. j <= Len(s) => At(s, p) \notin {"\n", NoChar}
    BY <1>0, <1>3, AtChar, Spaces DEF Skipped
  <2> QED
    BY <1>0, <1>3, <2>1 DEF AtCode
<1>4. CASE p # j
  <2>1. p \in 1..Len(s) /\ p \in p..(j - 1) /\ At(s, p) \in Space
    BY <1>0, <1>4 DEF Skipped
  <2>2. Reads(s)[p - 1] = In("line") => At(s, p) = "\n" \/ Reads(s)[p - 1] \in Clear
    BY <2>1, AtChar DEF AtCode
  <2>3. Reads(s)[p] = In("code")
    BY <1>1, <2>1, <2>2, ReadsNext, ReadLine DEF AtCode
  <2>4. \A k \in (p + 1)..(j - 1) : \A r \in Clear : ReadNext(s, r, k) \in Clear
    BY <1>1, <1>2
  <2>5. p \in Nat /\ j - 1 \in Int /\ j - 1 <= Len(s)
    BY <1>0, <2>1
  <2>6. \A k \in p..(j - 1) : Reads(s)[k] \in Clear
    BY <1>2, <2>3, <2>4, <2>5, ReadsRun
  <2>7. ASSUME NEW k \in p..(j - 1) PROVE Reads(s)[k] = In("code")
    <3>1. CASE k = p
      BY <2>3, <3>1
    <3>2. CASE k # p
      <4>1. k \in 1..Len(s) /\ k - 1 \in p..(j - 1)
        BY <1>0, <3>2
      <4> QED
        BY <1>1, <2>6, <4>1, ReadsNext
    <3> QED
      BY <3>1, <3>2
  <2>8. ASSUME NEW k \in p..(j - 1) PROVE ~ OfToken(Reads(s)[k], At(s, k))
    <3>1. Reads(s)[k].mode = "code" /\ At(s, k) \in Space
      BY <1>2, <2>7 DEF Skipped
    <3> QED
      BY <3>1 DEF OfToken
  <2>9. j - 1 \in p..(j - 1)
    BY <1>0, <2>1
  <2> QED
    BY <2>6, <2>8, <2>9
<1> QED
  BY <1>3, <1>4
(* parseLineComment passes a line comment. *)
LEMMA LineRun ==
  ASSUME NEW s \in Seq(Char), NEW i \in 1..Len(s), Reads(s)[i - 1] \in Clear, Starts(s, i, <<"/", "/">>),
         NEW j, SkippedUntil(s, i + 2, {"\n"}, j)
  PROVE  /\ \A k \in i..(j - 1) : ~ OfToken(Reads(s)[k], At(s, k))
         /\ AtCode(s, j)
<1>0. Len(s) \in Nat /\ j \in Nat /\ j <= Len(s) + 1 /\ i + 2 <= j
  BY DEF SkippedUntil
<1>1. Reads(s)[i] = In("line")
  BY ReadsNext, ReadLine
<1>2. At(s, i + 1) # "\n"
  BY StartsPair
<1>3. ASSUME NEW k \in (i + 1)..(j - 1) PROVE At(s, k) # "\n"
  <2>1. k = i + 1 \/ k \in (i + 2)..(j - 1)
    BY <1>0
  <2> QED
    BY <1>2, <2>1 DEF SkippedUntil
<1>4. ASSUME NEW k \in (i + 1)..(j - 1) PROVE \A r \in {In("line")} : ReadNext(s, r, k) \in {In("line")}
  <2>1. k \in Nat
    OBVIOUS
  <2> QED
    BY <1>3, <2>1, ReadLine
<1>5. i \in Nat /\ j - 1 \in Int /\ j - 1 <= Len(s) /\ j - 1 \in i..(j - 1)
  BY <1>0
<1>6. \A k \in i..(j - 1) : Reads(s)[k] \in {In("line")}
  BY <1>1, <1>4, <1>5, ReadsRun
<1>7. In("line").mode = "line"
  BY DEF In
<1>8. ASSUME NEW k \in i..(j - 1) PROVE ~ OfToken(Reads(s)[k], At(s, k))
  BY <1>6, <1>7 DEF OfToken
<1> QED
  BY <1>5, <1>6, <1>8 DEF AtCode, SkippedUntil

LEMMA SecondOfPair ==
  ASSUME NEW s \in Seq(Char), NEW j \in Nat, j + 1 \in 1..Len(s), NEW d \in Nat, Reads(s)[j] = Block(d, 1)
  PROVE  Reads(s)[j + 1] = Block(d, 0)
<1>1. (j + 1) - 1 = j /\ j + 1 \in Nat
  OBVIOUS
<1>2. Reads(s)[j + 1] = ReadNext(s, Reads(s)[j], j + 1)
  BY <1>1, ReadsNext
<1>3. ReadNext(s, Block(d, 1), j + 1) = Block(d, 0)
  BY <1>1, ReadBlock
<1> QED
  BY <1>2, <1>3

(* parseMultiComment begins a comment. *)
LEMMA BlockBegins ==
  ASSUME NEW s \in Seq(Char), NEW i \in 1..Len(s), Reads(s)[i - 1] \in Clear, Starts(s, i, <<"/", "*">>)
  PROVE  /\ i + 2 <= Len(s) + 1
         /\ \A k \in i..(i + 1) : ~ OfToken(Reads(s)[k], At(s, k))
         /\ Reads(s)[i + 1] = Block(1, 0)
<1>0. Len(s) \in Nat
  OBVIOUS
<1>1. At(s, i + 1) # NoChar
  BY StartsPair DEF NoChar
<1>2. i + 1 \in 1..Len(s)
  BY <1>1, AtText
<1>3. Reads(s)[i] = Block(1, 1)
  BY ReadsNext, ReadBlock
<1>4. Reads(s)[i + 1] = Block(1, 0)
  BY <1>2, <1>3, SecondOfPair
<1>5. Block(1, 1).mode = "block" /\ Block(1, 0).mode = "block"
  BY DEF Block
<1>6. ASSUME NEW k \in i..(i + 1) PROVE ~ OfToken(Reads(s)[k], At(s, k))
  <2>1. k = i \/ k = i + 1
    OBVIOUS
  <2>2. Reads(s)[k].mode = "block"
    BY <1>3, <1>4, <1>5, <2>1
  <2> QED
    BY <2>2 DEF OfToken
<1> QED
  BY <1>0, <1>2, <1>4, <1>6

(* It passes what is no star and no slash. *)
LEMMA BlockRun ==
  ASSUME NEW s \in Seq(Char), NEW p \in 1..(Len(s) + 1), NEW d \in Nat \ {0}, Reads(s)[p - 1] = Block(d, 0),
         NEW j, SkippedUntil(s, p, {"*", "/"}, j)
  PROVE  /\ \A k \in p..(j - 1) : Reads(s)[k] = Block(d, 0)
         /\ Reads(s)[j - 1] = Block(d, 0)
<1>0. Len(s) \in Nat /\ j \in Nat /\ j <= Len(s) + 1 /\ p <= j /\ p - 1 \in Nat /\ j - 1 \in Int /\ j - 1 <= Len(s)
  BY DEF SkippedUntil
<1>1. ASSUME NEW k \in ((p - 1) + 1)..(j - 1) PROVE \A r \in {Block(d, 0)} : ReadNext(s, r, k) \in {Block(d, 0)}
  <2>1. k \in Nat /\ k \in p..(j - 1)
    OBVIOUS
  <2>2. At(s, k) \notin {"*", "/"}
    BY <2>1 DEF SkippedUntil
  <2>3. ~ Starts(s, k, <<"*", "/">>) /\ ~ Starts(s, k, <<"/", "*">>)
    BY <2>1, <2>2, StartsPair
  <2> QED
    BY <2>1, <2>3, ReadBlock
<1>2. \A k \in (p - 1)..(j - 1) : Reads(s)[k] \in {Block(d, 0)}
  BY <1>0, <1>1, ReadsRun
<1>3. j - 1 \in (p - 1)..(j - 1) /\ p..(j - 1) \subseteq (p - 1)..(j - 1)
  BY <1>0
<1> QED
  BY <1>2, <1>3

(* It goes one level up or down at a pair, and passes a single character. *)
LEMMA BlockPair ==
  ASSUME NEW s \in Seq(Char), NEW j \in 1..(Len(s) + 1), NEW d \in Nat \ {0}, Reads(s)[j - 1] = Block(d, 0)
  PROVE  /\ Starts(s, j, <<"*", "/">>) =>
              j + 1 \in 1..Len(s) /\ Reads(s)[j] = Block(d - 1, 1) /\ Reads(s)[j + 1] = Block(d - 1, 0)
         /\ Starts(s, j, <<"/", "*">>) =>
              j + 1 \in 1..Len(s) /\ Reads(s)[j] = Block(d + 1, 1) /\ Reads(s)[j + 1] = Block(d + 1, 0)
         /\ j \in 1..Len(s) /\ ~ Starts(s, j, <<"*", "/">>) /\ ~ Starts(s, j, <<"/", "*">>) => Reads(s)[j] = Block(d, 0)
<1>0. Len(s) \in Nat /\ j \in Nat /\ (j + 1) - 1 = j /\ d - 1 \in Nat /\ d + 1 \in Nat
  OBVIOUS
<1>1. CASE Starts(s, j, <<"*", "/">>)
  <2>1. At(s, j + 1) # NoChar /\ At(s, j) # NoChar /\ ~ Starts(s, j, <<"/", "*">>)
    BY <1>1, StartsPair DEF NoChar
  <2>2. j + 1 \in 1..Len(s) /\ j \in 1..Len(s)
    BY <2>1, AtText
  <2>3. ReadNext(s, Block(d, 0), j) = Block(d - 1, 1)
    BY <1>0, <1>1, ReadBlock
  <2>4. Reads(s)[j] = Block(d - 1, 1)
    BY <2>2, <2>3, ReadsNext
  <2>5. Reads(s)[j + 1] = Block(d - 1, 0)
    BY <1>0, <2>2, <2>4, SecondOfPair
  <2> QED
    BY <1>1, <2>1, <2>2, <2>4, <2>5
<1>2. CASE Starts(s, j, <<"/", "*">>)
  <2>1. At(s, j + 1) # NoChar /\ At(s, j) # NoChar /\ ~ Starts(s, j, <<"*", "/">>)
    BY <1>2, StartsPair DEF NoChar
  <2>2. j + 1 \in 1..Len(s) /\ j \in 1..Len(s)
    BY <2>1, AtText
  <2>3. ReadNext(s, Block(d, 0), j) = Block(d + 1, 1)
    BY <1>0, <1>2, ReadBlock
  <2>4. Reads(s)[j] = Block(d + 1, 1)
    BY <2>2, <2>3, ReadsNext
  <2>5. Reads(s)[j + 1] = Block(d + 1, 0)
    BY <1>0, <2>2, <2>4, SecondOfPair
  <2> QED
    BY <1>2, <2>1, <2>2, <2>4, <2>5
<1>3. CASE ~ Starts(s, j, <<"*", "/">>) /\ ~ Starts(s, j, <<"/", "*">>)
  BY <1>0, <1>3, ReadsNext, ReadBlock
<1> QED
  BY <1>1, <1>2, <1>3

(* parseString and parseChar pass what is no quote, backslash or newline. *)
LEMMA QuoteRun ==
  ASSUME NEW s \in Seq(Char), NEW p \in 1..(Len(s) + 1), NEW m \in Quoted, Reads(s)[p - 1] = In(m),
         NEW j, SkippedUntil(s, p, {"\n", "\\", Quote(m)}, j)
  PROVE  /\ \A k \in p..(j - 1) : Reads(s)[k] = In(m)
         /\ Reads(s)[j - 1] = In(m)
<1>0. Len(s) \in Nat /\ j \in Nat /\ j <= Len(s) + 1 /\ p <= j /\ p - 1 \in Nat /\ j - 1 \in Int /\ j - 1 <= Len(s)
  BY DEF SkippedUntil
<1>1. ASSUME NEW k \in ((p - 1) + 1)..(j - 1) PROVE \A r \in {In(m)} : ReadNext(s, r, k) \in {In(m)}
  <2>1. k \in Nat /\ k \in p..(j - 1)
    OBVIOUS
  <2>2. At(s, k) \notin {"\\", Quote(m)}
    BY <2>1 DEF SkippedUntil
  <2> QED
    BY <2>1, <2>2, ReadQuoted
<1>2. \A k \in (p - 1)..(j - 1) : Reads(s)[k] \in {In(m)}
  BY <1>0, <1>1, ReadsRun
<1>3. j - 1 \in (p - 1)..(j - 1) /\ p..(j - 1) \subseteq (p - 1)..(j - 1)
  BY <1>0
<1> QED
  BY <1>2, <1>3
-----------------------------------------------------------------------------
(* The tokens so far are what stands outside of comments before p. *)
TokenRecord == [kind : {"keyword", "number", "oper", "ident", "string", "character"}, beg : Nat, end : Nat]
Told(s, tokens, p) ==
  /\ tokens \in Seq(TokenRecord)
  /\ \A n \in 1..Len(tokens) : tokens[n].end <= p
  /\ \A n \in 1..(Len(tokens) - 1) : tokens[n].end <= tokens[n + 1].beg
  /\ \A i \in 1..(p - 1) : InToken(tokens, i) <=> OfToken(Reads(s)[i], At(s, i))

LEMMA NotYet ==
  ASSUME NEW s, NEW tokens, NEW p \in Nat, Told(s, tokens, p), NEW i \in Nat, p <= i
  PROVE  ~ InToken(tokens, i)
<1> SUFFICES ASSUME NEW n \in DOMAIN tokens, i \in tokens[n].beg..(tokens[n].end - 1) PROVE FALSE
  BY DEF InToken
<1>1. n \in 1..Len(tokens) /\ tokens[n] \in TokenRecord
  BY DEF Told
<1>2. tokens[n].end <= p /\ tokens[n].end \in Nat /\ tokens[n].beg \in Nat
  BY <1>1 DEF Told, TokenRecord
<1> QED
  BY <1>2

(* Nothing is told of what is passed over. *)
LEMMA ToldOn ==
  ASSUME NEW s, NEW tokens, NEW p \in Nat, Told(s, tokens, p), NEW q \in Nat, p <= q,
         \A k \in p..(q - 1) : ~ OfToken(Reads(s)[k], At(s, k))
  PROVE  Told(s, tokens, q)
<1>1. ASSUME NEW i \in 1..(q - 1) PROVE InToken(tokens, i) <=> OfToken(Reads(s)[i], At(s, i))
  <2>1. CASE i < p
    BY <2>1 DEF Told
  <2>2. CASE p <= i
    <3>1. i \in p..(q - 1) /\ i \in Nat
      BY <2>2
    <3>2. ~ InToken(tokens, i)
      BY <2>2, <3>1, NotYet
    <3> QED
      BY <3>1, <3>2
  <2> QED
    BY <2>1, <2>2
<1>2. ASSUME NEW n \in 1..Len(tokens) PROVE tokens[n].end <= q
  <2>1. tokens[n] \in TokenRecord /\ tokens[n].end <= p
    BY DEF Told
  <2>2. tokens[n].end \in Nat
    BY <2>1 DEF TokenRecord
  <2> QED
    BY <2>1, <2>2
<1> QED
  BY <1>1, <1>2 DEF Told

(* A token that is pushed is told of. *)
LEMMA InTokenPushed ==
  ASSUME NEW tokens \in Seq(TokenRecord), NEW t \in TokenRecord, NEW i
  PROVE  InToken(Append(tokens, t), i) <=> InToken(tokens, i) \/ i \in t.beg..(t.end - 1)
<1> DEFINE more == Append(tokens, t)
<1>1. /\ more \in Seq(TokenRecord) /\ Len(more) = Len(tokens) + 1
      /\ \A m \in 1..Len(tokens) : more[m] = tokens[m]
      /\ more[Len(tokens) + 1] = t
  BY OneMore
<1>2. DOMAIN more = 1..(Len(tokens) + 1) /\ DOMAIN tokens = 1..Len(tokens) /\ Len(tokens) \in Nat
  BY <1>1
<1> HIDE DEF more
<1>3. \A n : n \in DOMAIN more <=> n \in DOMAIN tokens \/ n = Len(tokens) + 1
  BY <1>2
<1>4. ASSUME InToken(more, i) PROVE InToken(tokens, i) \/ i \in t.beg..(t.end - 1)
  <2>1. PICK n \in DOMAIN more : i \in more[n].beg..(more[n].end - 1)
    BY <1>4 DEF InToken
  <2>2. CASE n = Len(tokens) + 1
    BY <1>1, <2>1, <2>2
  <2>3. CASE n # Len(tokens) + 1
    <3>1. n \in DOMAIN tokens /\ more[n] = tokens[n]
      BY <1>1, <1>2, <1>3, <2>3
    <3> QED
      BY <2>1, <3>1 DEF InToken
  <2> QED
    BY <2>2, <2>3
<1>5. ASSUME InToken(tokens, i) PROVE InToken(more, i)
  <2>1. PICK n \in DOMAIN tokens : i \in tokens[n].beg..(tokens[n].end - 1)
    BY <1>5 DEF InToken
  <2>2. n \in DOMAIN more /\ more[n] = tokens[n]
    BY <1>1, <1>2, <1>3
  <2> QED
    BY <2>1, <2>2 DEF InToken
<1>6. ASSUME i \in t.beg..(t.end - 1) PROVE InToken(more, i)
  <2>1. Len(tokens) + 1 \in DOMAIN more
    BY <1>3
  <2> QED
    BY <1>1, <1>6, <2>1 DEF InToken
<1> QED
  BY <1>4, <1>5, <1>6 DEF more
LEMMA ToldMore ==
  ASSUME NEW s, NEW tokens, NEW p \in Nat, Told(s, tokens, p), NEW t \in TokenRecord, p <= t.beg, t.beg <= t.end, 0 < p,
         \A k \in p..(t.beg - 1) : ~ OfToken(Reads(s)[k], At(s, k)),
         \A k \in t.beg..(t.end - 1) : OfToken(Reads(s)[k], At(s, k))
  PROVE  Told(s, Append(tokens, t), t.end)
<1> DEFINE more == Append(tokens, t)
<1>0. tokens \in Seq(TokenRecord) /\ Len(tokens) \in Nat /\ t.beg \in Nat /\ t.end \in Nat
  BY DEF Told, TokenRecord
<1>1. /\ more \in Seq(TokenRecord) /\ Len(more) = Len(tokens) + 1
      /\ \A m \in 1..Len(tokens) : more[m] = tokens[m]
      /\ more[Len(tokens) + 1] = t
  BY <1>0, OneMore
<1>2. ASSUME NEW n \in 1..Len(tokens) PROVE tokens[n].end <= p /\ tokens[n].end \in Nat
  <2>1. tokens[n] \in TokenRecord
    BY <1>0
  <2> QED
    BY <2>1 DEF Told, TokenRecord
<1>3. ASSUME NEW i \in 1..(t.end - 1) PROVE InToken(more, i) <=> OfToken(Reads(s)[i], At(s, i))
  <2>1. Told(s, tokens, t.beg)
    BY <1>0, ToldOn
  <2>2. InToken(more, i) <=> InToken(tokens, i) \/ i \in t.beg..(t.end - 1)
    BY <1>0, InTokenPushed
  <2>3. CASE i < t.beg
    <3>1. i \in 1..(t.beg - 1) /\ i \notin t.beg..(t.end - 1)
      BY <1>0, <2>3
    <3> QED
      BY <2>1, <2>2, <3>1 DEF Told
  <2>4. CASE t.beg <= i
    BY <1>0, <2>2, <2>4
  <2> QED
    BY <1>0, <2>3, <2>4
<1> HIDE DEF more
<1>4. ASSUME NEW n \in 1..Len(more) PROVE more[n].end <= t.end
  <2>1. CASE n = Len(tokens) + 1
    BY <1>0, <1>1, <2>1
  <2>2. CASE n # Len(tokens) + 1
    <3>1. n \in 1..Len(tokens)
      BY <1>0, <1>1, <2>2
    <3> QED
      BY <1>0, <1>1, <1>2, <3>1
  <2> QED
    BY <2>1, <2>2
<1>5. ASSUME NEW n \in 1..(Len(more) - 1) PROVE more[n].end <= more[n + 1].beg
  <2>0. n \in 1..Len(tokens)
    BY <1>0, <1>1
  <2>1. CASE n = Len(tokens)
    BY <1>0, <1>1, <1>2, <2>0, <2>1
  <2>2. CASE n # Len(tokens)
    <3>1. n \in 1..(Len(tokens) - 1) /\ n + 1 \in 1..Len(tokens)
      BY <1>0, <2>0, <2>2
    <3>2. more[n] = tokens[n] /\ more[n + 1] = tokens[n + 1]
      BY <1>1, <2>0, <3>1
    <3> QED
      BY <3>1, <3>2 DEF Told
  <2> QED
    BY <2>1, <2>2
<1>6. Told(s, more, t.end)
  BY <1>1, <1>3, <1>4, <1>5 DEF Told
<1> QED
  BY <1>6 DEF more
-----------------------------------------------------------------------------
(* What each attempt takes is the text of a token, and the longest one. *)
LEMMA WordText ==
  ASSUME NEW s \in Seq(Char), NEW i \in 1..Len(s), NEW e, Skipped(s, i, ContinueIdent, e), e # i
  PROVE  TokenText(s, i, e)
<1>1. e \in (i + 1)..(Len(s) + 1)
  BY DEF Skipped
<1>2. ASSUME NEW k \in i..(e - 1)
      PROVE  At(s, k) \notin Space \union {Quote("string"), Quote("character")} /\ At(s, k) # "/"
  <2>1. At(s, k) \in ContinueIdent
    BY DEF Skipped
  <2> QED
    BY <2>1, Quotes, Spaces, Idents
<1> QED
  BY <1>1, <1>2 DEF TokenText

LEMMA KeywordText ==
  ASSUME NEW s \in Seq(Char), NEW i \in 1..Len(s), ParseKeyword(s, i) # i
  PROVE  /\ TokenText(s, i, ParseKeyword(s, i))
         /\ Longest(s, Token("keyword", i, ParseKeyword(s, i)))
<1> DEFINE e == SkipAll(s, i, ContinueIdent)
<1>1. Skipped(s, i, ContinueIdent, e)
  BY SkipAllStops, Idents
<1>2. ParseKeyword(s, i) = e /\ SubSeq(s, i, e - 1) \in Keywords
  BY DEF ParseKeyword
<1> HIDE DEF e
<1> DEFINE t == Token("keyword", i, e)
<1>3. t.kind = "keyword" /\ t.beg = i /\ t.end = e
  BY DEF Token
<1> HIDE DEF t
<1>4. Longest(s, t)
  BY <1>1, <1>2, <1>3 DEF Longest, Skipped, Spelling
<1> QED
  BY <1>1, <1>2, <1>4, WordText DEF t

LEMMA IdentText ==
  ASSUME NEW s \in Seq(Char), NEW i \in 1..Len(s), ParseKeyword(s, i) = i, ParseIdent(s, i) # i
  PROVE  /\ TokenText(s, i, ParseIdent(s, i))
         /\ Longest(s, Token("ident", i, ParseIdent(s, i)))
<1> DEFINE e == SkipAll(s, i, ContinueIdent)
<1>1. Skipped(s, i, ContinueIdent, e)
  BY SkipAllStops, Idents
<1>2. ParseIdent(s, i) = e /\ e # i
  BY DEF ParseIdent
<1>3. SubSeq(s, i, e - 1) \notin Keywords
  BY <1>2 DEF ParseKeyword
<1> HIDE DEF e
<1> DEFINE t == Token("ident", i, e)
<1>4. t.kind = "ident" /\ t.beg = i /\ t.end = e
  BY DEF Token
<1> HIDE DEF t
<1>5. Longest(s, t)
  BY <1>1, <1>3, <1>4 DEF Longest, Skipped, Spelling
<1> QED
  BY <1>1, <1>2, <1>5, WordText DEF t

LEMMA LongerFirst ==
  ASSUME NEW n \in 1..46, NEW m \in 1..46, n <= m, Operator(n), Operator(m)
  PROVE  Len(Oper[m]) <= Len(Oper[n])
<1>1. /\ Len(Oper[n]) = IF n <= 2 THEN 3 ELSE IF n <= 22 THEN 2 ELSE 1
      /\ Len(Oper[m]) = IF m <= 2 THEN 3 ELSE IF m <= 22 THEN 2 ELSE 1
  BY DEF Operator
<1>2. \A i, j \in 1..46 : i <= j =>
        (IF j <= 2 THEN 3 ELSE IF j <= 22 THEN 2 ELSE 1) <= (IF i <= 2 THEN 3 ELSE IF i <= 22 THEN 2 ELSE 1)
  OBVIOUS
<1> QED
  BY <1>1, <1>2

LEMMA OperText ==
  ASSUME NEW s \in Seq(Char), NEW i \in 1..Len(s), ParseOper(s, i) # i,
         ~ Starts(s, i, <<"/", "/">>), ~ Starts(s, i, <<"/", "*">>)
  PROVE  /\ TokenText(s, i, ParseOper(s, i))
         /\ Longest(s, Token("oper", i, ParseOper(s, i)))
         /\ At(s, ParseOper(s, i) - 1) \notin ContinueIdent
<1> DEFINE fits == {n \in DOMAIN Oper : Starts(s, i, Oper[n])}
           first == CHOOSE n \in fits : \A m \in fits : n <= m
           e == i + Len(Oper[first])
<1>1. fits # {} /\ ParseOper(s, i) = e
  BY DEF ParseOper
<1>0. DOMAIN Oper \subseteq Nat
  <2>1. DOMAIN Oper = 1..46
    BY OperTable
  <2> QED
    BY ONLY <2>1
<1>2. fits \subseteq Nat
  BY <1>0
<1>3. \E n \in fits : \A m \in fits : n <= m
  <2> HIDE DEF fits
  <2> QED
    BY <1>1, <1>2, LeastMember
<1>4. first \in fits /\ \A m \in fits : first <= m
  BY <1>3
<1>5. first \in 1..46 /\ Operator(first) /\ Starts(s, i, Oper[first])
  BY <1>4, OperTable
<1>A. \A m \in DOMAIN Oper : Starts(s, i, Oper[m]) => m \in 1..46 /\ Operator(m) /\ first <= m
  BY <1>4, OperTable
<1> HIDE DEF fits, first
<1> DEFINE l == Len(Oper[first])
<1>6. l \in 1..3 /\ (2 <= l => first <= 22) /\ (3 <= l => first <= 2) /\ e = i + l
  BY <1>5 DEF Operator
<1>7. ASSUME NEW m \in DOMAIN Oper, Starts(s, i, Oper[m]) PROVE Len(Oper[m]) <= l
  <2>1. m \in 1..46 /\ Operator(m) /\ first <= m
    BY <1>7, <1>A
  <2>2. first \in 1..46 /\ Operator(first)
    BY <1>5
  <2> QED
    BY <2>1, <2>2, LongerFirst
<1> HIDE DEF l, e
<1>8. ASSUME NEW k \in 1..l PROVE At(s, i + k - 1) = Oper[first][k]
  BY <1>5 DEF Starts, l
<1>9. ASSUME NEW k \in 1..l
      PROVE  /\ Oper[first][k] \notin Space \union ContinueIdent \union {Quote("string"), Quote("character"), NoChar}
             /\ k # 1 => Oper[first][k] # "/"
  <2>1. CASE k = 1
    BY <1>5, <2>1 DEF Operator
  <2>2. CASE k # 1
    <3>1. Oper[first][k] \in {"=", "<", ">", "&", "|", "-", "+"}
      <4>1. CASE k = 2
        <5>1. first <= 22
          BY <1>6, <4>1
        <5> QED
          BY <1>5, <4>1, <5>1 DEF Operator
      <4>2. CASE k = 3
        <5>1. first <= 2
          BY <1>6, <4>2
        <5> QED
          BY <1>5, <4>2, <5>1 DEF Operator
      <4> QED
        BY <1>6, <2>2, <4>1, <4>2
    <3>2. {"=", "<", ">", "&", "|", "-", "+"}
            \cap (Space \union ContinueIdent \union {Quote("string"), Quote("character"), NoChar, "/"}) = {}
      BY Zenon DEF Space, Quote, NoChar, ContinueIdent, Alpha, Digits
    <3> QED
      BY <3>1, <3>2
  <2> QED
    BY <2>1, <2>2
<1>10. At(s, i) = "/" => At(s, i + 1) \notin {"/", "*"}
  BY StartsPair
<1>11. e \in (i + 1)..(Len(s) + 1)
  <2>1. l \in 1..l /\ At(s, i + l - 1) # NoChar
    <3>1. l \in 1..l
      BY <1>6
    <3>2. Oper[first][l] # NoChar
      BY <1>9, <3>1, Zenon
    <3>3. At(s, i + l - 1) = Oper[first][l]
      BY <1>8, <3>1
    <3> QED
      BY <3>1, <3>2, <3>3, Zenon
  <2>2. i + l - 1 \in 1..Len(s)
    BY <2>1, AtText
  <2> QED
    BY <1>6, <2>2
<1>12. ASSUME NEW k \in i..(e - 1)
       PROVE  /\ At(s, k) \notin Space \union {Quote("string"), Quote("character")}
              /\ At(s, k) = "/" => k = i /\ At(s, i + 1) \notin {"/", "*"}
  <2>1. (k - i) + 1 \in 1..l /\ i + ((k - i) + 1) - 1 = k /\ ((k - i) + 1 = 1 <=> k = i)
    BY <1>6, <1>11
  <2>2. At(s, k) = Oper[first][(k - i) + 1]
    BY <1>8, <2>1
  <2> QED
    BY <1>9, <1>10, <2>1, <2>2
<1>13. TokenText(s, i, e)
  BY <1>11, <1>12 DEF TokenText
<1> DEFINE t == Token("oper", i, e)
<1>14. t.kind = "oper" /\ t.beg = i /\ t.end = e /\ e - i = l
  BY <1>6 DEF Token
<1> HIDE DEF t
<1>15. Longest(s, t)
  BY <1>7, <1>14 DEF Longest
<1>16. At(s, e - 1) \notin ContinueIdent
  <2>1. l \in 1..l /\ i + l - 1 = e - 1
    BY <1>6
  <2> QED
    BY <1>8, <1>9, <2>1
<1> QED
  BY <1>1, <1>13, <1>15, <1>16 DEF t
-----------------------------------------------------------------------------
(* What from_chars reads: n characters of a number, that goes on to its    *)
(* last digit of the base.                                                 *)
IsNumber(t, n, base) ==
  /\ n \in 1..Len(t)
  /\ \A k \in 1..n : At(t, k) \in NumberChar
  /\ At(t, n) \in Digits(10) => At(t, n + 1) \notin Digits(base)
LEMMA DigitSets ==
  /\ Digits(8) \subseteq Digits(10) /\ Digits(10) \subseteq Digits(16) /\ Digits(16) \subseteq NumberChar
  /\ NoChar \notin Digits(8) /\ NoChar \notin Digits(10) /\ NoChar \notin Digits(16)
  /\ {"b", "c", "r", "s", "u", "n", "a", "e", ".", "x", "-", "+"} \subseteq NumberChar
  /\ {"b", "c", "r", "s", "u", "n", "."} \cap Digits(10) = {}
  /\ "0" \in NumberChar
  BY DEF Digits, NumberChar, NoChar

LEMMA Letter ==
  /\ StartIdent \cap Digits(10) = {}
  /\ {"0", ".", "-", "+", NoChar} \cap StartIdent = {}
  BY DEF StartIdent, Alpha, Digits, NoChar

LEMMA SignPassed ==
  ASSUME NEW t \in Seq(Char), NEW i \in 1..(Len(t) + 1)
  PROVE  /\ AfterSign(t, i) \in i..(Len(t) + 1)
         /\ AfterSign(t, i) \in {i, i + 1}
         /\ \A k \in i..(AfterSign(t, i) - 1) : At(t, k) \in NumberChar
<1>1. CASE At(t, i) \in {"-", "+"}
  <2>1. At(t, i) # NoChar
    BY <1>1 DEF NoChar
  <2>2. i \in 1..Len(t)
    BY <2>1, AtText
  <2>3. AfterSign(t, i) = i + 1 /\ At(t, i) \in NumberChar
    BY <1>1, DigitSets DEF AfterSign
  <2> QED
    BY <2>2, <2>3
<1>2. CASE At(t, i) \notin {"-", "+"}
  BY <1>2 DEF AfterSign
<1> QED
  BY <1>1, <1>2

(* strtoll and strtoull *)
LEMMA IntegerRead ==
  ASSUME NEW t \in Seq(Char), NEW from \in 1..(Len(t) + 1), NEW radix \in {8, 10, 16},
         \A k \in 1..(from - 1) : At(t, k) \in NumberChar,
         ReadInteger(t, from, radix).end # 0
  PROVE  IsNumber(t, ReadInteger(t, from, radix).end, radix)
<1> DEFINE to == SkipAll(t, from, Digits(radix))
<1>1. Skipped(t, from, Digits(radix), to)
  BY SkipAllStops, DigitSets
<1>2. ReadInteger(t, from, radix).end = (IF to = from THEN 0 ELSE to - 1)
  BY DEF ReadInteger, IntegerDigits
<1> HIDE DEF to
<1>3. to \in from..(Len(t) + 1) /\ to # from
  BY <1>1, <1>2 DEF Skipped
<1>4. to - 1 \in 1..Len(t) /\ (to - 1) + 1 = to
  BY <1>3
<1>5. ASSUME NEW k \in 1..(to - 1) PROVE At(t, k) \in NumberChar
  <2>1. k \in 1..(from - 1) \/ k \in from..(to - 1)
    BY <1>3
  <2>2. Digits(radix) \subseteq NumberChar
    BY DigitSets
  <2> QED
    BY <1>1, <2>1, <2>2 DEF Skipped
<1>6. At(t, (to - 1) + 1) \notin Digits(radix)
  BY <1>1, <1>4 DEF Skipped
<1> QED
  BY <1>2, <1>3, <1>4, <1>5, <1>6 DEF IsNumber

(* No digit of the larger base is one of the smaller. *)
LEMMA SmallerBase ==
  ASSUME NEW t, NEW n
  PROVE  /\ IsNumber(t, n, 16) => IsNumber(t, n, 10)
         /\ IsNumber(t, n, 10) => IsNumber(t, n, 8)
  BY DigitSets DEF IsNumber

LEMMA StrToLLReads ==
  ASSUME NEW t \in Seq(Char), StrToLL(t, AfterSign(t, 1), 0).end # 0
  PROVE  IsNumber(t, StrToLL(t, AfterSign(t, 1), 0).end, IF At(t, AfterSign(t, 1)) = "0" THEN 8 ELSE 10)
<1> DEFINE beg == AfterSign(t, 1)
<1>0. Len(t) \in Nat /\ 1 \in 1..(Len(t) + 1)
  OBVIOUS
<1>1. beg \in 1..(Len(t) + 1) /\ \A k \in 1..(beg - 1) : At(t, k) \in NumberChar
  BY <1>0, SignPassed
<1> HIDE DEF beg
<1>2. CASE IsHex(t, beg)
  <2>1. At(t, beg) = "0" /\ At(t, beg + 1) = "x" /\ At(t, beg + 2) # NoChar
    BY <1>1, <1>2, StartsPair, DigitSets DEF IsHex
  <2>2. beg + 2 \in 1..(Len(t) + 1)
    BY <2>1, AtText
  <2>3. ASSUME NEW k \in 1..((beg + 2) - 1) PROVE At(t, k) \in NumberChar
    <3>1. k \in 1..(beg - 1) \/ k = beg \/ k = beg + 1
      BY <1>1
    <3> QED
      BY <1>1, <2>1, <3>1, DigitSets
  <2>4. StrToLL(t, beg, 0) = ReadInteger(t, beg + 2, 16)
    BY <1>2 DEF StrToLL
  <2>5. IsNumber(t, StrToLL(t, beg, 0).end, 16)
    BY <2>2, <2>3, <2>4, IntegerRead DEF beg
  <2> QED
    BY <2>1, <2>5, SmallerBase DEF beg
<1>3. CASE ~ IsHex(t, beg)
  <2> DEFINE radix == IF At(t, beg) = "0" THEN 8 ELSE 10
  <2>1. StrToLL(t, beg, 0) = ReadInteger(t, beg, radix)
    BY <1>3 DEF StrToLL
  <2>2. radix \in {8, 10, 16}
    OBVIOUS
  <2> HIDE DEF radix
  <2>3. IsNumber(t, StrToLL(t, beg, 0).end, radix)
    BY <1>1, <2>1, <2>2, IntegerRead DEF beg
  <2> QED
    BY <2>3 DEF radix, beg
<1> QED
  BY <1>2, <1>3
(* strtoull reads what strtoll does. *)
LEMMA StrToULLEnds ==
  ASSUME NEW t, NEW beg, NEW base
  PROVE  StrToULL(t, beg, base).end = StrToLL(t, beg, base).end
  BY DEF StrToULL
(* strtold *)
LEMMA WithExpEnds ==
  ASSUME NEW num, NEW den, NEW exp, NEW end \in Int
  PROVE  WithExp(num, den, exp, end).end \in {0, end - 1}
  BY DEF WithExp, NotRead

LEMMA ExponentRead ==
  ASSUME NEW t \in Seq(Char), NEW to \in 2..(Len(t) + 1), NEW num, NEW den,
         \A k \in 1..(to - 1) : At(t, k) \in NumberChar,
         At(t, to) \notin Digits(10),
         NEW n, n = Exponent(t, to, AfterSign(t, to + 1), num, den).end, n # 0
  PROVE  IsNumber(t, n, 10)
<1> DEFINE sign == AfterSign(t, to + 1)
           last == SkipAll(t, sign, Digits(10))
<1>0. Len(t) \in Nat
  OBVIOUS
<1>1. CASE At(t, to) = "e" /\ last > sign
  <2>1. At(t, to) # NoChar
    BY <1>1 DEF NoChar
  <2>2. to \in 1..Len(t)
    BY <2>1, AtText
  <2>3. to + 1 \in 1..(Len(t) + 1)
    BY <1>0, <2>2
  <2>4. sign \in (to + 1)..(Len(t) + 1) /\ \A k \in (to + 1)..(sign - 1) : At(t, k) \in NumberChar
    BY <2>3, SignPassed
  <2>5. Skipped(t, sign, Digits(10), last)
    BY <2>4, SkipAllStops, DigitSets
  <2>6. last \in sign..(Len(t) + 1) /\ last > sign
    BY <1>1, <2>5 DEF Skipped
  <2>7. n = last - 1
    <3>1. n = WithExp(num, den, Signed(t, to + 1, Value(t, sign, last, 10)), last).end
      BY <1>1 DEF Exponent, ExpDigits
    <3> HIDE DEF last, sign
    <3> QED
      BY <2>4, <2>6, <3>1, WithExpEnds
  <2> HIDE DEF last, sign
  <2>8. ASSUME NEW k \in 1..(last - 1) PROVE At(t, k) \in NumberChar
    <3>1. k \in 1..(to - 1) \/ k = to \/ k \in (to + 1)..(sign - 1) \/ k \in sign..(last - 1)
      BY <2>4, <2>6
    <3>2. At(t, to) \in NumberChar /\ Digits(10) \subseteq NumberChar
      BY <1>1, DigitSets
    <3> QED
      BY <2>4, <2>5, <3>1, <3>2 DEF Skipped
  <2>9. n \in 1..Len(t) /\ n + 1 = last
    BY <2>4, <2>6, <2>7
  <2> QED
    BY <2>5, <2>7, <2>8, <2>9 DEF IsNumber, Skipped
<1>2. CASE ~ (At(t, to) = "e" /\ last > sign)
  <2>1. n = WithExp(num, den, 0, to).end
    BY <1>2 DEF Exponent, ExpDigits
  <2>2. n = to - 1
    BY <2>1, WithExpEnds
  <2>3. n \in 1..Len(t) /\ n + 1 = to
    BY <1>0, <2>2
  <2> QED
    BY <2>2, <2>3 DEF IsNumber
<1> QED
  BY <1>1, <1>2

LEMMA RealRead ==
  ASSUME NEW t \in Seq(Char), NEW from \in 1..(Len(t) + 1), NEW radix \in {10, 16},
         \A k \in 1..(from - 1) : At(t, k) \in NumberChar,
         NEW n, n = ReadReal(t, from, radix).end, n # 0
  PROVE  IsNumber(t, n, 10)
<1> DEFINE point == SkipAll(t, from, Digits(radix))
           to == IF At(t, point) = "." THEN SkipAll(t, point + 1, Digits(radix)) ELSE point
<1>0. NoChar \notin Digits(radix) /\ Digits(radix) \subseteq NumberChar /\ Digits(10) \subseteq Digits(radix)
  BY DigitSets
<1>1. Skipped(t, from, Digits(radix), point)
  BY <1>0, SkipAllStops
<1>2. point \in from..(Len(t) + 1)
  BY <1>1 DEF Skipped
<1>3. /\ to \in point..(Len(t) + 1)
      /\ At(t, to) \notin Digits(radix)
      /\ \A k \in point..(to - 1) : At(t, k) \in NumberChar
  <2>1. CASE At(t, point) = "."
    <3>1. At(t, point) # NoChar
      BY <2>1 DEF NoChar
    <3>2. point \in 1..Len(t)
      BY <3>1, AtText
    <3>3. point + 1 \in 1..(Len(t) + 1)
      BY <3>2
    <3>4. Skipped(t, point + 1, Digits(radix), to)
      BY <1>0, <2>1, <3>3, SkipAllStops
    <3> HIDE DEF point, to
    <3>5. to \in (point + 1)..(Len(t) + 1) /\ At(t, to) \notin Digits(radix)
      BY <3>4 DEF Skipped
    <3>6. ASSUME NEW k \in point..(to - 1) PROVE At(t, k) \in NumberChar
      <4>1. k = point \/ k \in (point + 1)..(to - 1)
        BY <3>2, <3>5
      <4>2. "." \in NumberChar
        BY DigitSets
      <4> QED
        BY <1>0, <2>1, <3>4, <4>1, <4>2 DEF Skipped
    <3> QED
      BY <3>2, <3>5, <3>6
  <2>2. CASE At(t, point) # "."
    <3>1. to = point
      BY <2>2
    <3> HIDE DEF point, to
    <3> QED
      BY <1>1, <1>2, <3>1 DEF Skipped
  <2> QED
    BY <2>1, <2>2
<1> DEFINE num == Signed(t, 1, Value(t, from, to, radix))
           den == IF to > point THEN radix^(to - point - 1) ELSE 1
<1>4. /\ ReadReal(t, from, radix) = RealDigits(t, from, point, to, radix)
  BY DEF ReadReal, Fraction
<1>5. /\ ~ \A k \in from..(to - 1) : At(t, k) = "."
      /\ n = Exponent(t, to, AfterSign(t, to + 1), num, den).end
  BY <1>4 DEF RealDigits, NotRead
<1> HIDE DEF point, to, num, den
<1>6. to \in 2..(Len(t) + 1)
  <2>1. PICK k \in from..(to - 1) : At(t, k) # "."
    BY <1>5
  <2> QED
    BY <1>2, <1>3, <2>1
<1>7. ASSUME NEW k \in 1..(to - 1) PROVE At(t, k) \in NumberChar
  <2>1. k \in 1..(from - 1) \/ k \in from..(point - 1) \/ k \in point..(to - 1)
    BY <1>2, <1>3
  <2> QED
    BY <1>0, <1>1, <1>3, <2>1 DEF Skipped
<1>8. At(t, to) \notin Digits(10)
  BY <1>0, <1>3
<1> QED
  BY <1>5, <1>6, <1>7, <1>8, ExponentRead

LEMMA StrToLDReads ==
  ASSUME NEW t \in Seq(Char), NEW n, n = StrToLD(t, AfterSign(t, 1)).end, n # 0
  PROVE  IsNumber(t, n, 10)
<1> DEFINE beg == AfterSign(t, 1)
<1>0. Len(t) \in Nat /\ 1 \in 1..(Len(t) + 1)
  OBVIOUS
<1>1. beg \in 1..(Len(t) + 1) /\ \A k \in 1..(beg - 1) : At(t, k) \in NumberChar
  BY <1>0, SignPassed
<1>2. n = StrToLD(t, beg).end
  OBVIOUS
<1> HIDE DEF beg
<1>3. CASE Starts(t, beg, <<"n", "a", "n">>)
  <2>1. At(t, beg) = "n" /\ At(t, beg + 1) = "a" /\ At(t, beg + 2) = "n"
    BY <1>1, <1>3, StartsTriple
  <2>2. n = beg + 2
    BY <1>2, <1>3 DEF StrToLD, NotRead
  <2>3. beg + 2 \in 1..Len(t)
    BY <2>1, AtText DEF NoChar
  <2>4. ASSUME NEW k \in 1..n PROVE At(t, k) \in NumberChar
    <3>1. k \in 1..(beg - 1) \/ k = beg \/ k = beg + 1 \/ k = beg + 2
      BY <1>1, <2>2
    <3> QED
      BY <1>1, <2>1, <3>1, DigitSets
  <2>5. At(t, n) \notin Digits(10)
    BY <2>1, <2>2, DigitSets
  <2> QED
    BY <2>2, <2>3, <2>4, <2>5 DEF IsNumber
<1>4. CASE ~ Starts(t, beg, <<"n", "a", "n">>)
           /\ (IsHex(t, beg) \/ (Starts(t, beg, <<"0", "x", ".">>) /\ At(t, beg + 3) \in Digits(16)))
  <2>1. n = ReadReal(t, beg + 2, 16).end
    BY <1>2, <1>4 DEF StrToLD
  <2>2. At(t, beg) = "0" /\ At(t, beg + 1) = "x"
    BY <1>1, <1>4, StartsPair, StartsTriple DEF IsHex
  <2>3. beg + 1 \in 1..Len(t)
    BY <2>2, AtText DEF NoChar
  <2>4. beg + 2 \in 1..(Len(t) + 1)
    BY <1>1, <2>3
  <2>5. ASSUME NEW k \in 1..((beg + 2) - 1) PROVE At(t, k) \in NumberChar
    <3>1. k \in 1..(beg - 1) \/ k = beg \/ k = beg + 1
      BY <1>1
    <3> QED
      BY <1>1, <2>2, <3>1, DigitSets
  <2> QED
    BY <2>1, <2>4, <2>5, RealRead
<1>5. CASE ~ Starts(t, beg, <<"n", "a", "n">>)
           /\ ~ (IsHex(t, beg) \/ (Starts(t, beg, <<"0", "x", ".">>) /\ At(t, beg + 3) \in Digits(16)))
  <2>1. n = ReadReal(t, beg, 10).end
    BY <1>2, <1>5 DEF StrToLD
  <2> QED
    BY <1>1, <2>1, RealRead
<1> QED
  BY <1>3, <1>4, <1>5
(* from_chars looks at MaxLiteral characters. *)
LEMMA CutText ==
  ASSUME NEW s \in Seq(Char), NEW a \in 1..(Len(s) + 1), NEW b \in (a - 1)..Len(s)
  PROVE  /\ SubSeq(s, a, b) \in Seq(Char)
         /\ Len(SubSeq(s, a, b)) = b - a + 1
         /\ \A k \in 1..(b - a + 1) : At(SubSeq(s, a, b), k) = At(s, a + k - 1)
         /\ At(SubSeq(s, a, b), b - a + 2) = NoChar
<1>0. Len(s) \in Nat /\ a \in Int /\ b \in Int /\ b - a + 1 \in Nat
  OBVIOUS
<1>1. \A k \in a..b : s[k] \in Char
  BY <1>0
<1>2. /\ SubSeq(s, a, b) \in Seq(Char)
      /\ Len(SubSeq(s, a, b)) = b - a + 1
  <2>1. Len(SubSeq(s, a, b)) = IF a <= b THEN b - a + 1 ELSE 0
    BY <1>0, <1>1, SubSeqProperties
  <2>2. (IF a <= b THEN b - a + 1 ELSE 0) = b - a + 1
    BY <1>0
  <2>3. SubSeq(s, a, b) \in Seq(Char)
    BY <1>0, <1>1, SubSeqProperties
  <2> QED
    BY <2>1, <2>2, <2>3
<1>3. ASSUME NEW k \in 1..(b - a + 1) PROVE At(SubSeq(s, a, b), k) = At(s, a + k - 1)
  <2>1. SubSeq(s, a, b)[k] = s[a + k - 1]
    BY <1>0, <1>1, SubSeqProperties
  <2>2. a + k - 1 \in 1..Len(s)
    BY <1>0
  <2> QED
    BY <1>2, <2>1, <2>2, AtChar
<1>4. At(SubSeq(s, a, b), b - a + 2) = NoChar
  <2>1. b - a + 2 \notin 1..(b - a + 1)
    BY <1>0
  <2> QED
    BY <1>2, <2>1, AtChar
<1> QED
  BY <1>2, <1>3, <1>4

NumberAt(t, n, base) ==
  /\ n \in 1..Len(t)
  /\ \A k \in 1..n : At(t, k) \in NumberChar
  /\ At(t, n) \in Digits(10) /\ n < MaxLiteral => At(t, n + 1) \notin Digits(base)
LEMMA FromSomeReads ==
  ASSUME NEW t \in Seq(Char), NEW type \in {"real", "uint", "sint"}, ~ FromSome(type, t, 0).err,
         NEW n, n = FromSome(type, t, 0).end
  PROVE  IsNumber(t, n, IF type # "real" /\ At(t, AfterSign(t, 1)) = "0" THEN 8 ELSE 10)
<1>1. CASE type = "real"
  <2> DEFINE ld == StrToLD(t, AfterSign(t, 1))
  <2>1. FromSome(type, t, 0) = RealFrom(ld)
    BY <1>1 DEF FromSome
  <2> HIDE DEF ld
  <2>2. n = ld.end /\ n # 0
    BY <2>1 DEF RealFrom, Failed
  <2>3. IsNumber(t, n, 10)
    BY <2>2, StrToLDReads DEF ld
  <2> QED
    BY <1>1, <2>3
<1>2. CASE type # "real"
  <2> DEFINE ll == StrToLL(t, AfterSign(t, 1), 0)
  <2>1. PICK i \in {ll, StrToULL(t, AfterSign(t, 1), 0)} : FromSome(type, t, 0) = IntegerFrom(type, i)
    BY <1>2 DEF FromSome
  <2>2. i.end = ll.end
    BY StrToULLEnds
  <2> HIDE DEF ll
  <2>3. n = ll.end /\ n # 0
    BY <2>1, <2>2 DEF IntegerFrom, Failed
  <2>4. IsNumber(t, n, IF At(t, AfterSign(t, 1)) = "0" THEN 8 ELSE 10)
    BY <2>3, StrToLLReads DEF ll
  <2> QED
    BY <1>2, <2>4
<1> QED
  BY <1>1, <1>2

LEMMA FromCharsReads ==
  ASSUME NEW t \in Seq(Char), NEW type \in {"real", "uint", "sint"}, ~ FromChars(type, t, 0).err,
         NEW n, n = FromChars(type, t, 0).end
  PROVE  /\ NumberAt(t, n, 8)
         /\ type = "real" \/ At(t, AfterSign(t, 1)) # "0" => NumberAt(t, n, 10)
<1> DEFINE m == IF Len(t) < MaxLiteral THEN Len(t) ELSE MaxLiteral
           c == SubSeq(t, 1, m)
<1>0. Len(t) \in Nat /\ MaxLiteral \in Nat \ {0}
  BY WidthsAssumption
<1>1. m \in Nat /\ m \in 0..Len(t) /\ m <= MaxLiteral /\ (m < MaxLiteral => m = Len(t))
  BY <1>0
<1>2. FromChars(type, t, 0) = FromSome(type, c, 0)
  BY DEF FromChars
<1> HIDE DEF m
<1>3. /\ c \in Seq(Char) /\ Len(c) = m
      /\ \A k \in 1..m : At(c, k) = At(t, k)
      /\ At(c, m + 1) = NoChar
  <2>1. 1 \in 1..(Len(t) + 1) /\ m \in (1 - 1)..Len(t) /\ m - 1 + 1 = m /\ m - 1 + 2 = m + 1 /\ \A k \in 1..m : 1 + k - 1 = k
    BY <1>0, <1>1
  <2> QED
    BY <2>1, CutText
<1> HIDE DEF c
<1> DEFINE base == IF type # "real" /\ At(c, AfterSign(c, 1)) = "0" THEN 8 ELSE 10
<1>4. IsNumber(c, n, base)
  BY <1>2, <1>3, FromSomeReads
<1>5. base \in {8, 10}
  OBVIOUS
<1>6. type = "real" \/ At(t, AfterSign(t, 1)) # "0" => base = 10
  <2> SUFFICES ASSUME At(c, AfterSign(c, 1)) = "0" PROVE At(t, AfterSign(t, 1)) = "0"
    OBVIOUS
  <2>1. AfterSign(c, 1) \in 1..m
    BY <1>3, AtText DEF NoChar
  <2>2. 1 \in 1..m
    BY <1>1, <2>1
  <2>3. At(c, 1) = At(t, 1)
    BY <1>3, <2>2
  <2>4. AfterSign(c, 1) = AfterSign(t, 1)
    BY <2>3 DEF AfterSign
  <2> QED
    BY <1>3, <2>1, <2>4
<1> HIDE DEF base
<1>7. n \in 1..m /\ n \in 1..Len(t)
  BY <1>1, <1>3, <1>4 DEF IsNumber
<1>8. \A k \in 1..n : At(t, k) \in NumberChar
  BY <1>1, <1>3, <1>4, <1>7 DEF IsNumber
<1>9. At(t, n) \in Digits(10) /\ n < MaxLiteral => At(t, n + 1) \notin Digits(base)
  <2> SUFFICES ASSUME At(t, n) \in Digits(10), n < MaxLiteral PROVE At(t, n + 1) \notin Digits(base)
    OBVIOUS
  <2>1. At(c, n) = At(t, n)
    BY <1>3, <1>7
  <2>2. At(c, n + 1) \notin Digits(base)
    BY <1>4, <2>1 DEF IsNumber
  <2>3. CASE n < m
    <3>1. n + 1 \in 1..m
      BY <1>1, <1>7, <2>3
    <3> QED
      BY <1>3, <2>2, <3>1
  <2>4. CASE ~ (n < m)
    <3>1. n = m /\ m = Len(t)
      BY <1>0, <1>1, <1>7, <2>4
    <3>2. n + 1 \notin 1..Len(t)
      BY <1>0, <3>1
    <3>3. At(t, n + 1) = NoChar
      BY <3>2, AtChar
    <3> QED
      BY <1>5, <3>3, DigitSets
  <2> QED
    BY <2>3, <2>4
<1>10. NumberAt(t, n, base)
  BY <1>7, <1>8, <1>9 DEF NumberAt
<1>11. NumberAt(t, n, 10) => NumberAt(t, n, 8)
  BY DigitSets DEF NumberAt
<1> QED
  BY <1>5, <1>6, <1>10, <1>11
(* A number that begins with a letter begins with nan. *)
BeginsRight(t) == At(t, 1) \in StartIdent => Starts(t, 1, <<"n", "a", "n">>)
LEMMA NoDigitFirst ==
  ASSUME NEW t \in Seq(Char), At(t, 1) \notin Digits(10)
  PROVE  SkipAll(t, 1, Digits(10)) = 1
<1> DEFINE j == SkipAll(t, 1, Digits(10))
<1>1. 1 \in 1..(Len(t) + 1)
  OBVIOUS
<1>2. Skipped(t, 1, Digits(10), j)
  BY <1>1, SkipAllStops, DigitSets
<1> HIDE DEF j
<1>3. j \in 1..(Len(t) + 1) /\ \A k \in 1..(j - 1) : At(t, k) \in Digits(10)
  BY <1>2 DEF Skipped
<1>4. 1 \notin 1..(j - 1)
  BY <1>3
<1>5. j = 1
  BY <1>3, <1>4
<1> QED
  BY <1>5 DEF j

LEMMA FromSomeBegins ==
  ASSUME NEW t \in Seq(Char), NEW type \in {"real", "uint", "sint"}, ~ FromSome(type, t, 0).err
  PROVE  BeginsRight(t)
<1> SUFFICES ASSUME At(t, 1) \in StartIdent, ~ Starts(t, 1, <<"n", "a", "n">>) PROVE FALSE
  BY DEF BeginsRight
<1>1. At(t, 1) \notin Digits(10) /\ At(t, 1) \notin {"0", ".", "-", "+"}
  BY Letter
<1>2. AfterSign(t, 1) = 1
  BY <1>1 DEF AfterSign
<1>3. ~ IsHex(t, 1) /\ ~ Starts(t, 1, <<"0", "x", ".">>)
  BY <1>1, StartsPair, StartsTriple DEF IsHex
<1>4. SkipAll(t, 1, Digits(10)) = 1
  BY <1>1, NoDigitFirst
<1>5. CASE type = "real"
  <2>1. StrToLD(t, 1) = ReadReal(t, 1, 10)
    BY <1>3 DEF StrToLD
  <2>2. ReadReal(t, 1, 10) = RealDigits(t, 1, 1, 1, 10)
    BY <1>1, <1>4 DEF ReadReal, Fraction
  <2>3. \A k \in 1..(1 - 1) : At(t, k) = "."
    OBVIOUS
  <2>4. RealDigits(t, 1, 1, 1, 10) = NotRead
    BY <2>3 DEF RealDigits
  <2>5. StrToLD(t, 1).end = 0
    BY <2>1, <2>2, <2>4 DEF NotRead
  <2>6. FromSome(type, t, 0) = RealFrom(StrToLD(t, 1))
    BY <1>2, <1>5 DEF FromSome
  <2> QED
    BY <2>5, <2>6 DEF RealFrom, Failed
<1>6. CASE type # "real"
  <2>1. StrToLL(t, 1, 0) = ReadInteger(t, 1, 10)
    BY <1>1, <1>3 DEF StrToLL
  <2>2. StrToLL(t, 1, 0).end = 0
    BY <1>4, <2>1 DEF ReadInteger, IntegerDigits
  <2>3. PICK i \in {StrToLL(t, 1, 0), StrToULL(t, 1, 0)} : FromSome(type, t, 0) = IntegerFrom(type, i)
    BY <1>2, <1>6 DEF FromSome
  <2>4. i.end = 0
    BY <2>2, StrToULLEnds
  <2> QED
    BY <2>3, <2>4 DEF IntegerFrom, Failed
<1> QED
  BY <1>5, <1>6

LEMMA FromCharsBegins ==
  ASSUME NEW t \in Seq(Char), NEW type \in {"real", "uint", "sint"}, ~ FromChars(type, t, 0).err
  PROVE  BeginsRight(t)
<1> DEFINE m == IF Len(t) < MaxLiteral THEN Len(t) ELSE MaxLiteral
           c == SubSeq(t, 1, m)
<1>0. Len(t) \in Nat /\ MaxLiteral \in Nat \ {0}
  BY WidthsAssumption
<1>1. m \in Nat /\ m \in 0..Len(t) /\ (1 <= Len(t) => 1 <= m)
  BY <1>0
<1>2. FromChars(type, t, 0) = FromSome(type, c, 0)
  BY DEF FromChars
<1> HIDE DEF m
<1>3. /\ c \in Seq(Char) /\ Len(c) = m
      /\ \A k \in 1..m : At(c, k) = At(t, k)
  <2>1. 1 \in 1..(Len(t) + 1) /\ m \in (1 - 1)..Len(t) /\ m - 1 + 1 = m /\ \A k \in 1..m : 1 + k - 1 = k
    BY <1>0, <1>1
  <2> QED
    BY <2>1, CutText
<1> HIDE DEF c
<1> SUFFICES ASSUME At(t, 1) \in StartIdent PROVE Starts(t, 1, <<"n", "a", "n">>)
  BY DEF BeginsRight
<1>4. 1 \in 1..Len(t)
  BY Letter, AtText
<1>5. At(c, 1) = At(t, 1)
  BY <1>1, <1>3, <1>4
<1>6. Starts(c, 1, <<"n", "a", "n">>)
  BY <1>2, <1>3, <1>5, FromSomeBegins DEF BeginsRight
<1>7. At(c, 1) = "n" /\ At(c, 1 + 1) = "a" /\ At(c, 1 + 2) = "n"
  BY <1>6, StartsTriple
<1>8. \A k : At(c, k) # NoChar => At(t, k) = At(c, k)
  BY <1>3, AtText
<1>9. At(t, 1) = "n" /\ At(t, 1 + 1) = "a" /\ At(t, 1 + 2) = "n"
  BY <1>7, <1>8 DEF NoChar
<1> QED
  BY <1>9, StartsTriple

LEMMA ValidBegins ==
  ASSUME NEW t \in Seq(Char), NEW behind, NEW near, ValidNumberLiteral(t, behind, near).size # 0
  PROVE  BeginsRight(t)
<1> DEFINE real == FromChars("real", t, 0)
           uint == FromChars("uint", t, 0)
           sint == FromChars("sint", t, 0)
           read == FirstRead(real, uint, sint)
<1>1. ValidNumberLiteral(t, behind, near) = SizeOf(t, read, behind, near)
  BY DEF ValidNumberLiteral
<1>2. ~ read.err
  <2> HIDE DEF read
  <2> QED
    BY <1>1 DEF SizeOf
<1>3. ~ real.err \/ ~ uint.err \/ ~ sint.err
  <2> HIDE DEF real, uint, sint
  <2> QED
    BY <1>2 DEF FirstRead
<1> QED
  BY <1>3, FromCharsBegins

(* validNumberLiteral: the number, and a suffix if one follows *)
LEMMA ValidReads ==
  ASSUME NEW t \in Seq(Char), NEW behind, NEW near, NEW v, v = ValidNumberLiteral(t, behind, near), v.size # 0
  PROVE  \E n \in 1..Len(t) :
           /\ NumberAt(t, n, 8)
           /\ ~ FromChars("real", t, 0).err \/ At(t, AfterSign(t, 1)) # "0" => NumberAt(t, n, 10)
           /\ \/ v.size = n
              \/ v.size = n + 1 /\ (n = Len(t) \/ At(t, n + 1) \in {"b", "c", "r", "s", "u"})
<1> DEFINE real == FromChars("real", t, 0)
           uint == FromChars("uint", t, 0)
           sint == FromChars("sint", t, 0)
           read == FirstRead(real, uint, sint)
           suffix == IF read.end = Len(t) THEN behind ELSE At(t, read.end + 1)
<1>1. v = SizeOf(t, read, behind, near)
  BY DEF ValidNumberLiteral
<1>2. /\ ~ read.err
      /\ v = HasValidSuffix(read, suffix, near)
  <2> HIDE DEF read
  <2> QED
    BY <1>1 DEF SizeOf
<1>3. /\ NumberAt(t, read.end, 8)
      /\ ~ real.err \/ At(t, AfterSign(t, 1)) # "0" => NumberAt(t, read.end, 10)
  <2>1. CASE ~ real.err
    <3>1. read = real
      BY <2>1 DEF FirstRead
    <3> QED
      BY <2>1, <3>1, FromCharsReads
  <2>2. CASE real.err /\ ~ uint.err
    <3>1. read = uint
      BY <2>2 DEF FirstRead
    <3> QED
      BY <2>2, <3>1, FromCharsReads
  <2>3. CASE real.err /\ uint.err
    <3>1. read = sint
      BY <2>3 DEF FirstRead
    <3>2. ~ sint.err
      BY <1>2, <3>1
    <3> QED
      BY <2>3, <3>1, <3>2, FromCharsReads
  <2> QED
    BY <2>1, <2>2, <2>3
<1>4. \/ v.size = read.end
      \/ v.size = read.end + 1 /\ suffix \in {"b", "c", "r", "s", "u"}
  <2> HIDE DEF read, suffix
  <2>1. DOMAIN TypeOfSuffix = {"b", "c", "r", "s", "u"}
    BY DEF TypeOfSuffix
  <2> QED
    BY <1>2, <2>1 DEF HasValidSuffix
<1> DEFINE n == read.end
<1>5. n \in 1..Len(t)
  BY <1>3 DEF NumberAt
<1>6. v.size = n \/ (v.size = n + 1 /\ (n = Len(t) \/ At(t, n + 1) \in {"b", "c", "r", "s", "u"}))
  BY <1>4
<1> HIDE DEF read, n
<1> QED
  BY <1>3, <1>5, <1>6 DEF n

LEMMA NumberText ==
  ASSUME NEW s \in Seq(Char), NEW i \in 1..Len(s), NEW behind, NEW near,
         NEW e, e = ParseNumber(s, i, behind, near), e \notin {0, i}
  PROVE  /\ TokenText(s, i, e)
         /\ Longest(s, Token("number", i, e))
<1> DEFINE t == From(s, i)
           v == ValidNumberLiteral(t, behind, near)
<1>0. Len(s) \in Nat /\ i \in Nat
  OBVIOUS
<1>1. e = i + v.size /\ ~ (i + v.size > Len(s) + 1)
  BY DEF ParseNumber, Advance
<1>2. /\ t \in Seq(Char) /\ Len(t) = Len(s) - i + 1
      /\ \A k \in 1..(Len(s) - i + 1) : At(t, k) = At(s, i + k - 1)
      /\ At(t, Len(s) - i + 2) = NoChar
  <2>1. i \in 1..(Len(s) + 1) /\ Len(s) \in (i - 1)..Len(s)
    BY <1>0
  <2> QED
    BY <2>1, CutText DEF From
<1> HIDE DEF t, v
<1>3. v.size # 0
  BY <1>0, <1>1
<1>4. PICK n \in 1..Len(t) :
        /\ NumberAt(t, n, 8)
        /\ ~ FromChars("real", t, 0).err \/ At(t, AfterSign(t, 1)) # "0" => NumberAt(t, n, 10)
        /\ \/ v.size = n
           \/ v.size = n + 1 /\ (n = Len(t) \/ At(t, n + 1) \in {"b", "c", "r", "s", "u"})
  <2>1. v = ValidNumberLiteral(t, behind, near)
    BY DEF v
  <2>2. t \in Seq(Char)
    BY <1>2
  <2> QED
    BY ONLY <1>3, <2>1, <2>2, ValidReads
<1>5. \A k \in 1..(Len(s) - i + 2) : At(t, k) = At(s, i + k - 1)
  <2>1. i + (Len(s) - i + 2) - 1 = Len(s) + 1 /\ Len(s) + 1 \notin 1..Len(s)
    BY <1>0
  <2>2. At(s, Len(s) + 1) = NoChar
    BY <2>1, AtChar
  <2>3. \A k \in 1..(Len(s) - i + 2) : k \in 1..(Len(s) - i + 1) \/ k = Len(s) - i + 2
    BY <1>0
  <2> QED
    BY <1>2, <2>1, <2>2, <2>3
<1>6. v.size \in 1..(Len(s) - i + 1) /\ v.size \in {n, n + 1} /\ n \in 1..(Len(s) - i + 1)
  BY <1>0, <1>1, <1>2, <1>4
<1>7. ASSUME NEW k \in 1..v.size PROVE At(t, k) \in NumberChar
  <2>1. CASE k \in 1..n
    BY <1>4, <2>1 DEF NumberAt
  <2>2. CASE k \notin 1..n
    <3>1. k = n + 1 /\ v.size = n + 1 /\ n # Len(t)
      BY <1>0, <1>2, <1>6, <2>2
    <3>2. At(t, k) \in {"b", "c", "r", "s", "u"}
      BY <1>4, <3>1
    <3> QED
      BY <3>2, DigitSets
  <2> QED
    BY <2>1, <2>2
<1>8. TokenText(s, i, e)
  <2>1. e \in (i + 1)..(Len(s) + 1)
    BY <1>0, <1>1, <1>6
  <2>2. ASSUME NEW k \in i..(e - 1)
        PROVE  At(s, k) \notin Space \union {Quote("string"), Quote("character")} /\ At(s, k) # "/"
    <3>1. (k - i) + 1 \in 1..v.size /\ (k - i) + 1 \in 1..(Len(s) - i + 1) /\ i + ((k - i) + 1) - 1 = k
      BY <1>0, <1>1, <1>6
    <3>2. At(s, k) \in NumberChar
      BY <1>2, <1>7, <3>1
    <3>3. "/" \notin NumberChar
      BY DEF NumberChar
    <3> QED
      BY <3>2, <3>3, Quotes, Spaces
  <2> QED
    BY <2>1, <2>2 DEF TokenText
<1> DEFINE token == Token("number", i, e)
<1>9. token.kind = "number" /\ token.beg = i /\ token.end = e
  BY DEF Token
<1> HIDE DEF token
<1>10. ASSUME At(s, e - 1) \in Digits(10), e - i < MaxLiteral
       PROVE  At(s, e) \notin Digits(IF Octal(s, token) THEN 8 ELSE 10)
  <2>1. v.size \in 1..(Len(s) - i + 2) /\ v.size + 1 \in 1..(Len(s) - i + 2)
    BY <1>0, <1>6
  <2>2. At(t, v.size) = At(s, e - 1) /\ At(t, v.size + 1) = At(s, e) /\ v.size < MaxLiteral
    <3>1. i + v.size - 1 = e - 1 /\ i + (v.size + 1) - 1 = e /\ e - i = v.size
      BY <1>0, <1>1, <1>6
    <3> QED
      BY <1>5, <1>10, <2>1, <3>1
  <2>3. v.size = n
    <3> SUFFICES ASSUME v.size = n + 1 PROVE FALSE
      BY <1>6
    <3>1. n # Len(t)
      BY <1>0, <1>2, <1>6
    <3>2. At(t, n + 1) \in {"b", "c", "r", "s", "u"}
      BY <1>4, <3>1
    <3> QED
      BY <1>10, <2>2, <3>2, DigitSets
  <2>4. At(t, n + 1) \notin Digits(8)
    BY <1>4, <1>10, <2>2, <2>3 DEF NumberAt
  <2>5. ~ Octal(s, token) => At(t, n + 1) \notin Digits(10)
    <3> SUFFICES ASSUME ~ Octal(s, token) PROVE NumberAt(t, n, 10)
      BY <1>10, <2>2, <2>3 DEF NumberAt
    <3> SUFFICES ASSUME FromChars("real", t, 0).err, At(t, AfterSign(t, 1)) = "0" PROVE FALSE
      BY <1>4
    <3>1. At(s, AfterSign(s, i)) # "0"
      BY <1>9 DEF Octal, t
    <3>2. AfterSign(t, 1) \in 1..Len(t)
      BY <1>2, AtText DEF NoChar
    <3>3. 1 \in 1..(Len(s) - i + 1) /\ i + 1 - 1 = i
      BY <1>0
    <3>4. At(t, 1) = At(s, i)
      BY <1>2, <3>3
    <3>5. AfterSign(s, i) = i + AfterSign(t, 1) - 1
      BY <1>0, <3>4 DEF AfterSign
    <3> QED
      BY <1>2, <3>1, <3>2, <3>5
  <2> QED
    BY <2>2, <2>3, <2>4, <2>5
<1>11. ASSUME At(s, i) \in StartIdent PROVE Starts(s, i, <<"n", "a", "n">>)
  <2>1. ValidNumberLiteral(t, behind, near).size # 0
    BY <1>3 DEF v
  <2>2. BeginsRight(t)
    BY <1>2, <2>1, ValidBegins
  <2>3. 1 \in 1..(Len(s) - i + 1) /\ i + 1 - 1 = i /\ i + 2 - 1 = i + 1 /\ i + 3 - 1 = i + 2
    BY <1>0
  <2>4. At(t, 1) = At(s, i)
    BY <1>2, <2>3
  <2>5. At(t, 1) = "n" /\ At(t, 1 + 1) = "a" /\ At(t, 1 + 2) = "n"
    BY <1>11, <2>2, <2>4, StartsTriple DEF BeginsRight
  <2>6. 2 \in 1..Len(t) /\ 3 \in 1..Len(t)
    BY <1>2, <2>5, AtText DEF NoChar
  <2>7. At(s, i) = "n" /\ At(s, i + 1) = "a" /\ At(s, i + 2) = "n"
    BY <1>2, <2>3, <2>4, <2>5, <2>6
  <2> QED
    BY <2>7, StartsTriple
<1>12. Longest(s, token)
  BY <1>9, <1>10, <1>11 DEF Longest
<1> QED
  BY <1>8, <1>12 DEF token
-----------------------------------------------------------------------------
(* What is read from a text is read again from the part of it that was     *)
(* read: validNumberLiteral tells the size, parseNumberLiteral reads that. *)
LEMMA SkippedOnce ==
  ASSUME NEW s, NEW i \in Int, NEW chars, NEW j, NEW k, Skipped(s, i, chars, j), Skipped(s, i, chars, k), Len(s) \in Nat
  PROVE  j = k
<1>1. j \in Int /\ k \in Int /\ i <= j /\ i <= k
  BY DEF Skipped
<1>2. ~ (j < k)
  <2> SUFFICES ASSUME j < k PROVE FALSE
    OBVIOUS
  <2>1. j \in i..(k - 1)
    BY <1>1
  <2> QED
    BY <2>1 DEF Skipped
<1>3. ~ (k < j)
  <2> SUFFICES ASSUME k < j PROVE FALSE
    OBVIOUS
  <2>1. k \in i..(j - 1)
    BY <1>1
  <2> QED
    BY <2>1 DEF Skipped
<1> QED
  BY <1>1, <1>2, <1>3

Prefix(u, l) ==
  /\ u \in Seq(Char) /\ l \in Seq(Char) /\ Len(l) <= Len(u)
  /\ \A k \in 1..Len(l) : At(l, k) = At(u, k)
LEMMA PrefixEnds ==
  ASSUME NEW u, NEW l, Prefix(u, l)
  PROVE  Len(l) \in Nat /\ Len(u) \in Nat /\ At(l, Len(l) + 1) = NoChar
<1>1. Len(l) \in Nat /\ Len(u) \in Nat
  BY DEF Prefix
<1>2. Len(l) + 1 \notin 1..Len(l)
  BY <1>1
<1> QED
  BY <1>1, <1>2, AtChar DEF Prefix

(* skip goes as far in a prefix as in the text, if it does not go beyond. *)
LEMMA SkipPrefix ==
  ASSUME NEW u, NEW l, Prefix(u, l), NEW i \in Nat \ {0}, NEW chars, NoChar \notin chars,
         NEW j, Skipped(u, i, chars, j), j <= Len(l) + 1
  PROVE  SkipAll(l, i, chars) = j
<1>1. l \in Seq(Char) /\ Len(l) \in Nat /\ At(l, Len(l) + 1) = NoChar /\ \A k \in 1..Len(l) : At(l, k) = At(u, k)
  BY PrefixEnds DEF Prefix
<1>2. j \in Nat /\ i <= j /\ (\A k \in i..(j - 1) : At(u, k) \in chars) /\ At(u, j) \notin chars
  BY PrefixEnds DEF Skipped
<1>3. i \in 1..(Len(l) + 1) /\ j \in i..(Len(l) + 1)
  BY <1>1, <1>2
<1>4. Skipped(l, i, chars, SkipAll(l, i, chars))
  BY <1>1, <1>3, SkipAllStops
<1>5. ASSUME NEW k \in i..(j - 1) PROVE At(l, k) \in chars
  <2>1. k \in 1..Len(l)
    BY <1>1, <1>2, <1>3
  <2> QED
    BY <1>1, <1>2, <2>1
<1>6. At(l, j) \notin chars
  <2>1. j = Len(l) + 1 \/ j \in 1..Len(l)
    BY <1>1, <1>3
  <2> QED
    BY <1>1, <1>2, <2>1
<1>7. Skipped(l, i, chars, j)
  BY <1>3, <1>5, <1>6 DEF Skipped
<1> QED
  BY <1>1, <1>4, <1>7, SkippedOnce

(* The digits of a prefix have the value that they have in the text. *)
LEMMA ValuePrefix ==
  ASSUME NEW u, NEW l, Prefix(u, l), NEW i \in Nat \ {0}, NEW j \in Nat, i <= j, j <= Len(l) + 1, NEW base
  PROVE  Value(l, i, j, base) = Value(u, i, j, base)
<1>1. /\ u \in Seq(Char) /\ l \in Seq(Char) /\ Len(l) \in Nat /\ Len(u) \in Nat /\ Len(l) <= Len(u)
      /\ \A k \in 1..Len(l) : At(l, k) = At(u, k)
  BY PrefixEnds DEF Prefix
<1> DEFINE a == SubSeq(l, i, j - 1)
           b == SubSeq(u, i, j - 1)
           n == (j - 1) - i + 1
<1>2. /\ i \in 1..(Len(l) + 1) /\ j - 1 \in (i - 1)..Len(l)
      /\ i \in 1..(Len(u) + 1) /\ j - 1 \in (i - 1)..Len(u)
      /\ n \in Nat
  BY <1>1
<1>3. a \in Seq(Char) /\ Len(a) = n /\ \A k \in 1..n : At(a, k) = At(l, i + k - 1)
  BY <1>1, <1>2, CutText
<1>4. b \in Seq(Char) /\ Len(b) = n /\ \A k \in 1..n : At(b, k) = At(u, i + k - 1)
  BY <1>1, <1>2, CutText
<1>5. \A k \in 1..n : i + k - 1 \in 1..Len(l)
  BY <1>1, <1>2
<1> HIDE DEF a, b, n
<1>6. ASSUME NEW k \in 1..n PROVE a[k] = b[k]
  <2>1. a[k] = At(a, k) /\ b[k] = At(b, k)
    BY <1>3, <1>4, AtChar
  <2> QED
    BY <1>1, <1>3, <1>4, <1>5, <2>1
<1>7. a = b
  BY <1>2, <1>3, <1>4, <1>6, SeqEqual DEF n
<1> QED
  BY <1>7 DEF Value, a, b

(* strtoll and strtoull *)
LEMMA SignPrefix ==
  ASSUME NEW u, NEW l, Prefix(u, l), Len(l) # 0
  PROVE  /\ AfterSign(l, 1) = AfterSign(u, 1)
         /\ \A n : Signed(l, 1, n) = Signed(u, 1, n)
<1>1. 1 \in 1..Len(l)
  BY PrefixEnds
<1>2. At(l, 1) = At(u, 1)
  BY <1>1 DEF Prefix
<1> QED
  BY <1>2 DEF AfterSign, Signed

LEMMA IntegerPrefix ==
  ASSUME NEW u, NEW l, Prefix(u, l), NEW from \in 1..(Len(u) + 1), NEW radix \in {8, 10, 16},
         Len(l) # 0, ReadInteger(u, from, radix).end = Len(l)
  PROVE  ReadInteger(l, from, radix) = ReadInteger(u, from, radix)
<1> DEFINE to == SkipAll(u, from, Digits(radix))
<1>0. u \in Seq(Char) /\ Len(l) \in Nat /\ Len(u) \in Nat /\ NoChar \notin Digits(radix)
  BY PrefixEnds, DigitSets DEF Prefix
<1>1. Skipped(u, from, Digits(radix), to)
  BY <1>0, SkipAllStops
<1>2. ReadInteger(u, from, radix) = IntegerDigits(u, from, to, radix)
  BY DEF ReadInteger
<1> HIDE DEF to
<1>3. to \in Nat /\ from \in Nat \ {0} /\ from <= to
  BY <1>0, <1>1 DEF Skipped
<1>4. to # from /\ to - 1 = Len(l)
  BY <1>2 DEF IntegerDigits
<1>5. to <= Len(l) + 1
  BY <1>0, <1>3, <1>4
<1>6. SkipAll(l, from, Digits(radix)) = to
  BY <1>0, <1>1, <1>3, <1>5, SkipPrefix
<1>7. Value(l, from, to, radix) = Value(u, from, to, radix)
  BY <1>3, <1>5, ValuePrefix
<1>8. ReadInteger(l, from, radix) = IntegerDigits(l, from, to, radix)
  BY <1>6 DEF ReadInteger
<1>9. Signed(l, 1, Value(l, from, to, radix)) = Signed(u, 1, Value(u, from, to, radix))
  BY <1>7, SignPrefix
<1> QED
  BY <1>2, <1>4, <1>8, <1>9 DEF IntegerDigits

(* What begins a prefix begins the text. *)
LEMMA AtPrefix ==
  ASSUME NEW u, NEW l, Prefix(u, l), NEW i
  PROVE  /\ At(l, i) # NoChar => At(l, i) = At(u, i) /\ i \in 1..Len(l)
         /\ i \in 1..Len(l) => At(l, i) = At(u, i)
  BY AtText DEF Prefix

LEMMA HexPrefix ==
  ASSUME NEW u, NEW l, Prefix(u, l), NEW i \in Nat \ {0}
  PROVE  /\ IsHex(l, i) => IsHex(u, i)
         /\ IsHex(u, i) /\ i + 2 \in 1..Len(l) => IsHex(l, i)
<1>1. IsHex(l, i) => IsHex(u, i)
  <2> SUFFICES ASSUME IsHex(l, i) PROVE IsHex(u, i)
    OBVIOUS
  <2>1. At(l, i) = "0" /\ At(l, i + 1) = "x" /\ At(l, i + 2) \in Digits(16)
    BY StartsPair DEF IsHex
  <2>2. At(u, i) = "0" /\ At(u, i + 1) = "x" /\ At(u, i + 2) \in Digits(16)
    BY <2>1, AtPrefix, DigitSets DEF NoChar
  <2> QED
    BY <2>2, StartsPair DEF IsHex
<1>2. ASSUME IsHex(u, i), i + 2 \in 1..Len(l) PROVE IsHex(l, i)
  <2>1. At(u, i) = "0" /\ At(u, i + 1) = "x" /\ At(u, i + 2) \in Digits(16)
    BY <1>2, StartsPair DEF IsHex
  <2>2. i \in 1..Len(l) /\ i + 1 \in 1..Len(l)
    BY <1>2, PrefixEnds
  <2>3. At(l, i) = "0" /\ At(l, i + 1) = "x" /\ At(l, i + 2) \in Digits(16)
    BY <1>2, <2>1, <2>2, AtPrefix
  <2> QED
    BY <2>3, StartsPair DEF IsHex
<1> QED
  BY <1>1, <1>2

LEMMA StrToLLPrefix ==
  ASSUME NEW u, NEW l, Prefix(u, l), Len(l) # 0, StrToLL(u, AfterSign(u, 1), 0).end = Len(l)
  PROVE  StrToLL(l, AfterSign(l, 1), 0) = StrToLL(u, AfterSign(u, 1), 0)
<1> DEFINE beg == AfterSign(u, 1)
<1>0. u \in Seq(Char) /\ Len(l) \in Nat /\ Len(u) \in Nat /\ 1 \in 1..(Len(u) + 1) /\ Len(l) <= Len(u)
  BY PrefixEnds DEF Prefix
<1>1. beg \in 1..(Len(u) + 1) /\ beg \in Nat /\ beg # 0 /\ AfterSign(l, 1) = beg
  BY <1>0, SignPassed, SignPrefix
<1>2. StrToLL(u, beg, 0).end = Len(l)
  OBVIOUS
<1> HIDE DEF beg
<1>3. CASE IsHex(u, beg)
  <2>1. StrToLL(u, beg, 0) = ReadInteger(u, beg + 2, 16)
    BY <1>3 DEF StrToLL
  <2>2. At(u, beg + 2) # NoChar
    BY <1>3, DigitSets DEF IsHex
  <2>3. beg + 2 \in 1..(Len(u) + 1)
    BY <1>0, <2>2, AtText
  <2>4. ReadInteger(l, beg + 2, 16) = ReadInteger(u, beg + 2, 16)
    BY <1>2, <2>1, <2>3, IntegerPrefix
  <2>5. beg + 2 \in 1..Len(l)
    <3> DEFINE to == SkipAll(u, beg + 2, Digits(16))
    <3>1. Skipped(u, beg + 2, Digits(16), to)
      BY <1>0, <2>3, SkipAllStops, DigitSets
    <3>2. Len(l) = (IF to = beg + 2 THEN 0 ELSE to - 1)
      BY <1>2, <2>1 DEF ReadInteger, IntegerDigits
    <3> HIDE DEF to
    <3> QED
      BY <1>0, <1>1, <3>1, <3>2 DEF Skipped
  <2>6. IsHex(l, beg)
    BY <1>1, <1>3, <2>5, HexPrefix
  <2>7. StrToLL(l, beg, 0) = ReadInteger(l, beg + 2, 16)
    BY <2>6 DEF StrToLL
  <2> QED
    BY <1>1, <2>1, <2>4, <2>7 DEF beg
<1>4. CASE ~ IsHex(u, beg)
  <2> DEFINE radix == IF At(u, beg) = "0" THEN 8 ELSE 10
  <2>1. StrToLL(u, beg, 0) = ReadInteger(u, beg, radix)
    BY <1>4 DEF StrToLL
  <2>2. radix \in {8, 10, 16}
    OBVIOUS
  <2> HIDE DEF radix
  <2>3. ReadInteger(l, beg, radix) = ReadInteger(u, beg, radix)
    BY <1>1, <1>2, <2>1, <2>2, IntegerPrefix
  <2>4. beg \in 1..Len(l)
    <3> DEFINE to == SkipAll(u, beg, Digits(radix))
    <3>1. Skipped(u, beg, Digits(radix), to)
      BY <1>0, <1>1, <2>2, SkipAllStops, DigitSets
    <3>2. Len(l) = (IF to = beg THEN 0 ELSE to - 1)
      BY <1>2, <2>1 DEF ReadInteger, IntegerDigits
    <3> HIDE DEF to
    <3> QED
      BY <1>0, <1>1, <3>1, <3>2 DEF Skipped
  <2>5. At(l, beg) = At(u, beg) /\ ~ IsHex(l, beg)
    BY <1>1, <1>4, <2>4, AtPrefix, HexPrefix
  <2>6. StrToLL(l, beg, 0) = ReadInteger(l, beg, radix)
    BY <2>5 DEF StrToLL, radix
  <2> QED
    BY <1>1, <2>1, <2>3, <2>6 DEF beg
<1> QED
  BY <1>3, <1>4

(* strtold *)
LEMMA ExponentPrefix ==
  ASSUME NEW u, NEW l, Prefix(u, l), NEW to \in 2..(Len(u) + 1), NEW num, NEW den,
         Len(l) # 0, Exponent(u, to, AfterSign(u, to + 1), num, den).end = Len(l)
  PROVE  /\ to <= Len(l) + 1
         /\ Exponent(l, to, AfterSign(l, to + 1), num, den) = Exponent(u, to, AfterSign(u, to + 1), num, den)
<1> DEFINE sign == AfterSign(u, to + 1)
           last == SkipAll(u, sign, Digits(10))
<1>0. u \in Seq(Char) /\ Len(l) \in Nat /\ Len(u) \in Nat /\ Len(l) <= Len(u) /\ to \in Nat /\ At(l, Len(l) + 1) = NoChar
  BY PrefixEnds DEF Prefix
<1>1. CASE At(u, to) = "e" /\ last > sign
  <2>1. At(u, to) # NoChar
    BY <1>1 DEF NoChar
  <2>2. to + 1 \in 1..(Len(u) + 1)
    BY <1>0, <2>1, AtText
  <2>3. sign \in (to + 1)..(Len(u) + 1)
    BY <1>0, <2>2, SignPassed
  <2>4. Skipped(u, sign, Digits(10), last)
    BY <1>0, <2>2, <2>3, SkipAllStops, DigitSets
  <2>5. last \in Nat /\ last > sign /\ sign \in Nat \ {0} /\ to + 1 <= sign
    BY <1>0, <1>1, <2>3, <2>4 DEF Skipped
  <2>6. Exponent(u, to, sign, num, den) = WithExp(num, den, Signed(u, to + 1, Value(u, sign, last, 10)), last)
    BY <1>1 DEF Exponent, ExpDigits
  <2> HIDE DEF sign, last
  <2>7. Len(l) = last - 1
    <3>1. WithExp(num, den, Signed(u, to + 1, Value(u, sign, last, 10)), last).end \in {0, last - 1}
      BY <2>5, WithExpEnds
    <3> QED
      BY <2>6, <3>1 DEF sign
  <2>8. to \in 1..Len(l) /\ to + 1 \in 1..Len(l) /\ last <= Len(l) + 1 /\ sign <= last
    BY <1>0, <2>5, <2>7
  <2>9. At(l, to) = "e" /\ At(l, to + 1) = At(u, to + 1)
    BY <1>1, <2>8, AtPrefix
  <2>10. AfterSign(l, to + 1) = sign /\ \A n : Signed(l, to + 1, n) = Signed(u, to + 1, n)
    BY <2>9 DEF AfterSign, Signed, sign
  <2>11. SkipAll(l, sign, Digits(10)) = last
    BY <2>4, <2>5, <2>8, SkipPrefix, DigitSets
  <2>12. Value(l, sign, last, 10) = Value(u, sign, last, 10)
    BY <2>5, <2>8, ValuePrefix
  <2>13. Exponent(l, to, sign, num, den) = WithExp(num, den, Signed(l, to + 1, Value(l, sign, last, 10)), last)
    BY <1>1, <2>9, <2>11 DEF Exponent, ExpDigits
  <2> QED
    BY <2>6, <2>8, <2>10, <2>12, <2>13 DEF sign
<1>2. CASE ~ (At(u, to) = "e" /\ last > sign)
  <2>1. Exponent(u, to, sign, num, den) = WithExp(num, den, 0, to)
    BY <1>2 DEF Exponent, ExpDigits
  <2>2. Len(l) = to - 1
    BY <2>1, WithExpEnds
  <2>3. to = Len(l) + 1
    BY <1>0, <2>2
  <2>4. At(l, to) # "e"
    BY <1>0, <2>3 DEF NoChar
  <2>5. Exponent(l, to, AfterSign(l, to + 1), num, den) = WithExp(num, den, 0, to)
    BY <2>4 DEF Exponent, ExpDigits
  <2> QED
    BY <1>0, <2>1, <2>3, <2>5
<1> QED
  BY <1>1, <1>2

(* The digits before and behind the point *)
LEMMA FractionPrefix ==
  ASSUME NEW u, NEW l, Prefix(u, l), NEW from \in 1..(Len(u) + 1), NEW radix \in {10, 16},
         NEW point, point = SkipAll(u, from, Digits(radix)),
         NEW to, to = (IF At(u, point) = "." THEN SkipAll(u, point + 1, Digits(radix)) ELSE point)
  PROVE  /\ point \in from..to /\ to \in from..(Len(u) + 1)
         /\ ReadReal(u, from, radix) = RealDigits(u, from, point, to, radix)
         /\ to <= Len(l) + 1 => ReadReal(l, from, radix) = RealDigits(l, from, point, to, radix)
<1>0. /\ u \in Seq(Char) /\ Len(l) \in Nat /\ Len(u) \in Nat /\ Len(l) <= Len(u) /\ At(l, Len(l) + 1) = NoChar
      /\ NoChar \notin Digits(radix) /\ from \in Nat \ {0}
  BY PrefixEnds, DigitSets DEF Prefix
<1>1. Skipped(u, from, Digits(radix), point)
  BY <1>0, SkipAllStops
<1>2. point \in from..(Len(u) + 1) /\ point \in Nat \ {0}
  BY <1>0, <1>1 DEF Skipped
<1>3. ReadReal(u, from, radix) = RealDigits(u, from, point, to, radix)
  BY DEF ReadReal, Fraction
<1>4. CASE At(u, point) = "."
  <2>1. At(u, point) # NoChar
    BY <1>4 DEF NoChar
  <2>2. point + 1 \in 1..(Len(u) + 1)
    BY <1>0, <2>1, AtText
  <2>3. Skipped(u, point + 1, Digits(radix), to)
    BY <1>0, <1>4, <2>2, SkipAllStops
  <2>4. to \in (point + 1)..(Len(u) + 1)
    BY <2>3 DEF Skipped
  <2>5. ASSUME to <= Len(l) + 1 PROVE ReadReal(l, from, radix) = RealDigits(l, from, point, to, radix)
    <3>1. point <= Len(l) + 1 /\ point \in 1..Len(l) /\ point + 1 \in Nat \ {0}
      BY <1>0, <1>2, <2>4, <2>5
    <3>2. SkipAll(l, from, Digits(radix)) = point
      BY <1>0, <1>1, <3>1, SkipPrefix
    <3>3. SkipAll(l, point + 1, Digits(radix)) = to
      BY <1>0, <2>3, <2>5, <3>1, SkipPrefix
    <3>4. At(l, point) = "."
      BY <1>4, <3>1, AtPrefix
    <3> QED
      BY <3>2, <3>3, <3>4 DEF ReadReal, Fraction
  <2> QED
    BY <1>0, <1>2, <1>3, <2>4, <2>5
<1>5. CASE At(u, point) # "."
  <2>1. to = point
    BY <1>5
  <2>2. ASSUME to <= Len(l) + 1 PROVE ReadReal(l, from, radix) = RealDigits(l, from, point, to, radix)
    <3>1. SkipAll(l, from, Digits(radix)) = point
      BY <1>0, <1>1, <2>1, <2>2, SkipPrefix
    <3>2. At(l, point) # "."
      BY <1>5, AtPrefix DEF NoChar
    <3> QED
      BY <2>1, <3>1, <3>2 DEF ReadReal, Fraction
  <2> QED
    BY <1>0, <1>2, <1>3, <2>1, <2>2
<1> QED
  BY <1>4, <1>5

LEMMA RealPrefix ==
  ASSUME NEW u, NEW l, Prefix(u, l), NEW from \in 1..(Len(u) + 1), NEW radix \in {10, 16},
         Len(l) # 0, ReadReal(u, from, radix).end = Len(l)
  PROVE  /\ ReadReal(l, from, radix) = ReadReal(u, from, radix)
         /\ \E k \in from..Len(l) : At(u, k) # "."
<1> DEFINE point == SkipAll(u, from, Digits(radix))
           to == IF At(u, point) = "." THEN SkipAll(u, point + 1, Digits(radix)) ELSE point
<1>0. Len(l) \in Nat /\ Len(u) \in Nat /\ Len(l) <= Len(u) /\ from \in Nat \ {0}
  BY PrefixEnds DEF Prefix
<1>1. /\ point \in from..to /\ to \in from..(Len(u) + 1)
      /\ ReadReal(u, from, radix) = RealDigits(u, from, point, to, radix)
      /\ to <= Len(l) + 1 => ReadReal(l, from, radix) = RealDigits(l, from, point, to, radix)
  BY FractionPrefix
<1> HIDE DEF point, to
<1> DEFINE num == Signed(u, 1, Value(u, from, to, radix))
           den == IF to > point THEN radix^(to - point - 1) ELSE 1
<1>2. /\ ~ \A k \in from..(to - 1) : At(u, k) = "."
      /\ RealDigits(u, from, point, to, radix) = Exponent(u, to, AfterSign(u, to + 1), num, den)
  BY <1>1 DEF RealDigits, NotRead
<1>3. PICK k \in from..(to - 1) : At(u, k) # "."
  BY <1>2
<1>4. to \in 2..(Len(u) + 1)
  BY <1>0, <1>1, <1>3
<1> HIDE DEF num, den
<1>5. /\ to <= Len(l) + 1
      /\ Exponent(l, to, AfterSign(l, to + 1), num, den) = Exponent(u, to, AfterSign(u, to + 1), num, den)
  BY <1>1, <1>2, <1>4, ExponentPrefix
<1>6. k \in from..Len(l) /\ k \in 1..Len(l) /\ At(l, k) = At(u, k)
  BY <1>0, <1>3, <1>4, <1>5, AtPrefix
<1>7. Signed(l, 1, Value(l, from, to, radix)) = num
  <2>1. from <= to /\ to \in Nat
    BY <1>0, <1>1, <1>4
  <2>2. Value(l, from, to, radix) = Value(u, from, to, radix)
    BY <1>0, <1>5, <2>1, ValuePrefix
  <2> QED
    BY <2>2, SignPrefix DEF num
<1>8. RealDigits(l, from, point, to, radix) = Exponent(l, to, AfterSign(l, to + 1), num, den)
  BY <1>3, <1>6, <1>7 DEF RealDigits, den
<1> QED
  BY <1>1, <1>2, <1>3, <1>5, <1>6, <1>8

LEMMA StrToLDPrefix ==
  ASSUME NEW u, NEW l, Prefix(u, l), Len(l) # 0, StrToLD(u, AfterSign(u, 1)).end = Len(l)
  PROVE  StrToLD(l, AfterSign(l, 1)) = StrToLD(u, AfterSign(u, 1))
<1> DEFINE beg == AfterSign(u, 1)
           Hex(t) == IsHex(t, beg) \/ (Starts(t, beg, <<"0", "x", ".">>) /\ At(t, beg + 3) \in Digits(16))
           Nan(t) == Starts(t, beg, <<"n", "a", "n">>)
<1>0. u \in Seq(Char) /\ Len(l) \in Nat /\ Len(u) \in Nat /\ 1 \in 1..(Len(u) + 1) /\ Len(l) <= Len(u)
  BY PrefixEnds DEF Prefix
<1>1. beg \in 1..(Len(u) + 1) /\ beg \in Nat \ {0} /\ AfterSign(l, 1) = beg
  BY <1>0, SignPassed, SignPrefix
<1>2. StrToLD(u, beg).end = Len(l)
  OBVIOUS
<1> HIDE DEF beg
<1>3. Nan(l) => Nan(u)
  <2> SUFFICES ASSUME Nan(l) PROVE Nan(u)
    OBVIOUS
  <2>1. At(l, beg) = "n" /\ At(l, beg + 1) = "a" /\ At(l, beg + 2) = "n"
    BY <1>1, StartsTriple
  <2>2. At(u, beg) = "n" /\ At(u, beg + 1) = "a" /\ At(u, beg + 2) = "n"
    BY <2>1, AtPrefix DEF NoChar
  <2> QED
    BY <1>1, <2>2, StartsTriple
<1>4. Hex(l) => Hex(u)
  <2>1. IsHex(l, beg) => IsHex(u, beg)
    BY <1>1, HexPrefix
  <2>2. ASSUME Starts(l, beg, <<"0", "x", ".">>), At(l, beg + 3) \in Digits(16)
        PROVE  Starts(u, beg, <<"0", "x", ".">>) /\ At(u, beg + 3) \in Digits(16)
    <3>1. At(l, beg) = "0" /\ At(l, beg + 1) = "x" /\ At(l, beg + 2) = "."
      BY <1>1, <2>2, StartsTriple
    <3>2. At(u, beg) = "0" /\ At(u, beg + 1) = "x" /\ At(u, beg + 2) = "." /\ At(u, beg + 3) \in Digits(16)
      BY <2>2, <3>1, AtPrefix, DigitSets DEF NoChar
    <3> QED
      BY <1>1, <3>2, StartsTriple
  <2> QED
    BY <2>1, <2>2
<1>5. CASE Nan(u)
  <2>1. StrToLD(u, beg) = [NotRead EXCEPT !.end = beg + 2]
    BY <1>5 DEF StrToLD
  <2>2. Len(l) = beg + 2
    BY <1>2, <2>1 DEF NotRead
  <2>3. beg \in 1..Len(l) /\ beg + 1 \in 1..Len(l) /\ beg + 2 \in 1..Len(l)
    BY <1>1, <2>2
  <2>4. At(u, beg) = "n" /\ At(u, beg + 1) = "a" /\ At(u, beg + 2) = "n"
    BY <1>1, <1>5, StartsTriple
  <2>5. At(l, beg) = "n" /\ At(l, beg + 1) = "a" /\ At(l, beg + 2) = "n"
    BY <2>3, <2>4, AtPrefix
  <2>6. Nan(l)
    BY <1>1, <2>5, StartsTriple
  <2>7. StrToLD(l, beg) = [NotRead EXCEPT !.end = beg + 2]
    BY <2>6 DEF StrToLD
  <2> QED
    BY <1>1, <2>1, <2>7 DEF beg
<1>6. CASE ~ Nan(u) /\ Hex(u)
  <2>1. StrToLD(u, beg) = ReadReal(u, beg + 2, 16)
    BY <1>6 DEF StrToLD
  <2>2. At(u, beg) = "0" /\ At(u, beg + 1) = "x"
    BY <1>1, <1>6, StartsPair, StartsTriple DEF IsHex
  <2>3. beg + 1 \in 1..Len(u)
    BY <1>0, <2>2, AtText DEF NoChar
  <2>4. beg + 2 \in 1..(Len(u) + 1)
    BY <1>0, <1>1, <2>3
  <2>5. /\ ReadReal(l, beg + 2, 16) = ReadReal(u, beg + 2, 16)
        /\ \E k \in (beg + 2)..Len(l) : At(u, k) # "."
    BY <1>2, <2>1, <2>4, RealPrefix
  <2>6. PICK k \in (beg + 2)..Len(l) : At(u, k) # "."
    BY <2>5
  <2>7. beg \in 1..Len(l) /\ beg + 1 \in 1..Len(l) /\ beg + 2 \in 1..Len(l)
    BY <1>0, <1>1, <2>6
  <2>8. Hex(l)
    <3>1. CASE IsHex(u, beg)
      BY <1>1, <2>7, <3>1, HexPrefix
    <3>2. CASE Starts(u, beg, <<"0", "x", ".">>) /\ At(u, beg + 3) \in Digits(16)
      <4>1. At(u, beg + 2) = "."
        BY <1>1, <3>2, StartsTriple
      <4>2. k # beg + 2
        BY <2>6, <4>1
      <4>3. beg + 3 \in 1..Len(l)
        BY <1>0, <1>1, <2>6, <4>2
      <4>4. At(l, beg) = "0" /\ At(l, beg + 1) = "x" /\ At(l, beg + 2) = "." /\ At(l, beg + 3) \in Digits(16)
        BY <2>2, <2>7, <3>2, <4>1, <4>3, AtPrefix
      <4> QED
        BY <1>1, <4>4, StartsTriple
    <3> QED
      BY <1>6, <3>1, <3>2
  <2>9. StrToLD(l, beg) = ReadReal(l, beg + 2, 16)
    BY <1>3, <1>6, <2>8 DEF StrToLD
  <2> QED
    BY <1>1, <2>1, <2>5, <2>9 DEF beg
<1>7. CASE ~ Nan(u) /\ ~ Hex(u)
  <2>1. StrToLD(u, beg) = ReadReal(u, beg, 10)
    BY <1>7 DEF StrToLD
  <2>2. ReadReal(l, beg, 10) = ReadReal(u, beg, 10)
    BY <1>1, <1>2, <2>1, RealPrefix
  <2>3. StrToLD(l, beg) = ReadReal(l, beg, 10)
    BY <1>3, <1>4, <1>7 DEF StrToLD
  <2> QED
    BY <1>1, <2>1, <2>2, <2>3 DEF beg
<1> QED
  BY <1>5, <1>6, <1>7

LEMMA FromSomePrefix ==
  ASSUME NEW u, NEW l, Prefix(u, l), NEW type, ~ FromSome(type, u, 0).err, FromSome(type, u, 0).end = Len(l)
  PROVE  FromSome(type, l, 0) = FromSome(type, u, 0)
<1>1. CASE type = "real"
  <2> DEFINE ld == StrToLD(u, AfterSign(u, 1))
  <2>1. FromSome(type, u, 0) = RealFrom(ld) /\ FromSome(type, l, 0) = RealFrom(StrToLD(l, AfterSign(l, 1)))
    BY <1>1 DEF FromSome
  <2> HIDE DEF ld
  <2>2. ld.end = Len(l) /\ Len(l) # 0
    BY <2>1 DEF RealFrom, Failed
  <2>3. StrToLD(l, AfterSign(l, 1)) = ld
    BY <2>2, StrToLDPrefix DEF ld
  <2> QED
    BY <2>1, <2>3
<1>2. CASE type # "real"
  <2> DEFINE ll == StrToLL(u, AfterSign(u, 1), 0)
             ull == StrToULL(u, AfterSign(u, 1), 0)
             i == IF type \in {"byte", "uint"} THEN ull ELSE ll
  <2>1. /\ FromSome(type, u, 0) = IntegerFrom(type, i)
        /\ FromSome(type, l, 0) =
             IntegerFrom(type, IF type \in {"byte", "uint"} THEN StrToULL(l, AfterSign(l, 1), 0) ELSE StrToLL(l, AfterSign(l, 1), 0))
    BY <1>2 DEF FromSome
  <2>2. i.end = ll.end
    BY StrToULLEnds
  <2> HIDE DEF i
  <2>3. i.end = Len(l) /\ Len(l) # 0
    BY <2>1 DEF IntegerFrom, Failed
  <2>4. StrToLL(l, AfterSign(l, 1), 0) = ll
    BY <2>2, <2>3, StrToLLPrefix
  <2>5. StrToULL(l, AfterSign(l, 1), 0) = ull
    BY <2>4 DEF StrToULL
  <2> QED
    BY <2>1, <2>4, <2>5 DEF i
<1> QED
  BY <1>1, <1>2

(* The first n characters *)
LEMMA FirstChars ==
  ASSUME NEW t \in Seq(Char), NEW n \in 0..Len(t)
  PROVE  /\ Len(SubSeq(t, 1, n)) = n /\ Prefix(t, SubSeq(t, 1, n))
         /\ n = Len(t) => SubSeq(t, 1, n) = t
<1> DEFINE c == SubSeq(t, 1, n)
<1>1. /\ 1 \in 1..(Len(t) + 1) /\ n \in (1 - 1)..Len(t) /\ n - 1 + 1 = n /\ \A k \in 1..n : 1 + k - 1 = k
      /\ n <= Len(t) /\ Len(t) \in Nat
  OBVIOUS
<1>2. c \in Seq(Char) /\ Len(c) = n /\ \A k \in 1..n : At(c, k) = At(t, k)
  BY <1>1, CutText
<1> HIDE DEF c
<1>3. ASSUME n = Len(t) PROVE c = t
  <2>1. \A k \in 1..n : c[k] = t[k]
    BY <1>2, <1>3, AtChar
  <2> QED
    BY <1>2, <1>3, <2>1, SeqEqual
<1> QED
  BY <1>1, <1>2, <1>3 DEF Prefix, c

LEMMA PrefixOfPrefix ==
  ASSUME NEW t, NEW c, NEW l, Prefix(t, c), Prefix(t, l), Len(l) <= Len(c)
  PROVE  Prefix(c, l)
<1>1. Len(l) \in Nat /\ Len(c) \in Nat
  BY PrefixEnds
<1>2. ASSUME NEW k \in 1..Len(l) PROVE At(l, k) = At(c, k)
  <2>1. k \in 1..Len(c)
    BY <1>1
  <2> QED
    BY <2>1 DEF Prefix
<1> QED
  BY <1>2 DEF Prefix

(* from_chars looks at the first MaxLiteral characters. *)
Looked(t) == IF Len(t) < MaxLiteral THEN Len(t) ELSE MaxLiteral
LEMMA LookedAt ==
  ASSUME NEW t \in Seq(Char)
  PROVE  /\ Looked(t) \in 0..Len(t) /\ Looked(t) <= MaxLiteral
         /\ Len(t) <= MaxLiteral => Looked(t) = Len(t)
         /\ \A type, base : FromChars(type, t, base) = FromSome(type, SubSeq(t, 1, Looked(t)), base)
<1>1. MaxLiteral \in Nat \ {0} /\ Len(t) \in Nat
  BY WidthsAssumption
<1>2. \A type, base : FromChars(type, t, base) = FromSome(type, SubSeq(t, 1, Looked(t)), base)
  BY DEF FromChars, Looked
<1> QED
  BY <1>1, <1>2 DEF Looked

LEMMA FromCharsAgain ==
  ASSUME NEW t \in Seq(Char), NEW type \in {"real", "uint", "sint"}, ~ FromChars(type, t, 0).err,
         NEW n, n = FromChars(type, t, 0).end
  PROVE  /\ n \in 1..Len(t) /\ n <= MaxLiteral
         /\ FromChars(type, SubSeq(t, 1, n), 0) = FromChars(type, t, 0)
<1> DEFINE m == Looked(t)
           c == SubSeq(t, 1, m)
           l == SubSeq(t, 1, n)
<1>1. m \in 0..Len(t) /\ m <= MaxLiteral /\ FromChars(type, t, 0) = FromSome(type, c, 0)
  BY LookedAt
<1> HIDE DEF m
<1>2. Len(c) = m /\ Prefix(t, c) /\ c \in Seq(Char)
  BY <1>1, FirstChars DEF Prefix
<1> HIDE DEF c
<1>3. n \in 1..m
  <2>1. IsNumber(c, n, IF type # "real" /\ At(c, AfterSign(c, 1)) = "0" THEN 8 ELSE 10)
    BY <1>1, <1>2, FromSomeReads
  <2> QED
    BY <1>2, <2>1 DEF IsNumber
<1>4. MaxLiteral \in Nat /\ Len(t) \in Nat
  BY WidthsAssumption
<1>5. n \in 1..Len(t) /\ n <= MaxLiteral /\ n \in 0..Len(t) /\ n <= m
  BY <1>1, <1>3, <1>4
<1>6. Len(l) = n /\ Prefix(t, l) /\ l \in Seq(Char)
  BY <1>5, FirstChars DEF Prefix
<1> HIDE DEF l
<1>7. Prefix(c, l)
  BY <1>2, <1>5, <1>6, PrefixOfPrefix
<1>8. FromSome(type, l, 0) = FromSome(type, c, 0)
  BY <1>1, <1>6, <1>7, FromSomePrefix
<1>9. FromChars(type, l, 0) = FromSome(type, l, 0)
  <2>1. Looked(l) = Len(l) /\ Looked(l) \in 0..Len(l) /\ FromChars(type, l, 0) = FromSome(type, SubSeq(l, 1, Looked(l)), 0)
    BY <1>5, <1>6, LookedAt
  <2>2. SubSeq(l, 1, Looked(l)) = l
    BY <1>6, <2>1, FirstChars
  <2> QED
    BY <2>1, <2>2
<1> QED
  BY <1>1, <1>5, <1>8, <1>9 DEF l
-----------------------------------------------------------------------------
(* A recursion over 0..n whose steps stay in S defines a function. *)
StepsOf(f, n, S, a, g) == f \in [0..n -> S] /\ f[0] = a /\ \A k \in 1..n : f[k] = g[k][f[k - 1]]
LEMMA StepsExist ==
  ASSUME NEW n, n \in Nat, NEW S, NEW a, a \in S, NEW g, g \in [1..n -> [S -> S]]
  PROVE  \E f : StepsOf(f, n, S, a, g)
<1> DEFINE Ok(f, m) == f \in [0..m -> S] /\ f[0] = a /\ \A k \in 1..m : f[k] = g[k][f[k - 1]]
           T == {m \in 0..n : \E f : Ok(f, m)}
<1>1. 0 \in T
  <2> DEFINE h == [i \in 0..0 |-> a]
  <2>1. h \in [0..0 -> S] /\ h[0] = a /\ \A k \in 1..0 : h[k] = g[k][h[k - 1]]
    OBVIOUS
  <2> HIDE DEF h
  <2>2. \E f : Ok(f, 0)
    BY <2>1
  <2> QED
    BY <2>2
<1>2. ASSUME NEW m \in 0..(n - 1), m \in T PROVE m + 1 \in T
  <2>1. PICK f : Ok(f, m)
    BY <1>2
  <2> DEFINE h == [i \in 0..(m + 1) |-> IF i <= m THEN f[i] ELSE g[m + 1][f[m]]]
  <2>2. m + 1 \in 1..n /\ m \in 0..m /\ f[m] \in S /\ g[m + 1][f[m]] \in S
    BY <2>1
  <2>3. h \in [0..(m + 1) -> S]
    BY <2>1, <2>2
  <2>4. h[0] = a
    BY <2>1
  <2>5. ASSUME NEW k \in 1..(m + 1) PROVE h[k] = g[k][h[k - 1]]
    <3>1. CASE k = m + 1
      <4>1. h[k] = g[m + 1][f[m]] /\ k - 1 = m /\ h[m] = f[m]
        BY <3>1
      <4> QED
        BY <3>1, <4>1
    <3>2. CASE k # m + 1
      <4>1. k \in 1..m /\ h[k] = f[k] /\ h[k - 1] = f[k - 1]
        BY <3>2
      <4> QED
        BY <2>1, <4>1
    <3> QED
      BY <3>1, <3>2
  <2> HIDE DEF h
  <2>6. Ok(h, m + 1)
    BY <2>3, <2>4, <2>5
  <2>7. m + 1 \in 0..n
    OBVIOUS
  <2> QED
    BY <2>6, <2>7
<1>6. \A m \in 0..(n - 1) : m \in T => m + 1 \in T
  BY <1>2
<1> HIDE DEF T
<1>3. 0..n \subseteq T
  <2>1. 0 \in Nat /\ n \in Int
    OBVIOUS
  <2> QED
    BY ONLY <1>1, <1>6, <2>1, AlongRange
<1>4. n \in T
  BY <1>3
<1> QED
  BY <1>4 DEF T, StepsOf

LEMMA DigitValue ==
  ASSUME NEW c
  PROVE  /\ c \in Digits(16) => Digit(c) \in 0..15
         /\ c \in Digits(10) => Digit(c) \in 0..9
<1>1. /\ DigitChars[1] = "0" /\ DigitChars[2] = "1" /\ DigitChars[3] = "2" /\ DigitChars[4] = "3"
      /\ DigitChars[5] = "4" /\ DigitChars[6] = "5" /\ DigitChars[7] = "6" /\ DigitChars[8] = "7"
      /\ DigitChars[9] = "8" /\ DigitChars[10] = "9" /\ DigitChars[11] = "a" /\ DigitChars[12] = "b"
      /\ DigitChars[13] = "c" /\ DigitChars[14] = "d" /\ DigitChars[15] = "e" /\ DigitChars[16] = "f"
  BY DEF DigitChars
<1>2. ASSUME c \in Digits(16) PROVE \E i \in 1..16 : DigitChars[i] = c
  BY <1>1, <1>2 DEF Digits
<1>3. ASSUME c \in Digits(16)
      PROVE  (CHOOSE i \in 1..16 : DigitChars[i] = c) \in 1..16 /\ DigitChars[CHOOSE i \in 1..16 : DigitChars[i] = c] = c
  BY <1>2, <1>3
<1> DEFINE d == CHOOSE i \in 1..16 : DigitChars[i] = c
<1>4. Digit(c) = d - 1
  BY DEF Digit
<1>5. c \in Digits(16) => d \in 1..16 /\ DigitChars[d] = c
  BY <1>3
<1> HIDE DEF d
<1>6. ASSUME c \in Digits(10) PROVE d \in 1..10
  <2>1. c \in Digits(16)
    BY <1>6, DigitSets
  <2>2. d \in 1..16 /\ DigitChars[d] \notin {"a", "b", "c", "d", "e", "f"}
    BY <1>5, <1>6, <2>1 DEF Digits
  <2>3. d \notin {11, 12, 13, 14, 15, 16}
    BY <1>1, <2>2
  <2> QED
    BY <2>2, <2>3
<1> QED
  BY <1>4, <1>5, <1>6

(* The value of digits follows its definition. *)
ValueUpTo(digits, base, f) ==
  /\ f \in [0..Len(digits) -> Nat] /\ f[0] = 0
  /\ \A k \in 1..Len(digits) : f[k] = IF digits[k] = "." THEN f[k - 1] ELSE f[k - 1] * base + Digit(digits[k])
LEMMA ValueFollows ==
  ASSUME NEW digits \in Seq(Char), \A k \in 1..Len(digits) : digits[k] \in Digits(16) \union {"."}, NEW base \in Nat
  PROVE  \E f : ValueUpTo(digits, base, f) /\ ValueOf(digits, base) = f[Len(digits)]
<1> DEFINE n == Len(digits)
           F(f) == [k \in 0..n |-> IF k = 0 THEN 0 ELSE IF digits[k] = "." THEN f[k - 1] ELSE f[k - 1] * base + Digit(digits[k])]
           g == [k \in 1..n |-> [x \in Nat |-> IF digits[k] = "." THEN x ELSE x * base + Digit(digits[k])]]
<1>0. n \in Nat
  OBVIOUS
<1>1. \A k \in 1..n : digits[k] # "." => Digit(digits[k]) \in Nat
  BY DigitValue
<1>2. g \in [1..n -> [Nat -> Nat]]
  BY <1>1
<1> HIDE DEF g
<1>9. PICK f : StepsOf(f, n, Nat, 0, g)
  <2> HIDE DEF n
  <2>1. 0 \in Nat
    OBVIOUS
  <2> QED
    BY ONLY <1>0, <1>2, <2>1, StepsExist, Zenon
<1>3. f \in [0..n -> Nat] /\ f[0] = 0 /\ \A k \in 1..n : f[k] = g[k][f[k - 1]]
  BY <1>9 DEF StepsOf
<1>4. ASSUME NEW k \in 1..n PROVE f[k] = IF digits[k] = "." THEN f[k - 1] ELSE f[k - 1] * base + Digit(digits[k])
  <2>1. k - 1 \in 0..n
    BY <1>0
  <2>2. f[k - 1] \in Nat
    BY ONLY <1>3, <2>1
  <2>3. g[k][f[k - 1]] = IF digits[k] = "." THEN f[k - 1] ELSE f[k - 1] * base + Digit(digits[k])
    BY <2>2 DEF g
  <2> QED
    BY <1>3, <2>3
<1>5. f = F(f)
  <2>1. ASSUME NEW k \in 0..n
        PROVE  f[k] = IF k = 0 THEN 0 ELSE IF digits[k] = "." THEN f[k - 1] ELSE f[k - 1] * base + Digit(digits[k])
    <3>1. CASE k = 0
      BY <1>3, <3>1
    <3>2. CASE k # 0
      <4>1. k \in 1..n
        BY <1>0, <3>2
      <4> QED
        BY <1>4, <3>2, <4>1
    <3> QED
      BY <3>1, <3>2
  <2>2. f = [k \in 0..n |-> f[k]]
    BY <1>3
  <2> QED
    BY <2>1, <2>2, Zenon
<1> DEFINE v == CHOOSE h : h = F(h)
<1>7. v = F(v)
  BY <1>5
<1>8. ValueOf(digits, base) = v[n]
  BY DEF ValueOf
<1> HIDE DEF v
<1>10. /\ v[0] = 0
       /\ \A k \in 1..n : v[k] = IF digits[k] = "." THEN v[k - 1] ELSE v[k - 1] * base + Digit(digits[k])
  BY <1>0, <1>7
<1> DEFINE T == {k \in 0..n : v[k] \in Nat}
<1>11. ASSUME NEW k \in 0..(n - 1), k \in T PROVE k + 1 \in T
  <2>1. k + 1 \in 1..n /\ k + 1 \in 0..n /\ (k + 1) - 1 = k /\ v[k] \in Nat
    BY <1>0, <1>11
  <2>2. v[k + 1] = IF digits[k + 1] = "." THEN v[k] ELSE v[k] * base + Digit(digits[k + 1])
    BY <1>10, <2>1
  <2>3. \A x, y \in Nat : x * base + y \in Nat
    OBVIOUS
  <2>4. v[k + 1] \in Nat
    BY <1>1, <2>1, <2>2, <2>3
  <2> QED
    BY <2>1, <2>4
<1>12. 0 \in T /\ 0 \in Nat /\ n \in Int
  BY <1>0, <1>10
<1>13. \A k \in 0..(n - 1) : k \in T => k + 1 \in T
  BY <1>11
<1> HIDE DEF T
<1>14. 0..n \subseteq T
  BY ONLY <1>12, <1>13, AlongRange
<1>15. v = [k \in 0..n |-> v[k]]
  BY <1>7
<1>16. \A k \in 0..n : v[k] \in Nat
  BY <1>14 DEF T
<1> HIDE DEF n
<1>17. v \in [0..n -> Nat]
  BY ONLY <1>15, <1>16
<1>18. ValueUpTo(digits, base, v)
  BY <1>10, <1>17 DEF ValueUpTo, n
<1> QED
  BY <1>8, <1>18 DEF n

(* The powers of ten follow their definition, and grow. *)
LEMMA TensFollow ==
  /\ Tens[0] = 1 /\ \A k \in 0..MaxLiteral : Tens[k] \in Nat
  /\ \A k \in 1..MaxLiteral : Tens[k] = 10 * Tens[k - 1]
<1> DEFINE F(f) == [k \in 0..MaxLiteral |-> IF k = 0 THEN 1 ELSE 10 * f[k - 1]]
           g == [k \in 1..MaxLiteral |-> [x \in Nat |-> 10 * x]]
<1>0. MaxLiteral \in Nat
  BY WidthsAssumption
<1>1. g \in [1..MaxLiteral -> [Nat -> Nat]]
  OBVIOUS
<1> HIDE DEF g
<1>2. PICK f : StepsOf(f, MaxLiteral, Nat, 1, g)
  <2>1. 1 \in Nat
    OBVIOUS
  <2> QED
    BY ONLY <1>0, <1>1, <2>1, StepsExist, Zenon
<1>3. f \in [0..MaxLiteral -> Nat] /\ f[0] = 1 /\ \A k \in 1..MaxLiteral : f[k] = g[k][f[k - 1]]
  BY <1>2 DEF StepsOf
<1>4. ASSUME NEW k \in 1..MaxLiteral PROVE f[k] = 10 * f[k - 1]
  <2>1. k - 1 \in 0..MaxLiteral
    BY <1>0
  <2>2. f[k - 1] \in Nat
    BY ONLY <1>3, <2>1
  <2>3. g[k][f[k - 1]] = 10 * f[k - 1]
    BY <2>2 DEF g
  <2> QED
    BY <1>3, <2>3
<1>5. f = F(f)
  <2>1. ASSUME NEW k \in 0..MaxLiteral PROVE f[k] = IF k = 0 THEN 1 ELSE 10 * f[k - 1]
    <3>1. CASE k = 0
      BY <1>3, <3>1
    <3>2. CASE k # 0
      <4>1. k \in 1..MaxLiteral
        BY <1>0, <3>2
      <4> QED
        BY <1>4, <3>2, <4>1
    <3> QED
      BY <3>1, <3>2
  <2>2. f = [k \in 0..MaxLiteral |-> f[k]]
    BY <1>3
  <2> QED
    BY <2>1, <2>2, Zenon
<1>6. Tens = F(Tens)
  BY <1>5 DEF Tens
<1>7. Tens[0] = 1 /\ \A k \in 1..MaxLiteral : Tens[k] = 10 * Tens[k - 1]
  BY <1>0, <1>6
<1> DEFINE T == {k \in 0..MaxLiteral : Tens[k] \in Nat}
<1>8. \A k \in 0..(MaxLiteral - 1) : k \in T => k + 1 \in T
  <2> SUFFICES ASSUME NEW k \in 0..(MaxLiteral - 1), Tens[k] \in Nat PROVE k + 1 \in T
    OBVIOUS
  <2>1. k + 1 \in 1..MaxLiteral /\ k + 1 \in 0..MaxLiteral /\ (k + 1) - 1 = k
    BY <1>0
  <2>2. Tens[k + 1] = 10 * Tens[k]
    BY <1>7, <2>1
  <2> QED
    BY <2>1, <2>2
<1>9. 0 \in T /\ 0 \in Nat /\ MaxLiteral \in Int
  BY <1>0, <1>7
<1> HIDE DEF T
<1>10. 0..MaxLiteral \subseteq T
  BY ONLY <1>8, <1>9, AlongRange
<1> QED
  BY <1>7, <1>10 DEF T

LEMMA TensBound ==
  ASSUME NEW n \in 0..MaxLiteral
  PROVE  Tens[n] <= RealMax
<1>0. MaxLiteral \in Nat /\ RealMax \in Nat /\ Tens[MaxLiteral] <= RealMax /\ n \in Nat
  BY WidthsAssumption
<1> DEFINE T == {k \in n..MaxLiteral : Tens[n] <= Tens[k]}
<1>1. \A k \in n..(MaxLiteral - 1) : k \in T => k + 1 \in T
  <2> SUFFICES ASSUME NEW k \in n..(MaxLiteral - 1), Tens[n] <= Tens[k] PROVE k + 1 \in T
    OBVIOUS
  <2>1. k + 1 \in 1..MaxLiteral /\ k + 1 \in n..MaxLiteral /\ (k + 1) - 1 = k /\ k \in 0..MaxLiteral
    BY <1>0
  <2>2. Tens[k + 1] = 10 * Tens[k] /\ Tens[k] \in Nat /\ Tens[n] \in Nat
    BY <2>1, TensFollow
  <2> QED
    BY <2>1, <2>2
<1>2. n \in T /\ MaxLiteral \in Int
  BY <1>0, TensFollow
<1> HIDE DEF T
<1>3. n..MaxLiteral \subseteq T
  BY ONLY <1>0, <1>1, <1>2, AlongRange
<1>4. Tens[n] <= Tens[MaxLiteral] /\ Tens[n] \in Nat /\ Tens[MaxLiteral] \in Nat
  BY <1>0, <1>3, TensFollow DEF T
<1> QED
  BY <1>0, <1>4

(* Decimal digits that from_chars looks at are a number that a real holds. *)
LEMMA ValueBound ==
  ASSUME NEW digits \in Seq(Char), \A k \in 1..Len(digits) : digits[k] \in Digits(10), Len(digits) <= MaxLiteral
  PROVE  ValueOf(digits, 10) \in Nat /\ ValueOf(digits, 10) <= RealMax
<1> DEFINE n == Len(digits)
<1>1. n \in Nat /\ MaxLiteral \in Nat /\ n \in 0..MaxLiteral /\ RealMax \in Nat
  BY WidthsAssumption
<1>2. \A k \in 1..n : digits[k] \in Digits(16) /\ digits[k] # "." /\ Digit(digits[k]) \in 0..9
  BY DigitValue, DigitSets
<1>3. PICK f : ValueUpTo(digits, 10, f) /\ ValueOf(digits, 10) = f[n]
  BY <1>2, ValueFollows
<1>4. f \in [0..n -> Nat] /\ f[0] = 0 /\ \A k \in 1..n : f[k] = f[k - 1] * 10 + Digit(digits[k])
  BY <1>2, <1>3 DEF ValueUpTo
<1> HIDE DEF n
<1> DEFINE T == {k \in 0..n : f[k] < Tens[k]}
<1>5. \A k \in 0..(n - 1) : k \in T => k + 1 \in T
  <2> SUFFICES ASSUME NEW k \in 0..(n - 1), f[k] < Tens[k] PROVE k + 1 \in T
    OBVIOUS
  <2>1. /\ k + 1 \in 1..n /\ k + 1 \in 0..n /\ (k + 1) - 1 = k
        /\ k + 1 \in 1..MaxLiteral /\ k \in 0..MaxLiteral /\ k \in 0..n
    BY <1>1
  <2>2. Tens[k + 1] = 10 * Tens[k] /\ Tens[k] \in Nat
    BY <2>1, TensFollow
  <2>3. f[k] \in Nat /\ f[k + 1] = f[k] * 10 + Digit(digits[k + 1]) /\ Digit(digits[k + 1]) \in 0..9
    BY ONLY <1>2, <1>4, <2>1
  <2>4. \A x, t \in Nat : \A d \in 0..9 : x < t => x * 10 + d < 10 * t
    OBVIOUS
  <2> QED
    BY <2>1, <2>2, <2>3, <2>4
<1>6. 0 \in T /\ 0 \in Nat /\ n \in Int
  BY <1>1, <1>4, TensFollow
<1> HIDE DEF T
<1>7. 0..n \subseteq T
  BY ONLY <1>5, <1>6, AlongRange
<1>8. f[n] < Tens[n] /\ f[n] \in Nat /\ Tens[n] \in Nat /\ Tens[n] <= RealMax
  BY <1>1, <1>4, <1>7, TensFollow, TensBound DEF T
<1> QED
  BY <1>1, <1>3, <1>8

(* A zero is the same in base 8. *)
LEMMA ValueOfZero ==
  ASSUME NEW z \in Seq(Char), Len(z) = 1, z[1] = "0", NEW base \in Nat
  PROVE  ValueOf(z, base) = 0
<1>1. Digit("0") = 0
  <2> DEFINE d == CHOOSE i \in 1..16 : DigitChars[i] = "0"
  <2>1. DigitChars[1] = "0" /\ \A i \in 1..16 : DigitChars[i] = "0" => i = 1
    BY DEF DigitChars
  <2>2. d = 1
    BY <2>1
  <2> QED
    BY <2>2 DEF Digit
<1>2. "0" \in Digits(16) /\ "0" # "."
  BY DEF Digits
<1>3. \A k \in 1..Len(z) : z[k] \in Digits(16)
  BY <1>2
<1>4. PICK f : ValueUpTo(z, base, f) /\ ValueOf(z, base) = f[1]
  BY <1>3, ValueFollows
<1>5. f[0] = 0 /\ f[1] = f[0] * base + 0
  BY <1>1, <1>2, <1>4 DEF ValueUpTo
<1> QED
  BY <1>4, <1>5
-----------------------------------------------------------------------------
(* A decimal number without a fraction or an exponent, that a suffix or    *)
(* the end of the text follows                                             *)
Decimal(c, end) ==
  /\ Skipped(c, AfterSign(c, 1), Digits(10), end) /\ end > AfterSign(c, 1)
  /\ At(c, end) \in {NoChar, "b", "c", "r", "s", "u"}
  /\ At(c, AfterSign(c, 1)) = "0" => end = AfterSign(c, 1) + 1
LEMMA DecimalBegins ==
  ASSUME NEW c \in Seq(Char), NEW end, Decimal(c, end)
  PROVE  /\ Len(c) \in Nat /\ AfterSign(c, 1) \in 1..Len(c) /\ end \in (AfterSign(c, 1) + 1)..(Len(c) + 1)
         /\ At(c, AfterSign(c, 1)) \in Digits(10) /\ At(c, end) \notin {".", "e"}
         /\ ~ IsHex(c, AfterSign(c, 1))
         /\ ~ Starts(c, AfterSign(c, 1), <<"0", "x", ".">>) /\ ~ Starts(c, AfterSign(c, 1), <<"n", "a", "n">>)
<1> DEFINE beg == AfterSign(c, 1)
<1>1. Len(c) \in Nat /\ 1 \in 1..(Len(c) + 1)
  OBVIOUS
<1>2. beg \in 1..(Len(c) + 1)
  BY <1>1, SignPassed
<1> HIDE DEF beg
<1>3. /\ end \in beg..(Len(c) + 1) /\ end > beg /\ \A k \in beg..(end - 1) : At(c, k) \in Digits(10)
      /\ At(c, end) \in {NoChar, "b", "c", "r", "s", "u"} /\ (At(c, beg) = "0" => end = beg + 1)
  BY DEF Decimal, Skipped, beg
<1>4. beg \in 1..Len(c) /\ end \in (beg + 1)..(Len(c) + 1) /\ beg \in beg..(end - 1) /\ beg \in Int
  BY <1>1, <1>2, <1>3
<1>5. At(c, beg) \in Digits(10)
  BY <1>3, <1>4
<1>6. At(c, end) \notin {".", "e", "x"}
  BY <1>3 DEF NoChar
<1>7. ~ (At(c, beg) = "0" /\ At(c, beg + 1) = "x")
  BY <1>3, <1>6
<1>8. At(c, beg) # "n"
  BY <1>5, DigitSets
<1>9. ~ IsHex(c, beg) /\ ~ Starts(c, beg, <<"0", "x", ".">>) /\ ~ Starts(c, beg, <<"n", "a", "n">>)
  BY <1>4, <1>7, <1>8, StartsPair, StartsTriple DEF IsHex
<1> QED
  BY <1>1, <1>4, <1>5, <1>6, <1>9 DEF beg

(* A zero alone is read in base 8. *)
LEMMA ZeroReads ==
  ASSUME NEW c \in Seq(Char), NEW end, Decimal(c, end), At(c, AfterSign(c, 1)) = "0"
  PROVE  /\ SkipAll(c, AfterSign(c, 1), Digits(8)) = end
         /\ Value(c, AfterSign(c, 1), end, 8) = Value(c, AfterSign(c, 1), end, 10)
<1> DEFINE beg == AfterSign(c, 1)
<1>1. Len(c) \in Nat /\ beg \in 1..Len(c) /\ end = beg + 1
  BY DecimalBegins DEF Decimal
<1> HIDE DEF beg
<1>2. At(c, beg) = "0" /\ At(c, end) \notin Digits(10)
  BY DEF Decimal, Skipped, beg
<1>3. Skipped(c, beg, Digits(8), end)
  <2>1. end \in beg..(Len(c) + 1) /\ \A k \in beg..(end - 1) : k = beg
    BY <1>1
  <2>2. "0" \in Digits(8) /\ At(c, end) \notin Digits(8)
    BY <1>2, DigitSets DEF Digits
  <2> QED
    BY <1>2, <2>1, <2>2 DEF Skipped
<1>4. Skipped(c, beg, Digits(8), SkipAll(c, beg, Digits(8)))
  <2>1. beg \in 1..(Len(c) + 1)
    BY <1>1
  <2> QED
    BY <2>1, SkipAllStops, DigitSets
<1>5. SkipAll(c, beg, Digits(8)) = end
  <2>1. beg \in Int
    BY <1>1
  <2> QED
    BY <1>1, <1>3, <1>4, <2>1, SkippedOnce
<1> DEFINE z == SubSeq(c, beg, end - 1)
<1>6. z \in Seq(Char) /\ Len(z) = 1 /\ z[1] = "0"
  <2>1. beg \in 1..(Len(c) + 1) /\ end - 1 \in (beg - 1)..Len(c) /\ (end - 1) - beg + 1 = 1 /\ 1 \in 1..1 /\ beg + 1 - 1 = beg
    BY <1>1
  <2>2. z \in Seq(Char) /\ Len(z) = 1 /\ At(z, 1) = At(c, beg)
    BY <2>1, CutText
  <2> HIDE DEF z
  <2> QED
    BY <1>2, <2>1, <2>2, AtChar
<1> HIDE DEF z
<1>7. ValueOf(z, 8) = 0 /\ ValueOf(z, 10) = 0
  <2>1. 8 \in Nat /\ 10 \in Nat
    OBVIOUS
  <2> QED
    BY <1>6, <2>1, ValueOfZero
<1> QED
  BY <1>5, <1>7 DEF Value, z, beg

LEMMA DecimalInteger ==
  ASSUME NEW c \in Seq(Char), NEW end, Decimal(c, end)
  PROVE  StrToLL(c, AfterSign(c, 1), 0) = [end |-> end - 1, val |-> Signed(c, 1, Value(c, AfterSign(c, 1), end, 10))]
<1> DEFINE beg == AfterSign(c, 1)
           radix == IF At(c, beg) = "0" THEN 8 ELSE 10
<1>1. Len(c) \in Nat /\ beg \in 1..Len(c) /\ end \in (beg + 1)..(Len(c) + 1) /\ ~ IsHex(c, beg)
  BY DecimalBegins
<1>2. StrToLL(c, beg, 0) = ReadInteger(c, beg, radix)
  BY <1>1 DEF StrToLL
<1>3. SkipAll(c, beg, Digits(10)) = end
  <2>1. beg \in 1..(Len(c) + 1) /\ beg \in Int
    BY <1>1
  <2>2. Skipped(c, beg, Digits(10), SkipAll(c, beg, Digits(10)))
    BY <2>1, SkipAllStops, DigitSets
  <2>3. Skipped(c, beg, Digits(10), end)
    BY DEF Decimal
  <2> HIDE DEF beg
  <2> QED
    BY <1>1, <2>1, <2>2, <2>3, SkippedOnce
<1>4. SkipAll(c, beg, Digits(radix)) = end /\ Value(c, beg, end, radix) = Value(c, beg, end, 10)
  <2>1. CASE At(c, beg) = "0"
    <3>1. radix = 8
      BY <2>1
    <3> QED
      BY <2>1, <3>1, ZeroReads
  <2>2. CASE At(c, beg) # "0"
    <3>1. radix = 10
      BY <2>2
    <3> QED
      BY <1>3, <3>1
  <2> QED
    BY <2>1, <2>2
<1> HIDE DEF beg, radix
<1>5. end # beg
  BY <1>1
<1>6. ReadInteger(c, beg, radix) = IntegerDigits(c, beg, end, radix)
  BY <1>4 DEF ReadInteger
<1>7. IntegerDigits(c, beg, end, radix) = [end |-> end - 1, val |-> Signed(c, 1, Value(c, beg, end, 10))]
  BY <1>4, <1>5 DEF IntegerDigits
<1> QED
  BY <1>2, <1>6, <1>7 DEF beg

LEMMA ReadRealDecimal ==
  ASSUME NEW c \in Seq(Char), NEW end, Decimal(c, end)
  PROVE  StrToLD(c, AfterSign(c, 1)) =
           WithExp(Signed(c, 1, Value(c, AfterSign(c, 1), end, 10)), 1, 0, end)
<1> DEFINE beg == AfterSign(c, 1)
           num == Signed(c, 1, Value(c, beg, end, 10))
           sign == AfterSign(c, end + 1)
           last == SkipAll(c, sign, Digits(10))
<1>1. /\ Len(c) \in Nat /\ beg \in 1..Len(c) /\ end \in (beg + 1)..(Len(c) + 1)
      /\ At(c, beg) \in Digits(10) /\ At(c, end) \notin {".", "e"}
      /\ ~ IsHex(c, beg)
      /\ ~ Starts(c, beg, <<"0", "x", ".">>) /\ ~ Starts(c, beg, <<"n", "a", "n">>)
  BY DecimalBegins
<1>2. StrToLD(c, beg) = ReadReal(c, beg, 10)
  BY <1>1 DEF StrToLD
<1>3. SkipAll(c, beg, Digits(10)) = end
  <2>1. beg \in 1..(Len(c) + 1) /\ beg \in Int
    BY <1>1
  <2>2. Skipped(c, beg, Digits(10), SkipAll(c, beg, Digits(10)))
    BY <2>1, SkipAllStops, DigitSets
  <2>3. Skipped(c, beg, Digits(10), end)
    BY DEF Decimal
  <2> HIDE DEF beg
  <2> QED
    BY <1>1, <2>1, <2>2, <2>3, SkippedOnce
<1> HIDE DEF beg
<1>4. ReadReal(c, beg, 10) = Fraction(c, beg, end, 10)
  BY <1>3 DEF ReadReal
<1>5. Fraction(c, beg, end, 10) = RealDigits(c, beg, end, end, 10)
  BY <1>1 DEF Fraction
<1>6. beg \in beg..(end - 1) /\ At(c, beg) # "." /\ ~ (end > end)
  <2>1. beg \in beg..(end - 1) /\ ~ (end > end)
    BY <1>1
  <2> QED
    BY <1>1, <2>1, DigitSets
<1>7. RealDigits(c, beg, end, end, 10) = Exponent(c, end, sign, num, 1)
  <2>1. ~ (\A k \in beg..(end - 1) : At(c, k) = ".")
    BY <1>6
  <2> HIDE DEF sign
  <2> QED
    BY <1>6, <2>1 DEF RealDigits, sign
<1> HIDE DEF num, sign
<1>8. Exponent(c, end, sign, num, 1) = ExpDigits(c, end, sign, last, num, 1)
  BY DEF Exponent
<1> HIDE DEF last
<1>9. ExpDigits(c, end, sign, last, num, 1) = WithExp(num, 1, 0, end)
  BY <1>1 DEF ExpDigits
<1> QED
  BY <1>2, <1>4, <1>5, <1>7, <1>8, <1>9 DEF num, beg

(* The number of a decimal that from_chars looks at *)
LEMMA DecimalValue ==
  ASSUME NEW c \in Seq(Char), NEW end, Decimal(c, end), Len(c) <= MaxLiteral
  PROVE  /\ Signed(c, 1, Value(c, AfterSign(c, 1), end, 10)) \in Int
         /\ Abs(Signed(c, 1, Value(c, AfterSign(c, 1), end, 10))) \in Nat
         /\ Abs(Signed(c, 1, Value(c, AfterSign(c, 1), end, 10))) <= RealMax
<1> DEFINE beg == AfterSign(c, 1)
           z == SubSeq(c, beg, end - 1)
           v == ValueOf(z, 10)
           n == (end - 1) - beg + 1
<1>1. Len(c) \in Nat /\ beg \in 1..Len(c) /\ end \in (beg + 1)..(Len(c) + 1)
  BY DecimalBegins
<1> HIDE DEF beg
<1>2. \A k \in beg..(end - 1) : At(c, k) \in Digits(10)
  BY DEF Decimal, Skipped, beg
<1>3. /\ beg \in 1..(Len(c) + 1) /\ end - 1 \in (beg - 1)..Len(c) /\ n \in Nat /\ n <= Len(c) /\ MaxLiteral \in Nat
      /\ \A k \in 1..n : beg + k - 1 \in beg..(end - 1)
  BY <1>1, WidthsAssumption
<1>4. z \in Seq(Char) /\ Len(z) = n /\ \A k \in 1..n : At(z, k) = At(c, beg + k - 1)
  BY <1>3, CutText
<1> HIDE DEF z, n
<1>5. \A k \in 1..Len(z) : z[k] \in Digits(10)
  BY <1>2, <1>3, <1>4, AtChar
<1>6. Len(z) <= MaxLiteral
  BY <1>1, <1>3, <1>4
<1>7. v \in Nat /\ v <= RealMax
  BY <1>4, <1>5, <1>6, ValueBound
<1>8. Value(c, beg, end, 10) = v
  BY DEF Value, z
<1> HIDE DEF v
<1>9. \A m \in Nat : Abs(-m) = m /\ Abs(m) = m
  BY DEF Abs
<1> QED
  BY <1>7, <1>8, <1>9 DEF Signed, beg

LEMMA DecimalReal ==
  ASSUME NEW c \in Seq(Char), NEW end, Decimal(c, end), Len(c) <= MaxLiteral
  PROVE  RealFrom(StrToLD(c, AfterSign(c, 1))) =
           [end |-> end - 1, err |-> FALSE, val |-> Round(Integer(Signed(c, 1, Value(c, AfterSign(c, 1), end, 10))))]
<1> DEFINE num == Signed(c, 1, Value(c, AfterSign(c, 1), end, 10))
           ld == StrToLD(c, AfterSign(c, 1))
<1>1. num \in Int /\ Abs(num) \in Nat /\ Abs(num) <= RealMax
  BY DecimalValue
<1>2. ld = WithExp(num, 1, 0, end)
  BY ReadRealDecimal
<1>3. end \in Int /\ end - 1 # 0
  BY DecimalBegins
<1> HIDE DEF num, ld
<1>4. MaxExp \in Nat /\ RealMax \in Nat
  BY WidthsAssumption
<1>5. ~ (0 > MaxExp \/ 0 < -MaxExp)
  BY <1>4
<1>6. ld = [end |-> end - 1, range |-> FALSE, val |-> Scaled(num, 1, 0)]
  BY <1>2, <1>5 DEF WithExp
<1>7. Scaled(num, 1, 0) = Integer(num)
  BY <1>1 DEF Scaled, Integer
<1>8. ld.end = end - 1 /\ ~ ld.range /\ ld.val = Integer(num)
  BY <1>6, <1>7
<1>9. Abs(Integer(num).num) <= RealMax * Integer(num).den
  <2>1. Integer(num).num = num /\ Integer(num).den = 1 /\ RealMax * 1 = RealMax
    BY <1>4 DEF Integer
  <2> QED
    BY <1>1, <2>1
<1> HIDE DEF ld
<1>10. ld.val = NaN \/ Abs(ld.val.num) <= RealMax * ld.val.den
  BY <1>8, <1>9
<1>11. ~ ld.range /\ ld.end # 0
  BY <1>3, <1>8
<1>12. RealFrom(ld) = [end |-> ld.end, err |-> FALSE, val |-> Round(ld.val)]
  BY <1>10, <1>11 DEF RealFrom
<1>13. RealFrom(ld) = [end |-> end - 1, err |-> FALSE, val |-> Round(Integer(num))]
  BY <1>8, <1>12
<1> QED
  BY <1>13 DEF num, ld
-----------------------------------------------------------------------------
(* A literal, of which from_chars looks at MaxLiteral characters: only the *)
(* suffix can be behind them.                                              *)
Readable(lit) ==
  /\ lit \in Seq(Char)
  /\ Len(lit) <= MaxLiteral \/ (Suffix(lit) /\ Len(lit) = MaxLiteral + 1)
Front(lit) == SubSeq(lit, 1, Looked(lit))
Plain(lit) == PlainNumber(lit, AfterSign(lit, 1), DigitsEnd(lit))
LEMMA SuffixNames ==
  ASSUME NEW lit
  PROVE  /\ Suffix(lit) <=> At(lit, Len(lit)) \in {"b", "c", "r", "s", "u"}
         /\ Suffix(lit) => TypeOfSuffix[At(lit, Len(lit))] \in {"byte", "char", "real", "sint", "uint"}
  BY DEF Suffix, TypeOfSuffix

LEMMA PlainLooked ==
  ASSUME NEW lit, Readable(lit), Plain(lit)
  PROVE  /\ Front(lit) \in Seq(Char) /\ Len(Front(lit)) <= MaxLiteral
         /\ Decimal(Front(lit), DigitsEnd(lit))
         /\ Signed(Front(lit), 1, Value(Front(lit), AfterSign(Front(lit), 1), DigitsEnd(lit), 10)) = Exact(lit)
<1> DEFINE m == IF Len(lit) < MaxLiteral THEN Len(lit) ELSE MaxLiteral
           c == Front(lit)
           beg == AfterSign(lit, 1)
           end == DigitsEnd(lit)
<1>0. lit \in Seq(Char) /\ Len(lit) \in Nat /\ MaxLiteral \in Nat \ {0}
  BY WidthsAssumption DEF Readable
<1>1. beg \in 1..(Len(lit) + 1) /\ beg \in Nat \ {0} /\ beg \in {1, 2}
  <2>1. 1 \in 1..(Len(lit) + 1)
    BY <1>0
  <2> QED
    BY <1>0, <2>1, SignPassed
<1>2. Skipped(lit, beg, Digits(10), end)
  BY <1>0, <1>1, SkipAllStops, DigitSets DEF DigitsEnd
<1>3. end > beg /\ end = (IF Suffix(lit) THEN Len(lit) ELSE Len(lit) + 1) /\ (At(lit, beg) = "0" => end = beg + 1)
  BY DEF Plain, PlainNumber
<1> HIDE DEF beg, end
<1>4. end \in beg..(Len(lit) + 1) /\ At(lit, end) \notin Digits(10) /\ \A k \in beg..(end - 1) : At(lit, k) \in Digits(10)
  BY <1>2 DEF Skipped
<1>5. Len(lit) <= MaxLiteral \/ (Suffix(lit) /\ Len(lit) = MaxLiteral + 1)
  BY DEF Readable
<1>6. /\ m \in 0..Len(lit) /\ m \in Nat /\ m <= MaxLiteral /\ end \in Nat /\ end <= m + 1 /\ 1 \in 1..m /\ beg \in 1..m
      /\ end = m + 1 \/ (end = m /\ m = Len(lit) /\ Suffix(lit))
  BY <1>0, <1>1, <1>3, <1>4, <1>5
<1>7. c = SubSeq(lit, 1, m)
  BY DEF Front, Looked
<1> HIDE DEF c, m
<1>8. Len(c) = m /\ Prefix(lit, c)
  BY <1>0, <1>6, <1>7, FirstChars
<1>9. c \in Seq(Char) /\ (\A k \in 1..m : At(c, k) = At(lit, k)) /\ At(c, m + 1) = NoChar
  BY <1>8, PrefixEnds DEF Prefix
<1>10. At(c, 1) = At(lit, 1)
  BY <1>6, <1>9
<1>11. AfterSign(c, 1) = beg
  BY <1>10 DEF AfterSign, beg
<1>12. At(c, end) \in {NoChar, "b", "c", "r", "s", "u"}
  <2>1. CASE end = m + 1
    BY <1>9, <2>1
  <2>2. CASE end = m /\ m = Len(lit) /\ Suffix(lit)
    <3>1. m \in 1..m
      BY <1>6
    <3>2. At(c, end) = At(lit, Len(lit))
      BY <1>9, <2>2, <3>1
    <3> QED
      BY <2>2, <3>2, SuffixNames
  <2> QED
    BY <1>6, <2>1, <2>2
<1>13. Skipped(c, beg, Digits(10), end)
  <2>1. end \in beg..(Len(c) + 1)
    BY <1>4, <1>6, <1>8
  <2>2. At(c, end) \notin Digits(10)
    BY <1>12, DigitSets
  <2>3. ASSUME NEW k \in beg..(end - 1) PROVE At(c, k) \in Digits(10)
    <3>1. k \in 1..m
      BY <1>1, <1>6
    <3> QED
      BY <1>4, <1>9, <3>1
  <2> QED
    BY <2>1, <2>2, <2>3 DEF Skipped
<1>14. At(c, beg) = At(lit, beg)
  BY <1>6, <1>9
<1>15. Decimal(c, end)
  BY <1>3, <1>11, <1>12, <1>13, <1>14 DEF Decimal
<1>16. Value(c, beg, end, 10) = Value(lit, beg, end, 10)
  <2>1. beg <= end /\ end <= Len(c) + 1
    BY <1>4, <1>6, <1>8
  <2> QED
    BY <1>1, <1>6, <1>8, <2>1, ValuePrefix
<1>17. Signed(c, 1, Value(c, AfterSign(c, 1), end, 10)) = Exact(lit)
  BY <1>10, <1>11, <1>16 DEF Exact, Signed, beg, end
<1> QED
  BY <1>6, <1>8, <1>9, <1>15, <1>17 DEF c, end

(* What strtoll or strtoull makes of n *)
Converted(type, n) == IF type \in {"byte", "uint"} THEN Modulo(n) ELSE n
LEMMA PlainReads ==
  ASSUME NEW lit, Readable(lit), Plain(lit), NEW type \in {"byte", "char", "real", "sint", "uint"}
  PROVE  /\ Fits(type, Converted(type, Exact(lit))) =>
              /\ FromChars(type, lit, 0).end = DigitsEnd(lit) - 1
              /\ FromChars(type, lit, 0).val =
                   (IF type = "real" THEN Round(Integer(Exact(lit))) ELSE Integer(Converted(type, Exact(lit))))
         /\ ~ Fits(type, Converted(type, Exact(lit))) => FromChars(type, lit, 0).end = 0
<1> DEFINE c == Front(lit)
           end == DigitsEnd(lit)
           num == Exact(lit)
<1>1. /\ c \in Seq(Char) /\ Len(c) <= MaxLiteral /\ Decimal(c, end)
      /\ Signed(c, 1, Value(c, AfterSign(c, 1), end, 10)) = num
  BY PlainLooked
<1>2. FromChars(type, lit, 0) = FromSome(type, c, 0)
  <2>1. lit \in Seq(Char)
    BY DEF Readable
  <2> QED
    BY <2>1, LookedAt DEF Front
<1> HIDE DEF c, end, num
<1>3. CASE type = "real"
  <2>1. FromSome(type, c, 0) = [end |-> end - 1, err |-> FALSE, val |-> Round(Integer(num))]
    BY <1>1, <1>3, DecimalReal DEF FromSome
  <2>2. Fits(type, Converted(type, num))
    BY <1>3 DEF Fits
  <2>3. FromChars(type, lit, 0).end = end - 1 /\ FromChars(type, lit, 0).val = Round(Integer(num))
    BY <1>2, <2>1
  <2> QED
    BY <1>3, <2>2, <2>3 DEF num, end
<1>4. CASE type # "real"
  <2> DEFINE conv == Converted(type, num)
  <2>0. StrToLL(c, AfterSign(c, 1), 0) = [end |-> end - 1, val |-> num]
    BY <1>1, DecimalInteger
  <2>1. FromSome(type, c, 0) = IntegerFrom(type, [end |-> end - 1, val |-> conv])
    BY <1>4, <2>0 DEF FromSome, StrToULL, Converted
  <2>2. Fits(type, conv) <=> conv \in Lowest(type)..Highest(type)
    BY <1>4 DEF Fits
  <2> HIDE DEF conv
  <2>3. end - 1 # 0
    BY <1>1, DecimalBegins
  <2>4. CASE Fits(type, conv)
    <3>1. FromSome(type, c, 0) = [end |-> end - 1, err |-> FALSE, val |-> Integer(conv)]
      BY <2>1, <2>2, <2>3, <2>4 DEF IntegerFrom
    <3>2. FromChars(type, lit, 0).end = end - 1 /\ FromChars(type, lit, 0).val = Integer(conv)
      BY <1>2, <3>1
    <3> QED
      BY <1>4, <2>4, <3>2 DEF conv, num, end
  <2>5. CASE ~ Fits(type, conv)
    <3>1. FromSome(type, c, 0) = Failed
      BY <2>1, <2>2, <2>5 DEF IntegerFrom
    <3>2. FromChars(type, lit, 0).end = 0
      BY <1>2, <3>1 DEF Failed
    <3> QED
      BY <2>5, <3>2 DEF conv, num
  <2> QED
    BY <2>4, <2>5
<1> QED
  BY <1>3, <1>4

(* What parseNumberLiteral makes of a literal that a suffix ends, or that  *)
(* from_chars reads all of for one of the three types                      *)
LEMMA SuffixReads ==
  ASSUME NEW lit, Readable(lit), Suffix(lit)
  PROVE  ReadsRight(ParseNumberLiteral(lit), lit)
<1> DEFINE type == TypeOfSuffix[At(lit, Len(lit))]
           num == Exact(lit)
<1>1. type \in {"byte", "char", "real", "sint", "uint"}
  BY SuffixNames
<1>2. ParseNumberLiteral(lit) = ReadAs(type, lit)
  BY DEF ParseNumberLiteral, Suffix
<1>3. Named(lit, num) = type
  BY DEF Named
<1> HIDE DEF type, num
<1>4. ParseNumberLiteral(lit).type = type /\ ParseNumberLiteral(lit).val = FromChars(type, lit, 0).val
  BY <1>2 DEF ReadAs
<1>5. ASSUME Plain(lit), Fits(type, num) PROVE Holds(ParseNumberLiteral(lit), type, num)
  <2>1. Converted(type, num) = num
    <3>1. type \in {"byte", "uint"} => num \in 0..Highest(type)
      BY <1>5 DEF Fits, Lowest
    <3>2. num \in 0..Highest(type) => num \notin (1 - 2^LongBits)..(-1)
      OBVIOUS
    <3> QED
      BY <3>1, <3>2 DEF Converted, Modulo
  <2>2. FromChars(type, lit, 0).val = (IF type = "real" THEN Round(Integer(num)) ELSE Integer(num))
    BY <1>1, <1>5, <2>1, PlainReads DEF num
  <2> QED
    BY <1>4, <2>2 DEF Holds
<1>6. Plain(lit) => ReadsExact(ParseNumberLiteral(lit), lit, num)
  BY <1>3, <1>5 DEF ReadsExact, Wrapped, ReadsPlain
<1>7. type # "unreachable"
  BY <1>1
<1> QED
  BY <1>4, <1>6, <1>7 DEF ReadsRight, Plain, num

AllRead(type, lit) == FromChars(type, lit, 0).end = Len(lit)
LEMMA FirstOfThree ==
  ASSUME NEW lit, \E type \in {"sint", "uint", "real"} : AllRead(type, lit)
  PROVE  FirstAllRead(lit, <<"sint", "uint", "real">>) =
           ReadAs(IF AllRead("sint", lit) THEN "sint" ELSE IF AllRead("uint", lit) THEN "uint" ELSE "real", lit)
<1> DEFINE types == <<"sint", "uint", "real">>
           all == {n \in DOMAIN types : FromChars(types[n], lit, 0).end = Len(lit)}
           first == CHOOSE n \in all : \A m \in all : n <= m
<1>1. DOMAIN types = {1, 2, 3} /\ types[1] = "sint" /\ types[2] = "uint" /\ types[3] = "real"
  OBVIOUS
<1> HIDE DEF types
<1>2. /\ 1 \in all <=> AllRead("sint", lit)
      /\ 2 \in all <=> AllRead("uint", lit)
      /\ 3 \in all <=> AllRead("real", lit)
      /\ all \subseteq {1, 2, 3}
  BY <1>1 DEF AllRead
<1> HIDE DEF all
<1>3. all # {}
  BY <1>2
<1>4. first = IF AllRead("sint", lit) THEN 1 ELSE IF AllRead("uint", lit) THEN 2 ELSE 3
  <2>1. CASE AllRead("sint", lit)
    <3>1. 1 \in all /\ \A n \in all : 1 <= n
      BY <1>2, <2>1
    <3>2. first \in all /\ \A m \in all : first <= m
      BY <3>1
    <3> HIDE DEF first
    <3>3. first = 1
      BY <1>2, <3>1, <3>2
    <3> QED
      BY <2>1, <3>3
  <2>2. CASE ~ AllRead("sint", lit) /\ AllRead("uint", lit)
    <3>1. 2 \in all /\ \A n \in all : 2 <= n
      BY <1>2, <2>2
    <3>2. first \in all /\ \A m \in all : first <= m
      BY <3>1
    <3> HIDE DEF first
    <3>3. first = 2
      BY <1>2, <3>1, <3>2
    <3> QED
      BY <2>2, <3>3
  <2>3. CASE ~ AllRead("sint", lit) /\ ~ AllRead("uint", lit)
    <3>1. all = {3}
      BY <1>2, <1>3, <2>3
    <3>2. first \in all
      BY <3>1
    <3> QED
      BY <2>3, <3>1, <3>2
  <2> QED
    BY <2>1, <2>2, <2>3
<1>5. FirstAllRead(lit, types) = ReadAs(types[first], lit)
  BY <1>3 DEF FirstAllRead, all
<1> HIDE DEF first
<1>6. types[first] = IF AllRead("sint", lit) THEN "sint" ELSE IF AllRead("uint", lit) THEN "uint" ELSE "real"
  BY <1>1, <1>4
<1> QED
  BY <1>5, <1>6 DEF types

LEMMA UnsuffixedReads ==
  ASSUME NEW lit, Readable(lit), ~ Suffix(lit), \E type \in {"sint", "uint", "real"} : AllRead(type, lit)
  PROVE  ReadsRight(ParseNumberLiteral(lit), lit)
<1> DEFINE type == IF AllRead("sint", lit) THEN "sint" ELSE IF AllRead("uint", lit) THEN "uint" ELSE "real"
           num == Exact(lit)
<1>1. type \in {"sint", "uint", "real"} /\ type # "unreachable"
  OBVIOUS
<1>2. ParseNumberLiteral(lit) = ReadAs(type, lit)
  BY FirstOfThree DEF ParseNumberLiteral, Suffix
<1> HIDE DEF type
<1>3. ParseNumberLiteral(lit).type = type /\ ParseNumberLiteral(lit).val = FromChars(type, lit, 0).val
  BY <1>2 DEF ReadAs
<1>4. ASSUME Plain(lit) PROVE ReadsExact(ParseNumberLiteral(lit), lit, num)
  <2>1. DigitsEnd(lit) - 1 = Len(lit) /\ Len(lit) # 0
    <3>1. lit \in Seq(Char) /\ 1 \in 1..(Len(lit) + 1)
      BY DEF Readable
    <3>2. AfterSign(lit, 1) \in 1..(Len(lit) + 1)
      BY <3>1, SignPassed
    <3>3. DigitsEnd(lit) = Len(lit) + 1 /\ DigitsEnd(lit) > AfterSign(lit, 1)
      BY <1>4 DEF Plain, PlainNumber
    <3>4. Len(lit) \in Nat
      BY <3>1
    <3> QED
      BY <3>2, <3>3, <3>4
  <2>2. \A t \in {"byte", "char", "real", "sint", "uint"} : AllRead(t, lit) <=> Fits(t, Converted(t, num))
    BY <1>4, <2>1, PlainReads DEF AllRead, num
  <2>3. /\ AllRead("sint", lit) <=> Fits("sint", num)
        /\ AllRead("uint", lit) <=> Fits("uint", Modulo(num))
    BY <2>2 DEF Converted
  <2>4. ASSUME Fits(type, Converted(type, num))
        PROVE  Holds(ParseNumberLiteral(lit), type, Converted(type, num))
    <3>1. FromChars(type, lit, 0).val = (IF type = "real" THEN Round(Integer(num)) ELSE Integer(Converted(type, num)))
      BY <1>1, <1>4, <2>4, PlainReads DEF num
    <3>2. type = "real" => Converted(type, num) = num
      BY DEF Converted
    <3> QED
      BY <1>3, <3>1, <3>2 DEF Holds
  <2>5. CASE Wrapped(lit, num)
    <3>1. type = "uint"
      BY <2>3, <2>5 DEF Wrapped, type
    <3>2. Converted(type, num) = Modulo(num) /\ Fits(type, Converted(type, num))
      BY <2>5, <3>1 DEF Wrapped, Converted
    <3> QED
      BY <2>4, <2>5, <3>1, <3>2 DEF ReadsExact
  <2>6. CASE ~ Wrapped(lit, num)
    <3>1. Fits("uint", num) => Modulo(num) = num
      <4>1. Fits("uint", num) => num \in 0..Highest("uint")
        BY DEF Fits, Lowest
      <4>2. num \in 0..Highest("uint") => num \notin (1 - 2^LongBits)..(-1)
        OBVIOUS
      <4> QED
        BY <4>1, <4>2 DEF Modulo
    <3>2. Fits("uint", Modulo(num)) /\ ~ Fits("sint", num) => Fits("uint", num)
      <4>1. num \in (1 - 2^LongBits)..(-1) => num < 0
        OBVIOUS
      <4> QED
        BY <2>6, <4>1 DEF Wrapped, Modulo
    <3>3. Named(lit, num) = type
      BY <2>3, <3>1, <3>2 DEF Named, type
    <3>4. Fits(type, num) => Converted(type, num) = num
      BY <1>1, <3>1 DEF Converted
    <3> QED
      BY <2>4, <2>6, <3>3, <3>4 DEF ReadsExact, ReadsPlain
  <2> QED
    BY <2>5, <2>6
<1> QED
  BY <1>1, <1>3, <1>4 DEF ReadsRight, Plain, num

(* A text that validNumberLiteral found *)
LEMMA ValidAgain ==
  ASSUME NEW t \in Seq(Char), NEW behind, NEW near, NEW size, size = ValidNumberLiteral(t, behind, near).size,
         size # 0, size <= Len(t)
  PROVE  /\ size \in 1..Len(t)
         /\ ReadsRight(ParseNumberLiteral(SubSeq(t, 1, size)), SubSeq(t, 1, size))
<1> DEFINE real == FromChars("real", t, 0)
           uint == FromChars("uint", t, 0)
           sint == FromChars("sint", t, 0)
           read == FirstRead(real, uint, sint)
           suffix == IF read.end = Len(t) THEN behind ELSE At(t, read.end + 1)
           lit == SubSeq(t, 1, size)
<1>1. ~ read.err /\ size = HasValidSuffix(read, suffix, near).size
  <2>1. size = SizeOf(t, read, behind, near).size
    BY DEF ValidNumberLiteral
  <2> HIDE DEF read
  <2> QED
    BY <2>1 DEF SizeOf
<1>2. PICK type \in {"real", "uint", "sint"} : read = FromChars(type, t, 0)
  BY DEF FirstRead
<1> DEFINE n == read.end
<1>3. n \in 1..Len(t) /\ n <= MaxLiteral /\ FromChars(type, SubSeq(t, 1, n), 0) = read
  <2> HIDE DEF read
  <2> QED
    BY <1>1, <1>2, FromCharsAgain
<1>4. \/ size = n
      \/ size = n + 1 /\ suffix \in {"b", "c", "r", "s", "u"}
  <2> HIDE DEF read, suffix
  <2>1. DOMAIN TypeOfSuffix = {"b", "c", "r", "s", "u"}
    BY DEF TypeOfSuffix
  <2> QED
    BY <1>1, <2>1 DEF HasValidSuffix
<1>5. n = Len(t) \/ suffix = At(t, n + 1)
  OBVIOUS
<1> HIDE DEF read, suffix
<1>6. Len(t) \in Nat /\ MaxLiteral \in Nat
  BY WidthsAssumption
<1> HIDE DEF n
<1>7. size \in 1..Len(t) /\ size \in 0..Len(t) /\ size \in 1..size
  BY <1>3, <1>4, <1>6
<1>8. Len(lit) = size /\ Prefix(t, lit) /\ lit \in Seq(Char)
  BY <1>7, FirstChars DEF Prefix
<1>9. CASE size = n
  <2>1. Readable(lit)
    BY <1>3, <1>8, <1>9 DEF Readable
  <2>2. AllRead(type, lit)
    BY <1>3, <1>8, <1>9 DEF AllRead, n
  <2>3. \E u \in {"sint", "uint", "real"} : AllRead(u, lit)
    BY <2>2
  <2> HIDE DEF lit
  <2>4. ReadsRight(ParseNumberLiteral(lit), lit)
    BY <2>1, <2>3, SuffixReads, UnsuffixedReads
  <2> QED
    BY <1>7, <2>4 DEF lit
<1>10. CASE size = n + 1 /\ suffix \in {"b", "c", "r", "s", "u"}
  <2>1. n # Len(t)
    BY <1>3, <1>6, <1>7, <1>10
  <2>2. At(lit, Len(lit)) = suffix
    BY <1>5, <1>7, <1>8, <1>10, <2>1 DEF Prefix
  <2>3. Suffix(lit)
    BY <1>10, <2>2, SuffixNames
  <2>4. Len(lit) <= MaxLiteral \/ Len(lit) = MaxLiteral + 1
    BY <1>3, <1>6, <1>8, <1>10
  <2>5. Readable(lit)
    BY <1>8, <2>3, <2>4 DEF Readable
  <2> HIDE DEF lit
  <2>6. ReadsRight(ParseNumberLiteral(lit), lit)
    BY <2>3, <2>5, SuffixReads
  <2> QED
    BY <1>7, <2>6 DEF lit
<1> QED
  BY <1>4, <1>9, <1>10

(* A token that is a number is read as it is written. *)
LEMMA NumberRight ==
  ASSUME NEW s \in Seq(Char), NEW i \in 1..Len(s), NEW behind, NEW near,
         NEW e, e = ParseNumber(s, i, behind, near), e \notin {0, i}
  PROVE  ReadsRight(ParseNumberLiteral(SubSeq(s, i, e - 1)), SubSeq(s, i, e - 1))
<1> DEFINE t == From(s, i)
           v == ValidNumberLiteral(t, behind, near)
           size == v.size
<1>0. Len(s) \in Nat /\ i \in Nat
  OBVIOUS
<1>1. e = i + size /\ ~ (i + size > Len(s) + 1)
  BY DEF ParseNumber, Advance
<1>2. /\ t \in Seq(Char) /\ Len(t) = Len(s) - i + 1
      /\ \A k \in 1..(Len(s) - i + 1) : At(t, k) = At(s, i + k - 1)
  <2>1. i \in 1..(Len(s) + 1) /\ Len(s) \in (i - 1)..Len(s)
    BY <1>0
  <2> QED
    BY <2>1, CutText DEF From
<1> HIDE DEF t, v
<1>3. size # 0
  BY <1>0, <1>1
<1>4. size \in Int
  <2>1. PICK n \in 1..Len(t) :
          /\ NumberAt(t, n, 8)
          /\ ~ FromChars("real", t, 0).err \/ At(t, AfterSign(t, 1)) # "0" => NumberAt(t, n, 10)
          /\ \/ v.size = n
             \/ v.size = n + 1 /\ (n = Len(t) \/ At(t, n + 1) \in {"b", "c", "r", "s", "u"})
    <3>1. v = ValidNumberLiteral(t, behind, near)
      BY DEF v
    <3>2. t \in Seq(Char)
      BY <1>2
    <3> QED
      BY ONLY <1>3, <3>1, <3>2, ValidReads
  <2> QED
    BY <1>0, <1>2, <2>1
<1>5. size <= Len(t)
  BY <1>0, <1>1, <1>2, <1>4
<1>6. size \in 1..Len(t) /\ ReadsRight(ParseNumberLiteral(SubSeq(t, 1, size)), SubSeq(t, 1, size))
  BY <1>2, <1>3, <1>5, ValidAgain DEF v
<1> HIDE DEF size
<1> DEFINE a == SubSeq(s, i, e - 1)
           b == SubSeq(t, 1, size)
<1>7. a \in Seq(Char) /\ Len(a) = size /\ \A k \in 1..size : At(a, k) = At(s, i + k - 1)
  <2>1. i \in 1..(Len(s) + 1) /\ e - 1 \in (i - 1)..Len(s) /\ (e - 1) - i + 1 = size
    BY <1>0, <1>1, <1>2, <1>6
  <2> QED
    BY <2>1, CutText
<1>8. b \in Seq(Char) /\ Len(b) = size /\ \A k \in 1..size : At(b, k) = At(t, k)
  <2>1. size \in 0..Len(t)
    BY <1>6
  <2> QED
    BY <1>2, <2>1, FirstChars DEF Prefix
<1> HIDE DEF a, b
<1>9. ASSUME NEW k \in 1..size PROVE a[k] = b[k]
  <2>1. k \in 1..(Len(s) - i + 1)
    BY <1>0, <1>2, <1>6
  <2>2. a[k] = At(a, k) /\ b[k] = At(b, k)
    BY <1>7, <1>8, AtChar
  <2> QED
    BY <1>2, <1>7, <1>8, <2>1, <2>2
<1>10. a = b
  BY <1>6, <1>7, <1>8, <1>9, SeqEqual
<1> QED
  BY <1>6, <1>10 DEF a, b
-----------------------------------------------------------------------------
(* What is known of a token: it is the longest, the reference agrees where *)
(* a quote ends, and a number is read as it is written.                    *)
Within(m) == {In(m), Escaped(m)}
Enclosed(s, t) ==
  t.kind \in Quoted =>
    /\ t.beg \in 1..Len(s) /\ t.end \in (t.beg + 2)..(Len(s) + 1)
    /\ Reads(s)[t.beg] = In(t.kind) /\ Reads(s)[t.end - 1] = In("closed")
    /\ \A k \in t.beg..(t.end - 2) : Reads(s)[k] \in Within(t.kind)
NumberRead(s, t) == t.kind = "number" => ReadsRight(ParseNumberLiteral(Spelling(s, t)), Spelling(s, t))
(* Only a word or a number ends in a character of words. *)
NoWordEnd(s, t) == t.kind \notin {"keyword", "ident", "number"} => At(s, t.end - 1) \notin ContinueIdent
Good(s, t) == Longest(s, t) /\ Enclosed(s, t) /\ NumberRead(s, t) /\ NoWordEnd(s, t)
AllGood(s, tokens) == \A n \in DOMAIN tokens : Good(s, tokens[n]) /\ CutByNumber(s, tokens, tokens[n])

LEMMA WordGood ==
  ASSUME NEW s, NEW kind \in {"keyword", "oper", "ident"}, NEW i, NEW e, Longest(s, Token(kind, i, e)),
         kind = "oper" => At(s, e - 1) \notin ContinueIdent
  PROVE  Good(s, Token(kind, i, e))
<1>1. Token(kind, i, e).kind = kind /\ Token(kind, i, e).end = e
  BY DEF Token
<1> QED
  BY <1>1 DEF Good, Enclosed, NumberRead, NoWordEnd, Quoted

(* The invariant of the lexer: what it knows at the head of each loop.  A  *)
(* turn of tokenize begins outside of comments and quotes, one of the loop *)
(* in a comment knows its depth, and one in a string or a character has    *)
(* told of everything before it and has not passed its end.                *)
State == [mode : {"code", "block", "string", "character", "done", "fatal"}, pos : Nat, depth : Nat, beg : Nat,
          tokens : Seq(TokenRecord)]
InCode(s, l) == l.pos \in 1..(Len(s) + 1) /\ Told(s, l.tokens, l.pos) /\ AtCode(s, l.pos)
InBlock(s, l) ==
  /\ l.pos \in 1..(Len(s) + 1) /\ Told(s, l.tokens, l.pos)
  /\ l.depth # 0 /\ Reads(s)[l.pos - 1] = Block(l.depth, 0)
InQuotes(s, l) ==
  /\ l.pos \in 2..(Len(s) + 1) /\ l.beg \in 1..(l.pos - 1) /\ Told(s, l.tokens, l.beg)
  /\ \A k \in l.beg..(l.pos - 1) : Reads(s)[k] \in Within(l.mode)
  /\ Reads(s)[l.beg] = In(l.mode) /\ Reads(s)[l.pos - 1] = In(l.mode)
  /\ At(s, l.beg) = Quote(l.mode)
LexInv(s, l) ==
  /\ l \in State
  /\ AllGood(s, l.tokens)
  /\ l.mode = "code" => InCode(s, l)
  /\ l.mode = "block" => InBlock(s, l)
  /\ l.mode \in Quoted => InQuotes(s, l)
  /\ l.mode = "done" => Told(s, l.tokens, Len(s) + 1)

LEMMA NumberGood ==
  ASSUME NEW s, NEW i, NEW e, Longest(s, Token("number", i, e)),
         ReadsRight(ParseNumberLiteral(SubSeq(s, i, e - 1)), SubSeq(s, i, e - 1))
  PROVE  Good(s, Token("number", i, e))
<1> DEFINE t == Token("number", i, e)
<1>1. t.kind = "number" /\ t.kind \notin Quoted /\ t.beg = i /\ t.end = e
  BY DEF Token, Quoted
<1> HIDE DEF t
<1>2. Spelling(s, t) = SubSeq(s, i, e - 1)
  BY <1>1 DEF Spelling
<1>3. NumberRead(s, t) /\ Enclosed(s, t) /\ NoWordEnd(s, t)
  BY <1>1, <1>2 DEF NumberRead, Enclosed, NoWordEnd
<1> QED
  BY <1>3 DEF Good, t

LEMMA FatalKeeps ==
  ASSUME NEW s, NEW l, LexInv(s, l)
  PROVE  LexInv(s, Fatal(l))
<1> DEFINE f == Fatal(l)
<1>1. f \in State /\ f.mode = "fatal" /\ f.tokens = l.tokens
  BY DEF Fatal, LexInv, State
<1> HIDE DEF f
<1>2. LexInv(s, f)
  BY <1>1 DEF LexInv, Quoted
<1> QED
  BY <1>2 DEF f

LEMMA GoodPushed ==
  ASSUME NEW s, NEW tokens \in Seq(TokenRecord), NEW t \in TokenRecord,
         AllGood(s, tokens), Good(s, t), CutByNumber(s, tokens, t)
  PROVE  AllGood(s, Append(tokens, t))
<1> DEFINE more == Append(tokens, t)
<1>1. /\ more \in Seq(TokenRecord) /\ Len(more) = Len(tokens) + 1
      /\ \A m \in 1..Len(tokens) : more[m] = tokens[m]
      /\ more[Len(tokens) + 1] = t
  BY OneMore
<1>2. DOMAIN tokens = 1..Len(tokens) /\ Len(tokens) \in Nat /\ DOMAIN more = 1..(Len(tokens) + 1)
  BY <1>1
<1> HIDE DEF more
<1>3. \A m \in DOMAIN tokens : m \in DOMAIN more /\ more[m] = tokens[m]
  BY <1>1, <1>2
<1>4. ASSUME NEW x, CutByNumber(s, tokens, x) PROVE CutByNumber(s, more, x)
  BY <1>3, <1>4 DEF CutByNumber
<1>5. ASSUME NEW n \in DOMAIN more PROVE Good(s, more[n]) /\ CutByNumber(s, more, more[n])
  <2>1. CASE n \in DOMAIN tokens
    BY <1>3, <1>4, <2>1 DEF AllGood
  <2>2. CASE n \notin DOMAIN tokens
    <3>1. n = Len(tokens) + 1
      BY <1>2, <2>2
    <3> QED
      BY <1>1, <1>4, <3>1
  <2> QED
    BY <2>1, <2>2
<1> QED
  BY <1>5 DEF AllGood, more

(* A token that begins in a word, outside of comments and quotes *)
LEMMA CutOff ==
  ASSUME NEW s \in Seq(Char), NEW tokens, AllGood(s, tokens), NEW i \in 1..Len(s),
         Told(s, tokens, i), Reads(s)[i - 1] \in Clear, NEW kind, NEW e
  PROVE  CutByNumber(s, tokens, Token(kind, i, e))
<1> SUFFICES ASSUME At(s, i - 1) \in ContinueIdent, At(s, i) \in ContinueIdent
             PROVE  \E m \in DOMAIN tokens : tokens[m].kind = "number" /\ tokens[m].end = i
  BY DEF CutByNumber, Token
<1>1. i - 1 \in 1..Len(s)
  BY AtText, Idents
<1>2. Reads(s)[i - 1] # Block(0, 0)
  BY <1>1, ClosedBySlash, Idents
<1>3. OfToken(Reads(s)[i - 1], At(s, i - 1))
  <2>1. Reads(s)[i - 1].mode \in {"code", "closed"}
    BY <1>2 DEF Clear, In
  <2>2. At(s, i - 1) \notin Space
    BY Spaces
  <2> QED
    BY <2>1, <2>2 DEF OfToken
<1>4. PICK m \in DOMAIN tokens : i - 1 \in tokens[m].beg..(tokens[m].end - 1)
  <2>1. i - 1 \in 1..(i - 1)
    BY <1>1
  <2> QED
    BY <1>3, <2>1 DEF Told, InToken
<1>5. tokens[m] \in TokenRecord /\ tokens[m].end <= i /\ tokens[m].end \in Nat
  <2>1. tokens \in Seq(TokenRecord) /\ m \in 1..Len(tokens)
    BY DEF Told
  <2>2. tokens[m] \in TokenRecord
    BY <2>1
  <2> QED
    BY <2>1, <2>2 DEF Told, TokenRecord
<1>6. tokens[m].end = i
  BY <1>4, <1>5
<1>7. tokens[m].kind = "number"
  <2>1. tokens[m].kind \notin {"keyword", "ident"}
    BY <1>6 DEF AllGood, Good, Longest
  <2> QED
    BY <1>6, <2>1 DEF AllGood, Good, NoWordEnd
<1> QED
  BY <1>6, <1>7

(* A token that is pushed leads back to the loop of tokenize. *)
LEMMA PushBackKeeps ==
  ASSUME NEW s \in Seq(Char), NEW l \in State, AllGood(s, l.tokens),
         NEW kind, NEW beg, NEW end, Token(kind, beg, end) \in TokenRecord, end \in 1..(Len(s) + 1),
         Good(s, Token(kind, beg, end)), CutByNumber(s, l.tokens, Token(kind, beg, end)),
         Told(s, Append(l.tokens, Token(kind, beg, end)), end),
         Reads(s)[end - 1] \in Clear
  PROVE  LexInv(s, PushBack(l, kind, beg, end))
<1> DEFINE t == Token(kind, beg, end)
           p == PushBack(l, kind, beg, end)
<1>1. l.tokens \in Seq(TokenRecord)
  BY DEF State
<1>2. Append(l.tokens, t) \in Seq(TokenRecord)
  BY <1>1, OneMore
<1>3. AllGood(s, Append(l.tokens, t))
  BY <1>1, GoodPushed
<1>4. p = [l EXCEPT !.mode = "code", !.pos = end, !.tokens = Append(@, t)]
  BY DEF PushBack
<1> HIDE DEF t, p
<1>5. p \in State /\ p.mode = "code" /\ p.pos = end /\ p.tokens = Append(l.tokens, t)
  <2>1. end \in Nat
    OBVIOUS
  <2> QED
    BY <1>2, <1>4, <2>1 DEF State
<1>6. InCode(s, p)
  BY <1>5 DEF InCode, AtCode, t
<1>7. AllGood(s, p.tokens)
  BY <1>3, <1>5
<1>8. LexInv(s, p)
  BY <1>5, <1>6, <1>7 DEF LexInv, Quoted
<1> QED
  BY <1>8 DEF p

(* A token that is no string, found at i by tokenize *)
LEMMA TextPushed ==
  ASSUME NEW s \in Seq(Char), NEW l \in State, AllGood(s, l.tokens),
         NEW i \in 1..Len(s), Told(s, l.tokens, i), Reads(s)[i - 1] \in Clear,
         NEW kind \in {"keyword", "number", "oper", "ident"}, NEW e, TokenText(s, i, e), Good(s, Token(kind, i, e))
  PROVE  LexInv(s, PushBack(l, kind, i, e))
<1> DEFINE t == Token(kind, i, e)
<1>1. e \in (i + 1)..(Len(s) + 1) /\ e \in 1..(Len(s) + 1) /\ i \in Nat /\ e \in Nat /\ i <= e /\ 0 < i
  BY DEF TokenText
<1>2. t \in TokenRecord /\ t.beg = i /\ t.end = e
  BY <1>1 DEF Token, TokenRecord
<1>3. (\A k \in i..(e - 1) : OfToken(Reads(s)[k], At(s, k))) /\ Reads(s)[e - 1] \in Clear
  BY CodeRun
<1>4. \A k \in i..(i - 1) : ~ OfToken(Reads(s)[k], At(s, k))
  BY <1>1
<1> HIDE DEF t
<1>5. Told(s, Append(l.tokens, t), t.end)
  BY <1>1, <1>2, <1>3, <1>4, ToldMore
<1> QED
  BY <1>1, <1>2, <1>3, <1>5, CutOff, PushBackKeeps DEF t
-----------------------------------------------------------------------------
(* A turn of the loop in a comment *)
LEMMA CommentTurnKeeps ==
  ASSUME NEW s \in Seq(Char), NEW l, LexInv(s, l), l.mode = "block"
  PROVE  LexInv(s, CommentTurn(s, l))
<1> DEFINE j == SkipUntil(s, l.pos, {"*", "/"})
           d == l.depth
           r == CommentTurn(s, l)
<1>0. /\ l \in State /\ l.pos \in 1..(Len(s) + 1) /\ d \in Nat \ {0} /\ Len(s) \in Nat
      /\ Told(s, l.tokens, l.pos) /\ Reads(s)[l.pos - 1] = Block(d, 0)
      /\ l.pos \in Nat
  BY DEF LexInv, InBlock, State
<1>1. SkippedUntil(s, l.pos, {"*", "/"}, j)
  BY <1>0, SkipUntilStops
<1>2. /\ \A k \in l.pos..(j - 1) : Reads(s)[k] = Block(d, 0)
      /\ Reads(s)[j - 1] = Block(d, 0)
  BY <1>0, <1>1, BlockRun
<1>3. j \in 1..(Len(s) + 1) /\ l.pos <= j /\ j \in Nat
  BY <1>0, <1>1 DEF SkippedUntil
<1>4. \A k, x, y : Reads(s)[k] = Block(x, y) => ~ OfToken(Reads(s)[k], At(s, k))
  BY DEF Block, OfToken
<1>5. /\ Starts(s, j, <<"*", "/">>) =>
           j + 1 \in 1..Len(s) /\ Reads(s)[j] = Block(d - 1, 1) /\ Reads(s)[j + 1] = Block(d - 1, 0)
      /\ Starts(s, j, <<"/", "*">>) =>
           j + 1 \in 1..Len(s) /\ Reads(s)[j] = Block(d + 1, 1) /\ Reads(s)[j + 1] = Block(d + 1, 0)
      /\ j \in 1..Len(s) /\ ~ Starts(s, j, <<"*", "/">>) /\ ~ Starts(s, j, <<"/", "*">>) => Reads(s)[j] = Block(d, 0)
  BY <1>0, <1>2, <1>3, BlockPair
<1>6. ASSUME NEW q \in Nat, l.pos <= q, \A k \in j..(q - 1) : \E x, y : Reads(s)[k] = Block(x, y)
      PROVE  Told(s, l.tokens, q)
  <2>1. ASSUME NEW k \in l.pos..(q - 1) PROVE ~ OfToken(Reads(s)[k], At(s, k))
    <3>1. k \in l.pos..(j - 1) \/ k \in j..(q - 1)
      BY <1>0, <1>3
    <3> QED
      BY <1>2, <1>4, <1>6, <3>1
  <2> QED
    BY <1>0, <1>6, <2>1, ToldOn
<1>7. AllGood(s, l.tokens)
  BY DEF LexInv
<1> HIDE DEF j, d
<1>8. CASE Starts(s, j, <<"*", "/">>)
  <2>1. r = [l EXCEPT !.mode = IF l.depth = 1 THEN "code" ELSE "block", !.pos = j + 2, !.depth = @ - 1]
    BY <1>8 DEF CommentTurn, j
  <2>2. \A k \in j..((j + 2) - 1) : k = j \/ k = j + 1
    BY <1>3
  <2>3. Told(s, l.tokens, j + 2)
    <3>1. ASSUME NEW k \in j..((j + 2) - 1) PROVE \E x, y : Reads(s)[k] = Block(x, y)
      BY <1>5, <1>8, <2>2
    <3>2. j + 2 \in Nat /\ l.pos <= j + 2
      BY <1>0, <1>3
    <3> QED
      BY <1>6, <3>1, <3>2
  <2>4. /\ r \in State /\ r.pos = j + 2 /\ r.depth = d - 1 /\ r.tokens = l.tokens
        /\ r.mode = IF d = 1 THEN "code" ELSE "block"
    <3>1. l \in State /\ l.depth \in Nat \ {0} /\ j + 2 \in Nat /\ l.depth - 1 \in Nat
      BY <1>0, <1>3 DEF d
    <3> HIDE DEF r
    <3> QED
      BY ONLY <2>1, <3>1 DEF State, d
  <2>5. j + 2 \in 1..(Len(s) + 1) /\ (j + 2) - 1 = j + 1 /\ Reads(s)[j + 1] = Block(d - 1, 0)
    BY <1>0, <1>3, <1>5, <1>8
  <2>6. d = 1 => Block(d - 1, 0) \in Clear
    BY DEF Clear
  <2> HIDE DEF r
  <2>7. r.mode = "code" => InCode(s, r)
    BY <2>3, <2>4, <2>5, <2>6 DEF InCode, AtCode
  <2>8. r.mode = "block" => InBlock(s, r)
    BY <1>0, <2>3, <2>4, <2>5 DEF InBlock
  <2>9. r.mode \in {"code", "block"}
    BY <2>4
  <2> QED
    BY <1>7, <2>4, <2>7, <2>8, <2>9 DEF LexInv, Quoted, r
<1>9. CASE ~ Starts(s, j, <<"*", "/">>) /\ Starts(s, j, <<"/", "*">>)
  <2>1. r = [l EXCEPT !.pos = j + 2, !.depth = @ + 1]
    BY <1>9 DEF CommentTurn, j
  <2>2. \A k \in j..((j + 2) - 1) : k = j \/ k = j + 1
    BY <1>3
  <2>3. Told(s, l.tokens, j + 2)
    <3>1. ASSUME NEW k \in j..((j + 2) - 1) PROVE \E x, y : Reads(s)[k] = Block(x, y)
      BY <1>5, <1>9, <2>2
    <3>2. j + 2 \in Nat /\ l.pos <= j + 2
      BY <1>0, <1>3
    <3> QED
      BY <1>6, <3>1, <3>2
  <2>4. r \in State /\ r.pos = j + 2 /\ r.depth = d + 1 /\ r.tokens = l.tokens /\ r.mode = "block"
    <3>1. l \in State /\ l.mode = "block" /\ l.depth \in Nat \ {0} /\ j + 2 \in Nat /\ l.depth + 1 \in Nat
      BY <1>0, <1>3 DEF d
    <3> HIDE DEF r
    <3> QED
      BY ONLY <2>1, <3>1 DEF State, d
  <2>5. j + 2 \in 1..(Len(s) + 1) /\ (j + 2) - 1 = j + 1 /\ Reads(s)[j + 1] = Block(d + 1, 0)
    BY <1>0, <1>3, <1>5, <1>9
  <2> HIDE DEF r
  <2>6. InBlock(s, r)
    BY <1>0, <2>3, <2>4, <2>5 DEF InBlock
  <2> QED
    BY <1>7, <2>4, <2>6 DEF LexInv, Quoted, r
<1>10. CASE ~ Starts(s, j, <<"*", "/">>) /\ ~ Starts(s, j, <<"/", "*">>) /\ j > Len(s)
  <2>1. r = Fatal(l)
    BY <1>10 DEF CommentTurn, j
  <2> QED
    BY <2>1, FatalKeeps
<1>11. CASE ~ Starts(s, j, <<"*", "/">>) /\ ~ Starts(s, j, <<"/", "*">>) /\ ~ (j > Len(s))
  <2>1. r = Moved(l, j + 1)
    BY <1>11 DEF CommentTurn, j
  <2>2. j \in 1..Len(s) /\ Reads(s)[j] = Block(d, 0) /\ (j + 1) - 1 = j
    BY <1>0, <1>3, <1>5, <1>11
  <2>3. \A k \in j..((j + 1) - 1) : k = j
    BY <1>3
  <2>4. Told(s, l.tokens, j + 1)
    BY <1>0, <1>3, <1>6, <2>2, <2>3
  <2>5. r \in State /\ r.pos = j + 1 /\ r.depth = d /\ r.tokens = l.tokens /\ r.mode = "block"
    BY <1>0, <1>3, <2>1 DEF State, Moved, d
  <2> HIDE DEF r
  <2>6. InBlock(s, r)
    BY <1>0, <2>2, <2>4, <2>5 DEF InBlock
  <2> QED
    BY <1>7, <2>5, <2>6 DEF LexInv, Quoted, r
<1> QED
  BY <1>8, <1>9, <1>10, <1>11

(* A turn of the loop in a string or a character *)
LEMMA QuoteTurnKeeps ==
  ASSUME NEW s \in Seq(Char), NEW l, LexInv(s, l), l.mode \in Quoted
  PROVE  LexInv(s, QuoteTurn(s, l))
<1> DEFINE m == l.mode
           j == SkipUntil(s, l.pos, {"\n", "\\", Quote(m)})
           r == QuoteTurn(s, l)
<1>0. /\ l \in State /\ l.pos \in 2..(Len(s) + 1) /\ l.beg \in 1..(l.pos - 1) /\ Len(s) \in Nat
      /\ Told(s, l.tokens, l.beg) /\ Reads(s)[l.pos - 1] = In(m)
      /\ \A k \in l.beg..(l.pos - 1) : Reads(s)[k] \in Within(m)
      /\ Reads(s)[l.beg] = In(m) /\ At(s, l.beg) = Quote(m)
      /\ l.pos \in Nat /\ l.beg \in Nat /\ l.pos \in 1..(Len(s) + 1) /\ m \in Quoted
  BY DEF LexInv, InQuotes, State
<1>1. SkippedUntil(s, l.pos, {"\n", "\\", Quote(m)}, j)
  BY <1>0, SkipUntilStops
<1>2. /\ \A k \in l.pos..(j - 1) : Reads(s)[k] = In(m)
      /\ Reads(s)[j - 1] = In(m)
  BY <1>0, <1>1, QuoteRun
<1>3. j \in 1..(Len(s) + 1) /\ l.pos <= j /\ j \in Nat
  BY <1>0, <1>1 DEF SkippedUntil
<1>4. In(m).mode = m /\ In("closed").mode = "closed" /\ Escaped(m).mode = m
  BY DEF In, Escaped
<1>5. ASSUME NEW k \in l.beg..(j - 1) PROVE Reads(s)[k] \in Within(m)
  <2>1. k \in l.beg..(l.pos - 1) \/ k \in l.pos..(j - 1)
    BY <1>0, <1>3
  <2> QED
    BY <1>0, <1>2, <2>1 DEF Within
<1>6. AllGood(s, l.tokens)
  BY DEF LexInv
<1>7. Quote(m) \notin {"\\", "\n", NoChar}
  BY <1>0, Quotes DEF Quoted
<1>8. j \in 1..Len(s) => Reads(s)[j] = ReadNext(s, In(m), j)
  BY <1>2, ReadsNext
<1> HIDE DEF j, m
<1>9. CASE At(s, j) = Quote(m)
  <2>1. r = PushBack(l, m, l.beg, j + 1)
    BY <1>9 DEF QuoteTurn, j, m
  <2>2. j \in 1..Len(s)
    BY <1>7, <1>9, AtText
  <2>3. Reads(s)[j] = In("closed")
    BY <1>0, <1>3, <1>8, <1>9, <2>2, ReadQuoted
  <2> DEFINE t == Token(m, l.beg, j + 1)
  <2>4. t \in TokenRecord /\ t.kind = m /\ t.beg = l.beg /\ t.end = j + 1
    BY <1>0, <1>3 DEF Token, TokenRecord, Quoted
  <2>5. ASSUME NEW k \in t.beg..(t.end - 1) PROVE OfToken(Reads(s)[k], At(s, k))
    <3>1. k \in l.beg..(j - 1) \/ k = j
      BY <1>0, <1>3, <2>4
    <3>2. Reads(s)[k].mode \in {"string", "character", "closed"}
      BY <1>0, <1>4, <1>5, <2>3, <3>1 DEF Quoted, Within
    <3> QED
      BY <3>2 DEF OfToken
  <2> HIDE DEF t
  <2>6. Told(s, Append(l.tokens, t), t.end)
    <3>1. l.beg <= t.beg /\ t.beg <= t.end /\ 0 < l.beg
      BY <1>0, <1>3, <2>4
    <3>2. \A k \in l.beg..(t.beg - 1) : ~ OfToken(Reads(s)[k], At(s, k))
      BY <1>0, <2>4
    <3> QED
      BY <1>0, <2>4, <2>5, <3>1, <3>2, ToldMore
  <2>7. Good(s, t)
    <3>1. t.kind \notin {"oper", "keyword", "ident", "number"}
      BY <1>0, <2>4 DEF Quoted
    <3>2. Longest(s, t) /\ NumberRead(s, t) /\ NoWordEnd(s, t)
      <4>1. t.end - 1 = j /\ Quote(m) \notin ContinueIdent
        BY <1>0, <1>3, <2>4, Quotes DEF Quoted
      <4> QED
        BY <1>9, <3>1, <4>1 DEF Longest, NumberRead, NoWordEnd
    <3>3. /\ t.beg \in 1..Len(s) /\ t.end \in (t.beg + 2)..(Len(s) + 1)
          /\ t.end - 1 = j /\ t.beg..(t.end - 2) = l.beg..(j - 1)
      BY <1>0, <1>3, <2>2, <2>4
    <3>4. Enclosed(s, t)
      BY <1>0, <1>5, <2>3, <2>4, <3>3 DEF Enclosed
    <3> QED
      BY <3>2, <3>4 DEF Good
  <2>8. Reads(s)[(j + 1) - 1] \in Clear /\ j + 1 \in 1..(Len(s) + 1)
    BY <1>0, <1>3, <2>2, <2>3 DEF Clear
  <2>9. CutByNumber(s, l.tokens, t)
    <3>1. At(s, l.beg) \notin ContinueIdent
      BY <1>0, Quotes DEF Quoted
    <3> QED
      BY <2>4, <3>1 DEF CutByNumber
  <2>10. LexInv(s, PushBack(l, m, l.beg, j + 1))
    BY <1>0, <1>6, <2>4, <2>6, <2>7, <2>8, <2>9, PushBackKeeps DEF t
  <2> QED
    BY <2>1, <2>10
<1>10. CASE At(s, j) # Quote(m) /\ At(s, j) = "\\" /\ j < Len(s)
  <2>1. r = Moved(l, j + 2)
    BY <1>10 DEF QuoteTurn, j, m
  <2>2. j \in 1..Len(s) /\ j + 1 \in 1..Len(s) /\ (j + 1) - 1 = j /\ (j + 2) - 1 = j + 1 /\ j + 1 \in Nat
    BY <1>0, <1>3, <1>10
  <2>3. Reads(s)[j] = Escaped(m)
    BY <1>0, <1>3, <1>8, <1>10, <2>2, ReadQuoted
  <2>4. Reads(s)[j + 1] = ReadNext(s, Escaped(m), j + 1)
    BY <2>2, <2>3, ReadsNext
  <2>5. Reads(s)[j + 1] = In(m)
    BY <1>0, <2>2, <2>4, ReadQuoted
  <2>6. r \in State /\ r.pos = j + 2 /\ r.beg = l.beg /\ r.tokens = l.tokens /\ r.mode = m
    <3>1. l \in State /\ j + 2 \in Nat
      BY <1>0, <1>3
    <3> HIDE DEF r
    <3> QED
      BY ONLY <2>1, <3>1 DEF State, Moved, m
  <2> HIDE DEF r
  <2>7. ASSUME NEW k \in r.beg..(r.pos - 1) PROVE Reads(s)[k] \in Within(r.mode)
    <3>1. k \in l.beg..(j - 1) \/ k = j \/ k = j + 1
      BY <1>0, <1>3, <2>6
    <3> QED
      BY <1>5, <2>3, <2>5, <2>6, <3>1 DEF Within
  <2>8. j + 2 \in 2..(Len(s) + 1) /\ l.beg \in 1..((j + 2) - 1)
    BY <1>0, <1>3, <2>2
  <2>9. InQuotes(s, r)
    BY <1>0, <2>2, <2>5, <2>6, <2>7, <2>8 DEF InQuotes
  <2> QED
    BY <1>0, <1>6, <2>6, <2>9 DEF LexInv, Quoted, r
<1>11. CASE At(s, j) # Quote(m) /\ ~ (At(s, j) = "\\" /\ j < Len(s))
  <2>1. r = Fatal(l)
    BY <1>11 DEF QuoteTurn, j, m
  <2> QED
    BY <2>1, FatalKeeps
<1> QED
  BY <1>9, <1>10, <1>11
(* What begins at i, outside of comments *)
LEMMA ParseTokenKeeps ==
  ASSUME NEW s \in Seq(Char), NEW behind, NEW near, NEW l, LexInv(s, l), l.mode = "code",
         NEW i \in 1..Len(s), Told(s, l.tokens, i), Reads(s)[i - 1] \in Clear
  PROVE  LexInv(s, ParseToken(s, i, behind, near, l))
<1> DEFINE r == ParseToken(s, i, behind, near, l)
           number == ParseNumber(s, i, behind, near)
<1>0. l \in State /\ Len(s) \in Nat /\ i \in Nat /\ AllGood(s, l.tokens)
  BY DEF LexInv
<1>1. CASE Starts(s, i, <<"/", "/">>)
  <2> DEFINE j == SkipUntil(s, i + 2, {"\n"})
  <2>1. r = Moved(l, j)
    BY <1>1 DEF ParseToken
  <2>2. At(s, i + 1) # NoChar
    BY <1>1, StartsPair DEF NoChar
  <2>3. i + 1 \in 1..Len(s)
    BY <2>2, AtText
  <2>4. i + 2 \in 1..(Len(s) + 1)
    BY <1>0, <2>3
  <2>5. SkippedUntil(s, i + 2, {"\n"}, j)
    BY <2>4, SkipUntilStops
  <2> HIDE DEF j
  <2>6. (\A k \in i..(j - 1) : ~ OfToken(Reads(s)[k], At(s, k))) /\ AtCode(s, j)
    BY <1>1, <2>5, LineRun
  <2>7. j \in 1..(Len(s) + 1) /\ j \in Nat /\ i <= j
    BY <1>0, <2>5 DEF SkippedUntil
  <2>8. Told(s, l.tokens, j)
    BY <1>0, <2>6, <2>7, ToldOn
  <2>9. r \in State /\ r.mode = "code" /\ r.pos = j /\ r.tokens = l.tokens
    <3> HIDE DEF r
    <3> QED
      BY <1>0, <2>1, <2>7 DEF State, Moved
  <2> HIDE DEF r
  <2>10. InCode(s, r)
    BY <2>6, <2>7, <2>8, <2>9 DEF InCode
  <2> QED
    BY <1>0, <2>9, <2>10 DEF LexInv, Quoted, r
<1>2. CASE ~ Starts(s, i, <<"/", "/">>) /\ Starts(s, i, <<"/", "*">>)
  <2>1. r = [l EXCEPT !.mode = "block", !.pos = i + 2, !.depth = 1]
    BY <1>2 DEF ParseToken
  <2>2. /\ i + 2 <= Len(s) + 1
        /\ \A k \in i..(i + 1) : ~ OfToken(Reads(s)[k], At(s, k))
        /\ Reads(s)[i + 1] = Block(1, 0)
    BY <1>2, BlockBegins
  <2>3. i + 2 \in 1..(Len(s) + 1) /\ i + 2 \in Nat /\ (i + 2) - 1 = i + 1 /\ i <= i + 2
    BY <1>0, <2>2
  <2>4. Told(s, l.tokens, i + 2)
    BY <1>0, <2>2, <2>3, ToldOn
  <2>5. r \in State /\ r.mode = "block" /\ r.pos = i + 2 /\ r.depth = 1 /\ r.tokens = l.tokens
    <3> HIDE DEF r
    <3> QED
      BY <1>0, <2>1, <2>3 DEF State
  <2> HIDE DEF r
  <2>6. InBlock(s, r)
    BY <2>2, <2>3, <2>4, <2>5 DEF InBlock
  <2> QED
    BY <1>0, <2>5, <2>6 DEF LexInv, Quoted, r
<1> DEFINE NoComment == ~ Starts(s, i, <<"/", "/">>) /\ ~ Starts(s, i, <<"/", "*">>)
<1>3. CASE NoComment /\ ParseKeyword(s, i) # i
  <2>1. r = PushBack(l, "keyword", i, ParseKeyword(s, i))
    BY <1>3 DEF ParseToken
  <2> QED
    BY <1>0, <1>3, <2>1, KeywordText, WordGood, TextPushed
<1>4. CASE NoComment /\ ParseKeyword(s, i) = i /\ number # i
  <2>1. r = Parsed(l, "number", i, number)
    BY <1>4 DEF ParseToken
  <2>2. CASE number = 0
    <3>1. r = Fatal(l)
      BY <2>1, <2>2 DEF Parsed
    <3> QED
      BY <3>1, FatalKeeps
  <2>3. CASE number # 0
    <3>1. r = PushBack(l, "number", i, number)
      BY <2>1, <2>3 DEF Parsed
    <3>2. TokenText(s, i, number) /\ Longest(s, Token("number", i, number))
      BY <1>4, <2>3, NumberText
    <3>3. ReadsRight(ParseNumberLiteral(SubSeq(s, i, number - 1)), SubSeq(s, i, number - 1))
      BY <1>4, <2>3, NumberRight
    <3>4. Good(s, Token("number", i, number))
      BY <3>2, <3>3, NumberGood
    <3> QED
      BY <1>0, <3>1, <3>2, <3>4, TextPushed
  <2> QED
    BY <2>2, <2>3
<1>5. CASE NoComment /\ ParseKeyword(s, i) = i /\ number = i /\ ParseOper(s, i) # i
  <2>1. r = PushBack(l, "oper", i, ParseOper(s, i))
    BY <1>5 DEF ParseToken
  <2> QED
    BY <1>0, <1>5, <2>1, OperText, WordGood, TextPushed
<1> DEFINE NoWord == NoComment /\ ParseKeyword(s, i) = i /\ number = i /\ ParseOper(s, i) = i
<1>6. CASE NoWord /\ ParseIdent(s, i) # i
  <2>1. r = PushBack(l, "ident", i, ParseIdent(s, i))
    BY <1>6 DEF ParseToken
  <2> QED
    BY <1>0, <1>6, <2>1, IdentText, WordGood, TextPushed
<1>7. ASSUME NEW m \in Quoted, r = [l EXCEPT !.mode = m, !.pos = i + 1, !.beg = i], At(s, i) = Quote(m)
      PROVE  LexInv(s, r)
  <2>1. r \in State /\ r.mode = m /\ r.pos = i + 1 /\ r.beg = i /\ r.tokens = l.tokens
    <3>1. l \in State /\ i \in Nat /\ i + 1 \in Nat
      BY <1>0
    <3>2. m = "string" \/ m = "character"
      BY <1>7 DEF Quoted
    <3>3. r = [l EXCEPT !.mode = m, !.pos = i + 1, !.beg = i]
      BY <1>7
    <3> HIDE DEF r
    <3> QED
      BY ONLY <3>1, <3>2, <3>3 DEF State
  <2>2. Reads(s)[i] = In(m)
    BY <1>0, <1>7, ReadsNext, ReadQuoted
  <2>3. In(m) \in Within(m)
    BY DEF Within
  <2> HIDE DEF r
  <2>4. /\ i + 1 \in 2..(Len(s) + 1) /\ i \in 1..((i + 1) - 1) /\ (i + 1) - 1 = i
        /\ \A k \in i..((i + 1) - 1) : k = i
    BY <1>0
  <2>5. InQuotes(s, r)
    BY <1>7, <2>1, <2>2, <2>3, <2>4 DEF InQuotes
  <2> QED
    BY <1>0, <2>1, <2>5 DEF LexInv, Quoted, r
<1>8. CASE NoWord /\ ParseIdent(s, i) = i /\ At(s, i) = Quote("string")
  <2>1. r = [l EXCEPT !.mode = "string", !.pos = i + 1, !.beg = i]
    BY <1>8 DEF ParseToken
  <2> QED
    BY <1>7, <1>8, <2>1 DEF Quoted
<1>9. CASE NoWord /\ ParseIdent(s, i) = i /\ At(s, i) # Quote("string") /\ At(s, i) = Quote("character")
  <2>1. r = [l EXCEPT !.mode = "character", !.pos = i + 1, !.beg = i]
    BY <1>9 DEF ParseToken
  <2> QED
    BY <1>7, <1>9, <2>1 DEF Quoted
<1>10. CASE NoWord /\ ParseIdent(s, i) = i /\ At(s, i) # Quote("string") /\ At(s, i) # Quote("character")
  <2>1. r = Fatal(l)
    BY <1>10 DEF ParseToken
  <2> QED
    BY <2>1, FatalKeeps
<1> QED
  BY <1>1, <1>2, <1>3, <1>4, <1>5, <1>6, <1>8, <1>9, <1>10

(* A turn of the loop of tokenize *)
LEMMA TokenizeTurnKeeps ==
  ASSUME NEW s \in Seq(Char), NEW behind, NEW near, NEW l, LexInv(s, l), l.mode = "code"
  PROVE  LexInv(s, TokenizeTurn(s, behind, near, l))
<1> DEFINE i == SkipAll(s, l.pos, Space)
           r == TokenizeTurn(s, behind, near, l)
<1>0. /\ l \in State /\ Len(s) \in Nat /\ l.pos \in 1..(Len(s) + 1) /\ l.pos \in Nat
      /\ Told(s, l.tokens, l.pos) /\ AtCode(s, l.pos)
      /\ AllGood(s, l.tokens)
  BY DEF LexInv, InCode, State
<1>1. Skipped(s, l.pos, Space, i)
  BY <1>0, Spaces, SkipAllStops
<1>2. /\ \A k \in l.pos..(i - 1) : ~ OfToken(Reads(s)[k], At(s, k))
      /\ i <= Len(s) => Reads(s)[i - 1] \in Clear
  <2> HIDE DEF i
  <2> QED
    BY <1>0, <1>1, SpaceRun
<1>3. i \in Nat /\ l.pos <= i /\ i <= Len(s) + 1 /\ 1 <= i
  BY <1>0, <1>1 DEF Skipped
<1>4. Told(s, l.tokens, i)
  <2> HIDE DEF i
  <2> QED
    BY <1>0, <1>2, <1>3, ToldOn
<1>5. CASE i > Len(s)
  <2>1. r = [l EXCEPT !.mode = "done", !.pos = i]
    BY <1>5 DEF TokenizeTurn
  <2> HIDE DEF i
  <2>2. i = Len(s) + 1
    BY <1>0, <1>3, <1>5
  <2>3. r \in State /\ r.mode = "done" /\ r.tokens = l.tokens
    <3> HIDE DEF r
    <3> QED
      BY <1>0, <1>3, <2>1 DEF State
  <2> HIDE DEF r
  <2> QED
    BY <1>0, <1>4, <2>2, <2>3 DEF LexInv, Quoted, r
<1>6. CASE ~ (i > Len(s))
  <2>1. r = ParseToken(s, i, behind, near, l)
    BY <1>6 DEF TokenizeTurn
  <2> HIDE DEF i
  <2>2. i \in 1..Len(s)
    BY <1>0, <1>3, <1>6
  <2>3. Reads(s)[i - 1] \in Clear
    BY <1>2, <2>2
  <2> QED
    BY <1>4, <2>1, <2>2, <2>3, ParseTokenKeeps
<1> QED
  BY <1>5, <1>6
-----------------------------------------------------------------------------
(* The inductive invariant *)
Inv == text \in Seq(Char) /\ LexInv(text, lex)
LEMMA InitInv ==
  Init => Inv
<1> SUFFICES ASSUME Init PROVE Inv
  OBVIOUS
<1>1. text \in Seq(Char) /\ lex = Start /\ Len(text) \in Nat
  BY DEF Init
<1>2. /\ lex \in State /\ lex.mode = "code" /\ lex.pos = 1 /\ lex.tokens = <<>>
  BY <1>1 DEF Start, State
<1>3. Told(text, <<>>, 1)
  BY DEF Told
<1>4. Reads(text)[0] \in Clear
  BY <1>1, ReadsFollow DEF Clear
<1>5. InCode(text, lex)
  BY <1>1, <1>2, <1>3, <1>4 DEF InCode, AtCode
<1>6. DOMAIN lex.tokens = {}
  BY <1>2
<1> QED
  BY <1>1, <1>2, <1>5, <1>6 DEF Inv, LexInv, AllGood, Quoted
LEMMA NextInv ==
  Inv /\ [Next]_vars => Inv'
<1> SUFFICES ASSUME Inv, [Next]_vars PROVE Inv'
  OBVIOUS
<1>1. text \in Seq(Char) /\ LexInv(text, lex)
  BY DEF Inv
<1>2. CASE TokenizeStep
  <2>1. LexInv(text, TokenizeTurn(text, after, nearest, lex))
    BY <1>1, <1>2, TokenizeTurnKeeps DEF TokenizeStep
  <2> QED
    BY <1>1, <1>2, <2>1 DEF Inv, TokenizeStep
<1>3. CASE CommentStep
  <2>1. LexInv(text, CommentTurn(text, lex))
    BY <1>1, <1>3, CommentTurnKeeps DEF CommentStep
  <2> QED
    BY <1>1, <1>3, <2>1 DEF Inv, CommentStep
<1>4. CASE QuoteStep
  <2>1. LexInv(text, QuoteTurn(text, lex))
    BY <1>1, <1>4, QuoteTurnKeeps DEF QuoteStep, Quoted
  <2> QED
    BY <1>1, <1>4, <2>1 DEF Inv, QuoteStep
<1>5. CASE UNCHANGED vars
  BY <1>1, <1>5 DEF Inv, vars
<1> QED
  BY <1>2, <1>3, <1>4, <1>5 DEF Next

(* tokenize takes exactly the characters that stand outside of comments,   *)
(* and its tokens do not overlap.                                          *)
THEOREM TokensOutsideComments == Spec => []OutsideComments
<1>1. Inv => OutsideComments
  <2> SUFFICES ASSUME Inv, lex.mode = "done" PROVE OutsideComments
    BY DEF OutsideComments
  <2>1. text \in Seq(Char) /\ Told(text, lex.tokens, Len(text) + 1)
    BY DEF Inv, LexInv
  <2>2. (Len(text) + 1) - 1 = Len(text)
    BY <2>1
  <2> QED
    BY <2>1, <2>2 DEF OutsideComments, Told
<1> QED
  BY <1>1, InitInv, NextInv, PTL DEF Spec

(* Every token that tokenize has made is the longest one that begins where *)
(* it does: the operator, the word, and the number up to its last digit;   *)
(* and only a number, nan among them, takes the beginning of a word away.  *)
THEOREM TokensLongest == Spec => []LongestMatch
<1>1. Inv => LongestMatch
  BY DEF Inv, LexInv, AllGood, Good, LongestMatch
<1> QED
  BY <1>1, InitInv, NextInv, PTL DEF Spec

(* Every number that tokenize has made a token of is one that              *)
(* parseNumberLiteral reads, and a plain one is read as it is written.     *)
THEOREM LiteralsAreRead == Spec => []LiteralsRead
<1>1. Inv => LiteralsRead
  BY DEF Inv, LexInv, AllGood, Good, NumberRead, LiteralsRead
<1> QED
  BY <1>1, InitInv, NextInv, PTL DEF Spec
-----------------------------------------------------------------------------
(* parseStringLiteral, on the text of a token between its quotes: it takes *)
(* a character for an escape exactly if the reference does.                *)
Between(s, t) == SubSeq(s, t.beg + 1, t.end - 2)
LEMMA BetweenText ==
  ASSUME NEW s \in Seq(Char), NEW t \in TokenRecord, t.kind \in Quoted, Enclosed(s, t)
  PROVE  /\ Between(s, t) \in Seq(Char)
         /\ Len(Between(s, t)) = t.end - t.beg - 2
         /\ \A p \in 1..Len(Between(s, t)) :
              At(Between(s, t), p) = At(s, t.beg + p) /\ t.beg + p \in 1..Len(s) /\ t.beg + p \in t.beg..(t.end - 2)
<1>1. /\ t.beg + 1 \in 1..(Len(s) + 1) /\ t.end - 2 \in ((t.beg + 1) - 1)..Len(s)
      /\ (t.end - 2) - (t.beg + 1) + 1 = t.end - t.beg - 2 /\ t.beg \in Nat /\ t.end \in Nat /\ Len(s) \in Nat
  BY DEF Enclosed, TokenRecord
<1>2. /\ Between(s, t) \in Seq(Char) /\ Len(Between(s, t)) = t.end - t.beg - 2
      /\ \A p \in 1..(t.end - t.beg - 2) : At(Between(s, t), p) = At(s, (t.beg + 1) + p - 1)
  BY <1>1, CutText DEF Between
<1>3. ASSUME NEW p \in 1..(t.end - t.beg - 2)
      PROVE  (t.beg + 1) + p - 1 = t.beg + p /\ t.beg + p \in 1..Len(s) /\ t.beg + p \in t.beg..(t.end - 2)
  <2>1. \A b, e, n \in Nat : e - 2 <= n => \A k \in 1..(e - b - 2) :
          (b + 1) + k - 1 = b + k /\ b + k \in 1..n /\ b + k \in b..(e - 2)
    OBVIOUS
  <2>2. t.end - 2 <= Len(s)
    BY <1>1
  <2> QED
    BY <1>1, <2>1, <2>2
<1> QED
  BY <1>2, <1>3

(* The reference, one character on *)
LEMMA BetweenNext ==
  ASSUME NEW s \in Seq(Char), NEW t \in TokenRecord, t.kind \in Quoted, Enclosed(s, t),
         NEW p \in 1..Len(Between(s, t))
  PROVE  LET was == Reads(s)[t.beg + p - 1]
             now == Reads(s)[t.beg + p]
         IN /\ was = Escaped(t.kind) => now = In(t.kind)
            /\ was # Escaped(t.kind) =>
                 /\ At(Between(s, t), p) = "\\" => now = Escaped(t.kind)
                 /\ At(Between(s, t), p) # "\\" => now = In(t.kind)
<1> DEFINE q == t.beg + p
           m == t.kind
<1>1. q \in 1..Len(s) /\ q \in t.beg..(t.end - 2) /\ At(Between(s, t), p) = At(s, q)
  BY BetweenText
<1>2. q \in Nat /\ q - 1 \in t.beg..(t.end - 2) /\ q - 1 = t.beg + p - 1
  BY <1>1 DEF TokenRecord
<1>3. Reads(s)[q] \in Within(m) /\ Reads(s)[q - 1] \in Within(m)
  BY <1>1, <1>2 DEF Enclosed
<1>4. Reads(s)[q] = ReadNext(s, Reads(s)[q - 1], q)
  BY <1>1, ReadsNext
<1> HIDE DEF q
<1>5. /\ ReadNext(s, Escaped(m), q) = In(m)
      /\ At(s, q) = "\\" => ReadNext(s, In(m), q) = Escaped(m)
      /\ At(s, q) = Quote(m) => ReadNext(s, In(m), q) = In("closed")
      /\ At(s, q) \notin {"\\", Quote(m)} => ReadNext(s, In(m), q) = In(m)
  BY <1>2, ReadQuoted
<1>6. In("closed") \notin Within(m)
  BY DEF In, Escaped, Within, Quoted
<1>7. /\ Reads(s)[q - 1] = Escaped(m) => Reads(s)[q] = In(m)
      /\ Reads(s)[q - 1] # Escaped(m) =>
           /\ At(s, q) = "\\" => Reads(s)[q] = Escaped(m)
           /\ At(s, q) # "\\" => Reads(s)[q] = In(m)
  BY <1>3, <1>4, <1>5, <1>6 DEF Within
<1> QED
  BY <1>1, <1>2, <1>7 DEF q

LEMMA EscapedOrNot ==
  ASSUME NEW m
  PROVE  In(m) # Escaped(m)
  BY DEF In, Escaped

(* What the loop knows of its position i and of prevWasBack *)
Follow(s, t, i, back) ==
  /\ i \in 1..(Len(Between(s, t)) + 1)
  /\ back \in BOOLEAN
  /\ back <=> Reads(s)[t.beg + i - 1] = Escaped(t.kind)
LEMMA FollowOne ==
  ASSUME NEW s \in Seq(Char), NEW t \in TokenRecord, t.kind \in Quoted, Enclosed(s, t),
         NEW i \in 1..Len(Between(s, t)), NEW back, Follow(s, t, i, back)
  PROVE  Follow(s, t, i + 1, ~ back /\ At(Between(s, t), i) = "\\")
<1>1. Len(Between(s, t)) \in Nat /\ t.beg \in Nat
  BY BetweenText DEF TokenRecord
<1>2. i + 1 \in 1..(Len(Between(s, t)) + 1) /\ t.beg + (i + 1) - 1 = t.beg + i
  BY <1>1
<1>3. (~ back /\ At(Between(s, t), i) = "\\") <=> Reads(s)[t.beg + i] = Escaped(t.kind)
  BY BetweenNext, EscapedOrNot DEF Follow
<1> QED
  BY <1>2, <1>3 DEF Follow

(* The digits of a code are no backslashes.  An octal code begins with the *)
(* character that is escaped, a hexadecimal one after it.                  *)
LEMMA FollowCode ==
  ASSUME NEW s \in Seq(Char), NEW t \in TokenRecord, t.kind \in Quoted, Enclosed(s, t),
         NEW i \in 1..(Len(Between(s, t)) + 1), NEW base \in {8, 16},
         NEW from \in {i, i + 1}, from = i + 1 => At(Between(s, t), i) \in Digits(base), Follow(s, t, from, FALSE)
  PROVE  Follow(s, t, ParseCode(Between(s, t), i, base).next, FALSE)
<1> DEFINE lit == Between(s, t)
           j == SkipAll(lit, i, Digits(base))
           S == {k \in Nat : Follow(s, t, k, FALSE)}
<1>1. lit \in Seq(Char) /\ Len(lit) \in Nat
  BY BetweenText
<1>2. NoChar \notin Digits(base) /\ "\\" \notin Digits(base)
  BY DigitSets DEF Digits
<1>3. Skipped(lit, i, Digits(base), j)
  BY <1>1, <1>2, SkipAllStops
<1>4. j \in i..(Len(lit) + 1) /\ (\A k \in i..(j - 1) : At(lit, k) \in Digits(base)) /\ i \in Nat /\ j \in Nat
  BY <1>1, <1>3 DEF Skipped
<1>5. from = i + 1 => j # i
  BY <1>3 DEF Skipped
<1> HIDE DEF lit, j
<1>6. from \in Nat /\ from \in i..j /\ j \in Int
  BY <1>4, <1>5
<1>7. ASSUME NEW k \in from..(j - 1), k \in S PROVE k + 1 \in S
  <2>1. k \in 1..Len(lit) /\ k \in i..(j - 1) /\ k + 1 \in Nat
    BY <1>1, <1>4, <1>6
  <2>2. At(lit, k) # "\\"
    BY <1>2, <1>4, <2>1
  <2>3. Follow(s, t, k + 1, ~ FALSE /\ At(lit, k) = "\\")
    BY <1>7, <2>1, FollowOne DEF lit
  <2>4. (~ FALSE /\ At(lit, k) = "\\") = FALSE
    BY <2>2
  <2> QED
    BY <2>1, <2>3, <2>4
<1>8. from \in S
  BY <1>6, Zenon
<1> HIDE DEF S
<1>9. from..j \subseteq S
  BY <1>6, <1>7, <1>8, AlongRange
<1>10. j \in S
  BY <1>4, <1>6, <1>9
<1>11. ParseCode(lit, i, base).next = j
  BY DEF ParseCode, CodeUntil, CharCode, j
<1> QED
  BY <1>10, <1>11 DEF S, lit

(* The loop reads the text between the quotes of some token. *)
StrFields == {"mode", "kind", "lit", "pos", "back", "out"}
StrInv(s, tokens, r) ==
  /\ DOMAIN r = StrFields
  /\ r.mode \in {"loop", "parsed"} =>
       \E n \in DOMAIN tokens :
         /\ tokens[n].kind \in Quoted /\ r.lit = Between(s, tokens[n])
         /\ Follow(s, tokens[n], r.pos, r.back)
         /\ r.mode = "parsed" => ~ r.back
LEMMA UnescapeTurnKeeps ==
  ASSUME NEW s \in Seq(Char), NEW tokens \in Seq(TokenRecord), \A n \in DOMAIN tokens : Enclosed(s, tokens[n]),
         NEW r, StrInv(s, tokens, r), r.mode = "loop"
  PROVE  StrInv(s, tokens, UnescapeTurn(r))
<1>1. PICK n \in DOMAIN tokens : tokens[n].kind \in Quoted /\ r.lit = Between(s, tokens[n]) /\ Follow(s, tokens[n], r.pos, r.back)
  BY DEF StrInv
<1> DEFINE t == tokens[n]
           lit == Between(s, t)
           i == r.pos
           c == At(lit, i)
           u == UnescapeTurn(r)
<1>2. t \in TokenRecord /\ t.kind \in Quoted /\ Enclosed(s, t) /\ r.lit = lit /\ Follow(s, t, i, r.back)
  BY <1>1
<1>3. lit \in Seq(Char) /\ Len(lit) = t.end - t.beg - 2 /\ Len(lit) \in Nat /\ i \in 1..(Len(lit) + 1) /\ r.back \in BOOLEAN
  BY <1>2, BetweenText DEF Follow
<1>4. DOMAIN r = StrFields
  BY DEF StrInv
<1> HIDE DEF t, u
<1> SUFFICES StrInv(s, tokens, u)
  BY DEF u
<1>5. ASSUME NEW next, NEW back, DOMAIN u = StrFields, u.mode = "loop", u.lit = r.lit, u.pos = next, u.back = back,
             Follow(s, t, next, back)
      PROVE  StrInv(s, tokens, u)
  BY <1>2, <1>5 DEF StrInv, t
<1>6. ASSUME NEW next, NEW how, NEW what, u = AddChar(r, next, how, what), Follow(s, t, next, FALSE)
      PROVE  StrInv(s, tokens, u)
  <2>1. DOMAIN u = StrFields /\ u.mode = "loop" /\ u.lit = r.lit /\ u.pos = next /\ u.back = FALSE
    BY <1>4, <1>6 DEF AddChar, StrFields
  <2> QED
    BY <1>5, <1>6, <2>1
<1>7. ASSUME NEW char, u = AddCode(r, char), Follow(s, t, char.next, FALSE)
      PROVE  StrInv(s, tokens, u)
  <2>1. CASE char.ok
    <3>1. u = AddChar(r, char.next, "code", char.code)
      BY <1>7, <2>1 DEF AddCode
    <3> QED
      BY <1>6, <1>7, <3>1
  <2>2. CASE ~ char.ok
    <3>1. u = [r EXCEPT !.mode = "fatal"]
      BY <1>7, <2>2 DEF AddCode
    <3>2. DOMAIN u = StrFields /\ u.mode = "fatal"
      BY <1>4, <3>1 DEF StrFields
    <3> QED
      BY <3>2 DEF StrInv
  <2> QED
    BY <2>1, <2>2
<1>8. CASE i > Len(lit)
  <2>1. u = [r EXCEPT !.mode = "parsed"]
    BY <1>2, <1>8 DEF UnescapeTurn, u
  <2>2. DOMAIN u = StrFields /\ u.mode = "parsed" /\ u.lit = r.lit /\ u.pos = i /\ u.back = r.back
    BY <1>4, <2>1 DEF StrFields
  <2>3. t.beg + i - 1 = t.end - 2 /\ (t.end - 1) - 1 = t.end - 2 /\ t.end - 1 \in 1..Len(s) /\ t.end - 1 \in Nat
    <3>1. \A b, e, size, k \in Nat : e \in (b + 2)..(size + 1) /\ k \in 1..((e - b - 2) + 1) /\ k > e - b - 2 =>
            b + k - 1 = e - 2 /\ (e - 1) - 1 = e - 2 /\ e - 1 \in 1..size /\ e - 1 \in Nat
      OBVIOUS
    <3>2. t.beg \in Nat /\ t.end \in Nat /\ Len(s) \in Nat /\ t.end \in (t.beg + 2)..(Len(s) + 1)
      BY <1>2 DEF Enclosed, TokenRecord
    <3>3. i \in Nat /\ i \in 1..((t.end - t.beg - 2) + 1) /\ i > t.end - t.beg - 2
      BY <1>3, <1>8
    <3> QED
      BY <3>1, <3>2, <3>3
  <2>4. Reads(s)[t.end - 1] = In("closed") /\ Reads(s)[t.end - 1] = ReadNext(s, Reads(s)[t.end - 2], t.end - 1)
    BY <1>2, <2>3, ReadsNext DEF Enclosed
  <2>5. In("closed") # In(t.kind)
    BY <1>2 DEF In, Quoted
  <2>6. Reads(s)[t.end - 2] # Escaped(t.kind)
    <3>1. ReadNext(s, Escaped(t.kind), t.end - 1) = In(t.kind)
      BY <1>2, <2>3, ReadQuoted
    <3> QED
      BY <2>4, <2>5, <3>1
  <2>7. ~ r.back
    BY <1>2, <2>3, <2>6 DEF Follow
  <2> QED
    BY <1>2, <2>2, <2>7 DEF StrInv, t
<1>9. CASE ~ (i > Len(lit))
  <2>0. i \in 1..Len(lit) /\ i + 1 \in 1..(Len(lit) + 1)
    BY <1>3, <1>9
  <2>1. Follow(s, t, i + 1, ~ r.back /\ c = "\\")
    BY <1>2, <2>0, FollowOne
  <2>2. CASE ~ r.back /\ c = "\\"
    <3>1. u = [r EXCEPT !.pos = i + 1, !.back = TRUE]
      BY <1>2, <1>9, <2>2 DEF UnescapeTurn, u
    <3>2. DOMAIN u = StrFields /\ u.mode = "loop" /\ u.lit = r.lit /\ u.pos = i + 1 /\ u.back = TRUE
      BY <1>4, <3>1 DEF StrFields
    <3>3. Follow(s, t, i + 1, TRUE)
      BY <2>1, <2>2, Zenon
    <3> QED
      BY <1>5, <3>2, <3>3
  <2>3. CASE ~ (~ r.back /\ c = "\\")
    <3>1. Follow(s, t, i + 1, FALSE)
      BY <2>1, <2>3, Zenon
    <3>2. CASE ~ r.back \/ c \in Itself
      <4>1. u = AddChar(r, i + 1, "char", c)
        BY <1>2, <1>9, <2>3, <3>2 DEF UnescapeTurn, u
      <4> QED
        BY <1>6, <3>1, <4>1
    <3> DEFINE Other == ~ (~ r.back \/ c \in Itself)
    <3>3. CASE Other /\ c \in Escapes
      <4>1. u = AddChar(r, i + 1, "escape", c)
        BY <1>2, <1>9, <2>3, <3>3 DEF UnescapeTurn, u
      <4> QED
        BY <1>6, <3>1, <4>1
    <3>4. CASE Other /\ c \notin Escapes /\ c \in Digits(8)
      <4>1. u = AddCode(r, ParseCode(lit, i, 8))
        BY <1>2, <1>9, <2>3, <3>4 DEF UnescapeTurn, u
      <4>2. Follow(s, t, ParseCode(lit, i, 8).next, FALSE)
        BY <1>2, <1>3, <3>1, <3>4, FollowCode
      <4> QED
        BY <1>7, <4>1, <4>2
    <3>5. CASE Other /\ c \notin Escapes /\ c \notin Digits(8) /\ c = "x"
      <4>1. u = AddCode(r, ParseCode(lit, i + 1, 16))
        BY <1>2, <1>9, <2>3, <3>5 DEF UnescapeTurn, u
      <4>2. Follow(s, t, ParseCode(lit, i + 1, 16).next, FALSE)
        <5> DEFINE from == i + 1
        <5>1. from \in 1..(Len(lit) + 1) /\ from \in {from, from + 1} /\ from # from + 1
          BY <2>0
        <5>2. Follow(s, t, from, FALSE)
          BY <3>1, Zenon
        <5> HIDE DEF from
        <5>3. Follow(s, t, ParseCode(lit, from, 16).next, FALSE)
          BY <1>2, <5>1, <5>2, FollowCode
        <5> QED
          BY <5>3 DEF from
      <4> QED
        BY <1>7, <4>1, <4>2
    <3>6. CASE Other /\ c \notin Escapes /\ c \notin Digits(8) /\ c # "x"
      <4>1. u = [r EXCEPT !.pos = i + 1, !.back = FALSE]
        BY <1>2, <1>9, <2>3, <3>6 DEF UnescapeTurn, u
      <4>2. DOMAIN u = StrFields /\ u.mode = "loop" /\ u.lit = r.lit /\ u.pos = i + 1 /\ u.back = FALSE
        BY <1>4, <4>1 DEF StrFields
      <4> QED
        BY <1>5, <3>1, <4>2
    <3> QED
      BY <3>2, <3>3, <3>4, <3>5, <3>6
  <2> QED
    BY <2>2, <2>3
<1> QED
  BY <1>8, <1>9 DEF u
-----------------------------------------------------------------------------
(* The lexer and the visits of literals together *)
LitInv ==
  /\ Inv
  /\ str.mode # "none" => lex.mode = "done"
  /\ StrInv(text, lex.tokens, str)
LEMMA LitSpecIsSpec ==
  LitSpec => Spec
<1>1. LitInit => Init
  BY DEF LitInit
<1>2. [LitNext]_litVars => [Next]_vars
  BY DEF LitNext, litVars, Lexing, VisitString, VisitChar, UnescapeStep, VisitEnds, vars
<1> QED
  BY <1>1, <1>2, PTL DEF LitSpec, Spec
LEMMA LitInitInv ==
  LitInit => LitInv
<1> SUFFICES ASSUME LitInit PROVE LitInv
  OBVIOUS
<1>1. Inv
  BY InitInv DEF LitInit
<1>2. DOMAIN str = StrFields /\ str.mode = "none"
  BY DEF LitInit, Unread, ParseStringLiteral, StrFields
<1> QED
  BY <1>1, <1>2 DEF LitInv, StrInv
(* A literal that is visited begins behind its quote. *)
LEMMA VisitBegins ==
  ASSUME Inv, NEW n \in DOMAIN lex.tokens, NEW kind, lex.tokens[n].kind = kind, kind \in Quoted,
         str' = ParseStringLiteral(kind, Unquoted(lex.tokens[n])), UNCHANGED vars
  PROVE  StrInv(text', lex'.tokens, str')
<1> DEFINE t == lex.tokens[n]
<1>1. text \in Seq(Char) /\ lex.tokens \in Seq(TokenRecord) /\ Enclosed(text, t)
  BY DEF Inv, LexInv, AllGood, State, Good
<1>2. t \in TokenRecord /\ t.kind \in Quoted
  BY <1>1
<1>3. DOMAIN str' = StrFields /\ str'.mode = "loop" /\ str'.lit = Between(text, t) /\ str'.pos = 1 /\ str'.back = FALSE
  BY DEF ParseStringLiteral, StrFields, Unquoted, Between
<1>4. Reads(text)[t.beg] = In(t.kind) /\ t.beg + 1 - 1 = t.beg /\ 1 \in 1..(Len(Between(text, t)) + 1)
  BY <1>1, <1>2, BetweenText DEF Enclosed, TokenRecord
<1> HIDE DEF t
<1>5. Follow(text, t, 1, FALSE)
  BY <1>4, EscapedOrNot DEF Follow
<1>6. text' = text /\ lex' = lex
  BY DEF vars
<1> QED
  BY <1>2, <1>3, <1>5, <1>6 DEF StrInv, t
LEMMA LitNextInv ==
  LitInv /\ [LitNext]_litVars => LitInv'
<1> SUFFICES ASSUME LitInv, [LitNext]_litVars PROVE LitInv'
  OBVIOUS
<1>1. Inv /\ StrInv(text, lex.tokens, str) /\ (str.mode # "none" => lex.mode = "done")
  BY DEF LitInv
<1>2. Inv'
  <2>1. [Next]_vars
    BY DEF LitNext, litVars, Lexing, VisitString, VisitChar, UnescapeStep, VisitEnds, vars
  <2> QED
    BY <1>1, <2>1, NextInv
<1>3. /\ text \in Seq(Char) /\ lex.tokens \in Seq(TokenRecord)
      /\ \A n \in DOMAIN lex.tokens : Enclosed(text, lex.tokens[n])
  BY <1>1 DEF Inv, LexInv, AllGood, State, Good
<1>4. StrInv(text', lex'.tokens, str')
  <2>1. CASE Lexing
    <3>1. str' = str /\ str.mode = "none"
      BY <1>1, <2>1 DEF Lexing, Next, TokenizeStep, CommentStep, QuoteStep
    <3> QED
      BY <1>1, <3>1 DEF StrInv
  <2>2. CASE VisitString
    BY <1>1, <2>2, VisitBegins DEF VisitString, Quoted
  <2>3. CASE VisitChar
    BY <1>1, <2>3, VisitBegins DEF VisitChar, Quoted
  <2>4. CASE UnescapeStep
    BY <1>1, <1>3, <2>4, UnescapeTurnKeeps DEF UnescapeStep, vars
  <2>5. CASE VisitEnds
    <3>1. str' = [str EXCEPT !.mode = IF str.kind = "character" /\ Len(str.out) # 1 THEN "fatal" ELSE "read"]
      BY <2>5 DEF VisitEnds
    <3>2. DOMAIN str' = StrFields /\ str'.mode \in {"fatal", "read"}
      BY <1>1, <3>1 DEF StrInv, StrFields
    <3> QED
      BY <3>2 DEF StrInv
  <2>6. CASE UNCHANGED litVars
    BY <1>1, <2>6 DEF litVars
  <2> QED
    BY <2>1, <2>2, <2>3, <2>4, <2>5, <2>6 DEF LitNext
<1>5. str'.mode # "none" => lex'.mode = "done"
  <2>1. CASE Lexing
    BY <1>1, <2>1 DEF Lexing, Next, TokenizeStep, CommentStep, QuoteStep
  <2>2. CASE VisitString \/ VisitChar \/ UnescapeStep \/ VisitEnds
    BY <1>1, <2>2 DEF VisitString, VisitChar, UnescapeStep, VisitEnds, vars
  <2>3. CASE UNCHANGED litVars
    BY <1>1, <2>3 DEF litVars
  <2> QED
    BY <2>1, <2>2, <2>3 DEF LitNext
<1> QED
  BY <1>2, <1>4, <1>5 DEF LitInv

(* The assertion at the end of parseStringLiteral holds of every literal   *)
(* that tokenize takes for a string or a character.                        *)
THEOREM EscapesAreClosed == LitSpec => []EscapesClosed
<1>1. LitInv => EscapesClosed
  BY DEF LitInv, StrInv, EscapesClosed
<1> QED
  BY <1>1, LitInitInv, LitNextInv, PTL DEF LitSpec
=============================================================================
