--------------------------- MODULE CapturesProofs ---------------------------
(***************************************************************************)
(* For any number of scopes, names and nested lambdas: every capture that  *)
(* lambdaCapture makes is available where the lambda expression is         *)
(* evaluated, every identifier refers to its object, and a lambda captures *)
(* nothing twice and nothing that is not needed.                           *)
(***************************************************************************)
EXTENDS Captures, StackLemmas

(* The scopes around a scope are a chain, from the scope itself to the     *)
(* module's; only the module's scope has no parent.                        *)
ScopesNest ==
  \A s \in ScopeId :
    /\ s \in scopes[s].anc
    /\ scopes[s].anc \subseteq 1..s
    /\ scopes[s].parent \in 0..(s - 1)
    /\ scopes[s].type # "ns" => scopes[s].parent # NoScope
    /\ scopes[s].parent # NoScope => scopes[s].anc = scopes[scopes[s].parent].anc \union {s}
    /\ \A a \in scopes[s].anc : scopes[a].anc \subseteq scopes[s].anc
    /\ \A a, b \in scopes[s].anc : a <= b => a \in scopes[b].anc

(* The object is declared in a scope around the identifier. *)
IdentInside ==
  /\ Idle => asked = NoScope /\ waiting = <<>>
  /\ ~ Idle => Object[1] \in scopes[ident.at].anc
  /\ asked # NoScope => ident.index = NoIndex

(* The activations that wait are those of the closures around the          *)
(* identifier, from the inside out, each inside the scope of the object.   *)
WaitingChain ==
  /\ waiting # <<>> =>
       /\ scopes[Object[1]].type # "ns"
       /\ waiting[1] = Closure(ident.at)
  /\ \A i \in 1..Len(waiting) :
       /\ scopes[waiting[i]].type = "closure"
       /\ waiting[i] \in scopes[ident.at].anc
       /\ Object[1] \in scopes[waiting[i]].anc \ {waiting[i]}
  /\ \A i \in 1..(Len(waiting) - 1) : waiting[i + 1] = ParentClosure(waiting[i])
  /\ \A i, j \in 1..Len(waiting) : i < j => waiting[j] < waiting[i]

(* No closure that waits has captured the object. *)
WaitingFree == \A i \in 1..Len(waiting) : ~ IsCaptured(waiting[i])

LastWaiting == waiting[Len(waiting)]

(* The innermost activation looks at the identifier, or, for the closure   *)
(* that waits last, at the closure around it.                              *)
AskedNext ==
  asked # NoScope =>
    IF waiting = <<>> THEN asked = ident.at
    ELSE asked = scopes[LastWaiting].parent /\ ParentClosure(LastWaiting) # NoScope

(* What an activation has returned to the closure that waits for it. *)
AnswerRight ==
  asked = NoScope /\ waiting # <<>> =>
    IF found
    THEN ParentClosure(LastWaiting) # NoScope /\ IsCaptured(ParentClosure(LastWaiting))
    ELSE Closure(Object[1]) = ParentClosure(LastWaiting)

UseRefers(u) ==
  IF u.index = NoIndex
  THEN scopes[u.object[1]].type = "ns" \/ Closure(u.object[1]) = Closure(u.at)
  ELSE /\ Closure(u.at) # NoScope
       /\ u.index \in DOMAIN captures[Closure(u.at)]
       /\ captures[Closure(u.at)][u.index].object = u.object

(* When lambdaCapture is done, the identifier refers to its object. *)
ResultRefers == ~ Idle /\ asked = NoScope /\ waiting = <<>> => UseRefers(ident)

(* Only the bodies of lambdas have captures. *)
ClosuresCapture ==
  \A c \in ScopeId : \A i \in DOMAIN captures[c] : scopes[c].type = "closure"

CapInv ==
  /\ TypeOK
  /\ ScopesNest
  /\ ClosuresCapture
  /\ IdentInside
  /\ WaitingChain
  /\ WaitingFree
  /\ AskedNext
  /\ AnswerRight
  /\ ResultRefers
  /\ CapturesAvailable
  /\ UsesRefer
  /\ CapturesNeeded

-----------------------------------------------------------------------------
LEMMA ScopesCounted ==
  ASSUME TypeOK
  PROVE  Len(scopes) \in Nat /\ \A s \in ScopeId : s \in Nat /\ 1 <= s /\ s <= Len(scopes)
<1>1. Len(scopes) \in Nat
  BY DEF TypeOK
<1> QED
  BY <1>1 DEF ScopeId

(* findNearest: the closure that contains a scope. *)
LEMMA ClosureFound ==
  ASSUME TypeOK, ScopesNest, NEW s \in ScopeId
  PROVE  /\ Closure(s) = NoScope =>
              \A a \in scopes[s].anc : scopes[a].type # "closure"
         /\ Closure(s) # NoScope =>
              /\ Closure(s) \in scopes[s].anc
              /\ Closure(s) \in ScopeId
              /\ scopes[Closure(s)].type = "closure"
              /\ \A a \in scopes[s].anc : scopes[a].type = "closure" => a <= Closure(s)
         /\ Closure(s) \in ScopeId \union {NoScope}
<1> DEFINE S == {a \in scopes[s].anc : scopes[a].type = "closure"}
<1>1. Len(scopes) \in Nat /\ s \in Nat /\ s <= Len(scopes)
  BY DEF TypeOK, ScopeId
<1>2. scopes[s].anc \subseteq 1..s
  BY DEF ScopesNest
<1>3. S \subseteq 0..s /\ \A a \in S : a # 0 /\ a \in ScopeId
  BY <1>1, <1>2 DEF ScopeId
<1>4. Closure(s) = Nearest(S)
  BY DEF Closure, FindNearest
<1> HIDE DEF S
<1>5. CASE S = {}
  <2>1. Closure(s) = NoScope
    BY <1>4, <1>5 DEF Nearest
  <2> QED
    BY <1>5, <2>1 DEF S
<1>6. CASE S # {}
  <2>1. \E i \in S : \A j \in S : j <= i
    BY <1>1, <1>3, <1>6, GreatestMember
  <2>2. Nearest(S) \in S /\ \A j \in S : j <= Nearest(S)
    BY <1>6, <2>1 DEF Nearest
  <2>3. Closure(s) # NoScope /\ Closure(s) \in ScopeId
    BY <1>3, <1>4, <2>2 DEF NoScope
  <2> QED
    BY <1>4, <2>2, <2>3 DEF S
<1> QED
  BY <1>5, <1>6

(* A closure has a parent, which is a scope around it. *)
LEMMA ClosureParent ==
  ASSUME TypeOK, ScopesNest, NEW c \in ScopeId, scopes[c].type = "closure"
  PROVE  /\ scopes[c].parent \in ScopeId
         /\ scopes[c].parent < c
         /\ scopes[c].anc = scopes[scopes[c].parent].anc \union {c}
         /\ c \notin scopes[scopes[c].parent].anc
<1>1. scopes[c].parent \in 1..(c - 1)
  BY ScopesCounted DEF ScopesNest, NoScope
<1>2. scopes[c].parent \in ScopeId /\ scopes[c].parent < c
  BY <1>1, ScopesCounted DEF ScopeId
<1>3. scopes[scopes[c].parent].anc \subseteq 1..(scopes[c].parent)
  BY <1>2 DEF ScopesNest
<1>4. scopes[c].anc = scopes[scopes[c].parent].anc \union {c}
  BY <1>1 DEF ScopesNest, NoScope
<1> QED
  BY <1>1, <1>2, <1>3, <1>4

(* The closure around a closure. *)
LEMMA ParentClosureFound ==
  ASSUME TypeOK, ScopesNest, NEW c \in ScopeId, scopes[c].type = "closure"
  PROVE  /\ ParentClosure(c) \in ScopeId \union {NoScope}
         /\ ParentClosure(c) # NoScope =>
              /\ ParentClosure(c) \in scopes[c].anc
              /\ ParentClosure(c) < c
              /\ scopes[ParentClosure(c)].type = "closure"
<1> DEFINE p == scopes[c].parent
<1>1. p \in ScopeId /\ scopes[c].anc = scopes[p].anc \union {c} /\ p < c
  BY ClosureParent
<1>2. Closure(p) \in ScopeId \union {NoScope}
  BY <1>1, ClosureFound
<1>3. Closure(p) # NoScope => /\ Closure(p) \in scopes[p].anc
                              /\ scopes[Closure(p)].type = "closure"
  BY <1>1, ClosureFound
<1>4. scopes[p].anc \subseteq 1..p
  BY <1>1 DEF ScopesNest
<1>5. Closure(p) # NoScope => Closure(p) < c
  BY <1>1, <1>3, <1>4 DEF ScopeId
<1> QED
  BY <1>1, <1>2, <1>3, <1>5 DEF ParentClosure

(* An object around scope s that is not local to the closure of s is       *)
(* declared around that closure.                                           *)
LEMMA ObjectOutside ==
  ASSUME TypeOK, ScopesNest, NEW s \in ScopeId, NEW o \in scopes[s].anc
  PROVE  /\ o \in ScopeId
         /\ Closure(s) = NoScope => Closure(o) = NoScope
         /\ Closure(s) # NoScope /\ Closure(o) # Closure(s) =>
              /\ o \in scopes[Closure(s)].anc \ {Closure(s)}
              /\ o \in scopes[scopes[Closure(s)].parent].anc
<1> DEFINE c == Closure(s)
<1>0. o \in 1..s /\ scopes[o].anc \subseteq scopes[s].anc
  BY DEF ScopesNest
<1>1. /\ o \in ScopeId /\ o \in Nat /\ s \in Nat
      /\ scopes[o].anc \subseteq scopes[s].anc
  BY <1>0, ScopesCounted DEF ScopeId
<1>2. c = NoScope => Closure(o) = NoScope
  BY <1>1, ClosureFound
<1>3. ASSUME c # NoScope, Closure(o) # c
      PROVE  o \in scopes[c].anc \ {c} /\ o \in scopes[scopes[c].parent].anc
  <2>1. /\ c \in scopes[s].anc /\ c \in ScopeId /\ scopes[c].type = "closure"
        /\ \A a \in scopes[s].anc : scopes[a].type = "closure" => a <= c
    BY <1>3, ClosureFound
  <2>2. c \in Nat
    BY <2>1 DEF ScopeId
  <2> HIDE DEF c
  <2>3. ASSUME c <= o PROVE FALSE
    <3>1. c \in scopes[o].anc
      BY <2>1, <2>3 DEF ScopesNest
    <3>2. Closure(o) # NoScope /\ c <= Closure(o)
      BY <1>1, <2>1, <3>1, ClosureFound
    <3>3. Closure(o) \in ScopeId /\ Closure(o) \in scopes[s].anc /\ scopes[Closure(o)].type = "closure"
      BY <1>1, <3>2, ClosureFound
    <3>4. Closure(o) <= c /\ Closure(o) \in Nat
      BY <2>1, <3>3 DEF ScopeId
    <3> QED
      BY <1>3, <2>2, <3>2, <3>4
  <2>4. o < c
    BY <1>1, <2>2, <2>3
  <2>5. o \in scopes[c].anc \ {c}
    BY <1>1, <2>1, <2>2, <2>4 DEF ScopesNest
  <2> QED
    BY <2>1, <2>5, ClosureParent
<1> QED
  BY <1>1, <1>2, <1>3

-----------------------------------------------------------------------------
(* The type invariant. *)
Capture == [object : ObjectType, index : Nat]
ScopeRec == [type : ScopeType, parent : Nat, anc : SUBSET Nat]

LEMMA IdentTyped ==
  ASSUME TypeOK, ~ Idle
  PROVE  /\ ident \in Use
         /\ ident.at \in ScopeId /\ ident.object \in ObjectType /\ ident.index \in Nat
         /\ Object = ident.object /\ Object[1] \in ScopeId
<1>1. ident \in Use
  BY DEF TypeOK, Idle
<1> QED
  BY <1>1 DEF Use, ObjectType, Object

LEMMA CapturesTyped ==
  ASSUME TypeOK, NEW c \in ScopeId
  PROVE  /\ captures[c] \in Seq(Capture)
         /\ DOMAIN captures[c] = 1..Len(captures[c])
         /\ Len(captures[c]) \in Nat
         /\ \A i \in DOMAIN captures[c] : /\ captures[c][i] \in Capture
                                          /\ captures[c][i].object \in ObjectType
<1>1. captures \in Seq(Seq(Capture)) /\ Len(captures) = Len(scopes)
  BY DEF TypeOK, Capture
<1>2. captures[c] \in Seq(Capture)
  BY <1>1 DEF ScopeId
<1>3. DOMAIN captures[c] = 1..Len(captures[c]) /\ Len(captures[c]) \in Nat
  BY <1>2
<1>4. \A i \in DOMAIN captures[c] : captures[c][i] \in Capture
  BY <1>2
<1> QED
  BY <1>2, <1>3, <1>4 DEF Capture

(* A capture that was found has a number. *)
LEMMA CaptureNumbered ==
  ASSUME TypeOK, NEW c \in ScopeId, IsCaptured(c)
  PROVE  /\ CaptureIndex(c) \in DOMAIN captures[c]
         /\ captures[c][CaptureIndex(c)].object = Object
         /\ CaptureIndex(c) \in Nat
         /\ CaptureIndex(c) # NoIndex
<1>1. /\ CaptureIndex(c) \in DOMAIN captures[c]
      /\ captures[c][CaptureIndex(c)].object = Object
  BY DEF IsCaptured, CaptureIndex
<1> QED
  BY <1>1, CapturesTyped DEF NoIndex

(* Opening a scope changes nothing about the scopes that exist. *)
LEMMA ScopesGrow ==
  ASSUME TypeOK, ScopesNest, NEW r \in ScopeRec, scopes' = Append(scopes, r)
  PROVE  /\ Len(scopes') = Len(scopes) + 1
         /\ ScopeId \subseteq ScopeId'
         /\ ObjectType \subseteq ObjectType'
         /\ scopes'[Len(scopes) + 1] = r
         /\ \A s \in ScopeId : scopes'[s] = scopes[s]
         /\ \A s \in ScopeId : Closure(s)' = Closure(s)
         /\ \A c \in ScopeId : scopes[c].type = "closure" => ParentClosure(c)' = ParentClosure(c)
<1>1. scopes \in Seq(ScopeRec) /\ Len(scopes) \in Nat
  BY DEF TypeOK, ScopeRec
<1>2. /\ Len(scopes') = Len(scopes) + 1
      /\ scopes'[Len(scopes) + 1] = r
      /\ \A s \in ScopeId : scopes'[s] = scopes[s]
  BY <1>1 DEF ScopeId
<1>3. ScopeId \subseteq ScopeId'
  BY <1>1, <1>2 DEF ScopeId
<1>4. ObjectType \subseteq ObjectType'
  BY <1>3 DEF ObjectType
<1>5. ASSUME NEW s \in ScopeId PROVE Closure(s)' = Closure(s)
  <2>1. \A a \in scopes[s].anc : a \in ScopeId
    BY ScopesCounted DEF ScopesNest, ScopeId
  <2>2. {a \in scopes'[s].anc : scopes'[a].type = "closure"}
          = {a \in scopes[s].anc : scopes[a].type = "closure"}
    BY <1>2, <2>1
  <2> QED
    BY <2>2, Zenon DEF Closure, FindNearest
<1>6. ASSUME NEW c \in ScopeId, scopes[c].type = "closure"
      PROVE  ParentClosure(c)' = ParentClosure(c)
  BY <1>2, <1>5, <1>6, ClosureParent DEF ParentClosure
<1> QED
  BY <1>2, <1>3, <1>4, <1>5, <1>6

-----------------------------------------------------------------------------
(* What has been found out stays true while scopes are opened and closures *)
(* capture more.                                                           *)
ScopesStay ==
  /\ ScopeId \subseteq ScopeId'
  /\ \A s \in ScopeId : scopes'[s] = scopes[s] /\ Closure(s)' = Closure(s)
  /\ \A c \in ScopeId : scopes[c].type = "closure" => ParentClosure(c)' = ParentClosure(c)
CapturesStay ==
  \A c \in ScopeId : \A i \in DOMAIN captures[c] :
    i \in DOMAIN captures'[c] /\ captures'[c][i] = captures[c][i]

LEMMA SameScopesStay ==
  ASSUME UNCHANGED scopes
  PROVE  ScopesStay /\ ScopeId' = ScopeId
  BY DEF ScopesStay, ScopeId, Closure, FindNearest, ParentClosure

LEMMA UseStays ==
  ASSUME TypeOK, ScopesNest, ScopesStay, CapturesStay, NEW u \in Use, UseRefers(u)
  PROVE  UseRefers(u)'
<1>1. u.at \in ScopeId /\ u.object[1] \in ScopeId
  BY DEF Use, ObjectType
<1>2. /\ scopes'[u.object[1]] = scopes[u.object[1]]
      /\ Closure(u.object[1])' = Closure(u.object[1])
      /\ Closure(u.at)' = Closure(u.at)
  BY <1>1 DEF ScopesStay
<1>3. CASE u.index = NoIndex
  BY <1>2, <1>3 DEF UseRefers
<1>4. CASE u.index # NoIndex
  <2>1. /\ Closure(u.at) # NoScope
        /\ u.index \in DOMAIN captures[Closure(u.at)]
        /\ captures[Closure(u.at)][u.index].object = u.object
    BY <1>4 DEF UseRefers
  <2>2. Closure(u.at) \in ScopeId
    BY <1>1, <2>1, ClosureFound
  <2>3. /\ u.index \in DOMAIN captures'[Closure(u.at)]
        /\ captures'[Closure(u.at)][u.index] = captures[Closure(u.at)][u.index]
    BY <2>1, <2>2 DEF CapturesStay
  <2> QED
    BY <1>2, <1>4, <2>1, <2>3 DEF UseRefers
<1> QED
  BY <1>3, <1>4

LEMMA CaptureStays ==
  ASSUME TypeOK, ScopesNest, ScopesStay, CapturesStay,
         NEW c \in ScopeId, scopes[c].type = "closure",
         NEW cap \in Capture, CaptureAvailable(c, cap)
  PROVE  CaptureAvailable(c, cap)'
<1>1. cap.object[1] \in ScopeId
  BY DEF Capture, ObjectType
<1>2. /\ scopes'[c] = scopes[c] /\ ParentClosure(c)' = ParentClosure(c)
      /\ Closure(cap.object[1])' = Closure(cap.object[1])
  BY <1>1 DEF ScopesStay
<1>3. CASE cap.index = NoIndex
  BY <1>2, <1>3 DEF CaptureAvailable
<1>4. CASE cap.index # NoIndex
  <2> DEFINE p == ParentClosure(c)
  <2>1. p # NoScope /\ cap.index \in DOMAIN captures[p] /\ captures[p][cap.index].object = cap.object
    BY <1>4 DEF CaptureAvailable
  <2>2. p \in ScopeId
    BY <2>1, ParentClosureFound
  <2>3. cap.index \in DOMAIN captures'[p] /\ captures'[p][cap.index] = captures[p][cap.index]
    BY <2>1, <2>2 DEF CapturesStay
  <2> QED
    BY <1>2, <1>4, <2>1, <2>3 DEF CaptureAvailable
<1> QED
  BY <1>3, <1>4

LEMMA UsesStay ==
  ASSUME TypeOK, ScopesNest, ScopesStay, CapturesStay, UsesRefer, UNCHANGED uses
  PROVE  UsesRefer'
<1>1. \A u \in uses : u \in Use /\ UseRefers(u)
  BY DEF TypeOK, UsesRefer, UseRefers
<1>2. \A u \in uses : UseRefers(u)'
  BY <1>1, UseStays
<1> QED
  BY <1>2 DEF UsesRefer, UseRefers

(* No capture is new. *)
NothingCaptured ==
  \A c \in ScopeId' : \A i \in DOMAIN captures'[c] : c \in ScopeId /\ i \in DOMAIN captures[c]

LEMMA AvailableStays ==
  ASSUME TypeOK, ScopesNest, ClosuresCapture, CapturesAvailable,
         ScopesStay, CapturesStay, NothingCaptured
  PROVE  CapturesAvailable' /\ ClosuresCapture'
<1> SUFFICES ASSUME NEW c \in ScopeId', NEW i \in DOMAIN captures'[c]
             PROVE  CaptureAvailable(c, captures[c][i])' /\ scopes'[c].type = "closure"
  BY DEF CapturesAvailable, ClosuresCapture
<1>1. c \in ScopeId /\ i \in DOMAIN captures[c] /\ captures'[c][i] = captures[c][i]
  BY DEF NothingCaptured, CapturesStay
<1>2. scopes[c].type = "closure" /\ scopes'[c] = scopes[c]
  BY <1>1 DEF ClosuresCapture, ScopesStay
<1>3. PICK cap : cap = captures[c][i]
  OBVIOUS
<1>4. cap \in Capture /\ CaptureAvailable(c, cap)
  BY <1>1, <1>3, CapturesTyped DEF CapturesAvailable
<1>5. CaptureAvailable(c, cap)'
  BY <1>1, <1>2, <1>4, CaptureStays
<1> QED
  BY <1>1, <1>2, <1>3, <1>5 DEF CaptureAvailable

(* The identifiers that have been or are being looked up. *)
Lookups == uses \union ({ident} \ {NoIdent})
LookupsStay ==
  \A u \in Lookups : \E w \in Lookups' : w.at = u.at /\ w.object = u.object

LEMMA LookupTyped ==
  ASSUME TypeOK, NEW u \in Lookups
  PROVE  u \in Use /\ u.at \in ScopeId
<1>1. u \in Use
  BY DEF TypeOK, Lookups
<1> QED
  BY <1>1 DEF Use

LEMMA NeededStays ==
  ASSUME TypeOK, CapturesNeeded, ScopesStay, CapturesStay, NothingCaptured, LookupsStay
  PROVE  CapturesNeeded'
<1> SUFFICES ASSUME NEW c \in ScopeId', NEW i \in DOMAIN captures'[c]
             PROVE  /\ \A j \in DOMAIN captures'[c] :
                         captures'[c][i].object = captures'[c][j].object => i = j
                    /\ \E w \in Lookups' :
                         c \in scopes'[w.at].anc /\ w.object = captures'[c][i].object
  BY DEF CapturesNeeded, Lookups
<1>1. c \in ScopeId /\ i \in DOMAIN captures[c] /\ captures'[c][i] = captures[c][i]
  BY DEF NothingCaptured, CapturesStay
<1>2. ASSUME NEW j \in DOMAIN captures'[c], captures'[c][i].object = captures'[c][j].object
      PROVE  i = j
  <2>1. j \in DOMAIN captures[c] /\ captures'[c][j] = captures[c][j]
    BY DEF NothingCaptured, CapturesStay
  <2> QED
    BY <1>1, <1>2, <2>1 DEF CapturesNeeded
<1>3. PICK u \in Lookups : c \in scopes[u.at].anc /\ u.object = captures[c][i].object
  BY <1>1 DEF CapturesNeeded, Lookups
<1>4. PICK w \in Lookups' : w.at = u.at /\ w.object = u.object
  BY DEF LookupsStay
<1>5. scopes'[u.at] = scopes[u.at]
  BY LookupTyped DEF ScopesStay
<1> QED
  BY <1>1, <1>2, <1>3, <1>4, <1>5

(* The parts of the invariant about a lookup, when there is none. *)
LookupInv ==
  /\ IdentInside
  /\ WaitingChain
  /\ WaitingFree
  /\ AskedNext
  /\ AnswerRight
  /\ ResultRefers

LEMMA IdleLookup ==
  ASSUME Idle', asked' = NoScope, waiting' = <<>>
  PROVE  LookupInv'
<1>1. Len(waiting') = 0 /\ 1..Len(waiting') = {} /\ 1..(Len(waiting') - 1) = {}
  OBVIOUS
<1> QED
  BY <1>1 DEF LookupInv, IdentInside, WaitingChain, WaitingFree, AskedNext, AnswerRight,
              ResultRefers, Idle

-----------------------------------------------------------------------------
(* Each action preserves the invariant. *)
LEMMA EnterKeeps ==
  ASSUME CapInv, NEW type \in Kinds, EnterScope(type)
  PROVE  CapInv'
<1> DEFINE n == Len(scopes) + 1
           r == Scope(type, cur, scopes[cur].anc \union {n})
<1>0. /\ TypeOK /\ ScopesNest /\ Idle /\ asked = NoScope /\ waiting = <<>>
      /\ type = "func" => scopes[cur].type = "ns"
      /\ scopes' = Append(scopes, r) /\ captures' = Append(captures, <<>>) /\ cur' = n
      /\ UNCHANGED <<objects, uses, ident, asked, waiting, found>>
  BY DEF CapInv, EnterScope, LookupVars, IdentInside
<1>1. /\ cur \in ScopeId /\ cur \in Nat /\ 1 <= cur /\ cur < n /\ n \in Nat /\ n \notin ScopeId
      /\ Len(scopes) \in Nat /\ 1..n = ScopeId \union {n}
      /\ ScopeId \subseteq Nat
  BY <1>0, ScopesCounted DEF TypeOK, ScopeId
<1>2. r \in ScopeRec /\ r.type = type /\ r.parent = cur /\ r.anc = scopes[cur].anc \union {n}
      /\ type # "ns"
  <2>1. type \in ScopeType /\ type # "ns"
    BY CapturesAssumption DEF ScopeType
  <2>2. scopes[cur].anc \subseteq 1..cur
    BY <1>0, <1>1 DEF ScopesNest
  <2>3. scopes[cur].anc \union {n} \in SUBSET Nat
    BY <1>1, <2>2
  <2> QED
    BY <1>1, <2>1, <2>3 DEF ScopeRec, Scope
<1> HIDE DEF r
<1>3. /\ Len(scopes') = n
      /\ ScopeId \subseteq ScopeId' /\ ObjectType \subseteq ObjectType'
      /\ scopes'[n] = r
      /\ \A s \in ScopeId : scopes'[s] = scopes[s]
      /\ ScopesStay
  BY <1>0, <1>2, ScopesGrow DEF ScopesStay
<1>4. ScopeId' = 1..n
  BY <1>3 DEF ScopeId
<1>5. TypeOK'
  <2>1. scopes' \in Seq(ScopeRec)
    <3>1. scopes \in Seq(ScopeRec)
      BY <1>0 DEF TypeOK, ScopeRec
    <3> QED
      BY <1>0, <1>2, <3>1
  <2>2. cur' \in ScopeId' /\ objects' \subseteq ObjectType'
    BY <1>0, <1>1, <1>3, <1>4 DEF TypeOK
  <2>3. Capture \subseteq Capture' /\ Use \subseteq Use'
    BY <1>3 DEF Capture, Use
  <2>4. Seq(Capture) \subseteq Seq(Capture')
    BY <2>3, SeqMonotonic
  <2>5. captures \in Seq(Seq(Capture)) /\ Len(captures) = Len(scopes)
    BY <1>0 DEF TypeOK, Capture
  <2>6. captures \in Seq(Seq(Capture'))
    BY <2>4, <2>5, SeqMonotonic
  <2>7. captures' \in Seq(Seq(Capture')) /\ Len(captures') = Len(scopes')
    <3>1. <<>> \in Seq(Capture')
      OBVIOUS
    <3> QED
      BY <1>0, <1>3, <2>5, <2>6, <3>1, OneMore
  <2>8. uses' \subseteq Use' /\ ident' \in Use' \union {NoIdent} /\ waiting' \in Seq(ScopeId')
        /\ asked' \in ScopeId' \union {NoScope} /\ found' \in BOOLEAN
    BY <1>0, <1>3, <2>3 DEF TypeOK
  <2> QED
    BY <2>1, <2>2, <2>7, <2>8 DEF TypeOK, Capture, ScopeRec
<1>6. ScopesNest'
  <2>1. ASSUME NEW s \in ScopeId, NEW a \in scopes[s].anc
        PROVE  a \in ScopeId /\ scopes'[a] = scopes[a]
    BY <1>0, <1>1, <1>3, <2>1, ObjectOutside
  <2>2. ASSUME NEW s \in ScopeId
        PROVE  /\ s \in scopes'[s].anc
               /\ scopes'[s].anc \subseteq 1..s
               /\ scopes'[s].parent \in 0..(s - 1)
               /\ scopes'[s].type # "ns" => scopes'[s].parent # NoScope
               /\ scopes'[s].parent # NoScope =>
                    scopes'[s].anc = scopes'[scopes'[s].parent].anc \union {s}
               /\ \A a \in scopes'[s].anc : scopes'[a].anc \subseteq scopes'[s].anc
               /\ \A a, b \in scopes'[s].anc : a <= b => a \in scopes'[b].anc
    <3>1. scopes'[s] = scopes[s]
      BY <1>3
    <3>2. scopes[s].parent # NoScope => scopes[s].parent \in ScopeId
      BY <1>0, <1>1, ScopesCounted DEF ScopesNest, ScopeId, NoScope
    <3>3. scopes[s].parent # NoScope => scopes'[scopes[s].parent] = scopes[scopes[s].parent]
      BY <1>3, <3>2
    <3>4. /\ s \in scopes[s].anc
          /\ scopes[s].anc \subseteq 1..s
          /\ scopes[s].parent \in 0..(s - 1)
          /\ scopes[s].type # "ns" => scopes[s].parent # NoScope
          /\ scopes[s].parent # NoScope =>
               scopes[s].anc = scopes[scopes[s].parent].anc \union {s}
      BY <1>0 DEF ScopesNest
    <3>5. \A a \in scopes[s].anc : scopes'[a].anc \subseteq scopes[s].anc
      BY <1>0, <2>1 DEF ScopesNest
    <3>6. \A a, b \in scopes[s].anc : a <= b => a \in scopes'[b].anc
      BY <1>0, <2>1 DEF ScopesNest
    <3> QED
      BY <3>1, <3>3, <3>4, <3>5, <3>6
  <2>3. scopes'[n].anc = scopes[cur].anc \union {n} /\ scopes'[n].parent = cur /\ scopes'[n].type # "ns"
    BY <1>2, <1>3
  <2>4. scopes'[cur] = scopes[cur]
    BY <1>1, <1>3
  <2>5. /\ n \in scopes'[n].anc
        /\ scopes'[n].anc \subseteq 1..n
        /\ scopes'[n].parent \in 0..(n - 1)
        /\ scopes'[n].parent # NoScope
        /\ scopes'[n].anc = scopes'[scopes'[n].parent].anc \union {n}
    BY <1>0, <1>1, <2>3, <2>4 DEF ScopesNest, NoScope
  <2>6. \A a \in scopes[cur].anc : /\ scopes'[a].anc \subseteq scopes[cur].anc
                                   /\ a \in Nat /\ a < n
    BY <1>0, <1>1, <2>1 DEF ScopesNest
  <2>7. \A a \in scopes'[n].anc : scopes'[a].anc \subseteq scopes'[n].anc
    BY <2>3, <2>6
  <2>8. \A a, b \in scopes'[n].anc : a <= b => a \in scopes'[b].anc
    <3>1. \A a, b \in scopes[cur].anc : a <= b => a \in scopes'[b].anc
      BY <1>0, <1>1, <2>1 DEF ScopesNest
    <3>2. \A a \in scopes[cur].anc : ~ (n <= a)
      BY <1>1, <2>6
    <3> QED
      BY <2>3, <3>1, <3>2
  <2> HIDE DEF n
  <2> QED
    BY <1>1, <1>4, <2>2, <2>3, <2>5, <2>7, <2>8 DEF ScopesNest
<1>7. CapturesStay /\ NothingCaptured
  <2>1. captures \in Seq(Seq(Capture)) /\ Len(captures) = Len(scopes)
    BY <1>0 DEF TypeOK, Capture
  <2>2. captures'[n] = <<>> /\ \A c \in ScopeId : captures'[c] = captures[c]
    <3>1. <<>> \in Seq(Capture)
      OBVIOUS
    <3> QED
      BY <1>0, <2>1, <3>1, OneMore DEF ScopeId
  <2>3. DOMAIN captures'[n] = {}
    BY <2>2
  <2> HIDE DEF n
  <2> QED
    BY <1>1, <1>4, <2>2, <2>3 DEF CapturesStay, NothingCaptured
<1>8. CapturesAvailable' /\ ClosuresCapture' /\ UsesRefer'
  BY <1>0, <1>3, <1>7, AvailableStays, UsesStay DEF CapInv
<1>9. CapturesNeeded'
  BY <1>0, <1>3, <1>7, NeededStays DEF CapInv, LookupsStay, Lookups
<1>10. LookupInv'
  BY <1>0, IdleLookup DEF Idle
<1> QED
  BY <1>5, <1>6, <1>8, <1>9, <1>10 DEF CapInv, LookupInv

(* Steps that open no scope and capture nothing. *)
LEMMA NothingNew ==
  ASSUME CapInv, UNCHANGED <<scopes, captures>>
  PROVE  /\ ScopesNest' /\ ScopesStay /\ CapturesStay /\ NothingCaptured
         /\ CapturesAvailable' /\ ClosuresCapture'
         /\ uses' = uses => UsesRefer'
         /\ LookupsStay => CapturesNeeded'
<1>1. ScopesStay /\ ScopeId' = ScopeId /\ TypeOK /\ ScopesNest
  BY SameScopesStay DEF CapInv
<1>2. CapturesStay /\ NothingCaptured
  BY <1>1 DEF CapturesStay, NothingCaptured
<1>3. ScopesNest'
  BY <1>1 DEF ScopesNest
<1>4. CapturesAvailable' /\ ClosuresCapture'
  BY <1>1, <1>2, AvailableStays DEF CapInv
<1>5. uses' = uses => UsesRefer'
  BY <1>1, <1>2, UsesStay DEF CapInv
<1>6. LookupsStay => CapturesNeeded'
  BY <1>1, <1>2, NeededStays DEF CapInv
<1> QED
  BY <1>1, <1>2, <1>3, <1>4, <1>5, <1>6

LEMMA NoLookupKeeps ==
  ASSUME CapInv, TypeOK', Idle, UNCHANGED <<scopes, captures, uses, ident, asked, waiting, found>>
  PROVE  CapInv'
<1>1. LookupsStay
  BY DEF LookupsStay, Lookups
<1>2. LookupInv'
  BY IdleLookup DEF CapInv, IdentInside, Idle
<1> QED
  BY <1>1, <1>2, NothingNew DEF CapInv, LookupInv

LEMMA LeaveKeeps == ASSUME CapInv, LeaveScope PROVE CapInv'
<1>0. /\ TypeOK /\ ScopesNest /\ Idle /\ scopes[cur].parent # NoScope /\ cur' = scopes[cur].parent
      /\ UNCHANGED <<scopes, objects, captures, uses, ident, asked, waiting, found>>
  BY DEF CapInv, LeaveScope, LookupVars
<1>1. cur \in ScopeId /\ cur \in Nat /\ cur <= Len(scopes) /\ Len(scopes) \in Nat
  BY <1>0, ScopesCounted DEF TypeOK
<1>2. cur' \in ScopeId
  BY <1>0, <1>1 DEF ScopesNest, ScopeId, NoScope
<1>3. TypeOK'
  BY <1>0, <1>2 DEF TypeOK, ScopeId, ObjectType, Use
<1> QED
  BY <1>0, <1>3, NoLookupKeeps

LEMMA InsertKeeps == ASSUME CapInv, NEW name \in Name, InsertParam(name) \/ Insert(name) PROVE CapInv'
<1>0. /\ TypeOK /\ Idle /\ objects' = objects \union {<<cur, name>>}
      /\ UNCHANGED <<scopes, cur, captures, uses, ident, asked, waiting, found>>
  BY DEF CapInv, InsertParam, Insert, LookupVars
<1>1. <<cur, name>> \in ObjectType
  BY <1>0 DEF TypeOK, ObjectType
<1>2. TypeOK'
  BY <1>0, <1>1 DEF TypeOK, ScopeId, ObjectType, Use
<1> QED
  BY <1>0, <1>2, NoLookupKeeps

(* find: the nearest scope that declares the name is around the identifier. *)
LEMMA ScopeFound ==
  ASSUME TypeOK, ScopesNest, NEW name, FindScope(cur, name) # NoScope
  PROVE  FindScope(cur, name) \in scopes[cur].anc /\ FindScope(cur, name) \in ScopeId
<1> DEFINE S == {a \in scopes[cur].anc : <<a, name>> \in objects}
<1>1. cur \in ScopeId /\ cur \in Nat
  BY ScopesCounted DEF TypeOK
<1>2. S \subseteq scopes[cur].anc /\ scopes[cur].anc \subseteq 1..cur
  BY <1>1 DEF ScopesNest
<1>3. FindScope(cur, name) = Nearest(S)
  BY DEF FindScope
<1> HIDE DEF S
<1>4. S # {}
  BY <1>3 DEF Nearest
<1>5. S \subseteq 0..cur
  BY <1>1, <1>2
<1>6. \E i \in S : \A j \in S : j <= i
  BY <1>1, <1>4, <1>5, GreatestMember
<1>7. Nearest(S) \in S
  BY <1>4, <1>6 DEF Nearest
<1>8. Nearest(S) \in scopes[cur].anc
  BY <1>2, <1>7
<1> QED
  BY <1>1, <1>3, <1>8, ObjectOutside

LEMMA LookupKeeps == ASSUME CapInv, NEW name \in Name, LookupIdent(name) PROVE CapInv'
<1> DEFINE o == <<FindScope(cur, name), name>>
<1>0. /\ TypeOK /\ ScopesNest /\ Idle /\ FindScope(cur, name) # NoScope
      /\ asked = NoScope /\ waiting = <<>>
      /\ ident' = [at |-> cur, object |-> o, index |-> NoIndex]
      /\ asked' = cur /\ found' = FALSE
      /\ UNCHANGED <<scopes, cur, objects, captures, uses, waiting>>
  BY DEF CapInv, LookupIdent, IdentInside
<1>1. o[1] \in scopes[cur].anc /\ o \in ObjectType /\ cur \in ScopeId
  BY <1>0, ScopeFound DEF ObjectType, TypeOK
<1> HIDE DEF o
<1>2. /\ ident' \in Use /\ ident' # NoIdent
      /\ ident'.at = cur /\ ident'.object = o /\ ident'.index = NoIndex
  BY <1>0, <1>1 DEF Use, NoIndex, NoIdent
<1>3. TypeOK'
  BY <1>0, <1>1, <1>2 DEF TypeOK, ScopeId, ObjectType, Use
<1>4. Len(waiting') = 0 /\ 1..Len(waiting') = {} /\ 1..(Len(waiting') - 1) = {} /\ waiting' = <<>>
  BY <1>0
<1>5. cur # NoScope
  BY <1>0, <1>1, ScopesCounted DEF NoScope
<1>6. LookupInv'
  BY <1>0, <1>1, <1>2, <1>4, <1>5 DEF LookupInv, IdentInside, WaitingChain, WaitingFree, AskedNext,
     AnswerRight, ResultRefers, Idle, Object
<1>7. LookupsStay
  BY <1>0, <1>2 DEF LookupsStay, Lookups, Idle
<1> QED
  BY <1>0, <1>3, <1>6, <1>7, NothingNew DEF CapInv, LookupInv

-----------------------------------------------------------------------------
(* The innermost activation. *)
LEMMA Activation ==
  ASSUME CapInv, ~ Idle, asked # NoScope
  PROVE  /\ asked \in ScopeId
         /\ Object[1] \in scopes[asked].anc
         /\ scopes[asked].anc \subseteq scopes[ident.at].anc
         /\ waiting = <<>> => asked = ident.at
         /\ waiting # <<>> =>
              /\ Len(waiting) \in 1..Len(waiting)
              /\ LastWaiting \in ScopeId /\ scopes[LastWaiting].type = "closure"
              /\ Closure(asked) = ParentClosure(LastWaiting)
              /\ Closure(asked) # NoScope
              /\ Closure(asked) < LastWaiting
              /\ scopes[Object[1]].type # "ns"
<1>0. /\ TypeOK /\ ScopesNest /\ IdentInside /\ WaitingChain /\ AskedNext
      /\ asked \in ScopeId /\ ident.at \in ScopeId /\ waiting \in Seq(ScopeId)
  BY IdentTyped DEF CapInv, TypeOK
<1>1. CASE waiting = <<>>
  <2>1. asked = ident.at /\ Object[1] \in scopes[ident.at].anc
    BY <1>0, <1>1 DEF AskedNext, IdentInside
  <2> QED
    BY <1>0, <1>1, <2>1
<1>2. CASE waiting # <<>>
  <2>1. Len(waiting) \in 1..Len(waiting) /\ LastWaiting \in ScopeId
    BY <1>0, <1>2 DEF LastWaiting
  <2>2. /\ scopes[LastWaiting].type = "closure"
        /\ LastWaiting \in scopes[ident.at].anc
        /\ Object[1] \in scopes[LastWaiting].anc \ {LastWaiting}
        /\ scopes[Object[1]].type # "ns"
    BY <1>0, <1>2, <2>1 DEF WaitingChain, LastWaiting
  <2>3. asked = scopes[LastWaiting].parent /\ ParentClosure(LastWaiting) # NoScope
    BY <1>0, <1>2 DEF AskedNext
  <2>4. scopes[LastWaiting].anc = scopes[asked].anc \union {LastWaiting}
    BY <1>0, <2>1, <2>2, <2>3, ClosureParent
  <2>5. scopes[LastWaiting].anc \subseteq scopes[ident.at].anc
    BY <1>0, <2>2 DEF ScopesNest
  <2>6. Closure(asked) = ParentClosure(LastWaiting)
    BY <2>3 DEF ParentClosure
  <2>7. ParentClosure(LastWaiting) < LastWaiting
    BY <1>0, <2>1, <2>2, <2>3, ParentClosureFound
  <2> QED
    BY <1>0, <1>2, <2>1, <2>2, <2>3, <2>4, <2>5, <2>6, <2>7
<1> QED
  BY <1>1, <1>2

LEMMA NotCapturedKeeps == ASSUME CapInv, NotCaptured PROVE CapInv'
<1> DEFINE c == Closure(asked)
<1>0. /\ TypeOK /\ ScopesNest /\ ~ Idle /\ asked # NoScope /\ IsLocal(c)
      /\ asked' = NoScope /\ found' = FALSE
      /\ UNCHANGED <<scopes, cur, objects, captures, uses, ident, waiting>>
      /\ ident.index = NoIndex
  BY DEF CapInv, NotCaptured, IdentInside
<1>1. TypeOK'
  BY <1>0 DEF TypeOK, ScopeId, ObjectType, Use
<1>2. /\ asked \in ScopeId /\ Object[1] \in scopes[asked].anc
      /\ waiting = <<>> => asked = ident.at
      /\ waiting # <<>> => /\ c = ParentClosure(LastWaiting) /\ c # NoScope
                           /\ scopes[Object[1]].type # "ns"
  BY <1>0, Activation
<1>3. scopes[Object[1]].type = "ns" \/ Closure(Object[1]) = c
  BY <1>0, <1>2, ObjectOutside DEF IsLocal
<1> HIDE DEF c
<1>4. AnswerRight'
  BY <1>0, <1>2, <1>3 DEF AnswerRight, LastWaiting, Closure, FindNearest, ParentClosure, Object
<1>5. ResultRefers'
  BY <1>0, <1>2, <1>3 DEF ResultRefers, UseRefers, Closure, FindNearest, Object, c
<1>6. IdentInside' /\ AskedNext'
  BY <1>0 DEF CapInv, IdentInside, AskedNext, Idle, Object
<1>7. WaitingChain' /\ WaitingFree'
  BY <1>0 DEF CapInv, WaitingChain, WaitingFree, Closure, FindNearest, ParentClosure, Object,
     IsCaptured
<1>8. LookupsStay
  BY <1>0 DEF LookupsStay, Lookups
<1> QED
  BY <1>0, <1>1, <1>4, <1>5, <1>6, <1>7, <1>8, NothingNew DEF CapInv

(* Giving the identifier an index changes nothing else of it. *)
LEMMA IndexSet ==
  ASSUME TypeOK, ~ Idle, NEW k \in Nat, ident' = [ident EXCEPT !.index = k]
  PROVE  /\ ident' \in Use /\ ident' # NoIdent
         /\ ident'.at = ident.at /\ ident'.object = ident.object /\ ident'.index = k
<1>1. ident \in Use
  BY IdentTyped
<1> QED
  BY <1>1 DEF Use, NoIdent

LEMMA AlreadyKeeps == ASSUME CapInv, AlreadyCaptured PROVE CapInv'
<1> DEFINE c == Closure(asked)
           k == CaptureIndex(c)
<1>0. /\ TypeOK /\ ScopesNest /\ ~ Idle /\ asked # NoScope /\ ~ IsLocal(c) /\ IsCaptured(c)
      /\ ident' = [ident EXCEPT !.index = k]
      /\ asked' = NoScope /\ found' = TRUE
      /\ UNCHANGED <<scopes, cur, objects, captures, uses, waiting>>
  BY DEF CapInv, AlreadyCaptured
<1>1. /\ asked \in ScopeId
      /\ waiting = <<>> => asked = ident.at
      /\ waiting # <<>> => c = ParentClosure(LastWaiting) /\ c # NoScope
  BY <1>0, Activation
<1>2. c # NoScope /\ c \in ScopeId
  BY <1>0, <1>1, ClosureFound DEF IsLocal
<1>3. k \in DOMAIN captures[c] /\ captures[c][k].object = Object /\ k \in Nat /\ k # NoIndex
  BY <1>0, <1>2, CaptureNumbered
<1>4. c = Closure(asked)
  OBVIOUS
<1> HIDE DEF c, k
<1>5. /\ ident' \in Use /\ ident' # NoIdent
      /\ ident'.at = ident.at /\ ident'.object = ident.object /\ ident'.index = k
  BY <1>0, <1>3, IndexSet
<1>6. TypeOK'
  BY <1>0, <1>5 DEF TypeOK, ScopeId, ObjectType, Use
<1>7. AnswerRight'
  <2> SUFFICES ASSUME waiting # <<>>
               PROVE  (ParentClosure(LastWaiting) # NoScope /\ IsCaptured(ParentClosure(LastWaiting)))'
    BY <1>0 DEF AnswerRight
  <2>1. ParentClosure(LastWaiting)' = c
    BY <1>0, <1>1 DEF LastWaiting, Closure, FindNearest, ParentClosure
  <2>2. \E i \in DOMAIN captures'[c] : captures'[c][i].object = Object'
    BY <1>0, <1>5 DEF IsCaptured, Object
  <2> QED
    BY <1>2, <2>1, <2>2 DEF IsCaptured
<1>8. ResultRefers'
  <2> SUFFICES ASSUME waiting = <<>> PROVE UseRefers(ident)'
    BY <1>0 DEF ResultRefers
  <2>1. Closure(ident.at) = c
    BY <1>1, <1>4
  <2>2. Closure(ident.at)' = c
    BY <1>0, <1>5, <2>1 DEF Closure, FindNearest
  <2> QED
    BY <1>0, <1>2, <1>3, <1>5, <2>2 DEF UseRefers, Object
<1>9. IdentInside' /\ AskedNext'
  BY <1>0, <1>5 DEF CapInv, IdentInside, AskedNext, Idle, Object
<1>10. WaitingChain' /\ WaitingFree'
  BY <1>0, <1>5 DEF CapInv, WaitingChain, WaitingFree, Closure, FindNearest, ParentClosure, Object,
     IsCaptured
<1>11. LookupsStay
  BY <1>0, <1>5 DEF LookupsStay, Lookups
<1> QED
  BY <1>0, <1>6, <1>7, <1>8, <1>9, <1>10, <1>11, NothingNew DEF CapInv

LEMMA AskKeeps == ASSUME CapInv, AskParent PROVE CapInv'
<1> DEFINE c == Closure(asked)
           n == Len(waiting)
<1>0. /\ TypeOK /\ ScopesNest /\ ~ Idle /\ asked # NoScope /\ ~ IsLocal(c) /\ ~ IsCaptured(c)
      /\ waiting' = Append(waiting, c)
      /\ asked' = IF ParentClosure(c) = NoScope THEN NoScope ELSE scopes[c].parent
      /\ found' = FALSE
      /\ UNCHANGED <<scopes, cur, objects, captures, uses, ident>>
      /\ WaitingChain /\ WaitingFree /\ ident.index = NoIndex
  BY DEF CapInv, AskParent, IdentInside
<1>1. /\ asked \in ScopeId /\ Object[1] \in scopes[asked].anc
      /\ scopes[asked].anc \subseteq scopes[ident.at].anc
      /\ waiting = <<>> => asked = ident.at
      /\ waiting # <<>> => /\ n \in 1..n /\ LastWaiting \in ScopeId
                           /\ c = ParentClosure(LastWaiting) /\ c < LastWaiting
  BY <1>0, Activation
<1>2. /\ c # NoScope /\ Closure(Object[1]) # c /\ scopes[Object[1]].type # "ns"
      /\ c \in ScopeId /\ scopes[c].type = "closure" /\ c \in scopes[asked].anc
  BY <1>0, <1>1, ClosureFound DEF IsLocal
<1>3. /\ Object[1] \in scopes[c].anc \ {c} /\ Object[1] \in scopes[scopes[c].parent].anc
      /\ scopes[c].parent \in ScopeId
  BY <1>0, <1>1, <1>2, ObjectOutside, ClosureParent
<1>4. c = Closure(asked) /\ n = Len(waiting) /\ n \in Nat /\ waiting \in Seq(ScopeId)
  BY <1>0 DEF TypeOK
<1> HIDE DEF c, n
<1>5. /\ waiting' \in Seq(ScopeId) /\ Len(waiting') = n + 1
      /\ \A i \in 1..n : waiting'[i] = waiting[i] /\ waiting[i] \in ScopeId
      /\ waiting'[n + 1] = c /\ waiting' # <<>>
      /\ LastWaiting' = c
  BY <1>0, <1>2, <1>4, OneMore DEF LastWaiting
<1>6. \A i \in 1..(n + 1) : i \in 1..n \/ i = n + 1
  BY <1>4
<1>7. TypeOK'
  BY <1>0, <1>3, <1>5 DEF TypeOK, ScopeId, ObjectType, Use
<1>8. WaitingChain'
  <2>1. waiting'[1] = Closure(ident.at)
    <3>1. CASE waiting = <<>>
      BY <1>1, <1>4, <1>5, <3>1
    <3>2. CASE waiting # <<>>
      BY <1>0, <1>1, <1>4, <1>5, <3>2 DEF WaitingChain
    <3> QED
      BY <3>1, <3>2
  <2>2. ASSUME NEW i \in 1..(n + 1)
        PROVE  /\ scopes[waiting'[i]].type = "closure"
               /\ waiting'[i] \in scopes[ident.at].anc
               /\ Object[1] \in scopes[waiting'[i]].anc \ {waiting'[i]}
    <3>1. CASE i = n + 1
      BY <1>1, <1>2, <1>3, <1>5, <3>1
    <3>2. CASE i \in 1..n
      BY <1>0, <1>4, <1>5, <3>2 DEF WaitingChain
    <3> QED
      BY <1>6, <3>1, <3>2
  <2>3. ASSUME NEW i \in 1..n
        PROVE  waiting'[i + 1] = ParentClosure(waiting'[i])
    <3>1. CASE i = n
      BY <1>1, <1>4, <1>5, <3>1 DEF LastWaiting
    <3>2. CASE i # n
      <4>1. i \in 1..(n - 1) /\ i + 1 \in 1..n
        BY <1>4, <3>2
      <4> QED
        BY <1>0, <1>4, <1>5, <4>1 DEF WaitingChain
    <3> QED
      BY <3>1, <3>2
  <2>4. ASSUME NEW i \in 1..(n + 1), NEW j \in 1..(n + 1), i < j
        PROVE  waiting'[j] < waiting'[i]
    <3>1. CASE j \in 1..n
      <4>1. i \in 1..n
        BY <1>4, <2>4, <3>1
      <4> QED
        BY <1>0, <1>4, <1>5, <2>4, <3>1, <4>1 DEF WaitingChain
    <3>2. CASE j = n + 1
      <4>1. i \in 1..n /\ n # 0 /\ n \in 1..n
        BY <1>4, <2>4, <3>2
      <4>2. waiting # <<>> /\ LastWaiting = waiting[n] /\ c < waiting[n]
        BY <1>1, <1>4, <4>1 DEF LastWaiting
      <4>3. waiting[i] \in Nat /\ waiting[n] \in Nat /\ c \in Nat
        BY <1>2, <1>5, <4>1 DEF ScopeId
      <4>4. i < n => waiting[n] < waiting[i]
        BY <1>0, <1>4, <4>1 DEF WaitingChain
      <4>5. c < waiting[i]
        BY <1>4, <4>1, <4>2, <4>3, <4>4
      <4> QED
        BY <1>5, <3>2, <4>1, <4>5
    <3> QED
      BY <1>6, <3>1, <3>2
  <2>5. Len(waiting') = n + 1 /\ Len(waiting') - 1 = n
    BY <1>4, <1>5
  <2>6. Object' = Object /\ Closure(ident.at)' = Closure(ident.at)
    BY <1>0 DEF Closure, FindNearest, Object
  <2>7. \A i \in 1..n : ParentClosure(waiting[i])' = ParentClosure(waiting'[i])
    BY <1>0 DEF Closure, FindNearest, ParentClosure
  <2>8. \A i \in 1..(Len(waiting') - 1) : waiting'[i + 1] = ParentClosure(waiting[i])'
    BY <2>3, <2>5, <2>7
  <2> QED
    BY <1>0, <1>2, <1>5, <2>1, <2>2, <2>4, <2>5, <2>6, <2>8 DEF WaitingChain
<1>9. WaitingFree'
  <2>1. ASSUME NEW i \in 1..(n + 1) PROVE ~ IsCaptured(waiting'[i])
    <3>1. CASE i = n + 1
      BY <1>0, <1>5, <3>1
    <3>2. CASE i \in 1..n
      BY <1>0, <1>4, <1>5, <3>2 DEF WaitingFree
    <3> QED
      BY <1>6, <3>1, <3>2
  <2> QED
    BY <1>0, <1>5, <2>1 DEF WaitingFree, IsCaptured, Object
<1>10. AskedNext'
  BY <1>0, <1>5 DEF AskedNext, ParentClosure, Closure, FindNearest
<1>11. AnswerRight'
  <2> SUFFICES ASSUME asked' = NoScope
               PROVE  (Closure(Object[1]) = ParentClosure(LastWaiting))'
    BY <1>0 DEF AnswerRight
  <2>1. scopes[c].parent # NoScope
    BY <1>0, <1>3, ScopesCounted DEF NoScope
  <2>2. ParentClosure(c) = NoScope
    BY <1>0, <2>1
  <2>3. Closure(Object[1]) = NoScope
    BY <1>0, <1>3, <2>2, ObjectOutside DEF ParentClosure
  <2> QED
    BY <1>0, <1>5, <2>2, <2>3 DEF ParentClosure, Closure, FindNearest, Object
<1>12. IdentInside' /\ ResultRefers'
  BY <1>0, <1>5 DEF CapInv, IdentInside, ResultRefers, Idle, Object
<1>13. LookupsStay
  BY <1>0 DEF LookupsStay, Lookups
<1> QED
  BY <1>0, <1>7, <1>8, <1>9, <1>10, <1>11, <1>12, <1>13, NothingNew DEF CapInv

LEMMA EndKeeps == ASSUME CapInv, EndLookup PROVE CapInv'
<1>0. /\ TypeOK /\ ScopesNest /\ ~ Idle /\ asked = NoScope /\ waiting = <<>>
      /\ uses' = uses \union {ident} /\ ident' = NoIdent /\ found' = FALSE
      /\ UNCHANGED <<scopes, cur, objects, captures, asked, waiting>>
      /\ UseRefers(ident) /\ ident \in Use /\ UsesRefer
  BY IdentTyped DEF CapInv, EndLookup, ResultRefers
<1>1. TypeOK'
  BY <1>0 DEF TypeOK, ScopeId, ObjectType, Use
<1>2. LookupInv'
  BY <1>0, IdleLookup DEF Idle
<1>3. LookupsStay
  BY <1>0 DEF LookupsStay, Lookups
<1>4. UsesRefer'
  <2>1. ScopesStay /\ CapturesStay
    BY <1>0, NothingNew
  <2>2. \A u \in uses' : u \in Use /\ UseRefers(u)
    BY <1>0 DEF TypeOK, UsesRefer, UseRefers
  <2>3. \A u \in uses' : UseRefers(u)'
    BY <1>0, <2>1, <2>2, UseStays
  <2> QED
    BY <2>3 DEF UsesRefer, UseRefers
<1> QED
  BY <1>0, <1>1, <1>2, <1>3, <1>4, NothingNew DEF CapInv, LookupInv

(* pushCapture *)
LEMMA PushKeeps == ASSUME CapInv, PushCapture PROVE CapInv'
<1> DEFINE n == Len(waiting)
           k == Len(captures[LastWaiting]) + 1
<1>0. /\ TypeOK /\ ScopesNest /\ ~ Idle /\ asked = NoScope /\ waiting # <<>>
      /\ WaitingChain /\ WaitingFree /\ AnswerRight
      /\ captures' = [captures EXCEPT ![LastWaiting] =
           Append(@, [object |-> Object, index |-> CapturedFrom(LastWaiting)])]
      /\ ident' = [ident EXCEPT !.index = k]
      /\ waiting' = SubSeq(waiting, 1, n - 1)
      /\ found' = TRUE
      /\ UNCHANGED <<scopes, cur, objects, uses, asked>>
  BY DEF CapInv, PushCapture, OwnIndex, LastWaiting
<1>1. /\ waiting \in Seq(ScopeId) /\ n \in Nat /\ n # 0 /\ n \in 1..n
      /\ ident.at \in ScopeId /\ Object \in ObjectType /\ Object = ident.object
  BY <1>0, IdentTyped DEF TypeOK
<1>2. PICK c \in ScopeId : c = LastWaiting /\ c = waiting[n]
  BY <1>1 DEF LastWaiting
<1>3. /\ scopes[c].type = "closure" /\ c \in scopes[ident.at].anc
      /\ Object[1] \in scopes[c].anc \ {c} /\ ~ IsCaptured(c)
      /\ waiting[1] = Closure(ident.at) /\ scopes[Object[1]].type # "ns"
  BY <1>0, <1>1, <1>2 DEF WaitingChain, WaitingFree
<1>4. PICK cap : cap = [object |-> Object, index |-> CapturedFrom(c)]
  OBVIOUS
(* The new capture is available. *)
<1>5. /\ cap \in Capture /\ cap.object = Object
      /\ CaptureAvailable(c, cap)
  <2>1. CASE found
    <3> DEFINE p == ParentClosure(c)
    <3>1. p # NoScope /\ IsCaptured(p)
      BY <1>0, <1>2, <2>1 DEF AnswerRight
    <3>2. p \in ScopeId
      BY <1>0, <1>3, <3>1, ParentClosureFound
    <3>3. /\ CaptureIndex(p) \in DOMAIN captures[p] /\ CaptureIndex(p) \in Nat
          /\ captures[p][CaptureIndex(p)].object = Object /\ CaptureIndex(p) # NoIndex
      BY <1>0, <3>1, <3>2, CaptureNumbered
    <3>4. CapturedFrom(c) = CaptureIndex(p)
      BY <2>1 DEF CapturedFrom
    <3>5. cap \in Capture /\ cap.object = Object /\ cap.index = CaptureIndex(p)
      BY <1>1, <1>4, <3>3, <3>4 DEF Capture
    <3> QED
      BY <3>1, <3>3, <3>5 DEF CaptureAvailable
  <2>2. CASE ~ found
    <3>1. Closure(Object[1]) = ParentClosure(c)
      BY <1>0, <1>2, <2>2 DEF AnswerRight
    <3>2. cap \in Capture /\ cap.object = Object /\ cap.index = NoIndex
      BY <1>1, <1>4, <2>2 DEF Capture, CapturedFrom, NoIndex
    <3> QED
      BY <1>3, <3>1, <3>2 DEF CaptureAvailable
  <2> QED
    BY <2>1, <2>2
<1>6. /\ captures \in Seq(Seq(Capture)) /\ Len(captures) = Len(scopes) /\ DOMAIN captures = ScopeId
      /\ captures[c] \in Seq(Capture) /\ k \in Nat /\ k = Len(captures[c]) + 1 /\ k # NoIndex
  <2>1. captures \in Seq(Seq(Capture)) /\ Len(captures) = Len(scopes)
    BY <1>0 DEF TypeOK, Capture
  <2> QED
    BY <1>0, <1>2, <2>1, CapturesTyped DEF ScopeId, NoIndex
<1>7. captures' = [captures EXCEPT ![c] = Append(captures[c], cap)]
  BY <1>0, <1>2, <1>4, <1>6
<1> HIDE DEF k
<1>8. /\ captures' \in Seq(Seq(Capture)) /\ Len(captures') = Len(scopes)
      /\ captures'[c] = Append(captures[c], cap)
      /\ \A b \in ScopeId \ {c} : captures'[b] = captures[b]
  <2>1. Append(captures[c], cap) \in Seq(Capture)
    BY <1>5, <1>6, OneMore
  <2>2. c \in 1..Len(captures)
    BY <1>2, <1>6 DEF ScopeId
  <2> QED
    BY <1>6, <1>7, <2>1, <2>2, ExceptSeq
<1>9. /\ DOMAIN captures'[c] = DOMAIN captures[c] \union {k} /\ k \notin DOMAIN captures[c]
      /\ captures'[c][k] = cap
      /\ \A i \in DOMAIN captures[c] : captures'[c][i] = captures[c][i]
  <2>1. /\ Append(captures[c], cap) \in Seq(Capture)
        /\ Len(Append(captures[c], cap)) = k
        /\ \A i \in 1..Len(captures[c]) : Append(captures[c], cap)[i] = captures[c][i]
        /\ Append(captures[c], cap)[k] = cap
    BY <1>5, <1>6, OneMore
  <2>2. /\ DOMAIN captures'[c] = 1..k
        /\ DOMAIN captures[c] = 1..Len(captures[c]) /\ Len(captures[c]) \in Nat
    BY <1>6, <1>8, <2>1
  <2> QED
    BY <1>6, <1>8, <2>1, <2>2
<1>10. /\ ident' \in Use /\ ident' # NoIdent /\ ~ Idle'
       /\ ident'.at = ident.at /\ ident'.object = ident.object /\ ident'.index = k
  BY <1>0, <1>6, IndexSet DEF Idle
<1>11. ScopesStay /\ ScopeId' = ScopeId /\ CapturesStay
  BY <1>0, <1>8, <1>9, SameScopesStay DEF CapturesStay
<1>12. /\ Len(waiting') = n - 1
       /\ \A i \in 1..(n - 1) : waiting'[i] = waiting[i] /\ i \in 1..n
       /\ waiting' \in Seq(ScopeId)
  <2>1. \A i \in 1..(n - 1) : i \in 1..n
    BY <1>1
  <2>2. \A i \in 1..(n - 1) : waiting[i] \in ScopeId
    BY <1>1, <2>1
  <2> QED
    BY <1>0, <1>1, <2>1, <2>2, ButLast
<1>13. TypeOK'
  <2>1. Capture' = Capture /\ Use' = Use /\ ObjectType' = ObjectType
    BY <1>11 DEF Capture, Use, ObjectType
  <2> QED
    BY <1>0, <1>8, <1>10, <1>11, <1>12, <2>1 DEF TypeOK, Capture
<1>14. ScopesNest'
  BY <1>0, <1>11 DEF ScopesNest
<1>15. CapturesAvailable' /\ ClosuresCapture'
  <2> SUFFICES ASSUME NEW b \in ScopeId, NEW i \in DOMAIN captures'[b]
               PROVE  CaptureAvailable(b, captures[b][i])' /\ scopes'[b].type = "closure"
    BY <1>11 DEF CapturesAvailable, ClosuresCapture
  <2>1. PICK x : x = captures'[b][i]
    OBVIOUS
  <2>2. x \in Capture /\ CaptureAvailable(b, x) /\ scopes[b].type = "closure"
    <3>1. CASE b = c /\ i = k
      BY <1>3, <1>5, <1>9, <2>1, <3>1
    <3>2. CASE ~ (b = c /\ i = k)
      <4>1. i \in DOMAIN captures[b] /\ x = captures[b][i]
        <5>1. CASE b # c
          BY <1>8, <2>1, <5>1
        <5>2. CASE b = c
          BY <1>9, <2>1, <3>2, <5>2
        <5> QED
          BY <5>1, <5>2
      <4>2. x \in Capture
        BY <1>0, <4>1, CapturesTyped
      <4>3. CaptureAvailable(b, x) /\ scopes[b].type = "closure"
        BY <4>1 DEF CapInv, CapturesAvailable, ClosuresCapture
      <4> QED
        BY <4>2, <4>3
    <3> QED
      BY <3>1, <3>2
  <2>3. CaptureAvailable(b, x)'
    BY <1>0, <1>11, <2>2, CaptureStays
  <2> QED
    BY <1>0, <2>1, <2>2, <2>3 DEF CaptureAvailable
<1>16. UsesRefer'
  BY <1>0, <1>11, UsesStay DEF CapInv
<1>17. CapturesNeeded'
  <2>1. ident \in Lookups /\ ident' \in Lookups' /\ LookupsStay
    BY <1>0, <1>10 DEF Lookups, LookupsStay, Idle
  <2> SUFFICES ASSUME NEW b \in ScopeId, NEW i \in DOMAIN captures'[b]
               PROVE  /\ \A j \in DOMAIN captures'[b] :
                           captures'[b][i].object = captures'[b][j].object => i = j
                      /\ \E w \in Lookups' :
                           b \in scopes[w.at].anc /\ w.object = captures'[b][i].object
    BY <1>0, <1>11 DEF CapturesNeeded, Lookups
  <2>2. ASSUME NEW d \in ScopeId, NEW j \in DOMAIN captures[d]
        PROVE  /\ \A l \in DOMAIN captures[d] :
                    captures[d][j].object = captures[d][l].object => j = l
               /\ \E w \in Lookups' : d \in scopes[w.at].anc /\ w.object = captures[d][j].object
    <3>1. PICK u \in Lookups : d \in scopes[u.at].anc /\ u.object = captures[d][j].object
      BY DEF CapInv, CapturesNeeded, Lookups
    <3>2. PICK w \in Lookups' : w.at = u.at /\ w.object = u.object
      BY <2>1 DEF LookupsStay
    <3>3. \A l \in DOMAIN captures[d] : captures[d][j].object = captures[d][l].object => j = l
      BY DEF CapInv, CapturesNeeded
    <3> QED
      BY <3>1, <3>2, <3>3
  <2>3. CASE b # c
    <3>1. captures'[b] = captures[b] /\ i \in DOMAIN captures[b]
      BY <1>8, <2>3
    <3> QED
      BY <2>2, <3>1
  <2>4. CASE b = c
    <3>1. \A j \in DOMAIN captures[c] : captures[c][j].object # Object
      BY <1>3 DEF IsCaptured
    <3>2. captures'[c][k].object = Object
      BY <1>5, <1>9
    <3>3. CASE i = k
      <4>1. \A j \in DOMAIN captures'[c] : captures'[c][i].object = captures'[c][j].object => i = j
        BY <1>9, <3>1, <3>2, <3>3
      <4>2. c \in scopes[ident'.at].anc /\ ident'.object = captures'[c][i].object
        BY <1>1, <1>3, <1>10, <3>2, <3>3
      <4> QED
        BY <2>1, <2>4, <4>1, <4>2
    <3>4. CASE i # k
      <4>1. i \in DOMAIN captures[c] /\ captures'[c][i] = captures[c][i]
        BY <1>9, <2>4, <3>4
      <4>2. \A j \in DOMAIN captures'[c] : captures'[c][i].object = captures'[c][j].object => i = j
        BY <1>9, <2>2, <3>1, <3>2, <4>1
      <4> QED
        BY <2>2, <2>4, <4>1, <4>2
    <3> QED
      BY <3>3, <3>4
  <2> QED
    BY <2>3, <2>4
<1>18. Object' = Object /\ Closure(ident.at)' = Closure(ident.at)
  BY <1>0, <1>10 DEF Object, Closure, FindNearest
<1>19. \A b : ParentClosure(b)' = ParentClosure(b) /\ Closure(b)' = Closure(b)
  BY <1>0 DEF ParentClosure, Closure, FindNearest
<1>20. WaitingChain'
  <2>1. ASSUME NEW i \in 1..(n - 2)
        PROVE  waiting'[i + 1] = ParentClosure(waiting'[i])
    <3>1. i \in 1..(n - 1) /\ i + 1 \in 1..(n - 1)
      BY <1>1
    <3> QED
      BY <1>0, <1>12, <3>1 DEF WaitingChain
  <2>2. Len(waiting') - 1 = n - 2 /\ (waiting' # <<>> => 1 \in 1..(n - 1))
    BY <1>1, <1>12
  <2>3. waiting' # <<>> => waiting'[1] = Closure(ident.at)
    BY <1>3, <1>12, <2>2
  <2>4. \A i \in 1..(n - 1) :
          /\ scopes[waiting'[i]].type = "closure"
          /\ waiting'[i] \in scopes[ident.at].anc
          /\ Object[1] \in scopes[waiting'[i]].anc \ {waiting'[i]}
    BY <1>0, <1>12 DEF WaitingChain
  <2>5. \A i, j \in 1..(n - 1) : i < j => waiting'[j] < waiting'[i]
    BY <1>0, <1>12 DEF WaitingChain
  <2>6. \A i \in 1..(Len(waiting') - 1) : waiting'[i + 1] = ParentClosure(waiting[i])'
    BY <1>19, <2>1, <2>2 DEF ParentClosure
  <2> HIDE DEF n
  <2> QED
    BY <1>0, <1>3, <1>10, <1>12, <1>18, <2>3, <2>4, <2>5, <2>6 DEF WaitingChain
<1>21. WaitingFree'
  <2>1. ASSUME NEW i \in 1..(n - 1)
        PROVE  ~ \E j \in DOMAIN captures'[waiting'[i]] : captures'[waiting'[i]][j].object = Object
    <3>1. i \in 1..n /\ i < n /\ waiting'[i] = waiting[i] /\ waiting[i] \in ScopeId
      BY <1>1, <1>12
    <3>2. c < waiting[i] /\ waiting[i] # c
      <4>1. c < waiting[i]
        BY <1>0, <1>1, <1>2, <3>1 DEF WaitingChain
      <4>2. c \in Nat /\ waiting[i] \in Nat
        BY <1>0, <3>1, ScopesCounted
      <4> QED
        BY <4>1, <4>2
    <3>3. captures'[waiting[i]] = captures[waiting[i]]
      BY <1>8, <3>1, <3>2
    <3> QED
      BY <1>0, <3>1, <3>3 DEF WaitingFree, IsCaptured
  <2> QED
    BY <1>12, <1>18, <2>1 DEF WaitingFree, IsCaptured
<1>22. AskedNext' /\ IdentInside'
  BY <1>0, <1>10, <1>18 DEF CapInv, AskedNext, IdentInside, Idle
<1>23. AnswerRight'
  <2> SUFFICES ASSUME waiting' # <<>>
               PROVE  (ParentClosure(LastWaiting) # NoScope /\ IsCaptured(ParentClosure(LastWaiting)))'
    BY <1>0 DEF AnswerRight
  <2>1. n - 1 \in 1..(n - 1) /\ n - 1 + 1 = n
    BY <1>1, <1>12
  <2>2. LastWaiting' = waiting[n - 1]
    BY <1>12, <2>1 DEF LastWaiting
  <2>3. ParentClosure(waiting[n - 1]) = c
    BY <1>0, <1>2, <2>1 DEF WaitingChain
  <2>4. ParentClosure(LastWaiting)' = c
    BY <1>0, <2>2, <2>3 DEF ParentClosure, Closure, FindNearest
  <2>5. c # NoScope
    BY <1>0, ScopesCounted DEF NoScope
  <2>6. \E i \in DOMAIN captures'[c] : captures'[c][i].object = Object'
    BY <1>5, <1>9, <1>18
  <2> QED
    BY <2>4, <2>5, <2>6 DEF IsCaptured
<1>24. ResultRefers'
  <2> SUFFICES ASSUME waiting' = <<>> PROVE UseRefers(ident)'
    BY DEF ResultRefers
  <2>1. n = 1
    BY <1>1, <1>12
  <2>2. Closure(ident.at)' = c
    BY <1>2, <1>3, <1>18, <2>1
  <2>3. c # NoScope
    BY <1>0, ScopesCounted DEF NoScope
  <2>4. k \in DOMAIN captures'[c] /\ captures'[c][k].object = ident'.object
    BY <1>1, <1>5, <1>9, <1>10
  <2> QED
    BY <1>6, <1>10, <2>2, <2>3, <2>4 DEF UseRefers
<1> QED
  BY <1>13, <1>14, <1>15, <1>16, <1>17, <1>20, <1>21, <1>22, <1>23, <1>24 DEF CapInv
-----------------------------------------------------------------------------
LEMMA CapInit == Init => CapInv
<1> SUFFICES ASSUME Init PROVE CapInv
  OBVIOUS
<1>1. /\ scopes = <<Scope("ns", NoScope, {1})>> /\ cur = 1 /\ objects = {}
      /\ captures = <<<<>>>> /\ uses = {} /\ ident = NoIdent
      /\ asked = NoScope /\ waiting = <<>> /\ found = FALSE
  BY DEF Init
<1>2. Len(scopes) = 1 /\ scopes[1] = [type |-> "ns", parent |-> 0, anc |-> {1}]
  BY <1>1 DEF Scope, NoScope
<1>3. ScopeId = {1} /\ captures[1] = <<>> /\ DOMAIN captures[1] = {}
  BY <1>1, <1>2 DEF ScopeId
<1>4. TypeOK
  <2>1. scopes \in Seq([type : ScopeType, parent : Nat, anc : SUBSET Nat])
    BY <1>1 DEF Scope, NoScope, ScopeType
  <2>2. captures \in Seq(Seq([object : ObjectType, index : Nat])) /\ Len(captures) = Len(scopes)
    BY <1>1, <1>2
  <2>3. cur \in ScopeId /\ objects \subseteq ObjectType /\ uses \subseteq Use
    BY <1>1, <1>3
  <2>4. ident \in Use \union {NoIdent} /\ asked \in ScopeId \union {NoScope}
    BY <1>1
  <2>5. waiting \in Seq(ScopeId)
    BY <1>1
  <2>6. found \in BOOLEAN
    BY <1>1, Zenon
  <2> QED
    BY <2>1, <2>2, <2>3, <2>4, <2>5, <2>6 DEF TypeOK
<1>5. ScopesNest
  BY <1>2, <1>3 DEF ScopesNest, NoScope
<1>6. ClosuresCapture /\ CapturesAvailable /\ CapturesNeeded
  BY <1>3 DEF ClosuresCapture, CapturesAvailable, CapturesNeeded
<1>7. IdentInside /\ WaitingChain /\ WaitingFree /\ AskedNext /\ AnswerRight /\ ResultRefers
  BY <1>1 DEF IdentInside, WaitingChain, WaitingFree, AskedNext, AnswerRight, ResultRefers, Idle
<1>8. UsesRefer
  BY <1>1 DEF UsesRefer
<1> QED
  BY <1>4, <1>5, <1>6, <1>7, <1>8 DEF CapInv

LEMMA CapStep == CapInv /\ [Next]_vars => CapInv'
<1> SUFFICES ASSUME CapInv, [Next]_vars PROVE CapInv'
  OBVIOUS
<1>1. CASE \E type \in Kinds : EnterScope(type)
  BY <1>1, EnterKeeps
<1>2. CASE LeaveScope
  BY <1>2, LeaveKeeps
<1>3. CASE \E name \in Name : InsertParam(name) \/ Insert(name)
  BY <1>3, InsertKeeps
<1>4. CASE \E name \in Name : LookupIdent(name)
  BY <1>4, LookupKeeps
<1>5. CASE LambdaCapture
  BY <1>5, NotCapturedKeeps, AlreadyKeeps, AskKeeps, PushKeeps, EndKeeps DEF LambdaCapture
<1>6. CASE UNCHANGED vars
  <2> USE DEF vars
  <2>1. TypeOK'
    BY <1>6 DEF CapInv, TypeOK, ScopeId, ObjectType, Use
  <2>2. ScopesNest' /\ ClosuresCapture'
    BY <1>6 DEF CapInv, ScopesNest, ClosuresCapture, ScopeId
  <2>3. \A s : Closure(s)' = Closure(s) /\ ParentClosure(s)' = ParentClosure(s)
    BY <1>6 DEF ParentClosure, Closure, FindNearest
  <2>4. \A c : IsCaptured(c)' = IsCaptured(c)
    BY <1>6 DEF IsCaptured, Object
  <2>5. IdentInside' /\ WaitingChain'
    BY <1>6, <2>3 DEF CapInv, IdentInside, WaitingChain, Object, Idle
  <2>6. WaitingFree' /\ AskedNext' /\ AnswerRight'
    BY <1>6, <2>3, <2>4 DEF CapInv, WaitingFree, AskedNext, AnswerRight, LastWaiting, Object
  <2>7. ResultRefers' /\ UsesRefer'
    BY <1>6, <2>3 DEF CapInv, ResultRefers, UsesRefer, UseRefers, Idle
  <2>8. CapturesAvailable' /\ CapturesNeeded'
    BY <1>6, <2>3 DEF CapInv, CapturesAvailable, CapturesNeeded, CaptureAvailable, ScopeId
  <2> QED
    BY <2>1, <2>2, <2>5, <2>6, <2>7, <2>8 DEF CapInv
<1> QED
  BY <1>1, <1>2, <1>3, <1>4, <1>5, <1>6 DEF Next

LEMMA CapInvariant == Spec => []CapInv
  BY CapInit, CapStep, PTL DEF Spec

(* The lists of captures, the uses and the activations of lambdaCapture    *)
(* name scopes and objects that exist: every pointer that ScopeMan and     *)
(* lambdaCapture follow is a scope of the module.                          *)
THEOREM ScopesTyped == Spec => []TypeOK
<1>1. CapInv => TypeOK
  BY DEF CapInv
<1> QED
  BY <1>1, CapInvariant, PTL

(* However deep lambdas are nested and in whatever order identifiers are   *)
(* looked up, lambdaCapture leaves every lambda with captures that the     *)
(* function or lambda around it can copy: a capture of the one around with *)
(* the same object, or an object local to it.                              *)
THEOREM LambdasFindCaptures == Spec => []CapturesAvailable
<1>1. CapInv => CapturesAvailable
  BY DEF CapInv
<1> QED
  BY <1>1, CapInvariant, PTL

(* Every identifier that lookupIdent has finished refers to its object: an *)
(* index it was given names that object in the captures of its lambda, and *)
(* an identifier without an index is global or local.                      *)
THEOREM IdentifiersRefer == Spec => []UsesRefer
<1>1. CapInv => UsesRefer
  BY DEF CapInv
<1> QED
  BY <1>1, CapInvariant, PTL

(* lambdaCapture captures an object once per lambda, and only for an       *)
(* identifier inside that lambda.                                          *)
THEOREM CapturesAreNeeded == Spec => []CapturesNeeded
<1>1. CapInv => CapturesNeeded
  BY DEF CapInv
<1> QED
  BY <1>1, CapInvariant, PTL
=============================================================================
