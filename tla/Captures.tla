------------------------------ MODULE Captures ------------------------------
(***************************************************************************)
(* Scopes, and the objects that lambdas capture (src/Semantic: scope       *)
(* manager.cpp, scope traverse.hpp, scope lookup.cpp, scope insert.cpp,    *)
(* expr lookup.cpp).  The traversal of a module opens and closes scopes,   *)
(* declares objects and looks up identifiers.  An identifier inside a      *)
(* lambda that names an object outside is captured: by the lambda itself   *)
(* and by every lambda around it up to the object, so that each lambda     *)
(* expression finds its captures where it is evaluated.                    *)
(*                                                                         *)
(* lambdaCapture is recursive; its activations are a stack, and each call  *)
(* and each return is a step.                                              *)
(***************************************************************************)
EXTENDS Integers, Sequences, FiniteSets

CONSTANTS
  Name,        \* names of objects
  Kinds,       \* the types of scopes that are opened
  MaxScopes,   \* bound: the number of scopes of the module
  MaxObjects,  \* bound: the number of objects
  MaxUses      \* bound: the number of different uses of identifiers

ASSUME CapturesAssumption ==
  /\ Kinds \subseteq {"func", "closure", "block", "flow"}
  /\ MaxScopes \in Nat

VARIABLES
  scopes,    \* the scopes in the order they were opened: the first is the module's
  cur,       \* ScopeMan::cur
  objects,   \* the objects declared so far, <<scope, name>>
  captures,  \* captures[s]: the captures of the lambda whose body is scope s
  uses,      \* the identifiers looked up so far
  ident,     \* the identifier being looked up
  asked,     \* currentScope of the innermost activation of lambdaCapture, or 0
  waiting,   \* closures whose activation waits for that of the closure around
  found      \* what the last activation returned
vars == <<scopes, cur, objects, captures, uses, ident, asked, waiting, found>>

ScopeType == {"ns", "func", "closure", "block", "flow"}
ScopeId == 1..Len(scopes)
NoScope == 0      \* nullptr
NoIndex == 0      \* ~uint32_t{}; captures are numbered from 1
NoIdent == <<>>

(* anc: the scope and all scopes around it. *)
Scope(type, parent, anc) == [type |-> type, parent |-> parent, anc |-> anc]

(* Scopes are numbered in the order they are opened, so of the scopes      *)
(* around a scope the nearest has the greatest number.                     *)
Nearest(S) == IF S = {} THEN NoScope ELSE CHOOSE s \in S : \A t \in S : t <= s
FindNearest(type, s) == Nearest({a \in scopes[s].anc : scopes[a].type = type})
FindScope(s, name) == Nearest({a \in scopes[s].anc : <<a, name>> \in objects})
Closure(s) == FindNearest("closure", s)
ParentClosure(c) == Closure(scopes[c].parent)

Init ==
  /\ scopes = <<Scope("ns", NoScope, {1})>>
  /\ cur = 1
  /\ objects = {}
  /\ captures = <<<<>>>>
  /\ uses = {}
  /\ ident = NoIdent
  /\ asked = NoScope
  /\ waiting = <<>>
  /\ found = FALSE

Idle == ident = NoIdent
LookupVars == <<uses, ident, asked, waiting, found>>

(* Functions are at global scope, and nothing else of this is. *)
EnterScope(type) ==
  LET s == Len(scopes) + 1
  IN /\ Idle
     /\ Len(scopes) < MaxScopes
     /\ type = "func" => scopes[cur].type = "ns"
     /\ type \in {"block", "flow"} => scopes[cur].type # "ns"
     /\ scopes' = Append(scopes, Scope(type, cur, scopes[cur].anc \union {s}))
     /\ captures' = Append(captures, <<>>)
     /\ cur' = s
     /\ UNCHANGED <<objects, LookupVars>>

LeaveScope ==
  /\ Idle
  /\ scopes[cur].parent # NoScope
  /\ cur' = scopes[cur].parent
  /\ UNCHANGED <<scopes, objects, captures, LookupVars>>

(* enterFuncScope, enterLambdaScope: a parameter is put into the table of  *)
(* its scope unchecked.  Of two of one name, find always returns the same  *)
(* one, and the other is never found: the object is the one that is.       *)
InsertParam(name) ==
  /\ Idle
  /\ scopes[cur].type \in {"func", "closure"}
  /\ Cardinality(objects \union {<<cur, name>>}) <= MaxObjects
  /\ objects' = objects \union {<<cur, name>>}
  /\ UNCHANGED <<scopes, cur, captures, LookupVars>>

(* insert: a variable; its name is not declared yet in its scope. *)
Insert(name) ==
  /\ Idle
  /\ Cardinality(objects) < MaxObjects
  /\ <<cur, name>> \notin objects
  /\ objects' = objects \union {<<cur, name>>}
  /\ UNCHANGED <<scopes, cur, captures, LookupVars>>

(* lookupIdent, up to its call of lambdaCapture. *)
LookupIdent(name) ==
  /\ Idle
  /\ Cardinality(uses) < MaxUses
  /\ FindScope(cur, name) # NoScope
  /\ ident' = [at |-> cur, object |-> <<FindScope(cur, name), name>>, index |-> NoIndex]
  /\ asked' = cur
  /\ found' = FALSE
  /\ UNCHANGED <<scopes, cur, objects, captures, uses, waiting>>
-----------------------------------------------------------------------------
(* lambdaCapture *)
Object == ident.object
(* A bug: the captures are not searched. *)
IsCapturedNever(c) == FALSE
IsCaptured(c) == \E i \in DOMAIN captures[c] : captures[c][i].object = Object
CaptureIndex(c) == CHOOSE i \in DOMAIN captures[c] : captures[c][i].object = Object

(* Globals, and objects that belong to the same lambda or function. *)
IsLocal(c) ==
  \/ scopes[Object[1]].type = "ns"
  \/ c = NoScope
  \/ Closure(Object[1]) = c

NotCaptured ==
  /\ ~ Idle /\ asked # NoScope
  /\ IsLocal(Closure(asked))
  /\ asked' = NoScope
  /\ found' = FALSE
  /\ UNCHANGED <<scopes, cur, objects, captures, uses, ident, waiting>>

(* A bug: the activation does not return. *)
AlreadyCapturedStays ==
  /\ ~ Idle /\ asked # NoScope
  /\ ~ IsLocal(Closure(asked)) /\ IsCaptured(Closure(asked))
  /\ ident' = [ident EXCEPT !.index = CaptureIndex(Closure(asked))]
  /\ found' = TRUE
  /\ UNCHANGED <<scopes, cur, objects, captures, uses, asked, waiting>>

AlreadyCaptured ==
  /\ ~ Idle /\ asked # NoScope
  /\ ~ IsLocal(Closure(asked)) /\ IsCaptured(Closure(asked))
  /\ ident' = [ident EXCEPT !.index = CaptureIndex(Closure(asked))]
  /\ asked' = NoScope
  /\ found' = TRUE
  /\ UNCHANGED <<scopes, cur, objects, captures, uses, waiting>>

(* The closure around, if there is one, is asked first. *)
AskParent ==
  LET c == Closure(asked)
  IN /\ ~ Idle /\ asked # NoScope
     /\ ~ IsLocal(c) /\ ~ IsCaptured(c)
     /\ waiting' = Append(waiting, c)
     /\ asked' = IF ParentClosure(c) = NoScope THEN NoScope ELSE scopes[c].parent
     /\ found' = FALSE
     /\ UNCHANGED <<scopes, cur, objects, captures, uses, ident>>

(* A bug: the index is not looked up in the parent's captures. *)
CapturedFromSame(c) == IF found THEN Len(captures[c]) + 1 ELSE NoIndex

(* cap.index: the number of the capture of the closure around, if that one *)
(* captured the object.                                                    *)
CapturedFrom(c) == IF found THEN CaptureIndex(ParentClosure(c)) ELSE NoIndex

(* A bug: the identifier keeps its index in the closure around. *)
OwnIndexOfParent(c) == IF found THEN ident.index ELSE Len(captures[c]) + 1

(* pushCapture: the number of the new capture. *)
OwnIndex(c) == Len(captures[c]) + 1

PushCapture ==
  LET c == waiting[Len(waiting)]
  IN /\ ~ Idle /\ asked = NoScope /\ waiting # <<>>
     /\ captures' = [captures EXCEPT ![c] =
          Append(@, [object |-> Object, index |-> CapturedFrom(c)])]
     /\ ident' = [ident EXCEPT !.index = OwnIndex(c)]
     /\ waiting' = SubSeq(waiting, 1, Len(waiting) - 1)
     /\ found' = TRUE
     /\ UNCHANGED <<scopes, cur, objects, uses, asked>>

(* The end of lookupIdent. *)
EndLookup ==
  /\ ~ Idle /\ asked = NoScope /\ waiting = <<>>
  /\ uses' = uses \union {ident}
  /\ ident' = NoIdent
  /\ found' = FALSE
  /\ UNCHANGED <<scopes, cur, objects, captures, asked, waiting>>

LambdaCapture == NotCaptured \/ AlreadyCaptured \/ AskParent \/ PushCapture \/ EndLookup

Next ==
  \/ \E type \in Kinds : EnterScope(type)
  \/ LeaveScope
  \/ \E name \in Name : InsertParam(name) \/ Insert(name) \/ LookupIdent(name)
  \/ LambdaCapture

Spec == Init /\ [][Next]_vars /\ WF_vars(LambdaCapture)
-----------------------------------------------------------------------------
ObjectType == ScopeId \X Name
Use == [at : ScopeId, object : ObjectType, index : Nat]

TypeOK ==
  /\ scopes \in Seq([type : ScopeType, parent : Nat, anc : SUBSET Nat])
  /\ cur \in ScopeId
  /\ objects \subseteq ObjectType
  /\ captures \in Seq(Seq([object : ObjectType, index : Nat]))
  /\ Len(captures) = Len(scopes)
  /\ uses \subseteq Use
  /\ ident \in Use \union {NoIdent}
  /\ asked \in ScopeId \union {NoScope}
  /\ waiting \in Seq(ScopeId)
  /\ found \in BOOLEAN

(* A lambda expression (generate expr.cpp, visit(ast::Lambda &)) copies    *)
(* each capture from the captures of the lambda around it, where it finds  *)
(* the same object, or from a local object of the function or lambda that  *)
(* evaluates the expression.                                               *)
CaptureAvailable(c, cap) ==
  IF cap.index = NoIndex
  THEN cap.object[1] \in scopes[c].anc \ {c} /\ Closure(cap.object[1]) = ParentClosure(c)
  ELSE /\ ParentClosure(c) # NoScope
       /\ cap.index \in DOMAIN captures[ParentClosure(c)]
       /\ captures[ParentClosure(c)][cap.index].object = cap.object

CapturesAvailable ==
  \A c \in ScopeId : \A i \in DOMAIN captures[c] : CaptureAvailable(c, captures[c][i])

(* Every identifier that has been looked up refers to the object: through  *)
(* the captures of its lambda, or because the object is global or local to *)
(* its function or lambda.                                                 *)
UsesRefer ==
  \A u \in uses :
    IF u.index = NoIndex
    THEN scopes[u.object[1]].type = "ns" \/ Closure(u.object[1]) = Closure(u.at)
    ELSE /\ Closure(u.at) # NoScope
         /\ u.index \in DOMAIN captures[Closure(u.at)]
         /\ captures[Closure(u.at)][u.index].object = u.object

(* A lambda captures an object once, and only if an identifier in it, or   *)
(* in a lambda in it, needs it.                                            *)
CapturesNeeded ==
  \A c \in ScopeId : \A i \in DOMAIN captures[c] :
    /\ \A j \in DOMAIN captures[c] :
         captures[c][i].object = captures[c][j].object => i = j
    /\ \E u \in uses \union ({ident} \ {NoIdent}) :
         c \in scopes[u.at].anc /\ u.object = captures[c][i].object

(* Looking up an identifier ends, however deep the lambdas are nested. *)
LookupEnds == ~ Idle ~> Idle
=============================================================================
