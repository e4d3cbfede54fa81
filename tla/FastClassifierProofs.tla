------------------------ MODULE FastClassifierProofs ------------------------
(***************************************************************************)
(* The table of the fast classifier and its messages, for any number of    *)
(* flows, processors and objects: types, TableExact, RequestFindsPlainFlow *)
(* when conntrack tells flows apart, and DoneFollowsOffloaded when memory  *)
(* that a hook still points to is not handed out.                          *)
(***************************************************************************)
EXTENDS FastClassifier, FiniteSetTheorems, TLAPS

ObjType == [flow : Flows, hits : 0 .. OffloadAt, permit : BOOLEAN, offloaded : BOOLEAN]
BusyHook == [at : {"add", "create", "announce", "mark"}, obj : Objs, flow : Flows]

\* TypeOK but for size, which counts the table.
Types ==
  /\ ct \in [Flows -> {"none", "live", "closing"}]
  /\ rules \subseteq Flows
  /\ obj \in [Objs -> ObjType]
  /\ heap \subseteq Objs /\ table \subseteq Objs
  /\ hook \in [Cpus -> {Idle} \cup BusyHook]
  /\ event \in [Flows -> {"none", "removed", "offloaded", "done"}]
  /\ open \in [Flows -> Int]

\* An object on its way into the table is of its hook's flow, and no two hooks
\* bring the same one.
AddsApart ==
  /\ \A p \in Cpus : hook[p].at = "add" => /\ hook[p].obj \notin table
                                           /\ obj[hook[p].obj].flow = hook[p].flow
  /\ \A p, q \in Cpus :
       hook[p].at = "add" /\ hook[q].at = "add" /\ hook[p].obj = hook[q].obj => p = q

OnePerFlow == \A o, q \in table : obj[o].flow = obj[q].flow => o = q
SizeExact == size = Cardinality(table)

TableInv == Types /\ AddsApart /\ OnePerFlow /\ SizeExact /\ NoObjectLost

-----------------------------------------------------------------------------
\* A hook that is not idle has an object and a flow.
LEMMA HookType ==
  ASSUME Types, NEW p \in Cpus
  PROVE  /\ hook[p] \in {Idle} \cup BusyHook
         /\ hook[p].at # "idle" => hook[p] \in BusyHook
         /\ hook[p].at \in {"add", "create", "announce", "mark"}
              => hook[p].obj \in Objs /\ hook[p].flow \in Flows
         /\ Idle.at = "idle" /\ Idle.obj = None
BY DEF Types, Idle, BusyHook

\* Counting a hit keeps an object's type, flow and mark.
LEMMA HitType ==
  ASSUME NEW c \in ObjType
  PROVE  /\ Hit(c) \in ObjType
         /\ Hit(c).flow = c.flow /\ Hit(c).offloaded = c.offloaded
<1> DEFINE m == Min({c.hits + 1, OffloadAt})
<1>1. c.hits \in 0 .. OffloadAt BY DEF ObjType
<1>2. \E x \in {c.hits + 1, OffloadAt} : \A y \in {c.hits + 1, OffloadAt} : x <= y
  BY <1>1, ClassifierAssumption
<1>3. m \in {c.hits + 1, OffloadAt} /\ \A y \in {c.hits + 1, OffloadAt} : m <= y
  BY <1>2 DEF Min
<1>4. m \in 0 .. OffloadAt BY <1>1, <1>3, ClassifierAssumption
<1>5. Hit(c) = [c EXCEPT !.hits = m] BY DEF Hit
<1> HIDE DEF m
<1> QED BY <1>4, <1>5 DEF ObjType

\* A new object has its type.
LEMMA NewObjType ==
  ASSUME NEW f \in Flows
  PROVE  NewObj(f) \in ObjType /\ NewObj(f).flow = f /\ ~NewObj(f).offloaded
BY ClassifierAssumption DEF NewObj, ObjType

\* The table is a finite set.
LEMMA TableFinite == ASSUME Types PROVE IsFiniteSet(table)
BY FS_Subset, ClassifierAssumption DEF Types

-----------------------------------------------------------------------------
(* Types *)

\* Every step keeps the types.
LEMMA TypesKept == ASSUME Types, [Next]_vars PROVE Types'
<1>1. CASE UNCHANGED vars BY <1>1 DEF vars, Types
<1>2. ASSUME NEW p \in Cpus, NEW f \in Flows, NEW o \in Objs, PostRoutingFound(p, f, o)
      PROVE  Types'
  <2>1. obj' \in [Objs -> ObjType]
    BY <1>2, HitType DEF PostRoutingFound, Types
  <2>2. hook' \in [Cpus -> {Idle} \cup BusyHook]
    BY <1>2 DEF PostRoutingFound, Types, BusyHook
  <2> QED BY <1>2, <2>1, <2>2 DEF PostRoutingFound, Types
<1>3. ASSUME NEW p \in Cpus, NEW f \in Flows, NEW o \in Objs, PostRoutingNew(p, f, o)
      PROVE  Types'
  <2>1. obj' \in [Objs -> ObjType]
    BY <1>3, NewObjType DEF PostRoutingNew, Types
  <2>2. hook' \in [Cpus -> {Idle} \cup BusyHook]
    BY <1>3 DEF PostRoutingNew, Types, BusyHook
  <2> QED BY <1>3, <2>1, <2>2 DEF PostRoutingNew, Types
<1>4. ASSUME NEW p \in Cpus, AddConn(p) PROVE Types'
  <2>1. hook[p].obj \in Objs BY <1>4, HookType DEF AddConn
  <2> QED BY <1>4, <2>1 DEF AddConn, Types
<1>5. ASSUME NEW p \in Cpus, CreateRule(p) PROVE Types'
  <2>1. hook[p] \in BusyHook /\ hook[p].obj \in Objs BY <1>5, HookType DEF CreateRule
  <2>2. obj[hook[p].obj].flow \in Flows BY <2>1 DEF Types, ObjType
  <2>3. [hook[p] EXCEPT !.at = "announce"] \in BusyHook BY <2>1 DEF BusyHook
  <2>4. hook' \in [Cpus -> {Idle} \cup BusyHook] BY <1>5, <2>3 DEF CreateRule, Types
  <2> QED BY <1>5, <2>2, <2>4 DEF CreateRule, Types
<1>6. ASSUME NEW p \in Cpus, Announce(p) PROVE Types'
  <2>1. hook[p] \in BusyHook BY <1>6, HookType DEF Announce
  <2>2. [hook[p] EXCEPT !.at = "mark"] \in BusyHook BY <2>1 DEF BusyHook
  <2>3. hook' \in [Cpus -> {Idle} \cup BusyHook] BY <1>6, <2>2 DEF Announce, Types
  <2>4. hook[p].flow \in Flows BY <2>1 DEF BusyHook
  <2>5. open' \in [Flows -> Int] BY <1>6, <2>4 DEF Announce, Types
  <2> QED BY <1>6, <2>3, <2>5 DEF Announce, Types
<1>7. ASSUME NEW p \in Cpus, Mark(p) PROVE Types'
  <2>1. hook[p].obj \in Objs BY <1>7, HookType DEF Mark
  <2>2. obj[hook[p].obj] \in ObjType BY <2>1 DEF Types
  <2>3. [obj[hook[p].obj] EXCEPT !.offloaded = TRUE] \in ObjType BY <2>2 DEF ObjType
  <2>4. obj' \in [Objs -> ObjType] BY <1>7, <2>1, <2>3 DEF Mark, Types
  <2>5. hook' \in [Cpus -> {Idle} \cup BusyHook] BY <1>7 DEF Mark, Types
  <2> QED BY <1>7, <2>4, <2>5 DEF Mark, Types
<1>8. ASSUME NEW f \in Flows, CtNew(f) \/ CtClosing(f) PROVE Types'
  BY <1>8 DEF CtNew, CtClosing, Types
<1>9. ASSUME NEW f \in Flows, DestroyConn(f) PROVE Types'
  <2>1. Destroyed(f) \in {"offloaded", "removed"} BY DEF Destroyed
  <2> QED BY <1>9, <2>1 DEF DestroyConn, Types
<1>10. ASSUME NEW f \in Flows, Event(f) \/ RuleLeaves(f) PROVE Types'
  BY <1>10 DEF Event, DestroyRule, SendDone, RuleLeaves, Types
<1>11. ASSUME NEW t \in Tuples, OffloadRequest(t) PROVE Types'
  <2>1. PICK o \in SbFind(t) : obj' = [obj EXCEPT ![o].permit = TRUE]
    BY <1>11 DEF OffloadRequest
  <2>2. o \in Objs BY <2>1 DEF SbFind, SbMatch, Types
  <2>3. [obj[o] EXCEPT !.permit = TRUE] \in ObjType BY <2>2 DEF Types, ObjType
  <2> QED BY <1>11, <2>1, <2>3 DEF OffloadRequest, Types
<1> QED BY <1>1, <1>2, <1>3, <1>4, <1>5, <1>6, <1>7, <1>8, <1>9, <1>10, <1>11
       DEF Next, Packet, Offloading, Conntrack

-----------------------------------------------------------------------------
(* The table *)

\* Steps that leave the table, the memory and the flows of objects alone, and do
\* not move a hook to or from its way into the table, keep the invariant.
LEMMA TableLeftAlone ==
  ASSUME TableInv, Types', UNCHANGED <<table, heap, size>>,
         \A o \in Objs : obj'[o].flow = obj[o].flow,
         \A p \in Cpus : \/ hook'[p] = hook[p]
                         \/ hook'[p].at # "add" /\ hook[p].at # "add"
  PROVE  TableInv'
<1>1. \A p \in Cpus : /\ hook'[p].at = "add" <=> hook[p].at = "add"
                      /\ hook[p].at = "add" => hook'[p] = hook[p] /\ hook[p].obj \in Objs
  BY HookType DEF TableInv
<1>2. AddsApart' BY <1>1 DEF TableInv, AddsApart
<1>3. OnePerFlow' BY DEF TableInv, OnePerFlow, Types
<1>4. SizeExact' BY DEF TableInv, SizeExact
<1>5. Adding' = Adding BY <1>1 DEF Adding
<1>6. NoObjectLost' BY <1>5 DEF TableInv, NoObjectLost
<1> QED BY <1>2, <1>3, <1>4, <1>6 DEF TableInv

\* The hook of a new flow takes an object that nobody uses.
LEMMA TableNew ==
  ASSUME TableInv, Types', NEW p \in Cpus, NEW f \in Flows, NEW o \in Objs,
         PostRoutingNew(p, f, o)
  PROVE  TableInv'
<1>1. /\ hook[p].at = "idle" /\ hook'[p] = [at |-> "add", obj |-> o, flow |-> f]
      /\ \A q \in Cpus : q # p => hook'[q] = hook[q]
  BY HookType DEF PostRoutingNew, TableInv, Types
<1>2. /\ o \notin table
      /\ \A q \in Cpus : hook[q].at = "add" => hook[q].obj # o /\ hook[q].obj \in Objs
  BY HookType DEF PostRoutingNew, TableInv, NoObjectLost, Adding
<1>3. obj'[o].flow = f /\ \A x \in Objs \ {o} : obj'[x] = obj[x]
  BY NewObjType DEF PostRoutingNew, TableInv, Types
<1>4. AddsApart' BY <1>1, <1>2, <1>3 DEF PostRoutingNew, TableInv, AddsApart
<1>5. OnePerFlow' BY <1>2, <1>3 DEF PostRoutingNew, TableInv, OnePerFlow, Types
<1>6. Adding' = Adding \cup {o} BY <1>1 DEF Adding
<1>7. NoObjectLost' BY <1>6 DEF PostRoutingNew, TableInv, NoObjectLost
<1>8. SizeExact' BY DEF PostRoutingNew, TableInv, SizeExact
<1> QED BY <1>4, <1>5, <1>7, <1>8 DEF TableInv

\* add_conn: in the table there is room for one object of the flow, or none.
LEMMA TableAdd ==
  ASSUME TableInv, Types', NEW p \in Cpus, AddConn(p)
  PROVE  TableInv'
<1> DEFINE o == hook[p].obj
           f == hook[p].flow
<1>1. /\ hook[p].at = "add" /\ hook'[p].at = "idle" /\ UNCHANGED obj
      /\ \A q \in Cpus : q # p => hook'[q] = hook[q]
  BY HookType DEF AddConn, TableInv, Types
<1>2. o \in Objs /\ o \notin table /\ obj[o].flow = f
  BY <1>1, HookType DEF TableInv, AddsApart
<1>3. \A q \in Cpus : q # p /\ hook[q].at = "add" => hook[q].obj # o
  BY <1>1 DEF TableInv, AddsApart
<1>4. Adding' = Adding \ {o} /\ o \in Adding
  BY <1>1, <1>3 DEF Adding
<1> HIDE DEF o, f
<1>5. CASE Find(f) # {}
  <2>1. heap' = heap \ {o} /\ UNCHANGED <<table, size>> BY <1>5 DEF AddConn, o, f
  <2>2. AddsApart' BY <1>1, <2>1 DEF TableInv, AddsApart
  <2>3. OnePerFlow' BY <1>1, <2>1 DEF TableInv, OnePerFlow
  <2>4. SizeExact' BY <2>1 DEF TableInv, SizeExact
  <2>5. NoObjectLost' BY <1>2, <1>4, <2>1 DEF TableInv, NoObjectLost
  <2> QED BY <2>2, <2>3, <2>4, <2>5 DEF TableInv
<1>6. CASE Find(f) = {}
  <2>1. table' = table \cup {o} /\ size' = size + 1 /\ UNCHANGED heap
    BY <1>6 DEF AddConn, o, f
  <2>2. AddsApart' BY <1>1, <1>3, <2>1 DEF TableInv, AddsApart
  <2>3. \A x \in table : obj[x].flow # f BY <1>6 DEF Find
  <2>4. OnePerFlow' BY <1>1, <1>2, <2>1, <2>3 DEF TableInv, OnePerFlow
  <2>5. IsFiniteSet(table) BY TableFinite DEF TableInv
  <2>6. Cardinality(table \cup {o}) = Cardinality(table) + 1
    BY <1>2, <2>5, FS_AddElement
  <2>7. SizeExact' BY <2>1, <2>6 DEF TableInv, SizeExact
  <2>8. NoObjectLost' BY <1>4, <2>1 DEF TableInv, NoObjectLost
  <2> QED BY <2>2, <2>4, <2>7, <2>8 DEF TableInv
<1> QED BY <1>5, <1>6

\* The objects of a flow are none or one.
LEMMA FindSize ==
  ASSUME TableInv, NEW f \in Flows
  PROVE  /\ Find(f) = {} \/ \E o \in table : Find(f) = {o}
         /\ Cardinality(Find(f)) <= 1
         /\ Cardinality(table \ Find(f)) = Cardinality(table) - Cardinality(Find(f))
<1>1. Find(f) = {} \/ \E o \in table : Find(f) = {o}
  BY DEF Find, TableInv, OnePerFlow
<1>2. IsFiniteSet(table) /\ Cardinality(table) \in Nat
  BY TableFinite, FS_CardinalityType DEF TableInv
<1>3. CASE Find(f) = {}
  <2>1. table \ Find(f) = table /\ Cardinality(Find(f)) = 0 BY <1>3, FS_EmptySet
  <2> QED BY <1>2, <1>3, <2>1
<1>4. ASSUME NEW o \in table, Find(f) = {o}
      PROVE  /\ Cardinality(Find(f)) = 1
             /\ Cardinality(table \ Find(f)) = Cardinality(table) - 1
  BY <1>2, <1>4, FS_Singleton, FS_RemoveElement
<1> QED BY <1>1, <1>3, <1>4

\* The conntrack event takes the object of its flow out and frees it.
LEMMA TableDestroy ==
  ASSUME TableInv, Types', NEW f \in Flows, DestroyConn(f)
  PROVE  TableInv'
<1>1. /\ table' = table \ Find(f) /\ heap' = heap \ Find(f)
      /\ size' = size - Cardinality(Find(f)) /\ UNCHANGED <<obj, hook>>
  BY DEF DestroyConn
<1>2. Find(f) \subseteq table BY DEF Find
<1>3. AddsApart' BY <1>1 DEF TableInv, AddsApart
<1>4. OnePerFlow' BY <1>1 DEF TableInv, OnePerFlow
<1>5. SizeExact' BY <1>1, FindSize DEF TableInv, SizeExact
<1>6. Adding' = Adding BY <1>1 DEF Adding
<1>7. Adding \cap table = {} BY DEF TableInv, AddsApart, Adding
<1>8. NoObjectLost' BY <1>1, <1>2, <1>6, <1>7 DEF TableInv, NoObjectLost
<1> QED BY <1>3, <1>4, <1>5, <1>8 DEF TableInv

\* Every step keeps the table exact.
LEMMA TableKept == ASSUME TableInv, [Next]_vars PROVE TableInv'
<1>0. Types' BY TypesKept DEF TableInv
<1>1. CASE UNCHANGED vars BY <1>0, <1>1, TableLeftAlone DEF vars
<1>2. ASSUME NEW p \in Cpus, NEW f \in Flows, NEW o \in Objs, PostRoutingFound(p, f, o)
      PROVE  TableInv'
  <2>1. UNCHANGED <<table, heap, size>> BY <1>2 DEF PostRoutingFound
  <2>2. \A x \in Objs : obj'[x].flow = obj[x].flow
    BY <1>2, HitType DEF PostRoutingFound, TableInv, Types
  <2>3. \A q \in Cpus : \/ hook'[q] = hook[q]
                        \/ hook'[q].at # "add" /\ hook[q].at # "add"
    BY <1>2, HookType DEF PostRoutingFound, TableInv, Types
  <2> QED BY <1>0, <2>1, <2>2, <2>3, TableLeftAlone
<1>3. ASSUME NEW p \in Cpus, NEW f \in Flows, NEW o \in Objs, PostRoutingNew(p, f, o)
      PROVE  TableInv'
  BY <1>0, <1>3, TableNew
<1>4. ASSUME NEW p \in Cpus, AddConn(p) PROVE TableInv'
  BY <1>0, <1>4, TableAdd
<1>5. ASSUME NEW p \in Cpus, CreateRule(p) \/ Announce(p) \/ Mark(p) PROVE TableInv'
  <2>1. UNCHANGED <<table, heap, size>> BY <1>5 DEF CreateRule, Announce, Mark
  <2>2. hook[p] \in BusyHook /\ hook[p].obj \in Objs
    BY <1>5, HookType DEF TableInv, CreateRule, Announce, Mark
  <2>3. \A x \in Objs : obj'[x].flow = obj[x].flow
    BY <1>5, <2>2 DEF CreateRule, Announce, Mark, TableInv, Types, ObjType
  <2>4. hook'[p].at # "add" /\ hook[p].at # "add"
    BY <1>5, <2>2, HookType DEF CreateRule, Announce, Mark, TableInv, Types, BusyHook
  <2>5. \A q \in Cpus \ {p} : hook'[q] = hook[q]
    BY <1>5 DEF CreateRule, Announce, Mark, TableInv, Types
  <2> QED BY <1>0, <2>1, <2>3, <2>4, <2>5, TableLeftAlone
<1>6. ASSUME NEW f \in Flows, CtNew(f) \/ CtClosing(f) \/ Event(f) \/ RuleLeaves(f)
      PROVE  TableInv'
  <2>1. UNCHANGED <<table, heap, size, obj, hook>>
    BY <1>6 DEF CtNew, CtClosing, Event, DestroyRule, SendDone, RuleLeaves
  <2> QED BY <1>0, <2>1, TableLeftAlone
<1>7. ASSUME NEW f \in Flows, DestroyConn(f) PROVE TableInv'
  BY <1>0, <1>7, TableDestroy
<1>8. ASSUME NEW t \in Tuples, OffloadRequest(t) PROVE TableInv'
  <2>1. PICK o \in SbFind(t) : obj' = [obj EXCEPT ![o].permit = TRUE]
    BY <1>8 DEF OffloadRequest
  <2>2. \A x \in Objs : obj'[x].flow = obj[x].flow
    BY <2>1 DEF TableInv, Types, ObjType
  <2>3. UNCHANGED <<table, heap, size, hook>> BY <1>8 DEF OffloadRequest
  <2> QED BY <1>0, <2>2, <2>3, TableLeftAlone
<1> QED BY <1>1, <1>2, <1>3, <1>4, <1>5, <1>6, <1>7, <1>8
       DEF Next, Packet, Offloading, Conntrack

\* The empty table is exact.
LEMMA TableInit == Init => TableInv
<1> SUFFICES ASSUME Init PROVE TableInv OBVIOUS
<1>1. obj \in [Objs -> ObjType]
  <2>1. {NewObj(f) : f \in Flows} \subseteq ObjType BY NewObjType
  <2> QED BY <2>1 DEF Init
<1>2. Types BY <1>1 DEF Init, Types
<1>3. \A p \in Cpus : hook[p].at = "idle" BY DEF Init, Idle
<1>4. AddsApart BY <1>3 DEF AddsApart
<1>5. OnePerFlow BY DEF Init, OnePerFlow
<1>6. SizeExact BY FS_EmptySet DEF Init, SizeExact
<1>7. NoObjectLost BY <1>3 DEF Init, NoObjectLost, Adding
<1> QED BY <1>2, <1>4, <1>5, <1>6, <1>7 DEF TableInv

\* In every reachable state.
LEMMA TableAlways == Spec => []TableInv
BY TableInit, TableKept, PTL DEF Spec

\* Every variable keeps its type: no race of hooks, conntrack events and
\* requests leaves a hook without its object or the size negative.
THEOREM TypeCorrect == Spec => []TypeOK
<1>1. TableInv => TypeOK
  <2> SUFFICES ASSUME TableInv PROVE TypeOK OBVIOUS
  <2>1. size \in Nat BY TableFinite, FS_CardinalityType DEF TableInv, SizeExact
  <2> QED BY <2>1 DEF TableInv, Types, TypeOK, ObjType, BusyHook
<1> QED BY <1>1, TableAlways, PTL

\* However hooks and conntrack events race (fast_classifier_add_conn,
\* fast_classifier_conntrack_event), a flow has one object in the table, the size
\* is right, and every object in memory is in the table or on its way there.
THEOREM TableStaysExact == Spec => []TableExact
<1>1. TableInv => TableExact
  BY FindSize DEF TableInv, SizeExact, TableExact, OneObjectPerFlow
<1> QED BY <1>1, TableAlways, PTL

-----------------------------------------------------------------------------
(* Requests *)

\* Flows differ in their tuples after the translation of the destination, also from
\* those of the other direction.  As long as sources are not translated, conntrack
\* (external) sees to it: Reverse(Translated(g)) is then the reply tuple of g, and no two
\* entries have a tuple in common.
TuplesApart ==
  /\ \A f, g \in Flows : Plain(f) /\ f # g =>
       Translated(g) # Translated(f) /\ Translated(g) # Reverse(Translated(f))
  /\ \A f \in Flows : Reverse(Reverse(Translated(f))) = Translated(f)

\* fast_classifier_sb_find_conn finds the object of a flow whose destination is not
\* translated, and no other, by the tuple of a packet of either direction
\* (fast_classifier_offload_genl_msg), whatever hash the buckets are chosen with.
THEOREM RequestsFindPlainFlows == TuplesApart => (Spec => []RequestFindsPlainFlow)
<1> SUFFICES ASSUME TuplesApart PROVE Spec => []RequestFindsPlainFlow OBVIOUS
<1>1. TableInv => RequestFindsPlainFlow
  <2> SUFFICES ASSUME TableInv, NEW o \in table, Plain(obj[o].flow)
               PROVE  LET t == Translated(obj[o].flow)
                      IN SbFind(t) = {o} /\ SbFind(Reverse(t)) = {o}
    BY DEF RequestFindsPlainFlow
  <2> DEFINE f == obj[o].flow
             t == Translated(f)
  <2>1. \A x \in table : obj[x].flow \in Flows
    BY DEF TableInv, Types, ObjType
  <2>2. o \in SbMatch(t)
    BY DEF SbMatch, Plain
  <2>3. ASSUME NEW x \in SbMatch(t) \cup SbMatch(Reverse(t)) PROVE x = o
    <3>1. x \in table /\ Translated(obj[x].flow) \in {t, Reverse(t)} BY DEF SbMatch
    <3>2. obj[x].flow = f BY <2>1, <3>1 DEF TuplesApart
    <3> QED BY <3>1, <3>2 DEF TableInv, OnePerFlow
  <2>4. Reverse(Reverse(t)) = t BY <2>1 DEF TuplesApart
  <2>5. SbFind(t) = {o} BY <2>2, <2>3 DEF SbFind
  <2>6. SbFind(Reverse(t)) = {o}
    <3>1. SbMatch(Reverse(t)) \subseteq {o} /\ SbMatch(t) = {o} BY <2>2, <2>3
    <3> QED BY <2>4, <3>1 DEF SbFind
  <2> QED BY <2>5, <2>6
<1> QED BY <1>1, TableAlways, PTL

-----------------------------------------------------------------------------
(* Messages to user space *)

\* The ways in which a flow's DONE message is due, or its OFFLOADED message is
\* sent and no DONE will follow from it: the event is on its way to send it, the
\* object is marked, or a hook is about to mark it.
Ended(f) == event[f] \in {"offloaded", "done"}
Marked(f) == \E o \in Find(f) : obj[o].offloaded
Marking(f) == {p \in Cpus : hook[p].at = "mark" /\ hook[p].flow = f}
One(b) == IF b THEN 1 ELSE 0
Due(f) == One(Ended(f)) + One(Marked(f)) + Cardinality(Marking(f))

\* A hook's object keeps the hook's flow, also when it was freed meanwhile; one
\* that is not in the table yet is not marked, and no other hook's.
HooksKeepFlow ==
  \A p \in Cpus : hook[p].at \in {"create", "announce", "mark"} =>
    obj[hook[p].obj].flow = hook[p].flow
AddsFresh ==
  \A p \in Cpus : hook[p].at = "add" =>
    /\ ~obj[hook[p].obj].offloaded
    /\ \A q \in Cpus : q # p => hook[q].obj # hook[p].obj

\* The last event of a flow is over when conntrack has it again.
EventsInTurn == \A f \in Flows : ct[f] # "none" => event[f] = "none"
OpenCovers == \A f \in Flows : Due(f) <= open[f]

MarkInv == TableInv /\ HooksKeepFlow /\ AddsFresh /\ EventsInTurn /\ OpenCovers

-----------------------------------------------------------------------------
\* What is due is a number, and not less than zero.
LEMMA DueType ==
  ASSUME NEW f
  PROVE  /\ IsFiniteSet(Marking(f)) /\ Cardinality(Marking(f)) \in Nat
         /\ Due(f) \in Nat
<1>1. IsFiniteSet(Marking(f)) BY FS_Subset, ClassifierAssumption DEF Marking
<1>2. Cardinality(Marking(f)) \in Nat BY <1>1, FS_CardinalityType
<1> QED BY <1>1, <1>2 DEF Due, One

\* Steps that change neither events nor messages, mark no object and move no
\* hook to or from "mark" leave what is due alone.
LEMMA DueLeftAlone ==
  ASSUME MarkInv, TableInv', UNCHANGED <<event, open>>,
         \A f \in Flows : Marked(f)' => Marked(f),
         \A p \in Cpus : \/ hook'[p] = hook[p]
                         \/ hook'[p].at # "mark" /\ hook[p].at # "mark"
  PROVE  OpenCovers'
<1> SUFFICES ASSUME NEW f \in Flows PROVE (Due(f) <= open[f])' BY DEF OpenCovers
<1>1. Marking(f)' = Marking(f) BY DEF Marking
<1>2. Due(f) <= open[f] BY DEF MarkInv, OpenCovers
<1>3. One(Ended(f))' = One(Ended(f)) BY DEF Ended, One
<1>4. One(Marked(f))' <= One(Marked(f)) BY DEF One
<1>5. Cardinality(Marking(f)) \in Nat /\ open[f] \in Int
  BY DueType DEF MarkInv, TableInv, Types
<1> QED BY <1>1, <1>2, <1>3, <1>4, <1>5 DEF Due, One

\* A packet of a known flow.
LEMMA MarkFound ==
  ASSUME MarkInv, TableInv', NEW p \in Cpus, NEW f \in Flows, NEW o \in Objs,
         PostRoutingFound(p, f, o)
  PROVE  MarkInv'
<1>1. /\ o \in table /\ obj[o].flow = f /\ hook[p].at = "idle"
      /\ UNCHANGED <<ct, table, event, open>>
  BY HookType DEF PostRoutingFound, Find, MarkInv, TableInv
<1>2. \A x \in Objs : obj'[x].flow = obj[x].flow /\ obj'[x].offloaded = obj[x].offloaded
  BY HitType DEF PostRoutingFound, MarkInv, TableInv, Types
<1>3. /\ hook'[p] = hook[p] \/ hook'[p] = [at |-> "create", obj |-> o, flow |-> f]
      /\ \A q \in Cpus : q # p => hook'[q] = hook[q]
  BY DEF PostRoutingFound, MarkInv, TableInv, Types
<1>4. \A q \in Cpus : hook[q].at # "idle" => hook[q].obj \in Objs
  BY HookType DEF MarkInv, TableInv, BusyHook
<1>5. HooksKeepFlow' BY <1>1, <1>2, <1>3, <1>4 DEF MarkInv, HooksKeepFlow
<1>6. \A q \in Cpus : hook[q].at = "add" => hook[q].obj # o
  BY <1>1 DEF MarkInv, TableInv, AddsApart
<1>7. AddsFresh' BY <1>1, <1>2, <1>3, <1>4, <1>6 DEF MarkInv, AddsFresh
<1>8. EventsInTurn' BY <1>1 DEF MarkInv, EventsInTurn
<1>9. \A g \in Flows : Marked(g)' => Marked(g)
  BY <1>1, <1>2 DEF Marked, Find, MarkInv, TableInv, Types
<1>10. OpenCovers' BY <1>1, <1>3, <1>9, DueLeftAlone
<1> QED BY <1>5, <1>7, <1>8, <1>10 DEF MarkInv

\* A packet of a new flow; no hook points to the memory that it gets.
LEMMA MarkNew ==
  ASSUME MarkInv, TableInv', NEW p \in Cpus, NEW f \in Flows, NEW o \in Objs,
         PostRoutingNew(p, f, o), Reuse = FALSE
  PROVE  MarkInv'
<1>1. /\ hook[p].at = "idle" /\ hook'[p] = [at |-> "add", obj |-> o, flow |-> f]
      /\ \A q \in Cpus : q # p => hook'[q] = hook[q]
      /\ UNCHANGED <<ct, table, event, open>>
  BY HookType DEF PostRoutingNew, MarkInv, TableInv, Types
<1>2. o \notin heap /\ \A q \in Cpus : hook[q].obj # o
  BY ClassifierAssumption DEF PostRoutingNew, Held
<1>3. o \notin table BY <1>2 DEF MarkInv, TableInv, NoObjectLost
<1>4. /\ obj'[o].flow = f /\ ~obj'[o].offloaded
      /\ \A x \in Objs \ {o} : obj'[x] = obj[x]
  BY NewObjType DEF PostRoutingNew, MarkInv, TableInv, Types
<1>5. \A q \in Cpus : hook[q].at # "idle" => hook[q].obj \in Objs \ {o}
  BY <1>2, HookType DEF MarkInv, TableInv, BusyHook
<1>6. HooksKeepFlow' BY <1>1, <1>4, <1>5 DEF MarkInv, HooksKeepFlow
<1>7. AddsFresh' BY <1>1, <1>2, <1>4, <1>5 DEF MarkInv, AddsFresh
<1>8. EventsInTurn' BY <1>1 DEF MarkInv, EventsInTurn
<1>9. \A g \in Flows : Marked(g)' => Marked(g)
  BY <1>1, <1>3, <1>4 DEF Marked, Find, MarkInv, TableInv, Types
<1>10. OpenCovers' BY <1>1, <1>9, DueLeftAlone
<1> QED BY <1>6, <1>7, <1>8, <1>10 DEF MarkInv

\* add_conn: what it adds is not marked.
LEMMA MarkAdd ==
  ASSUME MarkInv, TableInv', NEW p \in Cpus, AddConn(p)
  PROVE  MarkInv'
<1>1. /\ hook[p].at = "add" /\ hook'[p] = Idle /\ UNCHANGED <<ct, obj, event, open>>
      /\ \A q \in Cpus : q # p => hook'[q] = hook[q]
      /\ table' \subseteq table \cup {hook[p].obj}
  BY DEF AddConn, MarkInv, TableInv, Types
<1>2. Idle.at = "idle" /\ Idle.obj \notin Objs BY ClassifierAssumption DEF Idle
<1>3. \A q \in Cpus : hook[q].at = "add" => hook[q].obj \in Objs
  BY HookType DEF MarkInv, TableInv
<1>4. HooksKeepFlow' BY <1>1, <1>2 DEF MarkInv, HooksKeepFlow
<1>5. AddsFresh' BY <1>1, <1>2, <1>3 DEF MarkInv, AddsFresh
<1>6. EventsInTurn' BY <1>1 DEF MarkInv, EventsInTurn
<1>7. ~obj[hook[p].obj].offloaded BY <1>1 DEF MarkInv, AddsFresh
<1>8. \A g \in Flows : Marked(g)' => Marked(g) BY <1>1, <1>7 DEF Marked, Find
<1>9. OpenCovers' BY <1>1, <1>2, <1>8, DueLeftAlone
<1> QED BY <1>4, <1>5, <1>6, <1>9 DEF MarkInv

\* The rule is made, or not: the hook goes on or ends.
LEMMA MarkCreate ==
  ASSUME MarkInv, TableInv', NEW p \in Cpus, CreateRule(p)
  PROVE  MarkInv'
<1>1. hook[p] \in BusyHook /\ hook[p].at = "create"
  BY HookType DEF CreateRule, MarkInv, TableInv
<1>2. /\ \/ hook'[p] = Idle
         \/ /\ hook'[p].at = "announce" /\ hook'[p].obj = hook[p].obj
            /\ hook'[p].flow = hook[p].flow
      /\ \A q \in Cpus : q # p => hook'[q] = hook[q]
      /\ UNCHANGED <<ct, obj, table, event, open>>
  BY <1>1 DEF CreateRule, MarkInv, TableInv, Types, BusyHook
<1>3. Idle.at = "idle" /\ Idle.obj \notin Objs BY ClassifierAssumption DEF Idle
<1>4. \A q \in Cpus : hook[q].at = "add" => hook[q].obj \in Objs
  BY HookType DEF MarkInv, TableInv
<1>5. HooksKeepFlow' BY <1>1, <1>2, <1>3 DEF MarkInv, HooksKeepFlow
<1>6. AddsFresh' BY <1>1, <1>2, <1>3, <1>4 DEF MarkInv, AddsFresh
<1>7. EventsInTurn' BY <1>2 DEF MarkInv, EventsInTurn
<1>8. \A g \in Flows : Marked(g)' => Marked(g) BY <1>2 DEF Marked, Find
<1>9. OpenCovers' BY <1>1, <1>2, <1>3, <1>8, DueLeftAlone
<1> QED BY <1>5, <1>6, <1>7, <1>9 DEF MarkInv

\* The OFFLOADED message covers the mark that is to come.
LEMMA MarkAnnounce ==
  ASSUME MarkInv, TableInv', NEW p \in Cpus, Announce(p)
  PROVE  MarkInv'
<1> DEFINE h == hook[p].flow
<1>1. hook[p] \in BusyHook /\ hook[p].at = "announce" /\ h \in Flows
  BY HookType DEF Announce, MarkInv, TableInv
<1>2. /\ hook'[p].at = "mark" /\ hook'[p].obj = hook[p].obj /\ hook'[p].flow = h
      /\ \A q \in Cpus : q # p => hook'[q] = hook[q]
      /\ UNCHANGED <<ct, obj, table, event>>
  BY <1>1 DEF Announce, MarkInv, TableInv, Types, BusyHook
<1>3. HooksKeepFlow' BY <1>1, <1>2 DEF MarkInv, HooksKeepFlow
<1>4. AddsFresh' BY <1>1, <1>2 DEF MarkInv, AddsFresh
<1>5. EventsInTurn' BY <1>2 DEF MarkInv, EventsInTurn
<1>6. ASSUME NEW f \in Flows PROVE (Due(f) <= open[f])'
  <2>1. Due(f) <= open[f] /\ open[f] \in Int BY DEF MarkInv, OpenCovers, TableInv, Types
  <2>2. One(Ended(f))' = One(Ended(f)) /\ One(Marked(f))' = One(Marked(f))
    BY <1>2 DEF Ended, Marked, Find, One
  <2>3. IsFiniteSet(Marking(f)) /\ Cardinality(Marking(f)) \in Nat BY DueType
  <2>4. CASE f = h
    <3>1. Marking(f)' = Marking(f) \cup {p} /\ p \notin Marking(f)
      BY <1>1, <1>2, <2>4 DEF Marking
    <3>2. Cardinality(Marking(f)') = Cardinality(Marking(f)) + 1
      BY <2>3, <3>1, FS_AddElement
    <3>3. open'[f] = open[f] + 1
      BY <1>1, <2>4 DEF Announce, MarkInv, TableInv, Types
    <3> QED BY <2>1, <2>2, <2>3, <3>2, <3>3 DEF Due, One
  <2>5. CASE f # h
    <3>1. Marking(f)' = Marking(f) BY <1>1, <1>2, <2>5 DEF Marking
    <3>2. open'[f] = open[f] BY <1>1, <2>5 DEF Announce, MarkInv, TableInv, Types
    <3> QED BY <2>1, <2>2, <3>1, <3>2 DEF Due
  <2> QED BY <2>4, <2>5
<1>7. OpenCovers' BY <1>6 DEF OpenCovers
<1> QED BY <1>3, <1>4, <1>5, <1>7 DEF MarkInv

\* The mark takes the place of its hook.
LEMMA MarkMark ==
  ASSUME MarkInv, TableInv', NEW p \in Cpus, Mark(p)
  PROVE  MarkInv'
<1> DEFINE o == hook[p].obj
           h == hook[p].flow
<1>1. hook[p].at = "mark" /\ o \in Objs /\ h \in Flows /\ obj[o].flow = h
  BY HookType DEF Mark, MarkInv, TableInv, HooksKeepFlow
<1>2. /\ hook'[p] = Idle /\ \A q \in Cpus : q # p => hook'[q] = hook[q]
      /\ UNCHANGED <<ct, table, event, open>>
      /\ \A x \in Objs : obj'[x].flow = obj[x].flow
      /\ \A x \in Objs : x # o => obj'[x].offloaded = obj[x].offloaded
  BY <1>1 DEF Mark, MarkInv, TableInv, Types, ObjType
<1>3. Idle.at = "idle" /\ Idle.obj \notin Objs BY ClassifierAssumption DEF Idle
<1>4. \A q \in Cpus : hook[q].at # "idle" => hook[q].obj \in Objs
  BY HookType DEF MarkInv, TableInv, BusyHook
<1>5. HooksKeepFlow' BY <1>2, <1>3, <1>4 DEF MarkInv, HooksKeepFlow
<1>6. \A q \in Cpus : hook[q].at = "add" => hook[q].obj # o
  BY <1>1 DEF MarkInv, AddsFresh
<1>7. AddsFresh' BY <1>2, <1>3, <1>4, <1>6 DEF MarkInv, AddsFresh
<1>8. EventsInTurn' BY <1>2 DEF MarkInv, EventsInTurn
<1>9. ASSUME NEW f \in Flows PROVE (Due(f) <= open[f])'
  <2>1. Due(f) <= open[f] /\ open[f] \in Int BY DEF MarkInv, OpenCovers, TableInv, Types
  <2>2. One(Ended(f))' = One(Ended(f)) BY <1>2 DEF Ended, One
  <2>3. IsFiniteSet(Marking(f)) /\ Cardinality(Marking(f)) \in Nat BY DueType
  <2>4. CASE f = h
    <3>1. Marking(f)' = Marking(f) \ {p} /\ p \in Marking(f)
      BY <1>1, <1>2, <1>3, <2>4 DEF Marking
    <3>2. Cardinality(Marking(f)') = Cardinality(Marking(f)) - 1
      BY <2>3, <3>1, FS_RemoveElement
    <3>3. Due(f)' <= One(Ended(f)) + 1 + Cardinality(Marking(f)) - 1
      BY <2>2, <2>3, <3>2 DEF Due, One
    <3>4. One(Ended(f)) + 1 + Cardinality(Marking(f)) - 1 <= Due(f)
      BY <2>3 DEF Due, One
    <3>5. Due(f)' \in Int BY <2>2, <2>3, <3>2 DEF Due, One
    <3>6. Due(f) \in Nat /\ One(Ended(f)) \in Nat BY DueType DEF One
    <3>7. Due(f)' <= Due(f) BY <2>3, <3>3, <3>4, <3>5, <3>6
    <3> QED BY <1>2, <2>1, <3>5, <3>6, <3>7
  <2>5. CASE f # h
    <3>1. Marking(f)' = Marking(f) BY <1>1, <1>2, <1>3, <2>5 DEF Marking
    <3>2. Marked(f)' = Marked(f)
      BY <1>1, <1>2, <2>5 DEF Marked, Find, MarkInv, TableInv, Types
    <3>3. One(Marked(f))' = One(Marked(f)) BY <3>2 DEF One
    <3> QED BY <1>2, <2>1, <2>2, <3>1, <3>3 DEF Due
  <2> QED BY <2>4, <2>5
<1>10. OpenCovers' BY <1>9 DEF OpenCovers
<1> QED BY <1>5, <1>7, <1>8, <1>10 DEF MarkInv

\* The conntrack event takes over what its object was marked for.
LEMMA MarkDestroy ==
  ASSUME MarkInv, TableInv', NEW f \in Flows, DestroyConn(f)
  PROVE  MarkInv'
<1>1. /\ ct[f] # "none" /\ ct'[f] = "none" /\ table' = table \ Find(f)
      /\ event'[f] = IF Marked(f) THEN "offloaded" ELSE "removed"
      /\ \A g \in Flows : g # f => ct'[g] = ct[g] /\ event'[g] = event[g]
      /\ UNCHANGED <<obj, hook, open>>
  BY DEF DestroyConn, Destroyed, Marked, MarkInv, TableInv, Types
<1>2. HooksKeepFlow' BY <1>1 DEF MarkInv, HooksKeepFlow
<1>3. AddsFresh' BY <1>1 DEF MarkInv, AddsFresh
<1>4. EventsInTurn' BY <1>1 DEF MarkInv, EventsInTurn
<1>5. ASSUME NEW g \in Flows PROVE (Due(g) <= open[g])'
  <2>1. Due(g) <= open[g] BY DEF MarkInv, OpenCovers
  <2>2. Marking(g)' = Marking(g) BY <1>1 DEF Marking
  <2>3. CASE g = f
    <3>1. ~Ended(g) BY <1>1, <2>3 DEF Ended, MarkInv, EventsInTurn
    <3>2. Ended(g)' <=> Marked(g) BY <1>1, <2>3 DEF Ended
    <3>3. ~Marked(g)' BY <1>1, <2>3 DEF Marked, Find
    <3>4. Due(g)' = Due(g) BY <2>2, <3>1, <3>2, <3>3, DueType DEF Due, One
    <3> QED BY <1>1, <2>1, <3>4
  <2>4. CASE g # f
    <3>1. Ended(g)' = Ended(g) BY <1>1, <2>4 DEF Ended
    <3>2. Marked(g)' = Marked(g) BY <1>1, <2>4 DEF Marked, Find
    <3>3. Due(g)' = Due(g) BY <2>2, <3>1, <3>2 DEF Due, One
    <3> QED BY <1>1, <2>1, <3>3
  <2> QED BY <2>3, <2>4
<1>6. OpenCovers' BY <1>5 DEF OpenCovers
<1> QED BY <1>2, <1>3, <1>4, <1>6 DEF MarkInv

\* The rest of the event: the DONE message is sent by who it was due to.
LEMMA MarkEvent ==
  ASSUME MarkInv, TableInv', NEW f \in Flows, Event(f)
  PROVE  MarkInv'
<1>1. /\ ct[f] = "none"
      /\ \A g \in Flows : g # f => event'[g] = event[g] /\ open'[g] = open[g]
      /\ UNCHANGED <<ct, table, obj, hook>>
      /\ \/ (Ended(f)' => Ended(f)) /\ open'[f] = open[f]
         \/ Ended(f) /\ ~Ended(f)' /\ open'[f] = open[f] - 1
  BY DEF Event, DestroyRule, SendDone, Ended, MarkInv, TableInv, Types, EventsInTurn
<1>2. HooksKeepFlow' BY <1>1 DEF MarkInv, HooksKeepFlow
<1>3. AddsFresh' BY <1>1 DEF MarkInv, AddsFresh
<1>4. EventsInTurn' BY <1>1 DEF MarkInv, EventsInTurn
<1>5. ASSUME NEW g \in Flows PROVE (Due(g) <= open[g])'
  <2>1. Due(g) <= open[g] /\ open[g] \in Int BY DEF MarkInv, OpenCovers, TableInv, Types
  <2>2. Marking(g)' = Marking(g) /\ Marked(g)' = Marked(g)
    BY <1>1 DEF Marking, Marked, Find
  <2>3. Cardinality(Marking(g)) \in Nat BY DueType
  <2>4. CASE g = f
    <3>1. Due(g)' - open'[g] <= Due(g) - open[g]
      BY <1>1, <2>1, <2>2, <2>3, <2>4 DEF Due, One
    <3>2. Due(g)' \in Int /\ Due(g) \in Int /\ open'[g] \in Int
      BY <1>1, <2>1, <2>2, <2>3, <2>4 DEF Due, One
    <3> QED BY <2>1, <3>1, <3>2
  <2>5. CASE g # f
    <3>1. Ended(g)' = Ended(g) BY <1>1, <2>5 DEF Ended
    <3>2. Due(g)' = Due(g) BY <2>2, <3>1 DEF Due, One
    <3> QED BY <1>1, <2>1, <2>5, <3>2
  <2> QED BY <2>4, <2>5
<1>6. OpenCovers' BY <1>5 DEF OpenCovers
<1> QED BY <1>2, <1>3, <1>4, <1>6 DEF MarkInv

\* Steps that concern neither hooks nor marks.
LEMMA MarkLeftAlone ==
  ASSUME MarkInv, TableInv', UNCHANGED <<table, hook, event, open>>,
         \A x \in Objs : obj'[x].flow = obj[x].flow /\ obj'[x].offloaded = obj[x].offloaded,
         \A f \in Flows : ct'[f] # "none" => ct[f] # "none" \/ event[f] = "none"
  PROVE  MarkInv'
<1>1. \A p \in Cpus : hook[p].at # "idle" => hook[p].obj \in Objs
  BY HookType DEF MarkInv, TableInv, BusyHook
<1>2. HooksKeepFlow' BY <1>1 DEF MarkInv, HooksKeepFlow
<1>3. AddsFresh' BY <1>1 DEF MarkInv, AddsFresh
<1>4. EventsInTurn' BY DEF MarkInv, EventsInTurn
<1>5. \A f \in Flows : Marked(f)' => Marked(f)
  BY DEF Marked, Find, MarkInv, TableInv, Types
<1>6. OpenCovers' BY <1>5, DueLeftAlone
<1> QED BY <1>2, <1>3, <1>4, <1>6 DEF MarkInv

\* Every step keeps what is due covered.
LEMMA MarkKept == ASSUME MarkInv, [Next]_vars, Reuse = FALSE PROVE MarkInv'
<1>0. TableInv' BY TableKept DEF MarkInv
<1>1. CASE UNCHANGED vars BY <1>0, <1>1, MarkLeftAlone DEF vars
<1>2. ASSUME NEW p \in Cpus, Packet(p) PROVE MarkInv'
  BY <1>0, <1>2, MarkFound, MarkNew DEF Packet
<1>3. ASSUME NEW p \in Cpus, Offloading(p) PROVE MarkInv'
  BY <1>0, <1>3, MarkAdd, MarkCreate, MarkAnnounce, MarkMark DEF Offloading
<1>4. ASSUME NEW f \in Flows, DestroyConn(f) PROVE MarkInv'
  BY <1>0, <1>4, MarkDestroy
<1>5. ASSUME NEW f \in Flows, Event(f) PROVE MarkInv'
  BY <1>0, <1>5, MarkEvent
<1>6. ASSUME NEW f \in Flows, CtNew(f) \/ CtClosing(f) \/ RuleLeaves(f) PROVE MarkInv'
  <2>1. UNCHANGED <<table, obj, hook, event, open>>
    BY <1>6 DEF CtNew, CtClosing, RuleLeaves
  <2>2. \A g \in Flows : ct'[g] # "none" => ct[g] # "none" \/ event[g] = "none"
    BY <1>6 DEF CtNew, CtClosing, RuleLeaves, MarkInv, TableInv, Types
  <2> QED BY <1>0, <2>1, <2>2, MarkLeftAlone
<1>7. ASSUME NEW t \in Tuples, OffloadRequest(t) PROVE MarkInv'
  <2>1. PICK o \in SbFind(t) : obj' = [obj EXCEPT ![o].permit = TRUE]
    BY <1>7 DEF OffloadRequest
  <2>2. \A x \in Objs : obj'[x].flow = obj[x].flow /\ obj'[x].offloaded = obj[x].offloaded
    BY <2>1 DEF MarkInv, TableInv, Types, ObjType
  <2>3. UNCHANGED <<ct, table, hook, event, open>> BY <1>7 DEF OffloadRequest
  <2> QED BY <1>0, <2>2, <2>3, MarkLeftAlone
<1> QED BY <1>1, <1>2, <1>3, <1>4, <1>5, <1>6, <1>7 DEF Next, Conntrack

\* At first nothing is due.
LEMMA MarkInit == Init => MarkInv
<1> SUFFICES ASSUME Init PROVE MarkInv OBVIOUS
<1>1. TableInv BY TableInit
<1>2. \A p \in Cpus : hook[p] = Idle BY DEF Init
<1>3. HooksKeepFlow /\ AddsFresh BY <1>2 DEF HooksKeepFlow, AddsFresh, Idle
<1>4. EventsInTurn BY DEF Init, EventsInTurn
<1>5. ASSUME NEW f \in Flows PROVE Due(f) <= open[f]
  <2>1. Marking(f) = {} BY <1>2 DEF Marking, Idle
  <2>2. ~Ended(f) /\ ~Marked(f) /\ open[f] = 0 BY DEF Init, Ended, Marked, Find
  <2> QED BY <2>1, <2>2, FS_EmptySet DEF Due, One
<1>6. OpenCovers BY <1>5 DEF OpenCovers
<1> QED BY <1>1, <1>3, <1>4, <1>6 DEF MarkInv

\* User space gets no DONE message of a flow (fast_classifier_conntrack_event)
\* that its OFFLOADED messages (fast_classifier_post_routing) do not cover, as
\* long as freed memory that a hook still points to is not handed out again.
THEOREM DoneAlwaysFollows == Reuse = FALSE => (Spec => []DoneFollowsOffloaded)
<1> SUFFICES ASSUME Reuse = FALSE PROVE Spec => []DoneFollowsOffloaded OBVIOUS
<1>1. MarkInv /\ [Next]_vars => MarkInv' BY MarkKept
<1>2. MarkInv => DoneFollowsOffloaded
  <2> SUFFICES ASSUME MarkInv, NEW f \in Flows PROVE open[f] >= 0
    BY DEF DoneFollowsOffloaded
  <2>1. Due(f) \in Nat /\ Due(f) <= open[f] /\ open[f] \in Int
    BY DueType DEF MarkInv, OpenCovers, TableInv, Types
  <2> QED BY <2>1
<1> QED BY <1>1, <1>2, MarkInit, PTL DEF Spec
=============================================================================
