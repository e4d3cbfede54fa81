--------------------------- MODULE FastClassifier ---------------------------
(***************************************************************************)
(* The fast classifier, fast-classifier.c: the other connection manager of *)
(* the engine.  It keeps an object for each flow that leaves the box, and  *)
(* makes the engine's rule only when the flow is busy or when user space   *)
(* asks for it; user space is told when a flow is offloaded and when it is *)
(* done.  Hooks run on any processor; sfe_connections_lock protects the    *)
(* table of objects, but an object is also used after the unlock.          *)
(*                                                                         *)
(* The engine is the set of its rules.  Of conntrack (external) the entry  *)
(* of a flow counts, and whether it lets the flow be offloaded.            *)
(***************************************************************************)
EXTENDS Integers, FiniteSets, FiniteSetsExt

CONSTANTS
  Flows, None,
  Objs,          \* memory for objects, struct sfe_connection
  Cpus,          \* processors that run the post routing hook
  OffloadAt,     \* offload_at_pkts
  MaxOpen,       \* bound: OFFLOADED messages without their DONE
  Original(_),   \* the 5-tuple of a flow, as its objects are hashed
  Translated(_), \* its source and its translated destination
  Reverse(_),    \* a tuple with source and destination swapped
  Bucket(_),     \* the hash of a tuple
  Reuse          \* may kmalloc hand out an object that a hook still points to?

ASSUME ClassifierAssumption ==
  /\ OffloadAt \in Nat \ {0} /\ MaxOpen \in Nat
  /\ IsFiniteSet(Objs) /\ IsFiniteSet(Cpus) /\ None \notin Objs
  /\ Reuse \in BOOLEAN
  /\ \A f, g \in Flows : f # g => Original(f) # Original(g)

VARIABLES
  ct,      \* conntrack's entry of a flow: none, live, or closing (TCP)
  rules,   \* the flows that the engine has a rule for
  obj,     \* [flow, hits, permit, offloaded] of each object, freed or not
  heap,    \* objects that are allocated
  table,   \* objects in fc_conn_ht
  size,    \* sfe_connections_size
  hook,    \* where the hook of a processor is: at, with which object and flow
  event,   \* how far the conntrack event of a flow is
  open     \* history: OFFLOADED messages of a flow, less its DONE messages

vars == <<ct, rules, obj, heap, table, size, hook, event, open>>

Idle == [at |-> "idle", obj |-> None, flow |-> None]
NewObj(f) == [flow |-> f, hits |-> 0, permit |-> FALSE, offloaded |-> FALSE]

\* fast_classifier_find_conn
Find(f) == {o \in table : obj[o].flow = f}

\* fast_classifier_sb_find_conn: only the bucket of the tuple is searched
SbMatch(t) == {o \in table : /\ Bucket(Original(obj[o].flow)) = Bucket(t)
                             /\ Translated(obj[o].flow) = t}
SbFind_ForwardOnly(t) == SbMatch(t)
SbFind(t) == IF SbMatch(t) # {} THEN SbMatch(t) ELSE SbMatch(Reverse(t))

Held == {hook[p].obj : p \in Cpus} \ {None}
Adding == {hook[p].obj : p \in {q \in Cpus : hook[q].at = "add"}}

-----------------------------------------------------------------------------
(* Conntrack *)

CtNew(f) ==
  /\ ct[f] = "none" /\ event[f] = "none"
  /\ ct' = [ct EXCEPT ![f] = "live"]
  /\ UNCHANGED <<rules, obj, heap, table, size, hook, event, open>>

CtClosing(f) ==
  /\ ct[f] = "live"
  /\ ct' = [ct EXCEPT ![f] = "closing"]
  /\ UNCHANGED <<rules, obj, heap, table, size, hook, event, open>>

-----------------------------------------------------------------------------
(* fast_classifier_post_routing *)

Wanted(c) == ~c.offloaded /\ (c.permit \/ c.hits >= OffloadAt)

Hit(c) == [c EXCEPT !.hits = Min({@ + 1, OffloadAt})]

\* a flow that goes on to create_rule counts as offloaded at once
PostRoutingFound_MarkedFirst(p, f, o) ==
  /\ hook[p] = Idle
  /\ ct[f] # "none"
  /\ o \in Find(f)
  /\ obj' = [obj EXCEPT ![o] = [Hit(@) EXCEPT !.offloaded = @ \/ Wanted(Hit(obj[o]))]]
  /\ hook' = IF Wanted(Hit(obj[o])) /\ ct[f] = "live"
             THEN [hook EXCEPT ![p] = [at |-> "create", obj |-> o, flow |-> f]]
             ELSE hook
  /\ UNCHANGED <<ct, rules, heap, table, size, event, open>>

\* The flow has an object: count the packet; a flow that is wanted goes on
\* to create_rule, without the lock, unless it is closing.
PostRoutingFound(p, f, o) ==
  /\ hook[p] = Idle
  /\ ct[f] # "none"
  /\ o \in Find(f)
  /\ obj' = [obj EXCEPT ![o] = Hit(@)]
  /\ hook' = IF Wanted(obj'[o]) /\ ct[f] = "live"
             THEN [hook EXCEPT ![p] = [at |-> "create", obj |-> o, flow |-> f]]
             ELSE hook
  /\ UNCHANGED <<ct, rules, heap, table, size, event, open>>

\* It has none: the lock is dropped to look for its devices and for memory.
PostRoutingNew(p, f, o) ==
  /\ hook[p] = Idle
  /\ ct[f] # "none"
  /\ Find(f) = {}
  /\ o \notin heap /\ (Reuse \/ o \notin Held)
  /\ heap' = heap \cup {o}
  /\ obj' = [obj EXCEPT ![o] = NewObj(f)]
  /\ hook' = [hook EXCEPT ![p] = [at |-> "add", obj |-> o, flow |-> f]]
  /\ UNCHANGED <<ct, rules, table, size, event, open>>

\* fast_classifier_add_conn without the second look
AddConn_NoLookup(p) ==
  /\ hook[p].at = "add"
  /\ table' = table \cup {hook[p].obj} /\ size' = size + 1
  /\ hook' = [hook EXCEPT ![p] = Idle]
  /\ UNCHANGED <<ct, rules, obj, heap, event, open>>

\* fast_classifier_add_conn: the hook of another processor may have been
\* faster; then the object is freed.
AddConn(p) ==
  /\ hook[p].at = "add"
  /\ IF Find(hook[p].flow) # {}
     THEN heap' = heap \ {hook[p].obj} /\ UNCHANGED <<table, size>>
     ELSE table' = table \cup {hook[p].obj} /\ size' = size + 1 /\ UNCHANGED heap
  /\ hook' = [hook EXCEPT ![p] = Idle]
  /\ UNCHANGED <<ct, rules, obj, event, open>>

\* The rule is made, or there is one already (-EADDRINUSE), or it fails.  It
\* is of the flow that the object has now.
CreateRule(p) ==
  /\ hook[p].at = "create"
  /\ \/ /\ rules' = rules \cup {obj[hook[p].obj].flow}
        /\ hook' = [hook EXCEPT ![p].at = "announce"]
     \/ /\ obj[hook[p].obj].flow \notin rules
        /\ hook' = [hook EXCEPT ![p] = Idle]
        /\ UNCHANGED rules
  /\ UNCHANGED <<ct, obj, heap, table, size, event, open>>

Announce(p) ==
  /\ hook[p].at = "announce"
  /\ open[hook[p].flow] < MaxOpen
  /\ open' = [open EXCEPT ![hook[p].flow] = @ + 1]
  /\ hook' = [hook EXCEPT ![p].at = "mark"]
  /\ UNCHANGED <<ct, rules, obj, heap, table, size, event>>

\* conn->offloaded = 1, also of an object that was freed meanwhile
Mark(p) ==
  /\ hook[p].at = "mark"
  /\ obj' = [obj EXCEPT ![hook[p].obj].offloaded = TRUE]
  /\ hook' = [hook EXCEPT ![p] = Idle]
  /\ UNCHANGED <<ct, rules, heap, table, size, event, open>>

-----------------------------------------------------------------------------
(* fast_classifier_conntrack_event, in its three parts *)

Destroyed(f) == IF \E o \in Find(f) : obj[o].offloaded THEN "offloaded" ELSE "removed"

\* the size is counted down for a flow without an object, too
DestroyConn_AlwaysCounts(f) ==
  /\ ct[f] # "none"
  /\ ct' = [ct EXCEPT ![f] = "none"]
  /\ table' = table \ Find(f)
  /\ heap' = heap \ Find(f)
  /\ size' = size - 1
  /\ event' = [event EXCEPT ![f] = Destroyed(f)]
  /\ UNCHANGED <<rules, obj, hook, open>>

\* The object leaves the table and is freed.
DestroyConn(f) ==
  /\ ct[f] # "none"
  /\ ct' = [ct EXCEPT ![f] = "none"]
  /\ table' = table \ Find(f)
  /\ heap' = heap \ Find(f)
  /\ size' = size - Cardinality(Find(f))
  /\ event' = [event EXCEPT ![f] = Destroyed(f)]
  /\ UNCHANGED <<rules, obj, hook, open>>

DestroyRule(f) ==
  /\ event[f] \in {"removed", "offloaded"}
  /\ rules' = rules \ {f}
  /\ event' = [event EXCEPT ![f] = IF @ = "offloaded" THEN "done" ELSE "none"]
  /\ UNCHANGED <<ct, obj, heap, table, size, hook, open>>

SendDone(f) ==
  /\ event[f] = "done"
  /\ open' = [open EXCEPT ![f] = @ - 1]
  /\ event' = [event EXCEPT ![f] = "none"]
  /\ UNCHANGED <<ct, rules, obj, heap, table, size, hook>>

-----------------------------------------------------------------------------
\* fast_classifier_offload_genl_msg: user space names a flow by the tuple of
\* a packet, in either direction
OffloadRequest(t) ==
  /\ \E o \in SbFind(t) : obj' = [obj EXCEPT ![o].permit = TRUE]
  /\ UNCHANGED <<ct, rules, heap, table, size, hook, event, open>>

\* The engine gives a rule up: a device goes down (fast_classifier_device_event,
\* fast_classifier_inet_event), or a packet is an exception.
RuleLeaves(f) ==
  /\ f \in rules
  /\ rules' = rules \ {f}
  /\ UNCHANGED <<ct, obj, heap, table, size, hook, event, open>>

-----------------------------------------------------------------------------
Init ==
  /\ ct = [f \in Flows |-> "none"]
  /\ rules = {}
  /\ obj \in [Objs -> {NewObj(f) : f \in Flows}] /\ \A o, q \in Objs : obj[o] = obj[q]
  /\ heap = {} /\ table = {} /\ size = 0
  /\ hook = [p \in Cpus |-> Idle]
  /\ event = [f \in Flows |-> "none"]
  /\ open = [f \in Flows |-> 0]

Packet(p) ==
  \E f \in Flows, o \in Objs : PostRoutingFound(p, f, o) \/ PostRoutingNew(p, f, o)
Offloading(p) == AddConn(p) \/ CreateRule(p) \/ Announce(p) \/ Mark(p)
Conntrack(f) == CtNew(f) \/ CtClosing(f) \/ DestroyConn(f)
Event(f) == DestroyRule(f) \/ SendDone(f)
Tuples == UNION {{Translated(f), Reverse(Translated(f))} : f \in Flows}

Next ==
  \/ \E p \in Cpus : Packet(p) \/ Offloading(p)
  \/ \E f \in Flows : Conntrack(f) \/ Event(f) \/ RuleLeaves(f)
  \/ \E t \in Tuples : OffloadRequest(t)

Spec == Init /\ [][Next]_vars

-----------------------------------------------------------------------------
\* Every variable stays in its type, and a hook that is not idle has an object.
TypeOK ==
  /\ ct \in [Flows -> {"none", "live", "closing"}]
  /\ rules \subseteq Flows
  /\ obj \in [Objs -> [flow : Flows, hits : 0 .. OffloadAt, permit : BOOLEAN,
                       offloaded : BOOLEAN]]
  /\ heap \subseteq Objs /\ table \subseteq Objs /\ size \in Nat
  /\ hook \in [Cpus -> {Idle} \cup
                       [at : {"add", "create", "announce", "mark"}, obj : Objs, flow : Flows]]
  /\ event \in [Flows -> {"none", "removed", "offloaded", "done"}]
  /\ open \in [Flows -> Int]

\* the table has one object of a flow, and the size that debug_info shows
OneObjectPerFlow ==
  /\ \A f \in Flows : Cardinality(Find(f)) <= 1
  /\ size = Cardinality(table)

\* every object in memory is in the table or on its way into it
NoObjectLost == heap = table \cup Adding

\* However the hooks of two processors race to add the first object of a flow,
\* and conntrack events to remove it, the table has one object for it and counts
\* right, no object is lost, and the table holds none that was freed.
TableExact == OneObjectPerFlow /\ NoObjectLost

\* User space sees the end of an offload only after its beginning: a flow has
\* never had more DONE than OFFLOADED messages.
DoneFollowsOffloaded == \A f \in Flows : open[f] >= 0

\* The rest of the flows: their destination is not translated.
Plain(f) == Original(f) = Translated(f)

\* A request by the tuple of a packet of a flow, in either direction, finds
\* the flow's object; for flows whose destination is not translated.
RequestFindsPlainFlow ==
  \A o \in table : LET t == Translated(obj[o].flow) IN
    Plain(obj[o].flow) => SbFind(t) = {o} /\ SbFind(Reverse(t)) = {o}
=============================================================================
