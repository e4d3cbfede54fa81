------------------------------- MODULE SfeIpv4 -------------------------------
(***************************************************************************)
(* The IPv4 engine of the Shortcut Forwarding Engine: sfe_ipv4.c.          *)
(*                                                                         *)
(* The engine keeps a table of offloaded connections behind one spinlock.  *)
(* Packets are forwarded from the table, and what was forwarded is told to *)
(* the connection manager through a sync callback, which must be called    *)
(* WITHOUT the lock.  An action below is one critical section of the lock  *)
(* (or the unlocked work between two of them), so that every interleaving  *)
(* of receive paths, rule creation and destruction, device notifiers and   *)
(* the periodic sync timer is a behaviour.                                 *)
(*                                                                         *)
(* A connection owns two matches, one per direction.  "all" is the list of *)
(* all connections (oldest first), "active" the list of matches that have  *)
(* traffic to report.  The hash tables are what the linked connections and *)
(* their age determine: chains are filled at the head, so of two matches   *)
(* with one key a lookup finds the younger.  Module SfeLists is the        *)
(* pointer-level version of these lists.                                   *)
(*                                                                         *)
(* An operator Op_Fault is Op with a fault that the code could have had:   *)
(* Op is used, and Op_Fault shows which property the fault would violate.  *)
(***************************************************************************)
EXTENDS Integers, Sequences, FiniteSets, Lists

CONSTANTS
  Conns,       \* memory slots for connection objects; kmalloc reuses them
  Devs,        \* network devices
  Tuples,      \* IP 5-tuples
  Rules,       \* the rules that connection managers may ask for
  SyncShare,   \* one timer tick syncs 1/SyncShare of the connections
  MaxCount,    \* bound: packets that one match counts between two syncs
  MaxOwed,     \* bound: packets of one match that are not told of yet
  MaxJiffies,  \* bound: ticks of the clock
  JiffiesRange,\* the clock's counters wrap at this value
  MaxCreating, \* bound: create_rule calls in flight
  DebugReads,  \* is the debug device read?
  AllDevs,     \* the NULL device: destroy_all_rules_for_dev(NULL)
  None         \* no connection, no device, no rule, no message

\* A rule names the 5-tuple of each direction as its packets carry it on
\* arrival, and the device on which they arrive.
RuleType == [orig: Tuples, reply: Tuples, src: Devs, dest: Devs]

ASSUME ConstantsAssumption ==
  /\ Rules \subseteq RuleType
  /\ SyncShare \in Nat \ {0}
  /\ MaxCount \in Nat /\ MaxOwed \in Nat
  /\ MaxJiffies \in Nat
  /\ JiffiesRange \in Nat /\ JiffiesRange > MaxJiffies
  /\ MaxCreating \in Nat
  /\ DebugReads \in BOOLEAN
  /\ None \notin Conns \cup Devs \cup Rules
  /\ AllDevs \notin Devs \cup {None}

ASSUME FiniteAssumption == IsFiniteSet(Conns) /\ IsFiniteSet(Rules)

VARIABLES
  phase,      \* where each connection object is in its life
  rule,       \* the rule of each connection object
  all,        \* list of all connections
  active,     \* list of matches with traffic to sync
  count,      \* packets counted per match since its last sync
  lastSync,   \* last_sync_jiffies of each connection
  credited,   \* history: creation time of each connection, plus the time
              \* increments of the messages generated for it since
  callback,   \* is a sync callback registered?
  jiffies,    \* the clock
  timer,      \* the periodic sync: its place, and its local variables
  creating,   \* rules whose create_rule passed its device check, lock not taken
  teardown,   \* the walk of destroy_all_rules_for_dev
  reg,        \* registration state of each device
  refs,       \* reference count of each device
  owed        \* history: packets forwarded on a slot and not yet told of, except
              \* those of connections flushed while no callback was registered

engine == <<phase, rule, all, active, count, lastSync, credited>>
vars == <<engine, callback, jiffies, timer, creating, teardown, reg, refs, owed>>

Dirs == {"original", "reply"}
Matches == Conns \X Dirs
Phases == {"free", "linked", "removed", "syncing", "releasing"}
Zero == [d \in Dirs |-> 0]
Less(f, g) == [d \in Dirs |-> f[d] - g[d]]
NoMsg == [conn |-> None, new |-> Zero, delta |-> 0]
IdleTimer == [pc |-> "idle", quota |-> 0, now |-> 0, msg |-> NoMsg]
IdleTeardown == [dev |-> None, conn |-> None, unregister |-> FALSE]

Linked == {c \in Conns : phase[c] = "linked"}
Live == {c \in Conns : phase[c] # "free"}

Counter(m) == <<m[1], IF m[2] = "original" THEN "reply" ELSE "original">>

\* find_sfe_ipv4_connection: is there a connection for the rule's tuple?
Known(r) == \E b \in Linked : rule[b].orig = r.orig

\* the receive key of a match: the device and the 5-tuple of its packets
Key(m) == LET r == rule[m[1]]
          IN IF m[2] = "original" THEN <<r.src, r.orig>> ELSE <<r.dest, r.reply>>

Place(c) == CHOOSE i \in DOMAIN all : all[i] = c

\* m was put in the hash after n: insert_connection inserts the original
\* match, then the reply match, at the head of their chains
Younger(m, n) == \/ Place(m[1]) > Place(n[1])
                 \/ m[1] = n[1] /\ m[2] = "reply"

\* find_connection_match: the match a packet of this key is handled by
FoundBy(m, key) ==
  /\ m \in Linked \X Dirs
  /\ Key(m) = key
  /\ \A n \in Linked \X Dirs : Key(n) = key => m = n \/ Younger(m, n)

Uses(c, d) == d = AllDevs \/ rule[c].src = d \/ rule[c].dest = d

\* dev_hold and dev_put of both devices of a rule
Put_SourceTwice(f, r) == [d \in Devs |-> f[d] - (IF r.src = d THEN 2 ELSE 0)]
Hold(f, r) == [d \in Devs |-> f[d] + (IF r.src = d THEN 1 ELSE 0)
                                   + (IF r.dest = d THEN 1 ELSE 0)]
Put(f, r) == [d \in Devs |-> f[d] - (IF r.src = d THEN 1 ELSE 0)
                                  - (IF r.dest = d THEN 1 ELSE 0)]

-----------------------------------------------------------------------------
(* Tables *)

\* the rule is filled in only after the connection can be found
InsertConnection_Unfilled(c, r) ==
  /\ phase' = [phase EXCEPT ![c] = "linked"]
  /\ all' = Append(all, c)
  /\ count' = [count EXCEPT ![c] = Zero]
  /\ UNCHANGED <<rule, lastSync, credited, active>>

\* insert_sfe_ipv4_connection of a fresh object for rule r, its counters zero
InsertConnection(c, r) ==
  /\ phase' = [phase EXCEPT ![c] = "linked"]
  /\ rule' = [rule EXCEPT ![c] = r]
  /\ all' = Append(all, c)
  /\ count' = [count EXCEPT ![c] = Zero]
  /\ lastSync' = [lastSync EXCEPT ![c] = jiffies]
  /\ credited' = [credited EXCEPT ![c] = jiffies]
  /\ UNCHANGED active

\* the reply match stays on the active list
RemoveConnection_ForgetsReply(c) ==
  /\ phase' = [phase EXCEPT ![c] = "removed"]
  /\ all' = Unlink(all, c)
  /\ active' = Unlink(active, <<c, "original">>)
  /\ UNCHANGED <<rule, count, lastSync, credited>>

\* remove_sfe_ipv4_connection: the caller holds the lock, and from then on
\* is the only one that can reach c
RemoveConnection(c) ==
  /\ phase' = [phase EXCEPT ![c] = "removed"]
  /\ all' = Unlink(all, c)
  /\ active' = Unlink(Unlink(active, <<c, "reply">>), <<c, "original">>)
  /\ UNCHANGED <<rule, count, lastSync, credited>>

\* a match that counted its packet joins the end of the active list, once
Queue_AtHead(m) == IF m \in Elems(active) THEN active ELSE <<m>> \o active
Queue(m) == IF m \in Elems(active) THEN active ELSE Append(active, m)

\* the message moves the counts of both matches to the 64-bit totals
ResetCounts_OriginalOnly(c) == [count EXCEPT ![c]["original"] = 0]
ResetCounts(c) == [count EXCEPT ![c] = Zero]

SyncMessage_NoReplies(c, now) ==
  [conn |-> c, new |-> [count[c] EXCEPT !["reply"] = 0],
   delta |-> (now - lastSync[c]) % JiffiesRange]

SyncMessage_OwnClock(c, now) ==
  [conn |-> c, new |-> count[c], delta |-> (jiffies - lastSync[c]) % JiffiesRange]

\* gen_sync_sfe_ipv4_connection: what was counted moves into the message
SyncMessage(c, now) ==
  [conn |-> c, new |-> count[c], delta |-> (now - lastSync[c]) % JiffiesRange]

Credit(msg) ==
  [credited EXCEPT ![msg.conn] = (@ + msg.delta) % JiffiesRange]

-----------------------------------------------------------------------------
(* Receive paths *)

\* A packet that the fast path forwards: counted, and its match queued.
RecvForward(m) ==
  /\ FoundBy(m, Key(m))
  /\ count[m[1]][m[2]] < MaxCount /\ owed[m[1]][m[2]] < MaxOwed
  /\ count' = [count EXCEPT ![m[1]][m[2]] = @ + 1]
  /\ active' = Queue(m)
  /\ owed' = [owed EXCEPT ![m[1]][m[2]] = @ + 1]
  /\ UNCHANGED <<phase, rule, all, lastSync, credited, callback, jiffies, timer,
                 creating, teardown, reg, refs>>

\* A packet the fast path must not forward (IP options, fragment, small TTL,
\* too long, TCP flags, TCP window) and an ICMP error about the connection:
\* the connection goes back to the slow path.
RecvException(m) ==
  /\ FoundBy(m, Key(m))
  /\ RemoveConnection(m[1])
  /\ UNCHANGED <<callback, jiffies, timer, creating, teardown, reg, refs, owed>>

-----------------------------------------------------------------------------
(* flush_sfe_ipv4_connection, run by whoever removed the connection *)

\* without a callback the flush returns early, and nobody frees the connection
FlushBegin_NeedsCallback(c) ==
  /\ phase[c] = "removed" /\ callback
  /\ phase' = [phase EXCEPT ![c] = "syncing"]
  /\ UNCHANGED <<rule, all, active, count, lastSync, credited, callback, jiffies, timer,
                 creating, teardown, reg, refs, owed>>

\* The callback is read under the lock; without one the counts are lost.
FlushBegin(c) ==
  /\ phase[c] = "removed"
  /\ phase' = [phase EXCEPT ![c] = IF callback THEN "syncing" ELSE "releasing"]
  /\ IF callback
     THEN UNCHANGED <<count, owed>>
     ELSE /\ count' = [count EXCEPT ![c] = Zero]
          /\ owed' = [owed EXCEPT ![c] = Less(@, count[c])]
  /\ UNCHANGED <<rule, all, active, lastSync, credited, callback, jiffies, timer,
                 creating, teardown, reg, refs>>

\* The message is generated and handed to the callback, without the lock.
FlushSync(c) ==
  /\ phase[c] = "syncing"
  /\ LET msg == SyncMessage(c, jiffies)
     IN /\ owed' = [owed EXCEPT ![c] = Less(@, msg.new)]
        /\ credited' = Credit(msg)
  /\ count' = ResetCounts(c)
  /\ lastSync' = [lastSync EXCEPT ![c] = jiffies]
  /\ phase' = [phase EXCEPT ![c] = "releasing"]
  /\ UNCHANGED <<rule, all, active, callback, jiffies, timer, creating,
                 teardown, reg, refs>>

\* dev_put of both devices, kfree, and back to the caller.
FlushRelease(c) ==
  /\ phase[c] = "releasing"
  /\ refs' = Put(refs, rule[c])
  /\ phase' = [phase EXCEPT ![c] = "free"]
  /\ rule' = [rule EXCEPT ![c] = None]
  /\ lastSync' = [lastSync EXCEPT ![c] = 0]
  /\ credited' = [credited EXCEPT ![c] = 0]
  /\ teardown' = [teardown EXCEPT !.conn = IF @ = c THEN None ELSE @]
  /\ UNCHANGED <<all, active, count, callback, jiffies, timer, creating, reg, owed>>

-----------------------------------------------------------------------------
(* Rules *)

\* create_rule up to the lock: the caller holds references to both devices,
\* and both are registered.
CreateCheck(r) ==
  /\ r \notin creating
  /\ Cardinality(creating) < MaxCreating
  /\ reg[r.src] = "registered" /\ reg[r.dest] = "registered"
  /\ creating' = creating \cup {r}
  /\ refs' = Hold(refs, r)
  /\ UNCHANGED <<engine, callback, jiffies, timer, teardown, reg, owed>>

\* create_rule that relies on a lookup made before the lock was taken
CreateRule_NoLookup(r, c) ==
  /\ r \in creating
  /\ phase[c] = "free"
  /\ InsertConnection(c, r)
  /\ creating' = creating \ {r}
  /\ refs' = Put(Hold(refs, r), r)
  /\ UNCHANGED <<callback, jiffies, timer, teardown, reg, owed>>

\* create_rule under the lock, when the connection is new and memory is
\* found; the caller then drops its own references.
CreateRule(r, c) ==
  /\ r \in creating
  /\ ~Known(r)
  /\ phase[c] = "free"
  /\ InsertConnection(c, r)
  /\ creating' = creating \ {r}
  /\ refs' = Put(Hold(refs, r), r)
  /\ UNCHANGED <<callback, jiffies, timer, teardown, reg, owed>>

\* create_rule that fails: -EADDRINUSE (the state of the existing connection
\* is refreshed), or -ENOMEM at any of the three allocations.
CreateFail(r) ==
  /\ r \in creating
  /\ creating' = creating \ {r}
  /\ refs' = Put(refs, r)
  /\ UNCHANGED <<engine, callback, jiffies, timer, teardown, reg, owed>>

\* destroy_rule, when it finds the connection.
DestroyRule(c) ==
  /\ phase[c] = "linked"
  /\ RemoveConnection(c)
  /\ UNCHANGED <<callback, jiffies, timer, creating, teardown, reg, refs, owed>>

RegisterCallback(on) ==
  /\ callback # on
  /\ callback' = on
  /\ UNCHANGED <<engine, jiffies, timer, creating, teardown, reg, refs, owed>>

-----------------------------------------------------------------------------
(* destroy_all_rules_for_dev, for one device or (AllDevs) for every one *)

\* NETDEV_DOWN of d, because it goes down or (u) because it is unregistered,
\* or the unloading of a module (AllDevs).
TeardownBegin(d, u) ==
  /\ teardown = IdleTeardown
  /\ IF d = AllDevs THEN ~u ELSE reg[d] = "registered"
  /\ teardown' = [dev |-> d, conn |-> None, unregister |-> u]
  /\ UNCHANGED <<engine, callback, jiffies, timer, creating, reg, refs, owed>>

\* another_round: the oldest connection of the device is removed, and flushed
\* before the next round.
TeardownRound(c) ==
  /\ teardown.dev # None /\ teardown.conn = None
  /\ \E i \in DOMAIN all : /\ c = all[i] /\ Uses(c, teardown.dev)
                           /\ \A j \in 1 .. i - 1 : ~Uses(all[j], teardown.dev)
  /\ RemoveConnection(c)
  /\ teardown' = [teardown EXCEPT !.conn = c]
  /\ UNCHANGED <<callback, jiffies, timer, creating, reg, refs, owed>>

\* No connection of the device is left.  The kernel then goes on, and when it
\* is unregistering the device, marks it so.
TeardownEnd ==
  /\ teardown.dev # None /\ teardown.conn = None
  /\ \A c \in Elems(all) : ~Uses(c, teardown.dev)
  /\ teardown' = IdleTeardown
  /\ reg' = IF teardown.unregister
            THEN [reg EXCEPT ![teardown.dev] = "unregistering"] ELSE reg
  /\ UNCHANGED <<engine, callback, jiffies, timer, creating, refs, owed>>

\* The kernel frees an unregistered device when nobody refers to it.
DeviceFree(d) ==
  /\ reg[d] = "unregistering"
  /\ refs[d] = 0
  /\ reg' = [reg EXCEPT ![d] = "freed"]
  /\ UNCHANGED <<engine, callback, jiffies, timer, creating, teardown, refs, owed>>

-----------------------------------------------------------------------------
(* periodic_sync *)

\* The timer fires: clock and callback are read before the lock is taken.
\* Without a callback the timer is only set again.
TimerStart ==
  /\ timer.pc = "idle"
  /\ callback
  /\ timer' = [IdleTimer EXCEPT !.pc = "begin", !.now = jiffies]
  /\ UNCHANGED <<engine, callback, jiffies, creating, teardown, reg, refs, owed>>

\* One turn of the loop, quota q left: the first match of the active list and,
\* if it is there, its counter match leave the list; their connection's
\* message is generated; the lock is released to deliver it.
SyncTurn(q) ==
  \/ /\ q = 0 \/ active = <<>>
     /\ timer' = IdleTimer
     /\ UNCHANGED engine
  \/ /\ q # 0 /\ active # <<>>
     /\ LET m == Head(active)
            c == m[1]
            msg == SyncMessage(c, timer.now)
        IN /\ active' = Unlink(Tail(active), Counter(m))
           /\ timer' = [timer EXCEPT !.pc = "deliver", !.quota = q - 1,
                                     !.msg = msg]
           /\ credited' = Credit(msg)
           /\ count' = ResetCounts(c)
           /\ lastSync' = [lastSync EXCEPT ![c] = timer.now]
     /\ UNCHANGED <<phase, rule, all>>

SyncQuota == (Len(all) + SyncShare - 1) \div SyncShare

SyncBegin ==
  /\ timer.pc = "begin"
  /\ SyncTurn(SyncQuota)
  /\ UNCHANGED <<callback, jiffies, creating, teardown, reg, refs, owed>>

\* The callback takes the message, the lock not held.
SyncDeliver ==
  /\ timer.pc = "deliver"
  /\ owed' = [owed EXCEPT ![timer.msg.conn] = Less(@, timer.msg.new)]
  /\ timer' = [timer EXCEPT !.pc = "relock", !.msg = NoMsg]
  /\ UNCHANGED <<engine, callback, jiffies, creating, teardown, reg, refs>>

SyncRelock ==
  /\ timer.pc = "relock"
  /\ SyncTurn(timer.quota)
  /\ UNCHANGED <<callback, jiffies, creating, teardown, reg, refs, owed>>

\* A read of the debug device folds the counters of a connection into its
\* totals (rx_packet_count64), where no later message takes them from.
DebugRead(c) ==
  /\ DebugReads
  /\ phase[c] = "linked"
  /\ count' = ResetCounts(c)
  /\ UNCHANGED <<phase, rule, all, active, lastSync, credited, callback, jiffies,
                 timer, creating, teardown, reg, refs, owed>>

\* The clock, which other processors' timer interrupts advance at any time.
Tick ==
  /\ jiffies < MaxJiffies
  /\ jiffies' = jiffies + 1
  /\ UNCHANGED <<engine, callback, timer, creating, teardown, reg, refs, owed>>

-----------------------------------------------------------------------------
Init ==
  /\ phase = [c \in Conns |-> "free"]
  /\ rule = [c \in Conns |-> None]
  /\ all = <<>> /\ active = <<>>
  /\ count = [c \in Conns |-> Zero]
  /\ lastSync = [c \in Conns |-> 0]
  /\ credited = [c \in Conns |-> 0]
  /\ callback = FALSE
  /\ jiffies = 0
  /\ timer = IdleTimer
  /\ creating = {}
  /\ teardown = IdleTeardown
  /\ reg = [d \in Devs |-> "registered"]
  /\ refs = [d \in Devs |-> 0]
  /\ owed = [c \in Conns |-> Zero]

Flush(c) == FlushBegin(c) \/ FlushSync(c) \/ FlushRelease(c)
Timer == TimerStart \/ SyncBegin \/ SyncDeliver \/ SyncRelock
Teardown == (\E c \in Conns : TeardownRound(c)) \/ TeardownEnd

Next ==
  \/ \E m \in Matches : RecvForward(m) \/ RecvException(m)
  \/ \E c \in Conns : Flush(c)
  \/ \E r \in Rules : CreateCheck(r) \/ CreateFail(r)
  \/ \E r \in Rules, c \in Conns : CreateRule(r, c)
  \/ \E c \in Conns : DestroyRule(c) \/ DebugRead(c)
  \/ \E on \in BOOLEAN : RegisterCallback(on)
  \/ \E d \in Devs \cup {AllDevs}, u \in BOOLEAN : TeardownBegin(d, u)
  \/ Teardown
  \/ \E d \in Devs : DeviceFree(d)
  \/ Timer
  \/ Tick

Spec == Init /\ [][Next]_vars

-----------------------------------------------------------------------------
Counts == [Dirs -> 0 .. MaxCount]
Msgs == [conn : Conns \cup {None}, new : Counts, delta : 0 .. JiffiesRange - 1]

Timers == [pc : {"idle", "begin", "deliver", "relock"}, quota : Nat,
           now : 0 .. MaxJiffies, msg : Msgs]

\* Every variable stays in its type: a live connection has a rule, and the
\* timer holds a message exactly between generating and delivering it.
TypeOK ==
  /\ phase \in [Conns -> Phases]
  /\ rule \in [Conns -> Rules \cup {None}]
  /\ \A c \in Live : rule[c] \in Rules
  /\ all \in Seq(Conns) /\ active \in Seq(Matches)
  /\ count \in [Conns -> Counts]
  /\ lastSync \in [Conns -> 0 .. MaxJiffies]
  /\ credited \in [Conns -> 0 .. JiffiesRange - 1]
  /\ callback \in BOOLEAN
  /\ jiffies \in 0 .. MaxJiffies
  /\ timer \in Timers
  /\ timer.pc = "deliver" <=> timer.msg.conn # None
  /\ creating \in SUBSET Rules
  /\ teardown \in [dev : Devs \cup {AllDevs, None}, conn : Conns \cup {None},
                   unregister : BOOLEAN]
  /\ reg \in [Devs -> {"registered", "unregistering", "freed"}]
  /\ refs \in [Devs -> Int]
  /\ owed \in [Conns -> [Dirs -> Int]]

\* Whoever removed a connection owns it: neither list leads to a connection
\* that is being flushed or is freed, and no list holds an entry twice (so
\* the unlinking code, which repairs the neighbours of one entry, is enough).
TablesAgree ==
  /\ Distinct(all) /\ Elems(all) = Linked
  /\ Distinct(active) /\ Elems(active) \subseteq Linked \X Dirs

\* create_rule looks for a connection with the same original 5-tuple and
\* inserts its own under one hold of the lock: no tuple has two connections,
\* although several processors create rules for the packets of one flow.
OneConnectionPerTuple ==
  \A b, c \in Linked : rule[b].orig = rule[c].orig => b = c

\* A match that has counted packets is on the active list, so that a later
\* timer tick reports them: taking the counter match off the list with its
\* partner strands nothing, because the partner's message carries its counts.
CountedIsQueued ==
  \A m \in Linked \X Dirs : count[m[1]][m[2]] > 0 => m \in Elems(active)

\* Every forwarded packet is told once: what a slot still owes is what its
\* matches count, and what the timer's undelivered message carries, also when
\* the connection of that message was flushed meanwhile and its slot reused.
\* It holds while nobody reads the debug device.
ToldOnce ==
  \A c \in Conns, d \in Dirs :
    owed[c][d] = count[c][d] + (IF timer.msg.conn = c THEN timer.msg.new[d] ELSE 0)

ConnsFrom(d) == {c \in Live : rule[c].src = d}
ConnsTo(d) == {c \in Live : rule[c].dest = d}
CallersFrom(d) == {r \in creating : r.src = d}
CallersTo(d) == {r \in creating : r.dest = d}

\* The references on a device are those of the connections, from create_rule
\* to the end of the flush, and of the create_rule callers: no path through
\* creation, failure, destruction and teardown leaks one or drops one twice.
RefsExact ==
  \A d \in Devs :
    refs[d] = Cardinality(ConnsFrom(d)) + Cardinality(ConnsTo(d))
              + Cardinality(CallersFrom(d)) + Cardinality(CallersTo(d))

\* Those references keep the devices: none is freed while a connection, linked
\* or in the flush after it was removed, or a caller about to create one,
\* still points at it.
DevicesOutliveUse ==
  /\ \A c \in Live : reg[rule[c].src] # "freed" /\ reg[rule[c].dest] # "freed"
  /\ \A r \in creating : reg[r.src] # "freed" /\ reg[r.dest] # "freed"

\* The time increments of a connection's messages, and the time since the
\* last of them, add up (modulo the range of the counters) to its age,
\* whichever of the timer, with the clock it read at its start, and the flush
\* generates them: a consumer that adds them up sees the time that passed.
IncrementsAddUp == \A c \in Conns : credited[c] = lastSync[c]

-----------------------------------------------------------------------------
(* Liveness.  The flush, the timer handler, the notifier's walk and create_rule *)
(* are kernel code that nothing stops once it runs; the timer is always set     *)
(* again; packets, rules, devices and debug reads come as they like.            *)

Fairness ==
  /\ \A c \in Conns : WF_vars(Flush(c))
  /\ WF_vars(Timer)
  /\ WF_vars(Teardown)
  /\ \A r \in Rules : WF_vars(CreateFail(r) \/ \E c \in Conns : CreateRule(r, c))

FairSpec == Spec /\ Fairness

\* A queued match gets its turn however busy the others are: the quota is never
\* zero while there is a connection, and new traffic queues behind.
ActiveIsSynced ==
  \A m \in Matches : m \in Elems(active) ~> (m \notin Elems(active) \/ ~callback)

\* The walk of destroy_all_rules_for_dev ends, for every device and every
\* number of rounds, once no more rules are created under it.
TeardownEnds ==
  <>[](creating = {}) => (teardown.dev # None ~> teardown.dev = None)
=============================================================================
