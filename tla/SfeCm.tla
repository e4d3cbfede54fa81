-------------------------------- MODULE SfeCm --------------------------------
(***************************************************************************)
(* The connection manager, sfe_cm.c: it offloads the flows that conntrack  *)
(* knows to the engine (as SfeOffload promises it to be), tells conntrack  *)
(* of the packets that the engine forwarded, and takes a flow back when    *)
(* conntrack destroys it.  Its hooks run on any processor at any time, and *)
(* none of them holds a lock while it goes from conntrack to the engine.   *)
(*                                                                         *)
(* Conntrack is external: modelled are its entries, as far as sfe_cm.c     *)
(* reads and writes them.  Time stands still: nothing here reads the clock *)
(* but the engine, for increments that SfeIpv4 is checked for.             *)
(***************************************************************************)
EXTENDS Integers, FiniteSets, Functions

CONSTANTS
  Conns, Flows, MaxCount, MaxJiffies, JiffiesRange, None,   \* see SfeOffload
  RejectPeriod,\* post_routing rejects flows with more packets quickly (256)
  MaxCarried,  \* bound: packets of a conntrack entry
  Unloads      \* may the module be unloaded?

ASSUME CmAssumption ==
  /\ IsFiniteSet(Conns)
  /\ None \notin Conns \cup Flows
  /\ RejectPeriod \in Nat \ {0} /\ MaxCarried \in Nat
  /\ Unloads \in BOOLEAN

VARIABLES
  state, flow, untold, lastSync, msg, callback, jiffies,    \* see SfeOffload
  protocol,    \* TCP or UDP, of each flow
  ct,          \* the conntrack entry of each flow
  msgFlow,     \* the flow that the timer's message names
  creating,    \* flows between the checks of post_routing and create_rule
  hooks,       \* what the module has registered, apart from the callback
  module,      \* how far its init or exit is
  carried      \* history: packets of a flow since its conntrack entry was
               \* made, but those the engine dropped for want of a callback

offload == <<state, flow, untold, lastSync, msg, callback, jiffies>>
cm == <<protocol, msgFlow, creating, hooks, module>>
vars == <<offload, ct, cm, carried>>

Engine == INSTANCE SfeOffload WITH Tuple <- [f \in Flows |-> f]

Dirs == {"original", "reply"}
Zero == [d \in Dirs |-> 0]
Plus(a, b) == [d \in Dirs |-> a[d] + b[d]]
NewEntry == [acct |-> Zero, assured |-> FALSE, tcp |-> "opening"]

ConnOf(f) == {c \in Engine!Offloaded : flow[c] = f}

-----------------------------------------------------------------------------
(* Conntrack, and packets of the slow path (some of which were already on   *)
(* their way when their flow was offloaded)                                 *)

CtNew(f) ==
  /\ ct[f] = None
  /\ ct' = [ct EXCEPT ![f] = NewEntry]
  /\ carried' = [carried EXCEPT ![f] = Zero]
  /\ UNCHANGED <<offload, cm>>

\* a reply makes a UDP entry assured, and a TCP connection established
SlowPacket(f, d) ==
  /\ ct[f] # None
  /\ carried[f][d] < MaxCarried
  /\ ct' = [ct EXCEPT ![f].acct[d] = @ + 1,
                      ![f].assured = @ \/ d = "reply",
                      ![f].tcp = IF d = "reply" /\ @ = "opening" THEN "established" ELSE @]
  /\ carried' = [carried EXCEPT ![f][d] = @ + 1]
  /\ UNCHANGED <<offload, cm>>

SlowFin(f) ==
  /\ protocol[f] = "tcp" /\ ct[f] # None
  /\ ct[f].tcp = "established"
  /\ ct' = [ct EXCEPT ![f].tcp = "closing"]
  /\ UNCHANGED <<offload, cm, carried>>

\* The entry times out or is deleted: sfe_cm_conntrack_event destroys the rule
\* of its original tuple, if the notifier is registered and a rule is there.
CtDestroy(f) ==
  /\ ct[f] # None
  /\ ct' = [ct EXCEPT ![f] = None]
  /\ IF "events" \in hooks /\ ConnOf(f) # {}
     THEN \E c \in ConnOf(f) : Engine!Close(c)
     ELSE UNCHANGED offload
  /\ UNCHANGED <<cm, carried>>

-----------------------------------------------------------------------------
(* sfe_cm_post_routing of a packet in direction d: all it reads of the      *)
(* entry, and then create_rule                                              *)

\* Of a flow with many packets, only every RejectPeriod-th is looked at.
Rejected(e, d) == e.acct[d] >= RejectPeriod /\ e.acct[d] % RejectPeriod # 0

PostRouting(f, d) ==
  /\ "routing" \in hooks
  /\ f \notin creating
  /\ ct[f] # None
  /\ ~Rejected(ct[f], d)
  /\ protocol[f] = "tcp" => ct[f].assured /\ ct[f].tcp = "established"
  /\ creating' = creating \cup {f}
  /\ UNCHANGED <<protocol, offload, ct, msgFlow, hooks, module, carried>>

CreateRule(f, c) ==
  /\ f \in creating
  /\ Engine!Offload(c, f)
  /\ creating' = creating \ {f}
  /\ UNCHANGED <<protocol, ct, msgFlow, hooks, module, carried>>

\* a device or a bridge was not found, the rule exists, or memory ran out
CreateFail(f) ==
  /\ f \in creating
  /\ creating' = creating \ {f}
  /\ UNCHANGED <<protocol, offload, ct, msgFlow, hooks, module, carried>>

-----------------------------------------------------------------------------
(* The fast path *)

FastPacket(c, d) ==
  /\ "receive" \in hooks
  /\ Engine!Forward(c, d)
  /\ carried[flow[c]][d] < MaxCarried
  /\ carried' = [carried EXCEPT ![flow[c]][d] = @ + 1]
  /\ UNCHANGED <<ct, cm>>

\* an exception packet, or sfe_cm_device_event and sfe_cm_inet_event
LeaveFastPath(c) ==
  /\ Engine!Close(c)
  /\ UNCHANGED <<ct, cm, carried>>

-----------------------------------------------------------------------------
(* sfe_cm_sync_rule *)

\* the reply counter is read before the message is added to it
SyncEntry_AssureFirst(e, f, new) ==
  [e EXCEPT !.acct = Plus(@, new),
            !.assured = @ \/ (protocol[f] = "udp" /\ e.acct["reply"] # 0)]

\* what a message does to the entry: the accounting, and for a UDP flow that
\* the engine saw replies of, what conntrack does when it sees one
SyncEntry(e, f, new) ==
  [e EXCEPT !.acct = Plus(@, new),
            !.assured = @ \/ (protocol[f] = "udp" /\ Plus(e.acct, new)["reply"] # 0)]

\* A flow that conntrack saw closing is not updated any more.
SyncRule_EstablishedOnly(f, new) ==
  ct' = IF ct[f] = None \/ ct[f].tcp = "closing" THEN ct
        ELSE [ct EXCEPT ![f] = SyncEntry(@, f, new)]

\* the entry is looked up by the tuple of the message
SyncRule(f, new) ==
  ct' = IF ct[f] = None THEN ct ELSE [ct EXCEPT ![f] = SyncEntry(@, f, new)]

TimerReport(c) ==
  /\ callback
  /\ Engine!Report(c, jiffies)
  /\ msgFlow' = flow[c]
  /\ UNCHANGED <<protocol, ct, creating, hooks, module, carried>>

\* The message is delivered and then not forgotten.
TimerDeliver ==
  /\ Engine!Deliver
  /\ SyncRule(msgFlow, msg.new)
  /\ msgFlow' = None
  /\ UNCHANGED <<protocol, creating, hooks, module, carried>>

FinalSync(c) ==
  /\ Engine!Final(c)
  /\ SyncRule(flow[c], untold[c])
  /\ UNCHANGED <<cm, carried>>

FinalDrop(c) ==
  /\ Engine!Drop(c)
  /\ carried' = [carried EXCEPT ![flow[c]] = [d \in Dirs |-> @[d] - untold[c][d]]]
  /\ UNCHANGED <<ct, cm>>

Release(c) ==
  /\ Engine!Release(c)
  /\ UNCHANGED <<ct, cm, carried>>

-----------------------------------------------------------------------------
(* sfe_cm_init and sfe_cm_exit, step by step *)

ModuleStep(from, to) == module = from /\ module' = to

InitHook(from, hook, to) ==
  /\ ModuleStep(from, to)
  /\ hooks' = hooks \cup {hook}
  /\ UNCHANGED <<protocol, offload, ct, msgFlow, creating, carried>>

InitCallback ==
  /\ ModuleStep("received", "loaded")
  /\ Engine!Register(TRUE)
  /\ UNCHANGED <<protocol, ct, msgFlow, creating, hooks, carried>>

\* The notifier is not to be had: the netfilter hooks are unregistered again,
\* and what they offloaded stays with the engine.
InitFail ==
  /\ ModuleStep("routed", "unloaded")
  /\ creating = {}
  /\ hooks' = {}
  /\ UNCHANGED <<protocol, offload, ct, msgFlow, creating, carried>>

ModuleInit ==
  \/ InitHook("unloaded", "routing", "routed")
  \/ InitHook("routed", "events", "evented")
  \/ InitHook("evented", "receive", "received")
  \/ InitCallback
  \/ InitFail

ExitCallback ==
  /\ Unloads
  /\ ModuleStep("loaded", "silent")
  /\ Engine!Register(FALSE)
  /\ UNCHANGED <<protocol, ct, msgFlow, creating, hooks, carried>>

ExitHook(from, hook, to) ==
  /\ ModuleStep(from, to)
  /\ hooks' = hooks \ {hook}
  /\ UNCHANGED <<protocol, offload, ct, msgFlow, creating, carried>>

\* a round of destroy_all_rules_for_dev(NULL)
ExitDestroy(c) ==
  /\ module = "deaf"
  /\ Engine!Close(c)
  /\ UNCHANGED <<ct, cm, carried>>

\* no connection is left, and the walk waited for its own flushes
ExitDestroyed ==
  /\ ModuleStep("deaf", "destroyed")
  /\ Engine!Offloaded = {}
  /\ UNCHANGED <<protocol, offload, ct, msgFlow, creating, hooks, carried>>

\* nf_unregister_hooks waits for the hooks, and the timer, that are running
ExitRouting ==
  /\ ModuleStep("eventless", "unloaded")
  /\ creating = {} /\ msgFlow = None
  /\ hooks' = hooks \ {"routing"}
  /\ UNCHANGED <<protocol, offload, ct, msgFlow, creating, carried>>

ModuleExit ==
  \/ ExitCallback
  \/ ExitHook("silent", "receive", "deaf")
  \/ \E c \in Conns : ExitDestroy(c)
  \/ ExitDestroyed
  \/ ExitHook("destroyed", "events", "eventless")
  \/ ExitRouting

-----------------------------------------------------------------------------
Init ==
  /\ Engine!Init
  /\ protocol \in [Flows -> {"tcp", "udp"}]
  /\ ct = [f \in Flows |-> None]
  /\ msgFlow = None
  /\ creating = {}
  /\ hooks = {}
  /\ module = "unloaded"
  /\ carried = [f \in Flows |-> Zero]

Conntrack(f) == CtNew(f) \/ SlowFin(f) \/ CtDestroy(f) \/ \E d \in Dirs : SlowPacket(f, d)
Create(f) == \/ CreateFail(f)
             \/ \E d \in Dirs : PostRouting(f, d)
             \/ \E c \in Conns : CreateRule(f, c)
Sync(c) == FinalSync(c) \/ FinalDrop(c) \/ Release(c) \/ TimerReport(c)
FastPath(c) == LeaveFastPath(c) \/ \E d \in Dirs : FastPacket(c, d)

Next ==
  \/ ModuleInit
  \/ ModuleExit
  \/ \E f \in Flows : Conntrack(f) \/ Create(f)
  \/ \E c \in Conns : FastPath(c) \/ Sync(c)
  \/ TimerDeliver

Spec == Init /\ [][Next]_vars

-----------------------------------------------------------------------------
Entries == [acct : [Dirs -> Nat], assured : BOOLEAN,
            tcp : {"opening", "established", "closing"}]

\* TypeOK: every variable stays in its type; a message names a flow exactly as
\* long as it is under way.
TypeOK ==
  /\ protocol \in [Flows -> {"tcp", "udp"}]
  /\ ct \in [Flows -> Entries \cup {None}]
  /\ msgFlow \in Flows \cup {None} /\ (msgFlow = None <=> msg.conn = None)
  /\ creating \subseteq Flows
  /\ hooks \subseteq {"routing", "events", "receive"}
  /\ module \in {"unloaded", "routed", "evented", "received", "loaded", "silent",
                 "deaf", "destroyed", "eventless"}
  /\ carried \in [Flows -> [Dirs -> Int]]

\* What the engine still has to tell of a flow: a connection for each time that
\* it was offloaded, and the message under way.
UntoldOf(f, d) ==
  SumFunctionOnSet([c \in Conns |-> untold[c][d]], {c \in Conns : flow[c] = f})
Pending(f, d) == UntoldOf(f, d) + (IF msgFlow = f THEN msg.new[d] ELSE 0)

\* Conntrack's accounting of a flow misses nothing: whoever carried its packets
\* since its entry was made, they are in the entry's counters or still to come,
\* although messages arrive late, out of order, and after the flow was closed,
\* offloaded again, or its entry was replaced.
NoPacketUnaccounted ==
  \A f \in Flows, d \in Dirs :
    ct[f] # None => carried[f][d] <= ct[f].acct[d] + Pending(f, d)

\* A UDP entry that has replies on its account is assured, as it would be if
\* conntrack had seen them: its timeout is that of a stream, also when the
\* engine carried every reply.
AssuredOnceReplied ==
  \A f \in Flows :
    protocol[f] = "udp" /\ ct[f] # None /\ ct[f].acct["reply"] # 0 => ct[f].assured
=============================================================================
