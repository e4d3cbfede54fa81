# Formal models of Opuntia's packet acceleration and modem driver

Opuntia is a router distribution built on OpenWrt. This directory models, checks
and proves properties of the parts of it that are concurrent programs of their own:
the Shortcut Forwarding Engine (SFE) under `src/qca/src/shortcut-fe`, Linux kernel
modules that take established flows out of the network stack and forward their
packets from a private connection table, and GobiNet, the kernel driver of its
cellular modems, under `src/opuntia_imagestream/package/gobi3k/src/GobiNet`. Line
numbers below are those of the files in `src/`.

## 1. Inventory

### What the repository holds

| Part | Where | State, operations | Here |
| --- | --- | --- | --- |
| SFE IPv4 engine | `shortcut-fe/sfe_ipv4.c` | connection table, active list, per-direction counters, a sync timer | modelled |
| its lists | same file | hash chains, connection hash, two doubly linked lists | modelled |
| TCP window tracking | `sfe_ipv4.c` 1465-1539, 1680-1860, 2343-2385; `sfe_cm.c` 838-859 | window limits of each direction, SACK edges | modelled |
| header translation | `sfe_ipv4.c` 510-529, 636-720; `sfe_ipv6.c` 676-773 | incremental checksums | arithmetic, proved |
| SFE connection manager | `shortcut-fe/sfe_cm.c`, `sfe_backport.h` | netfilter hook, conntrack notifier, device notifiers, sync callback, init/exit | modelled in most parts |
| fast-classifier | `fast-classifier/fast-classifier.c` | own connection hash, netlink messages, `offloaded` flags | modelled in most parts |
| GobiNet, QMI | `GobiNet/QMIDevice.c` | clients, unread messages, notify and URB lists of one control channel | modelled in most parts |
| GobiNet, transmission | `GobiNet/GobiUSBNet.c` | transmit queue, AutoPM thread, power management | modelled in most parts |
| simulated driver | `simulated-driver/sfe_drv.c` | registration, response queue and worker of a double of the hardware engine | modelled in most parts |
| SFE IPv6 engine | `shortcut-fe/sfe_ipv6.c` | a port of the IPv4 engine | not modelled: the same control |
| flow cookies | `sfe_ipv4.c` 780-807, 818-846, 3382-3432 | table indexed by hardware | not modelled: compiled out |
| GobiNet messages, GobiSerial | `GobiNet/QMI.c`, `GobiSerial` | filling and parsing of buffers, device ids | not modelled |
| GobiAPI | `gobi3k/src/GobiAPI` | vendor library | not modelled: third party |
| WWAN managers | `man3g`, `3g_connmgr`, `netifd-qmi`, `netifd-ndis` | supervisors of modems | not modelled: I/O with other programs |
| statistics, LEDs, LuCI pages, API, init scripts | other packages of `opuntia_imagestream/package` | no protocol of their own | not modelled |
| feeds, patches, configs, overlay | `qca/feeds`, `patches*`, `configs`, `overlay` | vendored sources and build recipes | not modelled |

### The components and how they interact

**Engine** (`sfe_ipv4.c`). State: the table of connections behind one spinlock
(`struct sfe_ipv4`, 397-472), each connection with two *matches*, one per
direction; the *active list* of matches with traffic to report; a sync callback
under RCU. Operations: `recv` (forward a packet, or give the flow back to the slow
path), `create_rule`, `destroy_rule`, `destroy_all_rules_for_dev`, the periodic
sync timer, `register_sync_rule_callback`, the debug character device. The callback
must run without the lock, so both a flush and the timer release the lock half way
through. A match of a TCP flow also keeps the window of its sender, which the
receive path checks and moves.

**Connection manager** (`sfe_cm.c`). It calls the engine from a netfilter hook
(`post_routing` → `create_rule`), from the conntrack notifier (`conntrack_event` →
`destroy_rule`), from device and address notifiers (→ `destroy_all_rules_for_dev`)
and from the receive hook; the engine calls it back with sync messages, which it
adds to the conntrack entry with the message's tuple. None of these holds a lock
from one side to the other, and all run on any processor.

**Fast-classifier** (`fast-classifier.c`). The other manager, loaded in place of the
first. It keeps an object per flow in a hash table behind `sfe_connections_lock` and
makes the rule only when a flow has had enough packets or when user space asks for
it by netlink; it tells user space of the beginning and the end of an offload.

**Simulated driver** (`sfe_drv.c`). It stands in for a hardware engine: a manager that is
not in the repository (ECM) registers a callback and sends messages that create and
destroy rules; the driver executes them in the engine at once and queues a response,
which a work item calls back later. What the engine syncs goes to the registered
callback directly, from whatever context the engine calls.

**Devices** are reference counted by all of them (`dev_hold`, `dev_put`).

**GobiNet, QMI** (`QMIDevice.c`). Threads of user space and the driver itself share
one control channel to the modem. Each *client* has memory with unread messages,
readers to notify and write URBs, in a list behind `mClientMemLock`; client 0
carries the requests that get and release the others. `ReadCallback` hands messages
out in interrupt context; notifications run with the lock dropped.

**GobiNet, transmission** (`GobiUSBNet.c`). The network layer queues packets; a
thread submits one at a time and holds a power management reference while it is
under way. It is woken up by the queue, by the URB's callback, by a resume, by the
transmit timeout and by the stop of the interface.

### What is hard, and what makes each part correct

* Engine: a packet counted once is told once, whoever of timer, flush and receive
  path comes first; lists lead to live objects only; references are exact; every
  active match is eventually synced; walks that drop the lock end.
* Lists: hand-written pointer surgery in five places, one of them (move to front)
  on every lookup; one key can have two matches.
* TCP window tracking: 32-bit arithmetic that wraps, limits that both directions,
  conntrack and late messages move: an honest packet passes, nothing goes back.
* Connection manager: it acts on what it read of conntrack earlier; messages are
  late, can pass one another, and can meet another conntrack entry; its exit stops
  its hooks in a fixed order; failure paths leave `post_routing` at several labels.
* fast-classifier: objects used after their lock is released, first packets on two
  processors, messages to user space in order, a lookup by a tuple that is not the
  one objects are hashed by.
* simulated driver: rules and their answers take different ways and contexts;
  registration, queue, worker and exit meet in any order.
* QMI: no reader is left asleep, an answer goes to its own request, a client is
  not lost while the list changes under a walk that drops the lock.
* Transmission: one packet under way, one reference exactly as long, order kept
  over failures, no wakeup lost.

The list with lines is `hazards` in `PROJECT.json`; a hazard without properties says
why none covers it.

## 2. Modules

    Lists ── SfeIpv4 ── SfeIpv4Refines ──> SfeOffload <── SfeCm ·· SfePostRouting
      │                                        ↑            ·
      │                                      SfeDrv    FastClassifier
      └── SfeTables <── SfeLists

    SfeTcpWindow    SfeChecksum    QmiDevice    GobiAutoPm

`A ──> B` reads "A is shown to implement B", `A <── B` "B is built on, or implements, A".
The theorems about a module `M` are in `MProofs`, those about `SfeIpv4Refines` in
`SfeIpv4Proofs`, those about `SfeTcpWindow` and `SfeChecksum` in `SfeReceiveProofs`, those
about `GobiAutoPm` and `QmiDevice` in `GobiNetProofs`, those about `SfePostRouting` with the
other module of `sfe_cm.c` in `SfeCmProofs`; lemmas about the operators that
several modules use are in `OperatorProofs`.

| Module | Models | Lines of code |
| --- | --- | --- |
| `Lists` | sequences without duplicates: `Elems`, `Distinct`, `Unlink` | the list idiom of `sfe_ipv4.c` |
| `SfeIpv4` | the engine at the grain of its critical sections | `sfe_ipv4.c` |
| `SfeTables` | what the engine's lists promise, as sequences | `sfe_ipv4.c` 550-618, 761-882, 980-1068, 2834-2890 |
| `SfeLists` | the same lists as heads, tails, `next` and `prev` | same |
| `SfeOffload` | what the engine promises to a connection manager | `sfe_ipv4.c`, interface |
| `SfeIpv4Refines` | the mapping from `SfeIpv4` to `SfeOffload` | |
| `SfeTcpWindow` | windows of one TCP connection in engine, manager and conntrack, between two ends that follow TCP | `sfe_ipv4.c` 1465-1860, 2343-2385, `sfe_cm.c` 458-494, 838-859 |
| `SfeChecksum` | checksum adjustments, as operators | `sfe_ipv4.c` 510-529, 636-720, 1318-1371, 1874-1922; `sfe_ipv6.c` 676-773 |
| `SfeCm` | the connection manager over `SfeOffload`, conntrack external | `sfe_cm.c` |
| `SfePostRouting` | device references inside `sfe_cm_post_routing` | `sfe_cm.c` 201-272, 550-635 |
| `FastClassifier` | the fast-classifier's objects, rules and messages | `fast-classifier.c` 557-737, 960-1110, 1182-1325 |
| `SfeDrv` | the simulated driver over `SfeOffload`, its client external | `sfe_drv.c` 198-434, 445-735, 1275-1310 |
| `QmiDevice` | the control channel and its clients | `QMIDevice.c` |
| `GobiAutoPm` | transmission and power management | `GobiUSBNet.c` 172-327, 479-1015 |
| `OperatorProofs` | lemmas about lists and about sums over finite sets | |
| `*Proofs` | theorems | |
| `MC*` | values of the constants for TLC | |

### State and actions

`SfeIpv4`. A connection object is a memory slot `c` with a `phase`: `free`, `linked`
(in the tables), `removed` (taken out by someone who now owns it), `syncing` and
`releasing` (inside `flush_sfe_ipv4_connection`). `all` is `all_connections_head ..
_tail`, `active` is `active_head .. _tail`; `count[c][d]` are the packet counters of a
match since the last sync. An action is one hold of `si->lock`, or one stretch of
unlocked work: `FlushBegin`, `FlushSync` and `FlushRelease` are the three parts of a
flush, `TimerStart`, `SyncBegin`, `SyncDeliver`, `SyncRelock` those of
`periodic_sync` with its unlock around the callback at 2894-2896, `CreateCheck` and
`CreateRule` the two sides of the lock in `create_rule`, `TeardownRound` a round of
`another_round`. `owed` and `credited` are history variables. The receive paths of
UDP, TCP and ICMP differ only in why they forward or give up, and are two actions.

`SfeTables` and `SfeLists` have one action per critical section that touches lists:
`Insert`, `Remove`, `Receive` (lookup with move to front, then activation), `SyncHead`
(the timer's removal of a match and of its counter match). In `SfeLists` a pointer
of an object outside the tables is `Junk`, so that code that relies on a field
which nobody assigned is caught.

`SfeOffload` forgets lists, locks, timer places and references: a connection is
`free`, `offloaded`, `closing` or `closed`, and the timer's message is under way or not.

`SfeCm` uses the actions of `SfeOffload` for the engine's steps. `post_routing` is
two actions, everything up to the call of `create_rule` (`PostRouting`) and the call
(`CreateRule`, `CreateFail`), since conntrack moves on in between. `ModuleInit` and
`ModuleExit` go through registration and unregistration one call at a time.
`SyncRule` is one action: its counters are atomic and only grow, and the assured bit
is read and set last, so between its lines a reader can only see less of the message.

`SfePostRouting` has one action per call that takes or puts a reference; `call[t]`
holds the local variables of a call.

`SfeTcpWindow`. `win` and `ct` are the engine's and conntrack's maxWin, end and maxEnd
of each direction; numbers of the box are modulo `M`, those of the ends (`snd`, `rcv`)
are not. `Forward` is the window check and update of `recv_tcp`; `RemoveRule` its
exceptions; `Miss`, `SlowPath` and `CreateRule` the way of a packet by conntrack to
`create_rule`, which reads the values and uses them later; `TimerSync`, `RemoveRule` and
`Sync` messages to `sfe_cm_sync_rule`. `cpu[d]` is the processor of a direction: it
handles one thing at a time, the other direction's runs in between. An action reads or
writes all values of a connection at once; the code copies them field by field, under
`si->lock` or `ct->lock`. The flag that turns the check off (`NO_SEQ_CHECK`) is not set.
Window scaling is taken as done, so a window is in bytes.

`SfeChecksum` follows the C expressions: a half word sum, the fold of its carry, the
one's complement; the link from the old header to the new one is in the theorems.

`FastClassifier`. `obj` is memory, whether allocated (`heap`) or not; `table` is the hash
table. The hook is split where it drops the lock: `PostRoutingFound`, `CreateRule`,
`Announce`, `Mark` for a known flow, `PostRoutingNew` and `AddConn` for a new one; the
conntrack event is `DestroyConn`, `DestroyRule`, `SendDone`. A freed object keeps its
fields, as freed memory does until it is used again.

`SfeDrv`. `tx[t]` is the message that a sender is executing, from the allocation of its
response to `schedule_work`; `queue` is `msg_queue`, `work` the pending bit of the work item,
`worker` and `hold` the worker between popping a response and freeing it. `sync[r]` is the
sync callback in the context `r` that the engine calls it from: the timer, a packet, the
exit, or a sender that destroys a rule. Registration and unregistration are one action
per word that readers without the lock can see. Of the client it is assumed that it
sends while it is registered, unregisters when it is not sending, and waits for RCU
readers before it registers again. Counts and time stand still. In the code the other
family of addresses shares the queue, and each family takes and leaves its own entries.

`QmiDevice`. One action is one critical section; `th[t]` is where a thread is in
`WriteSync`, `ReadSync`, `GetClientID` or `ReleaseClientID`, `hand[h]` the notify entry
that a thread or `ReadCallback` has popped and is about to call with the lock dropped,
`cb` the walk of `ReadCallback` over the clients of a message. A saved `next` pointer is
kept (`nxt`) where the code keeps one.

`GobiAutoPm`. `thread` is the line of the AutoPM thread, split at every lock and at
every call that another part can come between; `killer` are the pointers that the
thread and the transmit timeout have read and are about to kill. `pm` counts the
references on the interface.

An operator `Op_Fault` next to `Op` is `Op` with a fault that the code could plausibly
have had. It is not part of the specification: replacing `Op` by it shows that a
property would notice.

## 3. Runs

Deadlock is not checked (`CHECK_DEADLOCK FALSE`) where the bounds, or an idle system
with nothing to do, let the system stop.

| Run | Config | Shows | Bounds |
| --- | --- | --- | --- |
| `engine` | `MCSfeIpv4.cfg` | `TypeOK`, `TablesAgree`, `OneConnectionPerTuple`, `RefsExact` | 2 slots, 2 flows with one reply tuple, 2 devices, debug reads |
| `promise` | `MCSfeIpv4Refines.cfg` | `CountedIsQueued`, `ToldOnce`, `IncrementsAddUp`, `Implements` | 2 slots, 1 flow on one device, 2 packets untold, 1 tick, counters that wrap at 4 |
| `sync_liveness` | `MCSfeIpv4Live.cfg` | `ActiveIsSynced`, `TeardownEnds` | 2 slots, 2 flows on one device, a 64th per tick |
| `lists` | `MCSfeLists.cfg` | `ChainsAgree`, `LookupFindsYoungest`, `NoDanglingPointer`, `Refines` | 3 connections, 5 keys in 2 buckets, two flows with one reply key |
| `tcp_window` | `MCSfeTcpWindow.cfg` | `HonestPass`, `EndWasSent`, `GrantBounded`, `ConntrackCaughtUp`, `WindowsMoveForwards` | 3 bytes one way from number 29, modulo 32, windows up to 2, 1 packet per direction before the box |
| `accounting` | `MCSfeCm.cfg` | `NoPacketUnaccounted`, `AssuredOnceReplied` | 1 flow, TCP or UDP, 2 connection objects, 2 packets per direction and entry, load and unload |
| `device_references` | `MCSfePostRouting.cfg` | `ReferencesBalance` | 2 calls, a port, a bridge, a plain device, 1 rule |
| `fast_classifier` | `MCFastClassifier.cfg` | `TypeOK`, `TableExact`, `DoneFollowsOffloaded`, `RequestFindsPlainFlow` | 2 flows, one with a translated destination, 2 objects, 2 processors, offload at the 2nd packet |
| `driver` | `MCSfeDrv.cfg` | `AnswersInOrder`, `RuleIsKnown`, `NothingOutlives`, `AnswersArrive` | 2 senders, 2 messages, 2 registrations, 1 flow, unload |
| `client_memory` | `MCQmiDevice.cfg` | `TypeOK`, `ReadersWake`, `OwnAnswer`, `FileKeepsClient`, `WdsStaysArmed` | 2 threads, 2 files, 2 ids, 4 transaction ids, 1 unread message per client, deregistration |
| `autopm` | `MCGobiAutoPm.cfg` | `PmTypeOK`, `OneInFlight`, `PmExact`, `SentInOrder`, `PacketsLeave` | 4 packets, a queue of 2, 2 opens, 2 suspensions, 1 timeout, 1 failed resume |

`MCSfeTcpWindow` also evaluates the checksum arithmetic as assumptions, at half words
of ten values and on words around the carries.

One run ends in a violation, a disagreement between the code and what it says of itself
(`findings` in `PROJECT.json` has the quotation):

| Run | Property | What happens |
| --- | --- | --- |
| `bridge_put_twice` | `PortsReleasedToo` | a bridge port's reference is leaked and its bridge is put once too often |

### Why these bounds are enough

*Engine.* Two slots let one connection be flushed, or be in the timer's message,
while the other takes its place with the same tuple; in `engine` the two flows share
a reply tuple, so a lookup has to choose, and two devices go down separately. What is
told is a matter of one flow: `promise` has the bounds for it. `MaxCount` 1 and
`MaxOwed` 2 there let a match count a packet while an earlier one is still in an
undelivered message; a third packet adds nothing, since counters are only added and
cleared. One tick is enough for a connection to be younger than the clock that the
timer read: its increment is then negative and wraps. Debug reads are on in `engine`
only, because `ToldOnce` and `Implements` are false with them; there `MaxOwed` is 1,
since a packet that a debug read took stays owed for ever. `SyncShare` is the code's 64
there; in `promise` it is 1, so that one run of the timer syncs more than one match.
`MaxCreating` 1 leaves one
call of `create_rule` before the lock at a time; races of two creations are races of
the second action with a linked connection, which are covered. The theorems below
hold without these bounds.

*Lists.* Three connections are six matches over two buckets, chains of up to four
entries or more: first, middle and last position, and both neighbours, occur in every
removal. Neighbours on the active list can be the two matches of one connection
or not.

*Connection manager.* Two connection objects let the final message of one offload
of a flow be late while the next offload forwards; conntrack's entry can be
replaced any number of times. Time stands still, since nothing in `SfeCm` reads it.
`RejectPeriod` is 256 in the code and 2 in the runs.
`MaxDrift` of `SfePostRouting` stops new calls once a count has drifted by 3, because
the counts of bridges drift without bound.

*TCP window.* Three bytes, one packet each, let a byte be lost, a later one arrive, be
acknowledged selectively, and the first be sent again. They are numbered 29, 30 and 31
modulo 32, so that the end of the data, the acknowledgements and all grants beyond are
on the other side of the wrap. Data goes one way, since the code treats directions
alike; both directions have windows, and acknowledgements are data-less packets of
the other. `AckWindow` is 1 where the code has 65,520 (`SFE_IPV4_TCP_MAX_ACK_WINDOW`): it
stretches the left edge only, and a smaller one makes `HonestPass` stronger. One packet
before the box per direction is enough for order, since the box reads a direction in
order and what overtakes is on the other processor, or behind the box.

*Fast-classifier.* The object that a hook still uses while it is freed needs a second
object for the same flow: two. Races are between two hooks of one flow and its
conntrack event: two processors. The flows have different tuples; `web` keeps its
destination, `dnat` does not. `OffloadAt` is 128 in the code: 1 would let the first packet
of a known flow through, 2 has a packet on both sides. `MaxOpen` stops announcements that user
space has not seen the end of.

*Simulated driver.* Two messages, of one sender or of two, are queued in either order, or
one is queued while the worker holds the other; two registrations let the second meet
what the first left. One flow is enough for a message to find its rule made, destroyed
or ended by a packet.

*QMI device.* Two user threads and two ids are what a race for an id or an answer
needs, and deregistration is a third thread. Four transaction ids let an answer be left
unread by an interrupted reader and be met by another one.

*Transmission.* Four packets are: one under way, one that the thread holds, and a full
queue; a second opening meets what the first one left.

### Assumptions that are constants

Some constants are not sizes but assumptions. The runs take them as follows; with the
other value the properties named fail (section 5 says why).

| Module | Constant | In the runs | Otherwise |
| --- | --- | --- | --- |
| `SfeIpv4` | `DebugReads` | on in `engine`, off where counts matter | `ToldOnce`, `Implements` fail |
| `SfeTcpWindow` | `Dsack` | off: ends do not report duplicates | `GrantBounded` fails |
| `SfeTcpWindow` | `Padding` | off: frames are not padded | `EndWasSent` fails |
| `FastClassifier` | `Reuse` | off: memory that a hook uses is not handed out | `DoneFollowsOffloaded` fails: the hook marks another flow's object |
| `QmiDevice` | `Overlap` | off: no client is added while a notification runs | `ReadersWake`, `FileKeepsClient` fail |
| `QmiDevice` | `CleanSignals` | on: no signal between the notification and the wakeup | `ReadersWake` fails |
| `QmiDevice` | `TidRange` | 256, as in the code, beyond `MaxTid` | with a wrap in reach `OwnAnswer` fails |
| `GobiAutoPm` | `LateSuspend` | off: the thread acts on `-EPERM` before the next resume | `PacketsLeave` fails: the device stays marked as suspended |
| `GobiAutoPm` | `CleanReopen` | on: the interface opens when no old URB is under way | `OneInFlight` fails |

### Fairness

`FairSpec` of `SfeIpv4` assumes weak fairness of each flush, of the timer, of a walk
of `destroy_all_rules_for_dev` that is under way and of a `create_rule` that is under
way. All are kernel code that runs to its end once started: flushes and walks are
straight-line code with bounded loops inside a hold of the lock, the spinlock is
fair (ticket lock), and the timer handler always sets itself again (2903). Nothing
is assumed of packets, rule requests, device events, debug reads or conntrack.
`TeardownEnds` assumes in the formula itself that rule creation pauses:
`destroy_all_rules_for_dev` really may go on for ever while new rules keep coming.

`PmSpec` of `GobiAutoPm` assumes weak fairness of the AutoPM thread (a kernel thread that
is scheduled, and sleeps only in `wait_for_completion_interruptible`), of each URB's
callback (the USB core completes every URB, at the latest when it is killed), and of the
resume of a suspended system. Nothing is assumed of packets, timeouts, open and stop.

`Spec` of `SfeDrv` assumes weak fairness of the worker (the kernel's work queue runs pending
work, and the function is a loop without waits), of each sender inside a message and of
each sync that has begun: straight-line kernel code. Nothing is assumed of new messages,
registrations, packets or the timer. The remaining modules state safety only.

## 4. Proofs

`SfeIpv4Proofs` proves for all values of the constants, from the assumptions
`ConstantsAssumption` (types of the constants; `None` and `AllDevs` are no device;
the clock's range exceeds the bound of the clock) and `FiniteAssumption` (finitely
many slots and rules, for the reference counts):

| Theorem | Property | Argument |
| --- | --- | --- |
| `TypeCorrect`, `TablesAlwaysAgree` | `TypeOK`, `TablesAgree` | together inductive. `TypeOK` alone is not: a match taken from `active` has a rule only because it is linked, and the unlinking code keeps lists correct only when they have no duplicates |
| `TuplesStayUnique` | `OneConnectionPerTuple` | by induction over the two; only `CreateRule` adds a connection, and `Known` is checked in the same step |
| `CountedStaysQueued` | `CountedIsQueued` | the counter match that the timer takes off the list belongs to the connection whose counters it clears |
| `EveryPacketToldOnce` | `ToldOnce` | needs `Settled`: a slot that is free or about to be released has counted nothing, so a new connection in it starts from nothing owed but the message under way. Assumes `DebugReads = FALSE`, without which it is false (section 5) |
| `ReferencesProtect` | `RefsExact`, `DevicesOutliveUse` | a device is freed only at count zero, and the count is the number of its users |
| `IncrementsAlwaysAddUp` | `IncrementsAddUp` | modulo the clock's range; holds with debug reads and with wrapped increments |

The same module proves `EngineImplements`: `DebugReads = FALSE` implies `Spec =>
Implements`, so what `SfeCm` and `SfeDrv` assume of the engine is what the engine does.
The argument needs `TimerInv` (the timer holds a message only between generating and
delivering it) and maps every action to one of `SfeOffload` or to a stutter.

`OperatorProofs` has what several of these modules rest on: the facts about `Append`,
`Tail` and `Unlink` of lists without duplicates, and those about sums over finite sets.
Sums are the community modules' `SumFunctionOnSet`, whose definition takes the elements
in an order that it chooses. `SumUnique` shows that every order gives the same number;
from it follow `SumRemove`, `SumInsert` (one element more or less), `SumUpdate` (one value
changed), `SumSame` and `SumBounds`. All of them are inductions over subsets, which
`SubsetInduction` does as a statement about a set of subsets: the prover cannot be given
a predicate, but a counterexample of least size it can.

`SfeListsProofs` proves, for finitely many connections, any keys, any buckets and any hash
function (`ListsAssumption`):

| Theorem | Property | Argument |
| --- | --- | --- |
| `Represented` | | by induction over `Inv`, below |
| `PointersAreSound` | `NoDanglingPointer` | from `Inv`: the neighbours of an entry of a sequence are entries of it (`ChainedLinks`), and the sequences have objects of the tables only |
| `MatchesInChains` | `ChainsAgree` | from `Inv` |
| `PointersImplementTables` | `Refines` | each operation on pointers does to the sequences what the action of `SfeTables` does; the steps are `InsertImplements`, `RemoveImplements`, `ReceiveImplements` and `SyncImplements` |
| `YoungestIsFirst`, `YoungestIsFound` | `LookupFindsYoungest` | `YoungestFirst` is inductive with `Inv`: in a chain, of two matches of one key the younger is first. A lookup moves a match to the front, but it is the one that it found, and so already the first of its key |

`Inv` says of each head with its pointers that they are `Chained`: there is a sequence
without duplicates whose first entry is the head, whose entries point to their
neighbours, and whose last one points nowhere. That an operation keeps this is proved
once for each kind of change: in front (`PushChained`), behind (`AppendChained`), out of
any place (`UnlinkChained`), and not at all when the objects are of another list
(`ChainedFrame`); `MoveIsDropPush` shows that the reordering of a lookup, which works
in one go, is a removal and an insertion. `Inv` adds which objects belong to which
sequence (`HashOk`, `TupleOk`, `ConnsOk`, `ActiveOk`): no object is in two chains, or an
assignment for one could change another. `ActiveOk` also has what no sequence shows: a
match that is in the tables and not active has an empty `active_next`. `Activate`
relies on it and does not assign that field, so each of the removals has to clear it, the
timer's two included. `FollowIs` is the link between pointers and sequences: `Follow`, the
walk along the pointers by which `Refines` sees the lists, gives the sequence. It is a
recursive function; that it has a value is `WalkExists`, and what it computes is an
induction over the rounds, taken as the least round that goes wrong (`LeastNumber`).

`SfeCmProofs` proves, for any flows, finitely many connection objects and any bounds
(`CmAssumption`):

| Theorem | Property | Argument |
| --- | --- | --- |
| `CmTypeCorrect` | `TypeOK` | with `EngineTypes`: a message and a connection in use name a flow |
| `CmNoPacketUnaccounted` | `NoPacketUnaccounted` | by induction over `CmInv`. A connection names a flow exactly while it is used (`FlowWhileUsed`), and one that is free or closed has nothing untold (`NothingUntold`), so a connection that is taken or given back adds nothing to the sum of what is untold of a flow, and a final message takes from the sum what it carries |
| `CmAssuredOnceReplied` | `AssuredOnceReplied` | inductive with the types: the only steps that add replies to an entry set the bit |

The same module proves, of `SfePostRouting`, for any finite sets of devices and calls
(`PostRoutingAssumption`):

| Theorem | Property | Argument |
| --- | --- | --- |
| `ReferencesBalanced` | `ReferencesBalance` | by induction over `RefInv`. `ReferencesBalance` speaks of moments when no call is under way; `TotalBalance` and `PlainBalance` say of every step that the references left are those of the rules and those that the calls under way will put, which `Puts` and `PutsOf` read off the step a call is at. A call that finds a bridge changes the device it will put, so per device this holds of plain devices only, and over all devices of every call |

`SfeDrvProofs` proves, for any senders, messages, flows and registrations
(`DrvAssumption`):

| Theorem | Property | Argument |
| --- | --- | --- |
| `DrvAnswersInOrder` | `AnswersInOrder` | by induction over `DrvInv`: the answers of a sender, what the worker holds, the queue and what is being sent are one increasing line per sender (`QueueOrder`, `HoldOrder`, `TxOrder`) |
| `DrvRuleIsKnown` | `RuleIsKnown` | `RulesKnown`, part of `DrvInv`: for a rule in the engine the answer was given, is in that line, or its sender has not queued it yet; it needs that a sender sends only while registered (`SendersRegistered`) |
| `DrvNothingOutlives` | `NothingOutlives` | `SyncsRegistered`, `Registered` and `Exited`, parts of `DrvInv`: what a sync has read of a registration, and what each line of `unregister` and `sfe_drv_exit` has already taken away |

`FastClassifierProofs` proves, for finitely many objects and processors
(`ClassifierAssumption`) and any number of flows:

| Theorem | Property | Argument |
| --- | --- | --- |
| `TypeCorrect`, `TableStaysExact` | `TypeOK`, `TableExact` | by induction over `TableInv`. An object is new to the table when a hook adds it, and two hooks never carry the same one (`AddsApart`), so the lookup under the lock keeps one object per flow (`OnePerFlow`) and the size counts the table (`SizeExact`), which also keeps it a natural number |
| `RequestsFindPlainFlows` | `RequestFindsPlainFlow` | from `TableInv`, assuming `TuplesApart`: flows differ in their translated tuples, also reversed. Conntrack sees to it as long as no source is translated; two flows that are masqueraded may differ in the translated source only, which objects are not compared by |
| `DoneAlwaysFollows` | `DoneFollowsOffloaded` | by induction over `MarkInv`. The OFFLOADED messages of a flow less its DONE messages (`open`) are at least what can still make a DONE message: an event that is under way, a marked object in the table, hooks about to mark one (`OpenCovers`). That a hook marks the object of its own flow (`HooksKeepFlow`) needs `Reuse = FALSE`, the theorem's assumption |

`GobiNetProofs` proves, of `GobiAutoPm`, for any number of packets, suspensions, timeouts
and failures and any length of the queue, under `CleanReopen = TRUE`:

| Theorem | Property | Argument |
| --- | --- | --- |
| `TypeCorrect`, `OneAtATime`, `ReferencesExact` | `PmTypeOK`, `OneInFlight`, `PmExact` | together inductive with `HoldsActive`: from taking an entry to submitting it or giving it back, the entry is the active URB and nothing is under way, so no callback replaces the active URB meanwhile. `PmTypeOK` needs `PmExact`: the reference that is put was got |
| `OrderKept` | `SentInOrder` | by induction over `InLine`: the last packet, the one the thread has taken and the queue are one increasing line, also while the packet is being submitted or put back |

The same module proves, of `QmiDevice`, for finitely many threads of user space and any
files, clients and bounds (`QmiAssumption`), under `Overlap = FALSE` and
`CleanSignals = TRUE`, as in the run:

| Theorem | Property | Argument |
| --- | --- | --- |
| `DeviceTypeCorrect` | `TypeOK` | from `DeviceInv` and `WaitInv`: a client is appended when it is not listed and a reader sleeps with one entry, so neither is there twice |
| `SleepersAreListed` | `SleepersListed` | from `WaitInv`: an entry leaves the list only into the hand of a notifier, which wakes up its reader; `ReleaseClientID` frees memory only when nobody waits |
| `ReadersAreWoken` | `ReadersWake` | from `ComingInv`, and `AnswerInv` for readers of `Ctl`, until the counter of transaction ids wraps |
| `AnswersAreOwn` | `OwnAnswer` | from `NumInv` and `AnswerInv`, until the counter wraps |
| `FilesKeepClients` | `FileKeepsClient` | from `OwnInv` and `EarlyInv` |
| `WdsIsArmed` | `WdsStaysArmed` | from `WdsInv` |

`QmiInv` is the inductive invariant. `DeviceInv` says what one critical section leaves to
the next: one thread at a time is between two halves of a release, the successor that it
has read is still right (`Follows`), and a client that is not listed has no memory. `WaitInv` says that the
entry of a sleeping reader is in one place, with the client it reads or in the hand of
one notifier. A client with waiting readers may have messages only as long as as many
other readers of it are on their way (`ComingInv`): woken up, or in the hand of a
notifier; this counting is needed because `ReadCallback` appends a message and pops one
reader, which may find that another one took it. `NumInv` says that requests, their
answers and the readers have the same numbers; then readers of `Ctl` wait for different
ids and need no counting (`AnswerInv`). `OwnInv` is what keeps a client with one file: an
assigned id is with exactly one of a file, a thread that registers it, an unread answer,
a thread whose release is not sent yet, or a release that the modem has not handled
(`Owns`), so the modem does not assign it again while one of them is left. The steps are
not taken action by action but by what an action does to the list, the entries and the
hands (`StepKinds`) and to what a thread is about (`NextJobs`).

That the counter has not wrapped (`tids < TidRange`) is a premise of what is proved of
`ReadersWake` and `OwnAnswer`, and the run stays below it. With a wrap in reach `OwnAnswer`
fails (section 5), and readers of `Ctl` can wait for the same id. `SleepersListed`, the
part of `ReadersWake` that nobody is forgotten, needs no such premise.

`SfeReceiveProofs` proves, of `SfeTcpWindow`, for any number of bytes in both directions,
any windows, segments and lines of packets (`WindowAssumption`):

| Theorem | Property | Argument |
| --- | --- | --- |
| `NoWindowGoesBack` | `WindowsMoveForwards` | for all values of the constants. Every merge takes the later of two numbers by the header's own comparison, and that of a number and itself is never behind it; `Types` is all that it needs |
| `NoEndIsAhead` | `EndWasSent` | from `Agreed`, under `Room` |
| `NoGrantIsAhead` | `GrantBounded` | the same |
| `ConntrackKnows` | `ConntrackCaughtUp` | the same: what a receiver got, some record tells, and when rule and messages are gone conntrack's is the only one |
| `HonestPacketsPass` | `HonestPass` | the same: the first packet of a line is within the window of some record, and the rule's is not behind any when it is up to date |
| `WindowTypeCorrect` | `TypeOK` | the same: a window may not outgrow its field, which the bound of the grants shows |

`Agreed` is the inductive invariant. It sees the rule of the engine, conntrack, the
messages to conntrack and the requests for a rule as a set of records, the ends and the
packets of each direction as a line, and says two things. No record is ahead of the ends
(`RecordOk`). What the ends rely on, some record tells (`EndAt`, `GrantAt`, `WinAt`): how
far a receiver has got, the grant that the sender uses, and a window of the receiver wide
enough for every packet that is on its way, seen from every record and from every
acknowledgement on its way (`SenderOk`, `ReceiverOk`, `PacketOk`, `LineOk`). Every action
of the box replaces records by ones that are not behind them (`Grows`), so that what was
told stays told. This is why no single record can be said to know: a message may carry
what the rule that it comes from told, while conntrack has not read it and a new rule
starts without it.

`Room` has the theorems' assumptions on the constants: the ends report no duplicates and
frames are not padded (`Dsack`, `Padding`; the properties are false with them, section 5),
and `Bytes[d] + 3 * MaxWin + AckWindow + 2 < M \div 2`. In 32 bits that is a connection of
less than 2 GB in each direction. The engine compares numbers by their difference modulo
`M` and knows no place of a number; the proof gives every number its place counted from
`First`, which is only possible as long as a connection is shorter than half of the
numbers. `NoWindowGoesBack` needs none of this. The run's constants satisfy `Room`
(3 + 6 + 1 + 2 < 16) and its numbers wrap nevertheless, since `First` is 29 of 32.

The same module proves, for every width `W` of a half word from 10 on, that the
incremental arithmetic is right for every header: `AdjustmentRight` (the precomputed
adjustment is the old fields less the new ones, in ones' complement),
`TranslatedChecksumRight` (a right checksum stays right), `PartialAdjustmentRight`,
`AdjustOnce` (one fold is enough when it is used), `IpChecksumRight`, and for the IPv6
engine `Adjustment6Right` (its loop loses no carry, for any number of words) and
`TranslatedChecksum6Right` (a right checksum stays right over the nine words that the
engine takes, whichever half of their word each port is in). The arguments rest on
`HighPart` and `FoldKeeps`: a fold keeps the value modulo `W - 1`, and the sum of two half
words carries at most once. The loop keeps `Summed`: after each word its sum and its carry
are the words so far in ones' complement, and a carry leaves room for itself
(`TurnKeepsSum`). The loop is a fold over a sequence; that the function behind the fold
exists, and that it takes the words in order, are `LoopExists` and `LoopTurns`.

Each of these inductive invariants was checked by TLC on the instance of the run first (of
`OwnInv` a form that enumerates the owners of an id).

`DevicesOutliveUse` is proved and has no run: it follows from `RefsExact`. `TypeOK` of
`SfeCm` and of `SfeTcpWindow` are proved and have no run either.

Only model-checked: the liveness properties `ActiveIsSynced`, `TeardownEnds`,
`AnswersArrive` and `PacketsLeave`, which are out of the prover's reach as they rest on
fairness. All other properties of the passing runs are stated by a theorem, some under the
assumptions on constants of section 3.

## 5. Known departures of the code

What the models show besides the finding, and what the properties above had to
leave out. Each was met as a counterexample, or is a step of a module.

* **Debug reads lose counts** (`sfe_ipv4.c` 3014). A read of the debug device clears the
  counters before they are synced: `ToldOnce` fails with `DebugReads`.
* **Padding counts as data** (`sfe_ipv4.c` 2229). The length of a packet is that of the
  frame; after a padded ACK the recorded end of the data is beyond what was sent, and
  `sfe_cm_sync_rule` hands it to conntrack.
* **A rule for a device that is gone** (`sfe_ipv4.c` 2434). The device's state is read
  before the lock; the rule can be inserted after the device's rules were destroyed.
* **A rule outlives its conntrack entry** (`sfe_cm.c` 611). The destroy event can come
  before the rule, which then stays until traffic stops it.
* **Exit leaves rules** (`sfe_cm.c` 1097). They are destroyed before the hook that
  makes them is unregistered.
* **The quick reject counts fast packets** (`sfe_cm.c` 382). The counter it takes for
  hits of the slow path also holds what `sync_rule` added.
* **Duplicate SACKs widen a grant** (`sfe_ipv4.c` 1522). A SACK block that reports a
  duplicate lies behind the ack; where the numbers have wrapped between the two it is
  the greater one, and the grant computed from it is too far.
* **A response outlives its registration** (`sfe_drv.c` 233-240). A response that the worker
  holds is not cleaned by `unregister`; when somebody is registered again before the worker
  goes on, the callback of the old registration is called, though the comment at 193 speaks
  of cleaning at exit.
* **Callback and data are two words** (`sfe_drv.c` 432). A sync reads them without the lock,
  and meets a registration or an unregistration between them: the callback gets no data.
* **Syncs outside the timer** (`sfe_drv.c` 430). A comment says that syncs come from a timer;
  that of a destroyed rule comes from the sender's own call, ahead of the answer.
* **A client is lost** (`QMIDevice.c` 1541). `ReleaseClientID` writes the successor that
  it read before it dropped the lock; a client appended meanwhile, or registered after
  the last look of deregistration, is lost with its readers.
* **Writers take each other's URB** (`QMIDevice.c` 1197). When two writers of a client
  resume in another order than their URBs, both fail, and the list keeps a freed URB
  until the client is released. In the model that entry is `None` and harmless.
* **A signal takes a wakeup** (`QMIDevice.c` 954-982). A reader that was notified and is
  interrupted leaves its message to nobody: another reader of the client sleeps on.
* **A transaction id of zero** (`QMIDevice.c` 1293-1297). At the wrap the request goes
  out with zero, and its read takes any answer.
* **A packet waits** (`GobiUSBNet.c` 723). After a resume that failed with another error
  than `-EPERM` the packet is back in the queue and the thread asleep.
* **Stop keeps a reference** (`GobiUSBNet.c` 618-646). A URB that is killed at exit, or
  done by then, is not followed by `usb_autopm_put_interface`; `PmExact` therefore counts
  from `base`, the references left at the last opening.
* **The marker as a pointer** (`GobiUSBNet.c` 552, 625). `usb_kill_urb` may be given
  `ERR_PTR(-EAGAIN)`, or a URB freed meanwhile. The model has a kill without effect.
* **Flows with a translated destination are not found** (`fast-classifier.c` 618). A
  request by the translated tuple searches another bucket than the object is in:
  `RequestFindsPlainFlow` is of the other flows.
* **A flow is offloaded once** (`fast-classifier.c` 970). When the engine drops the
  rule by itself, `offloaded` stays set and the rule is never made again.

## 6. Not modelled, and why

* What a packet is besides its match and its TCP numbers: header checks, TTL,
  fragments, MTU decide between the forward and the exception actions, which the
  models leave open. The rewriting of headers, marks, DSCP and priorities.
* Byte counters move with packet counters.
* The statistics counters, sysfs and the text of the debug device.
* Memory order: all shared state of SFE is read and written under a lock or through
  RCU, and the few unlocked reads (`reg_state`, the callback, `jiffies`) are actions of
  their own.
* Flow cookies (`CONFIG_NF_FLOW_COOKIE`): no configuration and no patch of the repository
  defines the symbol.
* The IPv6 engine: a port with the same locks, lists and timer; a module would be
  `SfeIpv4` with other names. Its checksum loop is in `SfeChecksum`.
* Of the simulated driver: the IPv6 half, with the same control over the same queue; message
  formats; sysfs counters; `sfe_drv_recv`, which hands packets to the engine.
* Most of the repository by size is not a program of its own with state to check: the
  vendor library GobiAPI (tables of fields and a wrapper per request), LuCI pages,
  scripts, build recipes, and drivers that only copy buffers or write registers. The
  connection managers are loops around modem programs whose source is not here.

## 7. Plan

1. Proofs: the theorems of `SfeTcpWindow` for connections of any length, with places
   counted from the acknowledgements; that the list operations of `SfeIpv4`, which has
   no chains, are those of `SfeTables`.
2. Device references in stored objects of the fast-classifier, with `SfePostRouting`;
   its module exit.
3. Conntrack timeouts in `SfeCm`: whether a flow with traffic stays alive.
