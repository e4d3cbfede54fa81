--------------------------- MODULE GobiNetProofs ---------------------------
(***************************************************************************)
(* The two parts of the GobiNet driver.                                    *)
(*                                                                         *)
(* Transmission (GobiAutoPm), for any number of packets, suspensions,      *)
(* timeouts and failures, when the interface is not opened over a URB that *)
(* is still under way: types, OneInFlight, PmExact and SentInOrder.        *)
(*                                                                         *)
(* The QMI device (QmiDevice), for any number of threads, files and        *)
(* clients, when no client is added while a notification runs and signals  *)
(* are clean: types, SleepersListed, FileKeepsClient and WdsStaysArmed,    *)
(* and, until the counter of transaction ids wraps, ReadersWake and        *)
(* OwnAnswer.                                                              *)
(***************************************************************************)
EXTENDS GobiAutoPm, QmiDevice, OperatorProofs, SequenceTheorems,
        FiniteSetTheorems, TLAPS

-----------------------------------------------------------------------------
(* Transmission                                                             *)

\* Where the thread holds an entry, before the entry is put back.
Sending == {"get", "refused", "push back", "submit"}
Holding == Sending \cup {"clear"}

Killers == [thread : Pointers \cup {Idle}, timeout : Pointers \cup {Idle}]
Counts == [packets : 0 .. MaxPackets, suspends : 0 .. MaxSuspends,
           opens : 0 .. MaxOpens, timeouts : 0 .. MaxTimeouts,
           errors : 0 .. MaxErrors]

\* PmTypeOK without the entry that the thread holds.
Types ==
  /\ queue \in Seq(Packets) /\ active \in Pointers /\ flying \subseteq Packets
  /\ work \in Nat /\ exit \in BOOLEAN /\ thread \in Places
  /\ killer \in Killers
  /\ pm \in Nat /\ base \in Nat
  /\ power \in {"on", "asleep", "suspended"} /\ down \in BOOLEAN
  /\ last \in 0 .. MaxPackets /\ count \in Counts

\* The entry that the thread holds is the active URB, and nothing is under way
\* then, nor when the thread has just cleared the marker.
HoldsActive ==
  /\ thread \in Holding => hold \in Packets /\ hold = active /\ flying = {}
  /\ thread \notin Holding => hold = NoURB
  /\ thread \in {"put", "look again"} => active = NoURB

SendInv == Types /\ HoldsActive /\ OneInFlight /\ PmExact

\* The parts of the line of packets: the last submitted, the one that the thread
\* holds, the queue.
InLine ==
  /\ \A i, j \in 1 .. Len(queue) : i < j => queue[i] < queue[j]
  /\ \A i \in 1 .. Len(queue) : last < queue[i] /\ queue[i] <= count.packets
  /\ last <= count.packets
  /\ thread \in Sending => /\ last < hold /\ hold <= count.packets
                           /\ \A i \in 1 .. Len(queue) : hold < queue[i]

-----------------------------------------------------------------------------
\* A packet is a number, and neither NoURB nor the marker.
LEMMA PacketNumbers ==
  /\ Packets \subseteq Nat /\ NoURB \notin Packets /\ Done \notin Packets /\ NoURB # Done
  /\ \A n \in Packets : 1 <= n /\ n <= MaxPackets
  BY AutoPmAssumption DEF Packets

\* The empty queue.
LEMMA EmptyQueue == <<>> \in Seq(Packets)
  OBVIOUS

\* The operations on the queue keep it a sequence of packets.
LEMMA QueueTypes ==
  ASSUME queue \in Seq(Packets), NEW p \in Packets
  PROVE  /\ Append(queue, p) \in Seq(Packets) /\ Cons(p, queue) \in Seq(Packets)
         /\ <<>> \in Seq(Packets)
         /\ queue # <<>> => Tail(queue) \in Seq(Packets) /\ Head(queue) \in Packets
<1>1. <<p>> \in Seq(Packets) OBVIOUS
<1>2. Cons(p, queue) \in Seq(Packets) BY <1>1, ConcatProperties DEF Cons
<1> QED BY <1>2, AppendProperties, HeadTailProperties

\* The counts below their bounds can be counted up; only a packet changes the
\* count of packets.
LEMMA CountUp ==
  ASSUME count \in Counts
  PROVE  /\ count.packets \in 0 .. MaxPackets
         /\ count.packets < MaxPackets => [count EXCEPT !.packets = @ + 1] \in Counts
         /\ [count EXCEPT !.packets = @ + 1].packets = count.packets + 1
         /\ count.suspends < MaxSuspends => [count EXCEPT !.suspends = @ + 1] \in Counts
         /\ count.opens < MaxOpens => [count EXCEPT !.opens = @ + 1] \in Counts
         /\ count.timeouts < MaxTimeouts => [count EXCEPT !.timeouts = @ + 1] \in Counts
         /\ count.errors < MaxErrors => [count EXCEPT !.errors = @ + 1] \in Counts
         /\ [count EXCEPT !.suspends = @ + 1].packets = count.packets
         /\ [count EXCEPT !.opens = @ + 1].packets = count.packets
         /\ [count EXCEPT !.timeouts = @ + 1].packets = count.packets
         /\ [count EXCEPT !.errors = @ + 1].packets = count.packets
  BY AutoPmAssumption DEF Counts

\* The killers read the active URB or become idle.
LEMMA KillerTypes ==
  ASSUME killer \in Killers, active \in Pointers
  PROVE  /\ [killer EXCEPT !.timeout = active] \in Killers
         /\ [killer EXCEPT !.thread = active] \in Killers
         /\ [killer EXCEPT !.timeout = Idle] \in Killers
         /\ [killer EXCEPT !.thread = Idle] \in Killers
  BY DEF Killers

\* Initially no thread runs, and nothing is queued or under way.
LEMMA SendInit == PmInit => SendInv /\ InLine
<1> SUFFICES ASSUME PmInit PROVE SendInv /\ InLine OBVIOUS
<1>1. Types
  <2>1. count \in Counts /\ 0 \in 0 .. MaxPackets BY AutoPmAssumption DEF PmInit, Counts
  <2>2. killer \in Killers BY DEF PmInit, Killers
  <2>3. queue \in Seq(Packets) BY EmptyQueue DEF PmInit
  <2> QED BY <2>1, <2>2, <2>3 DEF PmInit, Types, Pointers, Places
<1>2. HoldsActive /\ OneInFlight /\ PmExact
  BY DEF PmInit, HoldsActive, Holding, Sending, OneInFlight, PmExact
<1>3. InLine BY DEF PmInit, InLine, Sending
<1> QED BY <1>1, <1>2, <1>3 DEF SendInv

\* A step that leaves the active URB, what is under way, the entry of the thread
\* and the references alone, while the thread stays where it is, ...
LEMMA NotSending ==
  ASSUME SendInv, Types', UNCHANGED <<thread, active, flying, hold, pm, base>>
  PROVE  SendInv'
<1>1. HoldsActive' BY DEF SendInv, HoldsActive, Holding, Sending
<1>2. OneInFlight' BY DEF SendInv, OneInFlight
<1>3. PmExact' BY DEF SendInv, PmExact
<1> QED BY <1>1, <1>2, <1>3 DEF SendInv

\* ... or goes on with no entry in its hands, ...
LEMMA Moves ==
  ASSUME SendInv, Types', UNCHANGED <<active, flying, hold, pm, base>>,
         thread \in {"top", "wait", "exit", "killing", "look"},
         thread' \in {"gone", "top", "wait", "exit", "killing", "look"}
  PROVE  SendInv'
<1>1. HoldsActive' BY DEF SendInv, HoldsActive, Holding, Sending
<1>2. OneInFlight' BY DEF SendInv, OneInFlight
<1>3. PmExact' BY DEF SendInv, PmExact
<1> QED BY <1>1, <1>2, <1>3 DEF SendInv

\* ... or is about to give the entry back.
LEMMA GivesBack ==
  ASSUME SendInv, Types', UNCHANGED <<active, flying, hold, pm, base>>,
         thread \in {"refused", "push back"}, thread' \in {"push back", "clear"}
  PROVE  SendInv'
<1>1. HoldsActive' BY DEF SendInv, HoldsActive, Holding, Sending
<1>2. OneInFlight' BY DEF SendInv, OneInFlight
<1>3. PmExact' BY DEF SendInv, PmExact
<1> QED BY <1>1, <1>2, <1>3 DEF SendInv

\* With nothing under way and nothing left to handle, no reference is held.
LEMMA NoReference ==
  ASSUME base' \in Nat, pm' = base', active' # Done, flying' = {},
         thread' \notin {"submit", "put"}
  PROVE  PmExact'
<1>1. \A n \in Nat : n + 0 = n OBVIOUS
<1> QED BY <1>1 DEF PmExact

\* Steps of the network layer and of power management, and a callback: they
\* change nothing that the thread holds; a URB that completes is the active one.
LEMMA OthersKeep ==
  ASSUME SendInv, CleanReopen = TRUE,
         \/ Open \/ Stop \/ StartXmit \/ Suspend \/ Resume \/ TXTimeout
         \/ TXTimeoutKill \/ \E p \in Packets : URBCallback(p)
  PROVE  SendInv'
<1> USE DEF SendInv
<1>1. CASE Open
  <2>1. Types' BY <1>1, CountUp, EmptyQueue DEF Open, Types, Places, Pointers
  <2>2. HoldsActive' BY <1>1 DEF Open, HoldsActive, Holding, Sending
  <2>3. OneInFlight' BY <1>1 DEF Open, OneInFlight
  <2>4. PmExact'
    <3>1. /\ thread' = "top" /\ active' = NoURB /\ flying' = {} /\ base' = pm /\ pm' = pm
      BY <1>1 DEF Open
    <3>2. pm \in Int BY DEF Types
    <3> QED BY <3>1, <3>2, PacketNumbers DEF PmExact
  <2> QED BY <2>1, <2>2, <2>3, <2>4
<1>2. CASE Stop
  <2>1. Types' BY <1>2 DEF Stop, Types
  <2> QED BY <1>2, <2>1, NotSending DEF Stop
<1>3. CASE StartXmit
  <2>1. count.packets + 1 \in Packets
    <3>1. count.packets \in 0 .. MaxPackets BY CountUp DEF Types
    <3>2. count.packets < MaxPackets BY <1>3 DEF StartXmit
    <3> QED BY <3>1, <3>2, AutoPmAssumption DEF Packets
  <2>2. queue' \in Seq(Packets) BY <1>3, <2>1, QueueTypes DEF StartXmit, Types
  <2>3. Types' BY <1>3, <2>2, CountUp DEF StartXmit, Types
  <2> QED BY <1>3, <2>3, NotSending DEF StartXmit
<1>4. CASE Suspend
  <2>1. Types' BY <1>4, CountUp DEF Suspend, Types
  <2>2. UNCHANGED <<thread, active, flying, hold, pm, base>> BY <1>4 DEF Suspend
  <2> QED BY <2>1, <2>2, NotSending
<1>5. CASE Resume
  <2>1. /\ power' = "on" /\ down' = FALSE /\ work' = work + 1
        /\ UNCHANGED <<queue, active, flying, exit, thread, hold, killer, pm, base,
                       last, count>>
    BY <1>5 DEF Resume
  <2>2. work' \in Nat BY <2>1 DEF Types
  <2>3. Types' BY <2>1, <2>2 DEF Types
  <2> QED BY <2>1, <2>3, NotSending
<1>6. CASE TXTimeout
  <2>1. Types' BY <1>6, CountUp, KillerTypes DEF TXTimeout, Types
  <2> QED BY <1>6, <2>1, NotSending DEF TXTimeout
<1>7. CASE TXTimeoutKill
  <2>1. Types' BY <1>7, EmptyQueue, KillerTypes DEF TXTimeoutKill, Types
  <2> QED BY <1>7, <2>1, NotSending DEF TXTimeoutKill
<1>8. ASSUME NEW p \in Packets, URBCallback(p) PROVE SendInv'
  <2>1. Types' BY <1>8, PacketNumbers DEF URBCallback, Types, Pointers
  <2>2. thread \notin Holding \cup {"put", "look again"}
    BY <1>8, PacketNumbers DEF URBCallback, HoldsActive, Holding, Sending, OneInFlight
  <2>3. HoldsActive' BY <1>8, <2>2 DEF URBCallback, HoldsActive, Holding, Sending
  <2>4. thread # "gone" => flying = {p} /\ flying' = {}
    BY <1>8, PacketNumbers DEF URBCallback, OneInFlight
  <2>5. OneInFlight' BY <1>8, <2>4, PacketNumbers DEF URBCallback, OneInFlight
  <2>6. PmExact' BY <1>8, <2>4 DEF URBCallback, PmExact
  <2> QED BY <2>1, <2>3, <2>5, <2>6
<1> QED BY <1>1, <1>2, <1>3, <1>4, <1>5, <1>6, <1>7, <1>8

\* Taking a URB from the queue, when none is active, so that none is under way
\* and no reference is held.
LEMMA PickKeeps ==
  ASSUME SendInv, thread \in {"look", "look again"}, active # Done, Pick,
         UNCHANGED <<flying, work, exit, killer, pm, base, power, down, last, count>>
  PROVE  SendInv'
<1> USE DEF SendInv
<1>0. hold = NoURB BY DEF HoldsActive, Holding, Sending
<1>1. CASE active = NoURB /\ queue # <<>>
  <2>1. /\ Head(queue) \in Packets /\ Tail(queue) \in Seq(Packets)
        /\ active' = Head(queue) /\ hold' = Head(queue)
        /\ queue' = Tail(queue) /\ thread' = "get"
    BY <1>1, HeadTailProperties DEF Pick, Types
  <2>2. flying = {} BY <1>1, PacketNumbers DEF OneInFlight, Types
  <2>3. Types' BY <2>1 DEF Types, Places, Pointers
  <2>4. HoldsActive' BY <2>1, <2>2 DEF HoldsActive, Holding, Sending
  <2>5. OneInFlight' BY <2>1, <2>2 DEF OneInFlight
  <2>6. PmExact' BY <2>1, <2>2, PacketNumbers DEF PmExact
  <2> QED BY <2>3, <2>4, <2>5, <2>6
<1>2. CASE ~(active = NoURB /\ queue # <<>>)
  <2>1. thread' = "top" /\ UNCHANGED <<active, hold, queue>> BY <1>2 DEF Pick
  <2>2. Types' BY <2>1 DEF Types, Places
  <2>3. HoldsActive' BY <1>0, <2>1 DEF HoldsActive, Holding, Sending
  <2>4. OneInFlight' /\ PmExact' BY <2>1 DEF OneInFlight, PmExact
  <2> QED BY <2>2, <2>3, <2>4
<1> QED BY <1>1, <1>2

\* A step of the thread.
LEMMA ThreadKeeps ==
  ASSUME SendInv, AutoPMThread
  PROVE  SendInv'
<1> USE DEF SendInv
<1>1. CASE Top
  <2>1. Types' BY <1>1 DEF Top, Types, Places
  <2> QED BY <1>1, <2>1, Moves DEF Top
<1>2. CASE Wake
  <2>1. Types' BY <1>2 DEF Wake, Types, Places
  <2> QED BY <1>2, <2>1, Moves DEF Wake
<1>3. CASE ReadActive
  <2>1. Types' BY <1>3, KillerTypes DEF ReadActive, Types, Places
  <2> QED BY <1>3, <2>1, Moves DEF ReadActive
<1>4. CASE KillActive
  <2>1. Types' BY <1>4, EmptyQueue, KillerTypes DEF KillActive, Types, Places
  <2> QED BY <1>4, <2>1, Moves DEF KillActive
<1>5. CASE LookAtActive
  <2>1. CASE active = Done
    <3>1. /\ thread = "look" /\ active' = NoURB /\ thread' = "put"
          /\ UNCHANGED <<queue, hold, flying, work, exit, killer, pm, base, power,
                         down, last, count>>
      BY <1>5, <2>1 DEF LookAtActive
    <3>2. flying = {} BY <2>1, <3>1, PacketNumbers DEF OneInFlight, Types
    <3>3. Types' BY <3>1 DEF Types, Places, Pointers
    <3>4. HoldsActive' BY <3>1 DEF HoldsActive, Holding, Sending
    <3>5. OneInFlight' /\ PmExact' BY <2>1, <3>1, <3>2 DEF OneInFlight, PmExact
    <3> QED BY <3>3, <3>4, <3>5
  <2>2. CASE active # Done
    BY <1>5, <2>2, PickKeeps DEF LookAtActive
  <2> QED BY <2>1, <2>2
<1>6. CASE Put
  <2>1. pm = base + 1 /\ active = NoURB /\ flying = {}
    <3>1. thread = "put" /\ active = NoURB BY <1>6 DEF Put, HoldsActive
    <3>2. flying = {} BY <3>1, PacketNumbers DEF OneInFlight, Types
    <3> QED BY <3>1, <3>2 DEF PmExact
  <2>2. pm' = base
    <3>1. pm' = pm - 1 BY <1>6 DEF Put
    <3>2. base \in Nat BY DEF Types
    <3> QED BY <2>1, <3>1, <3>2
  <2>3. Types' BY <1>6, <2>2 DEF Put, Types, Places
  <2>4. HoldsActive' BY <1>6 DEF Put, HoldsActive, Holding, Sending
  <2>5. OneInFlight' BY <1>6 DEF Put, OneInFlight
  <2>6. PmExact'
    <3>1. thread' = "look again" /\ UNCHANGED <<base, active, flying>> BY <1>6 DEF Put
    <3>2. base \in Nat BY DEF Types
    <3>3. active' # Done /\ flying' = {} /\ pm' = base' BY <2>1, <2>2, <3>1, PacketNumbers
    <3>4. base' \in Nat BY <3>1, <3>2
    <3> QED BY <3>1, <3>3, <3>4, NoReference
  <2> QED BY <2>3, <2>4, <2>5, <2>6
<1>7. CASE LookAgain
  <2>1. active # Done BY <1>7, PacketNumbers DEF LookAgain, HoldsActive
  <2> QED BY <1>7, <2>1, PickKeeps DEF LookAgain
<1>8. CASE Get
  <2>1. hold \in Packets /\ hold = active /\ flying = {} /\ pm = base
    <3>1. thread = "get" BY <1>8 DEF Get
    <3>2. hold \in Packets /\ hold = active /\ flying = {}
      BY <3>1 DEF HoldsActive, Holding, Sending
    <3>3. base \in Nat BY DEF Types
    <3> QED BY <3>1, <3>2, <3>3, PacketNumbers DEF PmExact
  <2>2. /\ thread' \in {"submit", "refused", "push back"}
        /\ thread' = "submit" => pm' = pm + 1
        /\ thread' # "submit" => pm' = pm
        /\ UNCHANGED <<queue, active, flying, exit, hold, killer, base, last>>
    BY <1>8 DEF Get
  <2>3. Types'
    <3>1. pm \in Nat /\ pm + 1 \in Nat BY DEF Types
    <3>5. pm' \in Nat BY <2>2, <3>1
    <3>2. work' \in Nat /\ power' \in {"on", "asleep", "suspended"} /\ down' \in BOOLEAN
      <4>1. work \in Nat /\ work + 1 \in Nat BY DEF Types
      <4>2. work' \in {work, work + 1} /\ power' \in {power, "on"}
        BY <1>8 DEF Get
      <4>3. down' \in BOOLEAN BY <1>8 DEF Get, Types
      <4> QED BY <4>1, <4>2, <4>3 DEF Types
    <3>3. count' \in Counts BY <1>8, CountUp DEF Get, Types
    <3> QED BY <2>2, <3>2, <3>3, <3>5 DEF Types, Places
  <2>4. HoldsActive' BY <2>1, <2>2 DEF HoldsActive, Holding, Sending
  <2>5. OneInFlight' BY <2>1, <2>2 DEF OneInFlight
  <2>6. PmExact'
    <3>1. base \in Nat BY DEF Types
    <3>2. active \notin {NoURB, Done} BY <2>1, PacketNumbers
    <3>3. CASE thread' = "submit"
      <4>1. pm' = base' + 1 /\ base' \in Nat BY <2>1, <2>2, <3>1, <3>3
      <4> QED BY <3>3, <4>1 DEF PmExact
    <3>4. CASE thread' # "submit"
      <4>1. /\ pm' = base' /\ base' \in Nat /\ active' # Done /\ flying' = {}
            /\ thread' \notin {"submit", "put"}
        BY <2>1, <2>2, <3>1, <3>2, <3>4
      <4> QED BY <4>1, NoReference
    <3> QED BY <3>3, <3>4
  <2> QED BY <2>3, <2>4, <2>5, <2>6
<1>9. CASE Refused
  <2>1. Types' BY <1>9 DEF Refused, Types, Places
  <2> QED BY <1>9, <2>1, GivesBack DEF Refused
<1>10. CASE PushBack
  <2>1. hold \in Packets BY <1>10 DEF PushBack, HoldsActive, Holding, Sending
  <2>2. queue' \in Seq(Packets) BY <1>10, <2>1, QueueTypes DEF PushBack, Types
  <2>3. Types' BY <1>10, <2>2 DEF PushBack, Types, Places
  <2> QED BY <1>10, <2>3, GivesBack DEF PushBack
<1>11. CASE Clear
  <2>1. active \in Packets /\ flying = {}
    BY <1>11 DEF Clear, HoldsActive, Holding
  <2>2. Types' BY <1>11 DEF Clear, Types, Places, Pointers
  <2>3. HoldsActive' BY <1>11 DEF Clear, HoldsActive, Holding, Sending
  <2>4. OneInFlight' BY <1>11, <2>1 DEF Clear, OneInFlight
  <2>5. PmExact' BY <1>11, <2>1, PacketNumbers DEF Clear, PmExact
  <2> QED BY <2>2, <2>3, <2>4, <2>5
<1>12. CASE SubmitURB
  <2>1. active \in Packets /\ flying = {} /\ pm = base + 1
    BY <1>12, PacketNumbers DEF SubmitURB, HoldsActive, Holding, Sending, PmExact
  <2>2. HoldsActive' BY <1>12 DEF SubmitURB, HoldsActive, Holding, Sending
  <2>3. CASE flying' = flying \cup {active}
    <3>1. last' = active /\ UNCHANGED <<active, pm, work>> BY <1>12, <2>1, <2>3 DEF SubmitURB
    <3>2. Types' BY <1>12, <2>1, <2>3, <3>1, PacketNumbers DEF SubmitURB, Types, Places
    <3>3. OneInFlight' BY <2>1, <2>3, <3>1 DEF OneInFlight
    <3>4. PmExact' BY <1>12, <2>1, <2>3, <3>1, PacketNumbers DEF SubmitURB, PmExact
    <3> QED BY <2>2, <3>2, <3>3, <3>4
  <2>4. CASE flying' # flying \cup {active}
    <3>1. active' = NoURB /\ pm' = pm - 1 /\ work' = work + 1 /\ UNCHANGED <<flying, last>>
      BY <1>12, <2>4 DEF SubmitURB
    <3>2. pm' = base BY <2>1, <3>1 DEF Types
    <3>3. Types' BY <1>12, <3>1, <3>2 DEF SubmitURB, Types, Places, Pointers
    <3>4. OneInFlight' BY <2>1, <3>1 DEF OneInFlight
    <3>5. PmExact' BY <1>12, <2>1, <3>1, <3>2, PacketNumbers DEF SubmitURB, PmExact, Types
    <3> QED BY <2>2, <3>3, <3>4, <3>5
  <2> QED BY <2>3, <2>4
<1> QED BY <1>1, <1>2, <1>3, <1>4, <1>5, <1>6, <1>7, <1>8, <1>9, <1>10, <1>11, <1>12
        DEF AutoPMThread

\* Every step keeps the invariant.
LEMMA SendKept == CleanReopen = TRUE /\ SendInv /\ [PmNext]_pmVars => SendInv'
<1> SUFFICES ASSUME CleanReopen = TRUE, SendInv, [PmNext]_pmVars PROVE SendInv' OBVIOUS
<1>1. CASE UNCHANGED pmVars
  BY <1>1 DEF pmVars, SendInv, Types, HoldsActive, OneInFlight, PmExact
<1>2. CASE PmNext
  BY <1>2, OthersKeep, ThreadKeeps DEF PmNext
<1> QED BY <1>1, <1>2

-----------------------------------------------------------------------------
\* What a new packet, the removal of the head and its return do to the queue.
LEMMA LineEnds ==
  ASSUME queue \in Seq(Packets), NEW p \in Packets
  PROVE  /\ Len(Append(queue, p)) = Len(queue) + 1
         /\ \A i \in 1 .. Len(queue) + 1 :
              Append(queue, p)[i] = IF i <= Len(queue) THEN queue[i] ELSE p
         /\ Len(Cons(p, queue)) = Len(queue) + 1
         /\ \A i \in 1 .. Len(queue) + 1 :
              Cons(p, queue)[i] = IF i = 1 THEN p ELSE queue[i - 1]
         /\ queue # <<>> => /\ Len(queue) \in Nat \ {0} /\ Head(queue) = queue[1]
                            /\ Len(Tail(queue)) = Len(queue) - 1
                            /\ \A i \in 1 .. Len(queue) - 1 : Tail(queue)[i] = queue[i + 1]
         /\ Len(queue) \in Nat /\ \A i \in 1 .. Len(queue) : queue[i] \in Packets
<1>1. Len(queue) \in Nat /\ \A i \in 1 .. Len(queue) : queue[i] \in Packets
  BY LenProperties, ElementOfSeq
<1>2. /\ Len(Append(queue, p)) = Len(queue) + 1
      /\ \A i \in 1 .. Len(queue) + 1 :
           Append(queue, p)[i] = IF i <= Len(queue) THEN queue[i] ELSE p
  BY <1>1, AppendProperties
<1>3. <<p>> \in Seq(Packets) /\ Len(<<p>>) = 1 /\ <<p>>[1] = p OBVIOUS
<1>4. /\ Len(<<p>> \o queue) = 1 + Len(queue)
      /\ \A i \in 1 .. 1 + Len(queue) : (<<p>> \o queue)[i] =
              IF i <= 1 THEN <<p>>[i] ELSE queue[i - 1]
  BY <1>3, ConcatProperties
<1>5. /\ Len(Cons(p, queue)) = Len(queue) + 1
      /\ \A i \in 1 .. Len(queue) + 1 :
           Cons(p, queue)[i] = IF i = 1 THEN p ELSE queue[i - 1]
  BY <1>1, <1>3, <1>4 DEF Cons
<1>6. queue # <<>> => /\ Len(queue) \in Nat \ {0} /\ Head(queue) = queue[1]
                      /\ Len(Tail(queue)) = Len(queue) - 1
                      /\ \A i \in 1 .. Len(queue) - 1 : Tail(queue)[i] = queue[i + 1]
  BY <1>1, HeadTailProperties, EmptySeq
<1> QED BY <1>1, <1>2, <1>5, <1>6

\* The queue is emptied, and the thread is not about to send anything.
LEMMA LineEmptied ==
  ASSUME InLine, queue' = <<>>, UNCHANGED <<last, count>>, thread' \notin Sending \/
         (thread \in Sending /\ UNCHANGED hold)
  PROVE  InLine'
  BY DEF InLine

\* The line is not touched.
LEMMA LineUntouched ==
  ASSUME InLine, UNCHANGED <<queue, last, hold>>, count'.packets = count.packets,
         thread' \in Sending => thread \in Sending
  PROVE  InLine'
  BY DEF InLine

\* Taking the first packet from the queue.
LEMMA LinePicked ==
  ASSUME SendInv, InLine, Pick, UNCHANGED <<last, count>>
  PROVE  InLine'
<1>1. CASE active = NoURB /\ queue # <<>>
  <2>1. /\ hold' = Head(queue) /\ queue' = Tail(queue) BY <1>1 DEF Pick
  <2>2. /\ Len(queue) \in Nat \ {0} /\ hold' = queue[1] /\ Len(queue') = Len(queue) - 1
        /\ \A i \in 1 .. Len(queue) - 1 : queue'[i] = queue[i + 1]
        /\ \A i \in 1 .. Len(queue) : queue[i] \in Nat
    <3>1. queue \in Seq(Packets) BY DEF SendInv, Types
    <3>2. /\ Len(queue) \in Nat \ {0} /\ Head(queue) = queue[1]
          /\ Len(Tail(queue)) = Len(queue) - 1
          /\ \A i \in 1 .. Len(queue) - 1 : Tail(queue)[i] = queue[i + 1]
      BY <1>1, <3>1, HeadTailProperties, LenProperties, EmptySeq
    <3>3. \A i \in 1 .. Len(queue) : queue[i] \in Packets BY <3>1, ElementOfSeq
    <3> QED BY <2>1, <3>2, <3>3, PacketNumbers
  <2>3. \A i \in 1 .. Len(queue') : i + 1 \in 1 .. Len(queue) /\ queue'[i] = queue[i + 1]
    BY <2>2
  <2>4. ASSUME NEW i \in 1 .. Len(queue'), NEW j \in 1 .. Len(queue'), i < j
        PROVE  queue'[i] < queue'[j]
    <3>1. i + 1 < j + 1 BY <2>2, <2>4
    <3>2. queue[i + 1] < queue[j + 1] BY <2>3, <3>1 DEF InLine
    <3> QED BY <2>3, <3>2
  <2>5. \A i \in 1 .. Len(queue') : last < queue'[i] /\ queue'[i] <= count.packets
    BY <2>3 DEF InLine
  <2>6. 1 \in 1 .. Len(queue) BY <2>2
  <2>7. last < hold' /\ hold' <= count.packets BY <2>2, <2>6 DEF InLine
  <2>8. \A i \in 1 .. Len(queue') : hold' < queue'[i] BY <2>2, <2>3, <2>6 DEF InLine
  <2> QED BY <2>4, <2>5, <2>7, <2>8 DEF InLine
<1>2. CASE ~(active = NoURB /\ queue # <<>>)
  BY <1>2 DEF Pick, InLine, Sending
<1> QED BY <1>1, <1>2

\* Every step keeps the packets in line.
LEMMA LineKept == SendInv /\ InLine /\ [PmNext]_pmVars => InLine'
<1> SUFFICES ASSUME SendInv, InLine, [PmNext]_pmVars PROVE InLine' OBVIOUS
<1> USE DEF SendInv
<1>1. CASE UNCHANGED pmVars BY <1>1 DEF pmVars, InLine
<1>2. CASE Open
  <2>1. count'.packets = count.packets /\ queue' = <<>> /\ thread' \notin Sending /\ last' = last
    BY <1>2, CountUp DEF Open, Types, Sending
  <2> QED BY <2>1 DEF InLine
<1>3. CASE Stop BY <1>3, LineUntouched DEF Stop
<1>4. CASE StartXmit
  <2>1. /\ count'.packets = count.packets + 1 /\ count.packets \in Nat
        /\ count.packets + 1 \in Packets
        /\ queue' = Append(queue, count.packets + 1)
        /\ UNCHANGED <<thread, last, hold>>
    <3>1. count.packets \in 0 .. MaxPackets BY CountUp DEF Types
    <3>2. count.packets < MaxPackets BY <1>4 DEF StartXmit
    <3>3. count.packets + 1 \in Packets BY <3>1, <3>2, AutoPmAssumption DEF Packets
    <3>4. count'.packets = count.packets + 1 BY <1>4, CountUp DEF StartXmit, Types
    <3> QED BY <1>4, <3>1, <3>3, <3>4 DEF StartXmit
  <2>2. /\ Len(queue) \in Nat /\ Len(queue') = Len(queue) + 1
        /\ \A i \in 1 .. Len(queue) : queue[i] \in Nat
        /\ \A i \in 1 .. Len(queue) + 1 :
             queue'[i] = IF i <= Len(queue) THEN queue[i] ELSE count.packets + 1
    BY <2>1, LineEnds, PacketNumbers DEF Types
  <2>3. last \in Nat BY DEF Types
  <2>4. \A i, j \in 1 .. Len(queue') : i < j => queue'[i] < queue'[j]
    BY <2>1, <2>2 DEF InLine
  <2>5. \A i \in 1 .. Len(queue') : last' < queue'[i] /\ queue'[i] <= count'.packets
    BY <2>1, <2>2, <2>3 DEF InLine
  <2>6. last' <= count'.packets BY <2>1, <2>3 DEF InLine
  <2>7. ASSUME thread' \in Sending
        PROVE  /\ last' < hold' /\ hold' <= count'.packets
               /\ \A i \in 1 .. Len(queue') : hold' < queue'[i]
    <3>1. hold \in Nat BY <2>1, <2>7, PacketNumbers DEF HoldsActive, Holding
    <3> QED BY <2>1, <2>2, <2>3, <2>7, <3>1 DEF InLine
  <2> QED BY <2>4, <2>5, <2>6, <2>7 DEF InLine
<1>5. CASE Suspend
  <2>1. count'.packets = count.packets BY <1>5, CountUp DEF Suspend, Types
  <2> QED BY <1>5, <2>1, LineUntouched DEF Suspend
<1>6. CASE Resume BY <1>6, LineUntouched DEF Resume
<1>7. CASE TXTimeout
  <2>1. count'.packets = count.packets BY <1>7, CountUp DEF TXTimeout, Types
  <2> QED BY <1>7, <2>1, LineUntouched DEF TXTimeout
<1>8. CASE TXTimeoutKill BY <1>8, LineEmptied DEF TXTimeoutKill
<1>9. CASE \E p \in Packets : URBCallback(p)
  BY <1>9, LineUntouched DEF URBCallback
<1>10. CASE Top BY <1>10 DEF Top, InLine, Sending
<1>11. CASE Wake BY <1>11 DEF Wake, InLine, Sending
<1>12. CASE ReadActive BY <1>12 DEF ReadActive, InLine, Sending
<1>13. CASE KillActive BY <1>13 DEF KillActive, InLine, Sending
<1>14. CASE LookAtActive
  <2>1. CASE active = Done BY <1>14, <2>1 DEF LookAtActive, InLine, Sending
  <2>2. CASE active # Done BY <1>14, <2>2, LinePicked DEF LookAtActive
  <2> QED BY <2>1, <2>2
<1>15. CASE Put BY <1>15 DEF Put, InLine, Sending
<1>16. CASE LookAgain BY <1>16, LinePicked DEF LookAgain
<1>17. CASE Get
  <2>1. count'.packets = count.packets BY <1>17, CountUp DEF Get, Types
  <2> QED BY <1>17, <2>1, LineUntouched DEF Get, Sending
<1>18. CASE Refused BY <1>18, LineUntouched DEF Refused, Sending
<1>19. CASE PushBack
  <2>1. /\ hold \in Packets /\ hold \in Nat /\ thread \in Sending /\ thread' \notin Sending
        /\ queue' = Cons(hold, queue) /\ UNCHANGED <<last, count>>
    BY <1>19, PacketNumbers DEF PushBack, HoldsActive, Holding, Sending
  <2>2. /\ Len(queue) \in Nat /\ Len(queue') = Len(queue) + 1
        /\ \A i \in 1 .. Len(queue) + 1 : queue'[i] = IF i = 1 THEN hold ELSE queue[i - 1]
    BY <2>1, LineEnds DEF Types
  <2>5. \A i \in 2 .. Len(queue') : i - 1 \in 1 .. Len(queue) /\ queue'[i] = queue[i - 1]
    BY <2>2
  <2>3. ASSUME NEW i \in 1 .. Len(queue'), NEW j \in 1 .. Len(queue'), i < j
        PROVE  queue'[i] < queue'[j]
    <3>1. j - 1 \in 1 .. Len(queue) /\ queue'[j] = queue[j - 1] BY <2>2, <2>5, <2>3
    <3>2. CASE i = 1
      <4>1. queue'[i] = hold BY <2>2, <3>2
      <4> QED BY <2>1, <3>1, <4>1 DEF InLine
    <3>3. CASE i # 1
      <4>1. i - 1 \in 1 .. Len(queue) /\ queue'[i] = queue[i - 1] /\ i - 1 < j - 1
        BY <2>2, <2>5, <2>3, <3>3
      <4> QED BY <3>1, <4>1 DEF InLine
    <3> QED BY <3>2, <3>3
  <2>4. \A i \in 1 .. Len(queue') : last < queue'[i] /\ queue'[i] <= count.packets
    BY <2>1, <2>2 DEF InLine
  <2> QED BY <2>1, <2>3, <2>4 DEF InLine
<1>20. CASE Clear BY <1>20 DEF Clear, InLine, Sending
<1>21. CASE SubmitURB
  <2>1. /\ hold = active /\ thread \in Sending /\ thread' \notin Sending
        /\ last' \in {last, hold} /\ UNCHANGED <<queue, count>>
    BY <1>21 DEF SubmitURB, HoldsActive, Holding, Sending
  <2> QED BY <2>1 DEF InLine
<1> QED
  BY <1>1, <1>2, <1>3, <1>4, <1>5, <1>6, <1>7, <1>8, <1>9, <1>10, <1>11, <1>12, <1>13,
     <1>14, <1>15, <1>16, <1>17, <1>18, <1>19, <1>20, <1>21 DEF PmNext, AutoPMThread

-----------------------------------------------------------------------------
\* In every reachable state.
LEMMA SendAlways == CleanReopen = TRUE => (PmSpec => [](SendInv /\ InLine))
<1> SUFFICES ASSUME CleanReopen = TRUE PROVE PmSpec => [](SendInv /\ InLine) OBVIOUS
<1>1. SendInv /\ [PmNext]_pmVars => SendInv' BY SendKept
<1> QED BY <1>1, SendInit, LineKept, PTL DEF PmSpec

\* Every variable keeps its type, and the thread holds an entry of the queue
\* exactly while it sends it (GobiUSBNetAutoPMThread), when the interface is not
\* opened over an old URB.
THEOREM TypeCorrect == CleanReopen = TRUE => (PmSpec => []PmTypeOK)
<1> SUFFICES ASSUME CleanReopen = TRUE PROVE PmSpec => []PmTypeOK OBVIOUS
<1>1. SendInv => PmTypeOK
  BY PacketNumbers DEF SendInv, Types, Counts, Killers, HoldsActive, Holding, Sending, PmTypeOK
<1>2. PmSpec => [](SendInv /\ InLine) BY SendAlways
<1> QED BY <1>1, <1>2, PTL

\* At most one URB is under way, and it is the active one, with any number of
\* timeouts, suspensions and failures (GobiUSBNetAutoPMThread,
\* GobiUSBNetURBCallback).
THEOREM OneAtATime == CleanReopen = TRUE => (PmSpec => []OneInFlight)
<1> SUFFICES ASSUME CleanReopen = TRUE PROVE PmSpec => []OneInFlight OBVIOUS
<1>1. SendInv => OneInFlight BY DEF SendInv
<1>2. PmSpec => [](SendInv /\ InLine) BY SendAlways
<1> QED BY <1>1, <1>2, PTL

\* The thread holds exactly the references on the interface that it needs
\* (usb_autopm_get_interface, usb_autopm_put_interface).
THEOREM ReferencesExact == CleanReopen = TRUE => (PmSpec => []PmExact)
<1> SUFFICES ASSUME CleanReopen = TRUE PROVE PmSpec => []PmExact OBVIOUS
<1>1. SendInv => PmExact BY DEF SendInv
<1>2. PmSpec => [](SendInv /\ InLine) BY SendAlways
<1> QED BY <1>1, <1>2, PTL

\* The invariant puts the last packet, the one that the thread has taken and the
\* queue in one increasing line.
LEMMA LineOrdered == SendInv /\ InLine => SentInOrder
<1> SUFFICES ASSUME SendInv, InLine PROVE SentInOrder OBVIOUS
<1> DEFINE taken == IF thread \in {"get", "refused", "push back"} THEN <<hold>> ELSE <<>>
           front == <<last>> \o taken
           line == front \o queue
<1>1. /\ queue \in Seq(Nat) /\ last \in Nat /\ Len(queue) \in Nat
      /\ \A i \in 1 .. Len(queue) : queue[i] \in Nat
  <2>1. queue \in Seq(Packets) /\ last \in Nat BY DEF SendInv, Types
  <2>2. \A i \in 1 .. Len(queue) : queue[i] \in Nat
    BY <2>1, ElementOfSeq, PacketNumbers
  <2>3. queue \in Seq(Nat) BY <2>1, <2>2, SeqDef, LenProperties
  <2> QED BY <2>1, <2>2, <2>3, LenProperties
<1>2. /\ front \in Seq(Nat) /\ Len(front) \in {1, 2} /\ front[1] = last
      /\ Len(front) = 2 => /\ front[2] = hold /\ hold \in Nat /\ thread \in Sending
  <2>1. CASE thread \in {"get", "refused", "push back"}
    <3>1. hold \in Nat /\ thread \in Sending
      BY <2>1, PacketNumbers DEF SendInv, HoldsActive, Holding, Sending
    <3>2. /\ <<last>> \in Seq(Nat) /\ Len(<<last>>) = 1 /\ <<last>>[1] = last
          /\ <<hold>> \in Seq(Nat) /\ Len(<<hold>>) = 1 /\ <<hold>>[1] = hold
      BY <1>1, <3>1
    <3>3. front = <<last>> \o <<hold>> BY <2>1
    <3> HIDE DEF front
    <3>4. /\ front \in Seq(Nat) /\ Len(front) = 2
          /\ \A i \in 1 .. 2 : front[i] = IF i <= 1 THEN <<last>>[i] ELSE <<hold>>[i - 1]
      BY <3>2, <3>3, ConcatProperties
    <3> QED BY <3>1, <3>2, <3>4
  <2>2. CASE thread \notin {"get", "refused", "push back"}
    <3>1. <<last>> \in Seq(Nat) /\ Len(<<last>>) = 1 /\ <<last>>[1] = last BY <1>1
    <3>2. front = <<last>> \o <<>> BY <2>2
    <3>3. front = <<last>> BY <3>1, <3>2, ConcatEmptySeq
    <3>4. Len(front) = 1 /\ front[1] = last /\ front \in Seq(Nat) BY <3>1, <3>3
    <3> HIDE DEF front
    <3> QED BY <3>4
  <2> QED BY <2>1, <2>2
<1> HIDE DEF front
<1>3. /\ DOMAIN line = 1 .. Len(front) + Len(queue)
      /\ \A i \in 1 .. Len(front) + Len(queue) :
           line[i] = IF i <= Len(front) THEN front[i] ELSE queue[i - Len(front)]
  BY <1>1, <1>2, ConcatProperties, LenProperties
<1> HIDE DEF line
<1>4. ASSUME NEW i \in DOMAIN line, NEW j \in DOMAIN line, i < j PROVE line[i] < line[j]
  <2>1. CASE i > Len(front)
    <3>1. /\ i - Len(front) \in 1 .. Len(queue) /\ j - Len(front) \in 1 .. Len(queue)
          /\ i - Len(front) < j - Len(front)
          /\ line[i] = queue[i - Len(front)] /\ line[j] = queue[j - Len(front)]
      <4>1. i \in Nat /\ j \in Nat /\ j <= Len(front) + Len(queue) /\ Len(front) \in Nat
        BY <1>1, <1>2, <1>3
      <4>2. ~(i <= Len(front)) /\ ~(j <= Len(front)) BY <1>4, <2>1, <4>1
      <4>3. line[i] = queue[i - Len(front)] /\ line[j] = queue[j - Len(front)]
        BY <1>3, <4>2
      <4> QED BY <1>1, <1>4, <4>1, <4>2, <4>3
    <3> QED BY <3>1 DEF InLine
  <2>2. CASE i <= Len(front) /\ j > Len(front)
    <3>1. /\ j - Len(front) \in 1 .. Len(queue) /\ line[j] = queue[j - Len(front)]
          /\ line[i] = front[i] /\ i \in 1 .. Len(front)
      BY <1>1, <1>2, <1>3, <2>2
    <3>2. CASE i = 1 BY <1>2, <3>1, <3>2 DEF InLine
    <3>3. CASE i = 2 BY <1>2, <3>1, <3>3 DEF InLine
    <3> QED BY <1>2, <3>1, <3>2, <3>3
  <2>3. CASE j <= Len(front)
    <3>1. i = 1 /\ j = 2 /\ Len(front) = 2 BY <1>1, <1>2, <1>3, <1>4, <2>3
    <3> QED BY <1>2, <1>3, <3>1 DEF InLine
  <2> QED BY <1>1, <1>2, <1>3, <2>1, <2>2, <2>3
<1> QED BY <1>4 DEF SentInOrder, line, front

\* Packets are submitted in the order in which they were queued, although one
\* may be taken back (GobiUSBNetAutoPMThread, on an error of
\* usb_autopm_get_interface).
THEOREM OrderKept == CleanReopen = TRUE => (PmSpec => []SentInOrder)
<1> SUFFICES ASSUME CleanReopen = TRUE PROVE PmSpec => []SentInOrder OBVIOUS
<1>1. SendInv /\ InLine => SentInOrder BY LineOrdered
<1>2. PmSpec => [](SendInv /\ InLine) BY SendAlways
<1> QED BY <1>1, <1>2, PTL

-----------------------------------------------------------------------------
(* Lists                                                                    *)

\* No element is on the list twice.
Once(s) == \A i, j \in 1 .. Len(s) : s[i] = s[j] => i = j

\* Append adds an element at the end, ...
LEMMA AppendFacts ==
  ASSUME NEW S, NEW s \in Seq(S), NEW x \in S
  PROVE  /\ Append(s, x) \in Seq(S) /\ Append(s, x) # <<>>
         /\ Len(Append(s, x)) = Len(s) + 1 /\ Len(s) \in Nat
         /\ \A i \in 1 .. Len(s) : i \in 1 .. Len(s) + 1 /\ Append(s, x)[i] = s[i]
         /\ Append(s, x)[Len(s) + 1] = x
         /\ \A i \in 1 .. Len(s) + 1 : i \in 1 .. Len(s) \/ i = Len(s) + 1
<1>1. Len(s) \in Nat
  BY LenProperties
<1>. QED BY <1>1

\* ... so that the list then contains it too, ...
LEMMA AppendContains ==
  ASSUME NEW S, NEW s \in Seq(S), NEW x \in S
  PROVE  /\ \A y : Contains(Append(s, x), y) <=> Contains(s, y) \/ y = x
         /\ Once(s) /\ ~Contains(s, x) => Once(Append(s, x))
<1>1. ASSUME NEW y, Contains(s, y) \/ y = x  PROVE Contains(Append(s, x), y)
  BY <1>1, AppendFacts DEF Contains
<1>2. ASSUME NEW y, Contains(Append(s, x), y)  PROVE Contains(s, y) \/ y = x
  BY <1>2, AppendFacts DEF Contains
<1>3. ASSUME Once(s), ~Contains(s, x)  PROVE Once(Append(s, x))
  <2>. SUFFICES ASSUME NEW i \in 1 .. Len(s) + 1, NEW j \in 1 .. Len(s) + 1,
                       Append(s, x)[i] = Append(s, x)[j]
                PROVE  i = j
    BY AppendFacts DEF Once
  <2>. QED BY <1>3, AppendFacts DEF Once, Contains
<1>. QED BY <1>1, <1>2, <1>3

\* ... and RemoveAt takes away the element at a position.
LEMMA RemoveAtFacts ==
  ASSUME NEW S, NEW s \in Seq(S), NEW k \in 1 .. Len(s)
  PROVE  /\ RemoveAt(s, k) \in Seq(S) /\ Len(RemoveAt(s, k)) = Len(s) - 1
         /\ Len(s) \in Nat /\ k \in Nat
         /\ \A i \in 1 .. Len(s) - 1 :
              RemoveAt(s, k)[i] = IF i < k THEN s[i] ELSE s[i + 1]
<1>. DEFINE a == SubSeq(s, 1, k - 1)
            b == SubSeq(s, k + 1, Len(s))
<1>1. Len(s) \in Nat /\ k \in Nat /\ \A i \in 1 .. Len(s) : s[i] \in S
  BY LenProperties, ElementOfSeq
<1>2. a \in Seq(S) /\ Len(a) = k - 1 /\ \A i \in 1 .. k - 1 : a[i] = s[i]
  <2>1. \A i \in 1 .. k - 1 : s[i] \in S
    BY <1>1
  <2>. QED BY <1>1, <2>1, SubSeqProperties
<1>3. b \in Seq(S) /\ Len(b) = Len(s) - k /\ \A i \in 1 .. Len(s) - k : b[i] = s[k + i]
  <2>1. \A i \in k + 1 .. Len(s) : s[i] \in S
    BY <1>1
  <2>. QED BY <1>1, <2>1, SubSeqProperties
<1>. HIDE DEF a, b
<1>. DEFINE r == a \o b
<1>4. /\ r \in Seq(S) /\ Len(r) = Len(a) + Len(b)
      /\ \A i \in 1 .. Len(a) + Len(b) : r[i] = IF i <= Len(a) THEN a[i] ELSE b[i - Len(a)]
  BY <1>2, <1>3, ConcatProperties
<1>. HIDE DEF r
<1>5. Len(a) + Len(b) = Len(s) - 1
  BY <1>1, <1>2, <1>3
<1>6. ASSUME NEW i \in 1 .. Len(s) - 1, i < k  PROVE r[i] = s[i]
  <2>1. i \in 1 .. k - 1 /\ i \in 1 .. Len(a) + Len(b) /\ i <= Len(a)
    BY <1>1, <1>2, <1>5, <1>6
  <2>. QED BY <1>2, <1>4, <2>1
<1>7. ASSUME NEW i \in 1 .. Len(s) - 1, ~(i < k)  PROVE r[i] = s[i + 1]
  <2>1. PICK j \in 1 .. Len(s) - k : j = i - Len(a) /\ k + j = i + 1
    BY <1>1, <1>2, <1>7
  <2>2. i \in 1 .. Len(a) + Len(b) /\ ~(i <= Len(a))
    BY <1>1, <1>2, <1>5, <1>7
  <2>3. r[i] = b[j] /\ b[j] = s[k + j]
    BY <1>3, <1>4, <2>1, <2>2
  <2>. QED BY <2>1, <2>3
<1>8. RemoveAt(s, k) = r
  BY DEF RemoveAt, a, b, r
<1>. QED BY <1>1, <1>4, <1>5, <1>6, <1>7, <1>8

\* When no element is on the list twice, it takes that one element away.
LEMMA RemoveAtContains ==
  ASSUME NEW S, NEW s \in Seq(S), NEW k \in 1 .. Len(s)
  PROVE  /\ \A y : Contains(RemoveAt(s, k), y) => Contains(s, y)
         /\ \A y : Contains(s, y) /\ y # s[k] => Contains(RemoveAt(s, k), y)
         /\ Once(s) => /\ Once(RemoveAt(s, k)) /\ ~Contains(RemoveAt(s, k), s[k])
<1>. DEFINE r == RemoveAt(s, k)
            n == Len(s)
            from(i) == IF i < k THEN i ELSE i + 1
<1>1. /\ Len(r) = n - 1 /\ n \in Nat /\ k \in Nat /\ k <= n
      /\ \A i \in 1 .. n - 1 : r[i] = s[from(i)] /\ from(i) \in 1 .. n /\ from(i) # k
  BY RemoveAtFacts
<1>. HIDE DEF r
<1>2. ASSUME NEW y, Contains(r, y)  PROVE Contains(s, y)
  BY <1>1, <1>2 DEF Contains
<1>3. ASSUME NEW y, Contains(s, y), y # s[k]  PROVE Contains(r, y)
  <2>1. PICK i \in 1 .. n : s[i] = y
    BY <1>3 DEF Contains
  <2>2. CASE i < k
    BY <1>1, <2>1, <2>2 DEF Contains
  <2>3. CASE i > k
    <3>1. i - 1 \in 1 .. n - 1 /\ from(i - 1) = i
      BY <1>1, <2>3
    <3>. QED BY <1>1, <2>1, <3>1 DEF Contains
  <2>4. i # k
    BY <1>3, <2>1
  <2>. QED BY <1>1, <2>2, <2>3, <2>4
<1>4. ASSUME Once(s)  PROVE Once(r) /\ ~Contains(r, s[k])
  <2>1. \A i, j \in 1 .. n - 1 : from(i) = from(j) => i = j
    BY <1>1
  <2>2. Once(r)
    BY <1>1, <1>4, <2>1 DEF Once
  <2>3. ~Contains(r, s[k])
    BY <1>1, <1>4 DEF Once, Contains
  <2>. QED BY <2>2, <2>3
<1>. QED BY <1>2, <1>3, <1>4 DEF r

\* Tail takes away the first element.
LEMMA TailFacts ==
  ASSUME NEW S, NEW s \in Seq(S), s # <<>>
  PROVE  /\ Tail(s) \in Seq(S) /\ Head(s) \in S /\ Contains(s, Head(s))
         /\ \A y : Contains(s, y) <=> y = Head(s) \/ Contains(Tail(s), y)
         /\ Once(s) => Once(Tail(s)) /\ ~Contains(Tail(s), Head(s))
<1>1. /\ Tail(s) \in Seq(S) /\ Head(s) \in S /\ Len(Tail(s)) = Len(s) - 1 /\ Head(s) = s[1]
      /\ \A i \in 1 .. Len(s) - 1 : Tail(s)[i] = s[i + 1]
      /\ Len(s) \in Nat /\ Len(s) >= 1
  BY HeadTailProperties, EmptySeq, LenProperties
<1>2. \A i \in 1 .. Len(s) : i = 1 \/ (i - 1 \in 1 .. Len(s) - 1 /\ (i - 1) + 1 = i)
  BY <1>1
<1>3. \A i \in 1 .. Len(s) - 1 : i + 1 \in 1 .. Len(s) /\ i + 1 # 1
  BY <1>1
<1>4. 1 \in 1 .. Len(s)
  BY <1>1
<1>5. ASSUME NEW y, Contains(s, y)  PROVE y = Head(s) \/ Contains(Tail(s), y)
  BY <1>1, <1>2, <1>5 DEF Contains
<1>6. ASSUME NEW y, y = Head(s) \/ Contains(Tail(s), y)  PROVE Contains(s, y)
  BY <1>1, <1>3, <1>4, <1>6 DEF Contains
<1>7. ASSUME Once(s)  PROVE Once(Tail(s)) /\ ~Contains(Tail(s), Head(s))
  <2>1. \A i, j \in 1 .. Len(s) - 1 : i + 1 = j + 1 => i = j
    BY <1>1
  <2>2. Once(Tail(s))
    BY <1>1, <1>3, <1>7, <2>1 DEF Once
  <2>3. ~Contains(Tail(s), Head(s))
    BY <1>1, <1>3, <1>4, <1>7 DEF Once, Contains
  <2>. QED BY <2>2, <2>3
<1>. QED BY <1>1, <1>5, <1>6, <1>7

\* The least number of a set is Min's.
LEMMA MinFacts ==
  ASSUME NEW T \in SUBSET Nat, T # {}
  PROVE  Min(T) \in T /\ \A n \in T : Min(T) <= n
  BY LeastNumber DEF Min

\* The place of an element, 0 when there is none.
Place(s, x) == SelectInSeq(s, LAMBDA y : y = x)

\* It is the place of an element that is there.
LEMMA PlaceFacts ==
  ASSUME NEW S, NEW s \in Seq(S), NEW x
  PROVE  /\ Place(s, x) = 0 <=> ~Contains(s, x)
         /\ Contains(s, x) => Place(s, x) \in 1 .. Len(s) /\ s[Place(s, x)] = x
         /\ Place(s, x) \in Nat
<1>. DEFINE I == {i \in 1 .. Len(s) : s[i] = x}
<1>1. I \in SUBSET Nat
  BY LenProperties
<1>2. I # {} => Min(I) \in I
  BY <1>1, MinFacts
<1>3. Place(s, x) = IF I # {} THEN Min(I) ELSE 0
  BY DEF Place, SelectInSeq
<1>4. I # {} <=> Contains(s, x)
  BY DEF Contains
<1>. QED BY <1>1, <1>2, <1>3, <1>4

\* The element is removed when it is there.
LEMMA RemoveFirstFacts ==
  ASSUME NEW S, NEW s \in Seq(S), NEW x
  PROVE  /\ RemoveFirst(s, x) \in Seq(S)
         /\ Once(s) => /\ Once(RemoveFirst(s, x))
                       /\ \A y : Contains(RemoveFirst(s, x), y) <=> Contains(s, y) /\ y # x
<1>1. RemoveFirst(s, x) = IF Contains(s, x) THEN RemoveAt(s, Place(s, x)) ELSE s
  BY DEF RemoveFirst, Contains, Place
<1>2. CASE Contains(s, x)
  <2>1. Place(s, x) \in 1 .. Len(s) /\ s[Place(s, x)] = x
    BY <1>2, PlaceFacts
  <2>. QED BY <1>1, <1>2, <2>1, RemoveAtFacts, RemoveAtContains
<1>3. CASE ~Contains(s, x)
  BY <1>1, <1>3 DEF Contains
<1>. QED BY <1>2, <1>3

\* As many elements as places.
LEMMA OnceCardinality ==
  ASSUME NEW S, NEW s \in Seq(S), Once(s)
  PROVE  Cardinality(ToSet(s)) = Len(s)
<1>1. Len(s) \in Nat /\ DOMAIN s = 1 .. Len(s) /\ s \in [1 .. Len(s) -> S]
  BY LenProperties
<1>2. s \in [1 .. Len(s) -> ToSet(s)]
  BY <1>1 DEF ToSet
<1>3. ExistsBijection(1 .. Len(s), ToSet(s))
  <2>1. \A i, j \in 1 .. Len(s) : s[i] = s[j] => i = j
    BY DEF Once
  <2>2. \A y \in ToSet(s) : \E i \in 1 .. Len(s) : s[i] = y
    BY <1>1 DEF ToSet
  <2>. QED BY <1>2, <2>1, <2>2 DEF ExistsBijection, Bijection, Injection, Surjection, IsInjective
<1>4. IsFiniteSet(1 .. Len(s)) /\ Cardinality(1 .. Len(s)) = Len(s)
  BY <1>1, FS_Interval
<1>. QED BY <1>3, <1>4, FS_Bijection

-----------------------------------------------------------------------------
(* The device                                                               *)

Memory == [reads : Seq(Messages), notify : Seq(Threads \cup {Async}),
           urbs : Seq(Threads \cup {None})]
Doing == [at : At, op : {"none", "get", "release", "read", "write"},
          file : Files \cup {None}, c : Clients \cup {None},
          n : Nat, got : Nat, nxt : Clients \cup {None}]
Entry == [at : {"none", "up", "rearm"}, entry : Threads \cup {Async, None},
          c : Clients \cup {None}]
Hands == Threads \cup {ReadCb}

\* The types of the variables other than the list and the threads.
Around ==
  /\ valid \in BOOLEAN
  /\ mem \in [Clients -> Memory]
  /\ file \in [Files -> Ids \cup {None}] /\ tids \in Nat
  /\ hand \in [Hands -> Entry]
  /\ cb \in [to : SUBSET Clients, msg : Messages, c : Clients \cup {None}]
  /\ pending \subseteq [n : Nat, op : {"get", "release"}, c : Clients \cup {None}]
  /\ assigned \subseteq Ids

\* n is the client after c on the list.
Follows(c, n) ==
  \E i \in 1 .. Len(list) : list[i] = c /\ n = IF i < Len(list) THEN list[i + 1] ELSE None

\* What a thread does goes with where it is; ...
Busy(d) ==
  /\ d \in Doing
  /\ d.op \in {"read", "write"} => d.c \in Ids
  /\ d.op = "release" => d.c \in Clients
  /\ d.op = "get" => d.file \in Files /\ d.n >= 1
  /\ d.at \in {"idle", "loop", "kill", "gone"} <=> d.op = "none"
  /\ d.at = "register" => d.op = "get" /\ d.c \in Ids
  /\ d.at \in {"cleanup", "notify"} => d.op = "release"

\* ... one at a time notifies the readers of a client that it releases, and
\* knows what follows that on the list; the device is valid until it is gone.
ListInv ==
  /\ Around /\ list \in Seq(Clients) /\ Once(list)
  /\ th \in [Threads -> Doing]
  /\ \A t \in Threads : Busy(th[t]) /\ (th[t].at = "notify" => Follows(th[t].c, th[t].nxt))
  /\ \A t, u \in Threads : th[t].at = "notify" /\ th[u].at = "notify" => t = u
  /\ valid = (th[Dereg].at # "gone")

\* What the assumptions say of the constants.
LEMMA Constants ==
  /\ Users \subseteq Threads /\ Dereg \in Threads /\ Dereg \notin Users
  /\ Threads \subseteq Hands /\ ReadCb \in Hands /\ ReadCb \notin Threads
  /\ Ctl \in Clients /\ Wds \in Clients /\ Ids \subseteq Clients
  /\ Ctl # Wds /\ Ctl \notin Ids /\ Wds \notin Ids /\ Clients = Ids \cup {Ctl, Wds}
  /\ None \notin Clients /\ None \notin Threads /\ None \notin Files /\ None # Async
  /\ Async \notin Threads /\ TidRange \in Nat \ {0} /\ Hands = Threads \cup {ReadCb}
  BY QmiAssumption DEF Threads, Clients, Hands

\* A transaction id is a number below TidRange.
LEMMA TidType == \A n \in Nat : TidOf(n) \in 0 .. TidRange - 1 /\ TidOf(n) \in Nat
  BY Constants DEF TidOf

\* The records that the actions write have their types.
LEMMA RecordTypes ==
  /\ NoMsg \in Messages /\ Fresh \in Memory /\ Rest \in Doing /\ NoHand \in Entry
  /\ NoCb \in [to : SUBSET Clients, msg : Messages, c : Clients \cup {None}]
  /\ [Fresh EXCEPT !.notify = <<Async>>] \in Memory
<1>1. NoMsg \in Messages
  BY Constants DEF NoMsg, Messages
<1>2. Rest \in Doing
  BY DEF Rest, Doing, At
<1>3. NoHand \in Entry
  BY DEF NoHand, Entry
<1>4. Fresh \in Memory /\ [Fresh EXCEPT !.notify = <<Async>>] \in Memory
  <2>1. /\ <<>> \in Seq(Messages) /\ <<>> \in Seq(Threads \cup {Async})
        /\ <<>> \in Seq(Threads \cup {None}) /\ <<Async>> \in Seq(Threads \cup {Async})
    OBVIOUS
  <2>. QED BY <2>1 DEF Fresh, Memory
<1>. QED BY <1>1, <1>2, <1>3, <1>4 DEF NoCb

\* What a thread is about.
LEMMA ChannelType ==
  ASSUME ListInv, NEW t \in Threads
  PROVE  /\ th[t] \in Doing
         /\ Channel(t) \in Clients \cup {None}
         /\ th[t].op # "none" => Channel(t) \in Clients
         /\ ReadTid(t) \in Nat
         /\ Asks(t) => Channel(t) = Ctl
         /\ th[t].op \in {"read", "write"} => Channel(t) \in Ids
<1>1. th[t] \in Doing /\ Busy(th[t])
  BY DEF ListInv
<1>2. th[t].op \in {"none", "get", "release", "read", "write"} /\ th[t].c \in Clients \cup {None}
      /\ th[t].n \in Nat
  BY <1>1 DEF Doing
<1>. QED BY <1>1, <1>2, Constants, TidType DEF Busy, Asks, Channel, ReadTid

\* How a thread goes on after a failure.
LEMMA FailedType ==
  ASSUME ListInv, NEW t \in Threads
  PROVE  /\ Failed(t) \in Doing
         /\ \/ Failed(t) = Rest
            \/ th[t].op = "release" /\ Failed(t) = [th[t] EXCEPT !.at = "cleanup"]
<1>1. th[t] \in Doing
  BY DEF ListInv
<1>2. [th[t] EXCEPT !.at = "cleanup"] \in Doing
  BY <1>1 DEF Doing, At
<1>. QED BY <1>2, RecordTypes DEF Failed

\* Where a client is, and what follows it.
LEMMA FollowsFacts ==
  ASSUME ListInv, NEW c \in Clients, NEW n, Follows(c, n)
  PROVE  /\ Place(list, c) \in 1 .. Len(list) /\ list[Place(list, c)] = c /\ Contains(list, c)
         /\ n = None => Place(list, c) = Len(list)
         /\ n # None => Place(list, n) = Place(list, c) + 1
         /\ n \in Clients \cup {None} /\ Len(list) \in Nat
<1>1. PICK i \in 1 .. Len(list) :
        list[i] = c /\ n = IF i < Len(list) THEN list[i + 1] ELSE None
  BY DEF Follows
<1>2. list \in Seq(Clients) /\ Len(list) \in Nat /\ Once(list)
      /\ \A j \in 1 .. Len(list) : list[j] \in Clients
  BY LenProperties, ElementOfSeq DEF ListInv
<1>3. \A j \in 1 .. Len(list) : Place(list, list[j]) = j
  <2>. TAKE j \in 1 .. Len(list)
  <2>1. Contains(list, list[j])
    BY DEF Contains
  <2>2. Place(list, list[j]) \in 1 .. Len(list) /\ list[Place(list, list[j])] = list[j]
    BY <1>2, <2>1, PlaceFacts
  <2>. QED BY <1>2, <2>2 DEF Once
<1>4. Contains(list, c) /\ Place(list, c) = i
  BY <1>1, <1>3 DEF Contains
<1>5. CASE i < Len(list)
  <2>1. i + 1 \in 1 .. Len(list) /\ n = list[i + 1]
    BY <1>1, <1>2, <1>5
  <2>2. Place(list, n) = i + 1 /\ n \in Clients
    BY <1>2, <1>3, <2>1
  <2>. QED BY <1>1, <1>2, <1>4, <2>2, Constants
<1>6. CASE ~(i < Len(list))
  BY <1>1, <1>2, <1>4, <1>6
<1>. QED BY <1>5, <1>6

\* To free a client is to take it from the list.
LEMMA FreeDoes ==
  ASSUME ListInv, NEW t \in Threads, NEW c \in Clients, NEW n, Follows(c, n), Free(t, c, n)
  PROVE  /\ \E i \in 1 .. Len(list) : list[i] = c /\ list' = RemoveAt(list, i)
         /\ mem' = [mem EXCEPT ![c] = Fresh]
         /\ th' \in [Threads -> Doing] /\ th'[t] = Released(t)
         /\ \A u \in Threads \ {t} :
              th'[u] = th[u] \/ (th[u].at = "urb" /\ th'[u] = [th[u] EXCEPT !.at = "sent"])
<1>. DEFINE i == Place(list, c)
            rest == IF n = None THEN <<>> ELSE SubSeq(list, Place(list, n), Len(list))
            killed == ToSet(mem[c].urbs)
<1>1. /\ i \in 1 .. Len(list) /\ list[i] = c /\ Len(list) \in Nat
      /\ n = None => i = Len(list)
      /\ n # None => Place(list, n) = i + 1
  BY FollowsFacts
<1>2. rest = SubSeq(list, i + 1, Len(list))
  <2>1. CASE n = None
    <3>1. i + 1 \in Int /\ Len(list) \in Int /\ Len(list) < i + 1
      BY <1>1, <2>1
    <3>. QED BY <2>1, <3>1, SubSeqEmpty
  <2>2. CASE n # None
    BY <1>1, <2>2
  <2>. QED BY <2>1, <2>2
<1>3. /\ list' = SubSeq(list, 1, i - 1) \o rest
      /\ mem' = [mem EXCEPT ![c] = Fresh]
      /\ th' = [u \in Threads |->
                 IF u = t THEN Released(t)
                 ELSE IF u \in killed /\ th[u].at = "urb"
                      THEN [th[u] EXCEPT !.at = "sent"] ELSE th[u]]
  BY DEF Free, Place
<1>4. list' = RemoveAt(list, i)
  BY <1>2, <1>3 DEF RemoveAt
<1>5. \A u \in Threads : th[u] \in Doing
  BY DEF ListInv
<1>6. \A d \in Doing : [d EXCEPT !.at = "sent"] \in Doing
  BY DEF Doing, At
<1>7. Released(t) \in Doing
  BY RecordTypes DEF Released, Rest, Doing, At
<1>. QED BY <1>1, <1>3, <1>4, <1>5, <1>6, <1>7

\* The clients that a message is given to, of those of `to` from position i on: ...
Reach(R, i, to) == \A x \in R : x \in Clients /\ x \in to /\ \E j \in i .. Len(list) : list[j] = x

Given(R, m) == [x \in Clients |-> IF x \in R THEN [mem[x] EXCEPT !.reads = Append(@, m)]
                                             ELSE mem[x]]

\* ... nobody waits for it, or the first of those who wait is notified.
Posted(i, to, m) ==
  \E R \in SUBSET Clients :
    /\ Reach(R, i, to)
    /\ \/ /\ \A x \in R : FirstWaiter(x, m.tid) = 0
          /\ mem' = Given(R, m) /\ cb' = NoCb /\ hand' = hand
       \/ \E c \in R :
            /\ \A x \in R \ {c} : FirstWaiter(x, m.tid) = 0
            /\ FirstWaiter(c, m.tid) \in 1 .. Len(mem[c].notify)
            /\ mem' = [Given(R, m) EXCEPT ![c].notify = RemoveAt(@, FirstWaiter(c, m.tid))]
            /\ hand' = [hand EXCEPT ![ReadCb] =
                          [at |-> "up", entry |-> mem[c].notify[FirstWaiter(c, m.tid)], c |-> c]]
            /\ cb' = [to |-> to, msg |-> m, c |-> c]

\* The first reader that waits, ...
LEMMA FirstWaiterFacts ==
  ASSUME ListInv, NEW c \in Clients, NEW tid
  PROVE  LET w == FirstWaiter(c, tid)
             ok(e) == tid = 0 \/ EntryTid(e) \in {0, tid} IN
         /\ w \in 0 .. Len(mem[c].notify)
         /\ w # 0 => w \in 1 .. Len(mem[c].notify) /\ ok(mem[c].notify[w])
         /\ w = 0 => \A i \in 1 .. Len(mem[c].notify) : ~ok(mem[c].notify[i])
<1>. DEFINE s == mem[c].notify
            I == {i \in 1 .. Len(s) : tid = 0 \/ EntryTid(s[i]) \in {0, tid}}
<1>1. s \in Seq(Threads \cup {Async})
  BY DEF ListInv, Around, Memory
<1>2. Len(s) \in Nat
  BY <1>1, LenProperties
<1>3. I \in SUBSET Nat
  BY <1>2
<1>4. I # {} => Min(I) \in I
  BY <1>3, MinFacts
<1>5. FirstWaiter(c, tid) = IF I # {} THEN Min(I) ELSE 0
  BY DEF FirstWaiter, SelectInSeq
<1>. QED BY <1>2, <1>4, <1>5

\* ... and the first message that a reader takes.
LEMMA FirstUnreadFacts ==
  ASSUME ListInv, NEW c \in Clients, NEW tid
  PROVE  LET k == FirstUnread(c, tid) IN
         /\ k \in 0 .. Len(mem[c].reads)
         /\ k # 0 => k \in 1 .. Len(mem[c].reads) /\ tid \in {0, mem[c].reads[k].tid}
         /\ k = 0 => \A i \in 1 .. Len(mem[c].reads) : tid \notin {0, mem[c].reads[i].tid}
<1>. DEFINE s == mem[c].reads
            I == {i \in 1 .. Len(s) : tid \in {0, s[i].tid}}
<1>1. s \in Seq(Messages)
  BY DEF ListInv, Around, Memory
<1>2. Len(s) \in Nat
  BY <1>1, LenProperties
<1>3. I \in SUBSET Nat
  BY <1>2
<1>4. I # {} => Min(I) \in I
  BY <1>3, MinFacts
<1>5. FirstUnread(c, tid) = IF I # {} THEN Min(I) ELSE 0
  BY DEF FirstUnread, SelectInSeq
<1>. QED BY <1>2, <1>4, <1>5

\* Post does this.
LEMMA PostDoes ==
  ASSUME ListInv, NEW i \in Nat \ {0}, NEW to \in SUBSET Clients, NEW m, Post(i, to, m)
  PROVE  Posted(i, to, m)
<1>. DEFINE hits == {j \in i .. Len(list) : list[j] \in to}
            stops == {j \in hits : FirstWaiter(list[j], m.tid) # 0}
            stop == IF stops = {} THEN 0 ELSE CHOOSE j \in stops : \A k \in stops : j <= k
            R == {list[j] : j \in {k \in hits : stop = 0 \/ k <= stop}}
            c == list[stop]
            w == FirstWaiter(c, m.tid)
<1>1. Len(list) \in Nat /\ \A j \in 1 .. Len(list) : list[j] \in Clients
  BY LenProperties, ElementOfSeq DEF ListInv
<1>2. hits \in SUBSET Nat /\ stops \in SUBSET hits /\ 0 \notin hits
      /\ \A j \in hits : j \in 1 .. Len(list)
  BY <1>1
<1>3. stops # {} => stop \in stops /\ \A k \in stops : stop <= k
  BY <1>2, LeastNumber
<1>4. stop = 0 <=> stops = {}
  BY <1>2, <1>3
<1>5. R \in SUBSET Clients /\ Reach(R, i, to)
  BY <1>1, <1>2 DEF Reach
<1>6. /\ stop = 0 => mem' = Given(R, m) /\ cb' = NoCb /\ hand' = hand
      /\ stop # 0 => /\ mem' = [Given(R, m) EXCEPT ![c].notify = RemoveAt(@, w)]
                     /\ hand' = [hand EXCEPT
                                   ![ReadCb] = [at |-> "up", entry |-> mem[c].notify[w], c |-> c]]
                     /\ cb' = [to |-> to, msg |-> m, c |-> c]
  BY DEF Post, Given
<1>7. CASE stop = 0
  <2>1. \A x \in R : FirstWaiter(x, m.tid) = 0
    BY <1>4, <1>7
  <2>. QED BY <1>5, <1>6, <1>7, <2>1 DEF Posted
<1>8. CASE stop # 0
  <2>1. stop \in stops /\ stop \in hits /\ c \in R /\ c \in Clients
    BY <1>1, <1>2, <1>3, <1>4, <1>8
  <2>2. w \in 1 .. Len(mem[c].notify)
    BY <2>1, FirstWaiterFacts
  <2>3. \A x \in R \ {c} : FirstWaiter(x, m.tid) = 0
    <3>. TAKE x \in R \ {c}
    <3>1. PICK j \in hits : j <= stop /\ x = list[j] /\ j # stop
      BY <1>8
    <3>2. j \notin stops
      <4>1. stop \in Nat /\ j \in Nat /\ \A k \in stops : stop <= k
        BY <1>2, <1>3, <2>1
      <4>. HIDE DEF stop, stops
      <4>. QED BY <3>1, <4>1
    <3>. QED BY <3>1, <3>2
  <2>4. /\ mem' = [Given(R, m) EXCEPT ![c].notify = RemoveAt(@, w)]
        /\ hand' = [hand EXCEPT
                      ![ReadCb] = [at |-> "up", entry |-> mem[c].notify[w], c |-> c]]
        /\ cb' = [to |-> to, msg |-> m, c |-> c]
    BY <1>6, <1>8
  <2>. HIDE DEF R, c, stop, hits, stops
  <2>. QED BY <1>5, <2>1, <2>2, <2>3, <2>4 DEF Posted
<1>. QED BY <1>7, <1>8

\* A step of one thread, with its new place d.
LEMMA OneMoves ==
  ASSUME ListInv, NEW t \in Threads, NEW d, Busy(d),
         th' = [th EXCEPT ![t] = d], list' = list, Around',
         d.at = "notify" => /\ Follows(d.c, d.nxt)
                            /\ th[t].at = "notify" \/ NoNotifier,
         t = Dereg => valid' = (d.at # "gone"),
         t # Dereg => valid' = valid
  PROVE  ListInv'
<1>1. d \in Doing /\ th \in [Threads -> Doing]
  BY DEF Busy, ListInv
<1>2. /\ th' \in [Threads -> Doing] /\ th'[t] = d
      /\ \A u \in Threads \ {t} : th'[u] = th[u]
  BY <1>1
<1>4. \A u \in Threads : (Busy(th[u]) /\ (th[u].at = "notify" => Follows(th[u].c, th[u].nxt)))'
  <2>. TAKE u \in Threads
  <2>1. Busy(th'[u]) /\ (th'[u].at = "notify" => Follows(th'[u].c, th'[u].nxt))
    BY <1>2 DEF ListInv
  <2>2. Busy(th[u])' <=> Busy(th'[u])
    BY DEF Busy
  <2>. QED BY <2>1, <2>2 DEF Follows
<1>5. \A u, v \in Threads : th'[u].at = "notify" /\ th'[v].at = "notify" => u = v
  BY <1>2 DEF ListInv, NoNotifier
<1>6. valid' = (th'[Dereg].at # "gone")
  BY <1>2, Constants DEF ListInv
<1>. QED BY <1>2, <1>4, <1>5, <1>6 DEF ListInv, Busy

\* A step that moves no thread.
LEMMA NobodyMoves ==
  ASSUME ListInv, Around', UNCHANGED <<valid, list, th>>
  PROVE  ListInv'
  BY DEF ListInv, Follows, Busy

\* Changes of a client's memory.
LEMMA MemoryTypes ==
  ASSUME ListInv, NEW c \in Clients
  PROVE  /\ mem[c] \in Memory /\ mem[c].reads \in Seq(Messages)
         /\ mem[c].notify \in Seq(Threads \cup {Async})
         /\ mem[c].urbs \in Seq(Threads \cup {None})
         /\ \A x \in Seq(Messages) : [mem EXCEPT ![c].reads = x] \in [Clients -> Memory]
         /\ \A x \in Seq(Threads \cup {Async}) :
              [mem EXCEPT ![c].notify = x] \in [Clients -> Memory]
         /\ \A x \in Seq(Threads \cup {None}) :
              [mem EXCEPT ![c].urbs = x] \in [Clients -> Memory]
         /\ [mem EXCEPT ![c] = Fresh] \in [Clients -> Memory]
<1>1. mem[c] \in Memory
  BY DEF ListInv, Around
<1>2. Fresh \in Memory
  BY RecordTypes
<1>. QED BY <1>1, <1>2 DEF ListInv, Around, Memory

\* The list of URBs, of which the writer takes one.
LEMMA PopUrbType ==
  ASSUME NEW t, NEW s \in Seq(Threads \cup {None}), s # <<>>
  PROVE  PopUrb(t, s) \in Seq(Threads \cup {None})
<1>1. Len(s) \in Nat /\ Len(s) >= 1 /\ \A i \in 1 .. Len(s) : s[i] \in Threads \cup {None}
  BY LenProperties, ElementOfSeq, EmptySeq
<1>2. \A i \in 1 .. Len(s) - 1 : i + 1 \in 1 .. Len(s)
  BY <1>1
<1>3. PopUrb(t, s) \in [1 .. Len(s) - 1 -> Threads \cup {None}] /\ Len(s) - 1 \in Nat
  BY <1>1, <1>2 DEF PopUrb
<1>. QED BY <1>3, SeqDef

-----------------------------------------------------------------------------
(* What the steps do to the memory of the clients                           *)

\* e waits for a message of client c, or is being notified.
Waits(c, e) == Contains(mem[c].notify, e)
InHand(e) == \E h \in Hands : hand[h].entry = e

Onces == \A c \in Clients : Once(mem[c].notify)

\* A step of a thread that neither sleeps nor notifies, before it and after it,
\* and leaves the messages and the readers alone.
Calm(t, d) ==
  /\ Busy(d) /\ th' = [th EXCEPT ![t] = d]
  /\ th[t].at \notin {"asleep", "notify", "gone"} /\ d.at \notin {"asleep", "woken", "notify"}
  /\ th[t].at = "woken" => ~Listed(Channel(t))
  /\ UNCHANGED <<list, hand, cb>>
  /\ \A x \in Clients : /\ mem'[x].reads = mem[x].reads /\ mem'[x].notify = mem[x].notify
                        /\ ~Contains(list, x) => mem'[x] = mem[x]

\* A reader takes a message, ...
Takes(t, i) ==
  LET c == Channel(t) IN
  /\ th[t].at \in {"read", "woken"} /\ Listed(c)
  /\ i \in 1 .. Len(mem[c].reads) /\ ReadTid(t) \in {0, mem[c].reads[i].tid}
  /\ th' = [th EXCEPT ![t] = Got(t, mem[c].reads[i])]
  /\ UNCHANGED <<list, hand, cb>>
  /\ \A x \in Clients :
       /\ mem'[x].reads = IF x = c THEN RemoveAt(mem[c].reads, i) ELSE mem[x].reads
       /\ mem'[x].notify = mem[x].notify /\ (x # c => mem'[x] = mem[x])

\* ... or sleeps, as there is none for it, ...
Sleeps(t) ==
  LET c == Channel(t) IN
  /\ th[t].at \in {"read", "woken"} /\ Listed(c)
  /\ \A i \in 1 .. Len(mem[c].reads) : ReadTid(t) \notin {0, mem[c].reads[i].tid}
  /\ th' = [th EXCEPT ![t] = [th[t] EXCEPT !.at = "asleep"]]
  /\ UNCHANGED <<list, hand, cb>>
  /\ \A x \in Clients :
       /\ mem'[x].notify = IF x = c THEN Append(mem[c].notify, t) ELSE mem[x].notify
       /\ mem'[x].reads = mem[x].reads /\ (x # c => mem'[x] = mem[x])

\* ... or is interrupted.
Interrupted(t) ==
  LET c == Channel(t) IN
  /\ th[t].at = "asleep" /\ (CleanSignals => Waits(c, t))
  /\ th' = [th EXCEPT ![t] = Failed(t)]
  /\ UNCHANGED <<list, hand, cb>>
  /\ \A x \in Clients :
       /\ mem'[x].notify = IF x = c THEN RemoveFirst(mem[c].notify, t) ELSE mem[x].notify
       /\ mem'[x].reads = mem[x].reads /\ (x # c => mem'[x] = mem[x])

\* A client gets memory.
Adds(t) ==
  LET c == th[t].c IN
  /\ th[t].at = "register" /\ Quiet /\ c \in Ids /\ ~Contains(list, c)
  /\ list' = Append(list, c) /\ mem' = [mem EXCEPT ![c] = Fresh]
  /\ th' = [th EXCEPT ![t] = Rest] /\ UNCHANGED <<hand, cb>>

\* The entry e of client c is taken to be notified by h.
Pops(h, c, e) ==
  /\ c \in Clients /\ Waits(c, e)
  /\ hand' = [hand EXCEPT ![h] = [at |-> "up", entry |-> e, c |-> c]]
  /\ \A x \in Clients : x # c => mem'[x].notify = mem[x].notify
  /\ Once(mem[c].notify) => /\ Once(mem'[c].notify)
                            /\ \A y : Contains(mem'[c].notify, y) <=> Waits(c, y) /\ y # e

\* A release notifies a reader, ...
Notifies(t, e) ==
  LET c == th[t].c IN
  /\ th[t].at \in {"cleanup", "notify"} /\ th[t].op = "release" /\ Pops(t, c, e)
  /\ th[t].at = "notify" => hand[t] = NoHand
  /\ \E n \in Clients \cup {None} :
       th' = [th EXCEPT ![t] = [th[t] EXCEPT !.at = "notify", !.nxt = n]]
  /\ \A x \in Clients : mem'[x].reads = mem[x].reads /\ (x # c => mem'[x] = mem[x])
  /\ Contains(list, c) /\ UNCHANGED <<list, cb>>

\* ... or frees the client when there is none.
Frees(t) ==
  LET c == th[t].c IN
  /\ th[t].at \in {"cleanup", "notify"} /\ th[t].op = "release" /\ c \in Clients
  /\ th[t].at = "notify" => hand[t] = NoHand
  /\ mem[c].notify = <<>>
  /\ \E i \in 1 .. Len(list) : list[i] = c /\ list' = RemoveAt(list, i)
  /\ mem' = [mem EXCEPT ![c] = Fresh]
  /\ th' \in [Threads -> Doing] /\ th'[t] = Released(t)
  /\ \A u \in Threads \ {t} :
       th'[u] = th[u] \/ (th[u].at = "urb" /\ th'[u] = [th[u] EXCEPT !.at = "sent"])
  /\ UNCHANGED <<hand, cb>>

\* A step of a thread that changes nothing of the memory.
LEMMA CalmThread ==
  ASSUME ListInv, NEW t \in Threads, NEW d, Busy(d), th' = [th EXCEPT ![t] = d],
         th[t].at \notin {"asleep", "notify", "gone"}, d.at \notin {"asleep", "woken", "notify"},
         th[t].at = "woken" => ~Listed(Channel(t)), UNCHANGED <<list, hand, cb, mem>>
  PROVE  Calm(t, d)
  BY DEF Calm

-----------------------------------------------------------------------------
(* The list and its releases                                                *)

\* At the start.
LEMMA ListInit == Init => ListInv
<1>. SUFFICES ASSUME Init PROVE ListInv
  OBVIOUS
<1>1. Around
  BY Constants, RecordTypes DEF Init, Around, Hands, Messages
<1>2. list \in Seq(Clients) /\ Once(list)
  <2>1. list = <<Ctl, Wds>> /\ Ctl # Wds
    BY Constants DEF Init
  <2>. QED BY <2>1, Constants DEF Once
<1>3. Busy(Rest)
  BY RecordTypes DEF Busy, Rest
<1>4. \A t \in Threads : th[t] = Rest
  BY DEF Init
<1>5. th \in [Threads -> Doing] /\ valid = TRUE
  BY RecordTypes DEF Init
<1>6. Rest.at = "idle"
  BY DEF Rest
<1>. QED BY <1>1, <1>2, <1>3, <1>4, <1>5, <1>6, Constants DEF ListInv

\* The places that a thread goes to.
Getting(f, n) == [Rest EXCEPT !.at = "write", !.op = "get", !.file = f, !.n = n]
Leaving(a, c, n) == [Rest EXCEPT !.at = a, !.op = "release", !.c = c, !.n = n]
Using(op, c) == [Rest EXCEPT !.at = op, !.op = op, !.c = c]

\* What is in the records that threads start with.
LEMMA Fields ==
  /\ Rest.at = "idle" /\ Rest.op = "none" /\ Rest.file = None /\ Rest.c = None /\ Rest.got = 0
  /\ Rest.n = 0
  /\ \A f, n : /\ Getting(f, n).at = "write" /\ Getting(f, n).op = "get"
               /\ Getting(f, n).file = f /\ Getting(f, n).c = None
               /\ Getting(f, n).n = n /\ Getting(f, n).got = 0
  /\ \A a, c, n : /\ Leaving(a, c, n).at = a /\ Leaving(a, c, n).op = "release"
                  /\ Leaving(a, c, n).file = None /\ Leaving(a, c, n).c = c
                  /\ Leaving(a, c, n).n = n /\ Leaving(a, c, n).got = 0
  /\ \A op, c : /\ Using(op, c).at = op /\ Using(op, c).op = op
                /\ Using(op, c).file = None /\ Using(op, c).c = c
                /\ Using(op, c).n = 0 /\ Using(op, c).got = 0
  /\ \A t : /\ Released(t).at = IF t = Dereg THEN "loop" ELSE "idle"
            /\ Released(t).op = "none" /\ Released(t).file = None
            /\ Released(t).c = None /\ Released(t).got = 0 /\ Released(t).n = 0
  BY DEF Rest, Getting, Leaving, Using, Released

\* What threads go on with is in order (Busy).
LEMMA WhereThreadsGo ==
  ASSUME ListInv, NEW t \in Threads
  PROVE  /\ Busy(th[t]) /\ Busy(Rest) /\ Busy(Failed(t)) /\ Busy(Released(t))
         /\ \A a \in {"urb", "sent", "read", "asleep", "woken"} :
              th[t].op # "none" => Busy([th[t] EXCEPT !.at = a])
         /\ th[t].op = "release" => Busy([th[t] EXCEPT !.at = "cleanup"])
         /\ \A f \in Files, n \in Nat : n >= 1 => Busy(Getting(f, n))
         /\ \A a \in {"cleanup", "write"}, c \in Clients, n \in Nat : Busy(Leaving(a, c, n))
         /\ \A c \in Ids, op \in {"read", "write"} : Busy(Using(op, c))
<1>1. Busy(th[t])
  BY DEF ListInv
<1>2. Busy(Rest)
  BY RecordTypes DEF Busy, Rest
<1>3. ASSUME NEW a \in {"urb", "sent", "read", "asleep", "woken", "cleanup"}, th[t].op # "none",
             a = "cleanup" => th[t].op = "release"
      PROVE  Busy([th[t] EXCEPT !.at = a])
  BY <1>1, <1>3 DEF Busy, Doing, At
<1>4. Busy(Failed(t))
  BY <1>2, <1>3 DEF Failed
<1>5. /\ \A f \in Files, n \in Nat : Getting(f, n) \in Doing
      /\ \A a \in {"cleanup", "write"}, c \in Clients, n \in Nat : Leaving(a, c, n) \in Doing
      /\ \A c \in Clients, op \in {"read", "write"} : Using(op, c) \in Doing
      /\ Released(t) \in Doing
  BY DEF Rest, Getting, Leaving, Using, Released, Doing, At
<1>6. \A f \in Files, n \in Nat : n >= 1 => Busy(Getting(f, n))
  BY <1>5, Fields DEF Busy
<1>7. \A a \in {"cleanup", "write"}, c \in Clients, n \in Nat : Busy(Leaving(a, c, n))
  BY <1>5, Fields DEF Busy
<1>8. \A c \in Ids, op \in {"read", "write"} : Busy(Using(op, c))
  BY <1>5, Fields, Constants DEF Busy
<1>9. Busy(Released(t))
  BY <1>5, Fields DEF Busy
<1>. QED BY <1>1, <1>2, <1>3, <1>4, <1>6, <1>7, <1>8, <1>9

\* The file operations are calm and keep the list as it is.
LEMMA FileStepsKeepList ==
  ASSUME ListInv, NEW t \in Users, NEW f \in Files,
         Ioctl(t, f) \/ Close(t, f) \/ ReadWrite(t, f)
  PROVE  ListInv' /\ \E d : Calm(t, d)
<1>1. t \in Threads /\ t # Dereg
  BY Constants
<1>2. tids \in Nat /\ file \in [Files -> Ids \cup {None}] /\ th \in [Threads -> Doing]
  BY DEF ListInv, Around
<1>. DEFINE n == IF TidOf(tids + 1) = 0 THEN tids + 2 ELSE tids + 1
<1>3. tids + 1 \in Nat /\ tids + 1 >= 1 /\ n \in Nat
  BY <1>2
<1>. HIDE DEF n
<1>4. ASSUME NEW d, Busy(d), th' = [th EXCEPT ![t] = d], d.at \in {"write", "cleanup", "read"}, Around'
      PROVE  ListInv' /\ Calm(t, d)
  <2>1. th[t].at = "idle" /\ UNCHANGED <<valid, list, hand, cb, mem>>
    BY DEF Ioctl, Close, ReadWrite
  <2>. QED BY <1>1, <1>4, <2>1, CalmThread, OneMoves
<1>5. CASE Ioctl(t, f)
  <2>1. th' = [th EXCEPT ![t] = Getting(f, tids + 1)] /\ tids' = n
        /\ UNCHANGED <<valid, list, mem, file, hand, cb, pending, assigned>>
    BY <1>5 DEF Ioctl, Getting, n
  <2>2. Busy(Getting(f, tids + 1)) /\ Getting(f, tids + 1).at = "write"
    <3>1. \A k \in Nat : k >= 1 => Busy(Getting(f, k))
      BY <1>1, WhereThreadsGo
    <3>2. Getting(f, tids + 1).at = "write"
      BY Fields
    <3>. QED BY <1>3, <3>1, <3>2
  <2>3. Around'
    BY <1>3, <2>1 DEF ListInv, Around
  <2>. QED BY <1>4, <2>1, <2>2, <2>3
<1>6. CASE Close(t, f)
  <2>. DEFINE a == IF file[f] = Ctl THEN "cleanup" ELSE "write"
  <2>1. th' = [th EXCEPT ![t] = Leaving(a, file[f], n)] /\ tids' \in {tids, n}
        /\ UNCHANGED <<valid, list, mem, hand, cb, pending, assigned>>
        /\ file' = [file EXCEPT ![f] = None] /\ file[f] # None
    BY <1>6 DEF Close, Releasing, Leaving, n
  <2>2. file[f] \in Clients /\ file' \in [Files -> Ids \cup {None}]
    BY <1>2, <2>1, Constants
  <2>3. Busy(Leaving(a, file[f], n)) /\ Leaving(a, file[f], n).at \in {"write", "cleanup"}
    <3>1. \A b \in {"cleanup", "write"}, c \in Clients, k \in Nat : Busy(Leaving(b, c, k))
      BY <1>1, WhereThreadsGo
    <3>2. Leaving(a, file[f], n).at = a
      BY Fields
    <3>. QED BY <1>3, <2>2, <3>1, <3>2
  <2>4. Around'
    BY <1>2, <1>3, <2>1, <2>2 DEF ListInv, Around
  <2>. QED BY <1>4, <2>1, <2>3, <2>4
<1>7. CASE ReadWrite(t, f)
  <2>1. file[f] \in Ids /\ UNCHANGED <<valid, list, mem, file, tids, hand, cb, pending, assigned>>
    BY <1>2, <1>7 DEF ReadWrite
  <2>2. PICK op \in {"read", "write"} : th' = [th EXCEPT ![t] = Using(op, file[f])]
    BY <1>7 DEF ReadWrite, Using
  <2>3. Busy(Using(op, file[f])) /\ Using(op, file[f]).at = op
    BY <1>1, <2>1, WhereThreadsGo, Fields
  <2>4. Around'
    BY <2>1 DEF ListInv, Around
  <2>. QED BY <1>4, <2>1, <2>2, <2>3, <2>4
<1>. QED BY <1>5, <1>6, <1>7

\* WriteSync's steps keep it, ...
LEMMA WriteStepsKeepList ==
  ASSUME ListInv, NEW t \in Threads, Submit(t) \/ Transmitted(t) \/ TakeBack(t)
  PROVE  ListInv' /\ \E d : Calm(t, d)
<1>1. th \in [Threads -> Doing] /\ th[t] \in Doing /\ Busy(th[t])
      /\ valid' = valid /\ list' = list /\ (t = Dereg => valid = (th[t].at # "gone"))
  BY DEF ListInv, Submit, Transmitted, TakeBack
<1>2. th[t].at \in {"write", "urb", "sent"} /\ th[t].op # "none" /\ Channel(t) \in Clients
  BY <1>1, ChannelType DEF Submit, Transmitted, TakeBack, Busy
<1>. DEFINE c == Channel(t)
<1>3. /\ mem[c].urbs \in Seq(Threads \cup {None}) /\ Append(mem[c].urbs, t) \in Seq(Threads \cup {None})
      /\ Append(mem[c].urbs, t) # <<>>
  BY <1>2, MemoryTypes, AppendFacts
<1>4. PICK d : /\ d \in {[th[t] EXCEPT !.at = "urb"], [th[t] EXCEPT !.at = "sent"],
                         [th[t] EXCEPT !.at = "read"], Rest, Failed(t)}
               /\ th' = [th EXCEPT ![t] = d]
  <2>1. CASE Submit(t)
    BY <2>1 DEF Submit
  <2>2. CASE Transmitted(t)
    BY <2>2 DEF Transmitted
  <2>3. CASE TakeBack(t)
    BY <2>3 DEF TakeBack
  <2>. QED BY <2>1, <2>2, <2>3
<1>5. Busy(d)
  BY <1>2, <1>4, WhereThreadsGo
<1>6. d.at \notin {"notify", "gone"}
  BY <1>1, <1>4, FailedType DEF Rest, Doing
<1>7. Around'
  <2>1. mem' \in [Clients -> Memory]
    <3>1. mem \in [Clients -> Memory]
      BY DEF ListInv, Around
    <3>2. CASE Submit(t)
      <4>. DEFINE s == Append(mem[c].urbs, t)
      <4>1. mem' \in {mem, [mem EXCEPT ![c].urbs = s], [mem EXCEPT ![c].urbs = PopUrb(t, s)]}
        BY <3>2 DEF Submit
      <4>2. s \in Seq(Threads \cup {None}) /\ PopUrb(t, s) \in Seq(Threads \cup {None})
        BY <1>3, PopUrbType
      <4>3. \A x \in Seq(Threads \cup {None}) : [mem EXCEPT ![c].urbs = x] \in [Clients -> Memory]
        BY <1>2, MemoryTypes
      <4>. HIDE DEF s
      <4>. QED BY <3>1, <4>1, <4>2, <4>3
    <3>3. CASE Transmitted(t)
      BY <3>1, <3>3 DEF Transmitted
    <3>4. CASE TakeBack(t)
      BY <1>2, <1>3, <3>1, <3>4, MemoryTypes, PopUrbType DEF TakeBack
    <3>. QED BY <3>2, <3>3, <3>4
  <2>2. pending' \subseteq [n : Nat, op : {"get", "release"}, c : Clients \cup {None}]
    BY <1>1 DEF Submit, Transmitted, TakeBack, ListInv, Around, Asks, Doing
  <2>. QED BY <2>1, <2>2 DEF Submit, Transmitted, TakeBack, ListInv, Around
<1>8. th[t].at # "gone"
  BY <1>2
<1>9. ListInv'
  BY <1>1, <1>4, <1>5, <1>6, <1>7, <1>8, OneMoves
<1>10. ASSUME NEW x \in Clients
       PROVE  /\ mem'[x].reads = mem[x].reads /\ mem'[x].notify = mem[x].notify
              /\ ~Contains(list, x) => mem'[x] = mem[x]
  <2>1. PICK v : mem' = mem \/ (mem' = [mem EXCEPT ![c].urbs = v] /\ Listed(c))
    <3>1. CASE Submit(t)
      BY <3>1 DEF Submit
    <3>2. CASE Transmitted(t)
      BY <3>2 DEF Transmitted
    <3>3. CASE TakeBack(t)
      BY <3>3 DEF TakeBack
    <3>. QED BY <3>1, <3>2, <3>3
  <2>2. c \in Clients
    BY <1>2
  <2>. HIDE DEF c
  <2>3. mem \in [Clients -> Memory]
    BY DEF ListInv, Around
  <2>. QED BY <2>1, <2>2, <2>3 DEF Listed, Memory
<1>11. Calm(t, d)
  <2>1. d.at \notin {"asleep", "woken", "notify"}
    BY <1>1, <1>4, FailedType DEF Rest, Doing
  <2>2. UNCHANGED <<list, hand, cb>>
    BY DEF Submit, Transmitted, TakeBack
  <2>. QED BY <1>2, <1>4, <1>5, <1>10, <2>1, <2>2 DEF Calm
<1>. QED BY <1>9, <1>11

\* A thread goes on with what it has read.
LEMMA GotType ==
  ASSUME ListInv, NEW t \in Threads, NEW m \in Messages, th[t].at \in {"read", "woken"}
  PROVE  Busy(Got(t, m)) /\ Got(t, m).at \in {"idle", "register", "cleanup"}
<1>1. Busy(th[t]) /\ m.id \in Ids \cup {None} /\ m.n \in Nat
  BY DEF ListInv, Messages
<1>2. CASE th[t].op = "get" /\ m.id # None
  <2>. DEFINE d == [th[t] EXCEPT !.at = "register", !.c = m.id, !.got = m.n]
  <2>1. d \in Doing /\ d.at = "register" /\ d.op = "get" /\ d.c = m.id
        /\ d.file = th[t].file /\ d.n = th[t].n
    BY <1>1, <1>2, Constants DEF Busy, Doing, At
  <2>2. Got(t, m) = d
    BY <1>2 DEF Got
  <2>. HIDE DEF d
  <2>. QED BY <1>1, <1>2, <2>1, <2>2 DEF Busy
<1>3. CASE th[t].op = "release"
  <2>. DEFINE d == [th[t] EXCEPT !.at = "cleanup", !.got = m.n]
  <2>1. d \in Doing /\ d.at = "cleanup" /\ d.op = "release" /\ d.c = th[t].c
    BY <1>1, <1>3 DEF Busy, Doing, At
  <2>2. Got(t, m) = d
    BY <1>3 DEF Got
  <2>. HIDE DEF d
  <2>. QED BY <1>1, <1>3, <2>1, <2>2 DEF Busy
<1>4. CASE ~(th[t].op = "get" /\ m.id # None) /\ th[t].op # "release"
  <2>1. Got(t, m) = Rest
    BY <1>4 DEF Got
  <2>. QED BY <2>1, WhereThreadsGo, Fields
<1>. QED BY <1>2, <1>3, <1>4

\* ... and ReadSync's.
LEMMA ReadStepsKeepList ==
  ASSUME ListInv, NEW t \in Threads, Look(t) \/ Interrupt(t)
  PROVE  /\ ListInv'
         /\ \/ \E d : Calm(t, d)
            \/ \E i : Takes(t, i)
            \/ Sleeps(t) \/ Interrupted(t)
<1>. DEFINE c == Channel(t)
<1>1. /\ th \in [Threads -> Doing] /\ th[t] \in Doing /\ Busy(th[t])
      /\ th[t].at \in {"read", "woken", "asleep"}
      /\ UNCHANGED <<valid, list, file, tids, hand, cb, pending, assigned>>
      /\ (t = Dereg => valid = (th[t].at # "gone"))
  BY DEF ListInv, Look, Interrupt
<1>2. th[t].op # "none" /\ c \in Clients
  BY <1>1, ChannelType DEF Busy
<1>3. /\ \A x \in Seq(Messages) : [mem EXCEPT ![c].reads = x] \in [Clients -> Memory]
      /\ \A x \in Seq(Threads \cup {Async}) : [mem EXCEPT ![c].notify = x] \in [Clients -> Memory]
      /\ mem[c].reads \in Seq(Messages) /\ mem[c].notify \in Seq(Threads \cup {Async})
  BY <1>2, MemoryTypes
<1>4. mem \in [Clients -> Memory]
  BY DEF ListInv, Around
<1>5. ASSUME NEW d, Busy(d), d.at \notin {"notify", "gone"}, th' = [th EXCEPT ![t] = d],
             mem' \in [Clients -> Memory]
      PROVE  ListInv'
  <2>1. Around'
    BY <1>1, <1>5 DEF ListInv, Around
  <2>. QED BY <1>1, <1>5, <2>1, OneMoves
<1>6. Busy(Failed(t)) /\ Failed(t).at \notin {"notify", "gone"}
  <2>1. [th[t] EXCEPT !.at = "cleanup"].at = "cleanup"
    BY <1>1 DEF Doing
  <2>. QED BY <2>1, WhereThreadsGo, FailedType, Fields
<1>7. CASE Look(t) /\ ~Listed(c)
  <2>1. th' = [th EXCEPT ![t] = Failed(t)] /\ mem' = mem /\ th[t].at \notin {"asleep", "notify", "gone"}
    BY <1>7 DEF Look
  <2>2. Failed(t).at # "woken" /\ Failed(t).at # "asleep"
    <3>1. [th[t] EXCEPT !.at = "cleanup"].at = "cleanup"
      BY <1>1 DEF Doing
    <3>. QED BY <3>1, FailedType, Fields
  <2>3. Calm(t, Failed(t))
    BY <1>1, <1>6, <1>7, <2>1, <2>2, CalmThread
  <2>. QED BY <1>4, <1>5, <1>6, <2>1, <2>3
<1>8. CASE Look(t) /\ Listed(c) /\ FirstUnread(c, ReadTid(t)) # 0
  <2>. DEFINE i == FirstUnread(c, ReadTid(t))
  <2>1. i \in 1 .. Len(mem[c].reads)
    BY <1>2, <1>8, FirstUnreadFacts
  <2>2. mem[c].reads[i] \in Messages /\ RemoveAt(mem[c].reads, i) \in Seq(Messages)
    BY <1>3, <2>1, ElementOfSeq, RemoveAtFacts
  <2>3. th' = [th EXCEPT ![t] = Got(t, mem[c].reads[i])]
        /\ mem' = [mem EXCEPT ![c].reads = RemoveAt(mem[c].reads, i)]
    BY <1>8 DEF Look
  <2>4. Busy(Got(t, mem[c].reads[i])) /\ Got(t, mem[c].reads[i]).at \notin {"notify", "gone"}
    BY <1>8, <2>2, GotType DEF Look
  <2>5. ListInv'
    BY <1>3, <1>5, <2>2, <2>3, <2>4
  <2>6. Takes(t, i)
    <3>1. ReadTid(t) \in {0, mem[c].reads[i].tid} /\ th[t].at \in {"read", "woken"}
      BY <1>2, <1>8, FirstUnreadFacts DEF Look
    <3>2. \A x \in Clients :
            /\ mem'[x].reads = IF x = c THEN RemoveAt(mem[c].reads, i) ELSE mem[x].reads
            /\ mem'[x].notify = mem[x].notify /\ (x # c => mem'[x] = mem[x])
      BY <1>2, <1>4, <2>3 DEF Memory
    <3>. QED BY <1>1, <1>8, <2>1, <2>3, <3>1, <3>2 DEF Takes
  <2>. QED BY <2>5, <2>6
<1>9. CASE Look(t) /\ Listed(c) /\ FirstUnread(c, ReadTid(t)) = 0
  <2>1. th' = [th EXCEPT ![t] = [th[t] EXCEPT !.at = "asleep"]]
        /\ mem' = [mem EXCEPT ![c].notify = Append(mem[c].notify, t)]
    BY <1>9 DEF Look
  <2>2. Append(mem[c].notify, t) \in Seq(Threads \cup {Async})
    BY <1>3, AppendFacts
  <2>3. Busy([th[t] EXCEPT !.at = "asleep"]) /\ [th[t] EXCEPT !.at = "asleep"].at = "asleep"
    BY <1>1, <1>2, WhereThreadsGo DEF Doing
  <2>4. ListInv'
    BY <1>3, <1>5, <2>1, <2>2, <2>3
  <2>5. Sleeps(t)
    <3>1. \A i \in 1 .. Len(mem[c].reads) : ReadTid(t) \notin {0, mem[c].reads[i].tid}
      BY <1>2, <1>9, FirstUnreadFacts
    <3>2. \A x \in Clients :
            /\ mem'[x].notify = IF x = c THEN Append(mem[c].notify, t) ELSE mem[x].notify
            /\ mem'[x].reads = mem[x].reads /\ (x # c => mem'[x] = mem[x])
      BY <1>2, <1>4, <2>1 DEF Memory
    <3>3. th[t].at \in {"read", "woken"}
      BY <1>9 DEF Look
    <3>. QED BY <1>1, <1>9, <2>1, <3>1, <3>2, <3>3 DEF Sleeps
  <2>. QED BY <2>4, <2>5
<1>10. CASE Interrupt(t)
  <2>1. th' = [th EXCEPT ![t] = Failed(t)]
        /\ mem' = [mem EXCEPT ![c].notify = RemoveFirst(mem[c].notify, t)]
    BY <1>10 DEF Interrupt
  <2>2. RemoveFirst(mem[c].notify, t) \in Seq(Threads \cup {Async})
    BY <1>3, RemoveFirstFacts
  <2>3. ListInv'
    BY <1>3, <1>5, <1>6, <2>1, <2>2
  <2>4. Interrupted(t)
    <3>1. \A x \in Clients :
            /\ mem'[x].notify = IF x = c THEN RemoveFirst(mem[c].notify, t) ELSE mem[x].notify
            /\ mem'[x].reads = mem[x].reads /\ (x # c => mem'[x] = mem[x])
      BY <1>2, <1>4, <2>1 DEF Memory
    <3>2. th[t].at = "asleep" /\ (CleanSignals => Waits(c, t))
      BY <1>10 DEF Interrupt, Waits
    <3>. QED BY <1>1, <2>1, <3>1, <3>2 DEF Interrupted
  <2>. QED BY <2>3, <2>4
<1>. QED BY <1>7, <1>8, <1>9, <1>10

\* A step after which nobody notifies.
LEMMA ListChanges ==
  ASSUME ListInv, list' \in Seq(Clients), Once(list'), Around', th' \in [Threads -> Doing],
         \A u \in Threads : Busy(th'[u]) /\ th'[u].at # "notify",
         valid' = (th'[Dereg].at # "gone")
  PROVE  ListInv'
<1>1. \A u \in Threads : Busy(th[u])' <=> Busy(th'[u])
  BY DEF Busy
<1>2. Once(list)' <=> Once(list')
  BY DEF Once
<1>. QED BY <1>1, <1>2 DEF ListInv

\* A client is appended when it is not on the list.
LEMMA RegisterKeepsList ==
  ASSUME Overlap = FALSE, ListInv, NEW t \in Threads, Register(t)
  PROVE  ListInv' /\ ((Calm(t, Rest) /\ file' = file) \/ Adds(t))
<1>1. /\ th \in [Threads -> Doing] /\ Busy(th[t]) /\ th[t].at = "register" /\ list \in Seq(Clients)
      /\ Quiet /\ mem \in [Clients -> Memory] /\ file \in [Files -> Ids \cup {None}]
      /\ th' = [th EXCEPT ![t] = Rest]
      /\ UNCHANGED <<valid, tids, hand, cb, pending, assigned>>
  BY DEF ListInv, Around, Register
<1>. DEFINE c == th[t].c
<1>2. c \in Ids /\ c \in Clients /\ th[t].file \in Files
  BY <1>1, Constants DEF Busy
<1>3. Listed(c) <=> Contains(list, c)
  BY <1>1 DEF ListInv, Quiet, Listed
<1>4. /\ list' \in {list, Append(list, c)} /\ (Contains(list, c) => list' = list)
      /\ mem' \in {mem, [mem EXCEPT ![c] = Fresh]}
      /\ file' \in {file, [file EXCEPT ![th[t].file] = c]}
  BY <1>3 DEF Register
<1>. HIDE DEF c
<1>5. list' \in Seq(Clients) /\ Once(list')
  <2>1. Append(list, c) \in Seq(Clients) /\ (~Contains(list, c) => Once(Append(list, c)))
    BY <1>1, <1>2, AppendFacts, AppendContains DEF ListInv
  <2>. QED BY <1>1, <1>4, <2>1 DEF ListInv
<1>6. mem' \in [Clients -> Memory] /\ file' \in [Files -> Ids \cup {None}]
  <2>1. [mem EXCEPT ![c] = Fresh] \in [Clients -> Memory]
    BY <1>2, MemoryTypes
  <2>2. [file EXCEPT ![th[t].file] = c] \in [Files -> Ids \cup {None}]
    BY <1>1, <1>2
  <2>. QED BY <1>1, <1>4, <2>1, <2>2
<1>7. Around'
  BY <1>1, <1>6 DEF ListInv, Around
<1>8. /\ th' \in [Threads -> Doing] /\ th'[t] = Rest /\ \A u \in Threads \ {t} : th'[u] = th[u]
  BY <1>1, RecordTypes
<1>9. \A u \in Threads : Busy(th'[u]) /\ th'[u].at # "notify"
  BY <1>1, <1>8, WhereThreadsGo, Fields DEF Quiet, NoNotifier
<1>10. valid' = (th'[Dereg].at # "gone")
  BY <1>1, <1>8, Fields, Constants DEF ListInv
<1>11. ListInv'
  BY <1>5, <1>7, <1>8, <1>9, <1>10, ListChanges
<1>12. CASE Contains(list, c)
  <2>1. UNCHANGED <<list, mem, file>>
    BY <1>3, <1>12 DEF Register, c
  <2>2. Calm(t, Rest)
    BY <1>1, <2>1, WhereThreadsGo, Fields, CalmThread
  <2>. QED BY <1>11, <2>1, <2>2
<1>13. CASE ~Contains(list, c)
  <2>1. list' = Append(list, c) /\ mem' = [mem EXCEPT ![c] = Fresh]
    BY <1>3, <1>13 DEF Register, c
  <2>2. Adds(t)
    BY <1>1, <1>2, <1>13, <2>1 DEF Adds, c
  <2>. QED BY <1>11, <2>2
<1>. QED BY <1>12, <1>13

\* One turn of a release.
LEMMA TurnKeepsList ==
  ASSUME ListInv, NEW t \in Threads, NEW n, Follows(th[t].c, n), NotifyOrFree(t, n),
         (th[t].at = "notify" /\ hand[t] = NoHand) \/ (th[t].at = "cleanup" /\ NoNotifier),
         UNCHANGED <<valid, file, tids, cb, pending, assigned>>
  PROVE  ListInv' /\ (Frees(t) \/ \E e : Notifies(t, e))
<1>. DEFINE c == th[t].c
<1>1. /\ th \in [Threads -> Doing] /\ Busy(th[t]) /\ th[t].op = "release" /\ c \in Clients
      /\ mem \in [Clients -> Memory] /\ hand \in [Hands -> Entry]
      /\ list \in Seq(Clients) /\ Once(list)
  BY DEF ListInv, Around, Busy
<1>. HIDE DEF c
<1>2. CASE mem[c].notify # <<>>
  <2>. DEFINE d == [th[t] EXCEPT !.at = "notify", !.nxt = n]
              e == [at |-> "up", entry |-> Head(mem[c].notify), c |-> c]
  <2>1. /\ th' = [th EXCEPT ![t] = d] /\ list' = list
        /\ hand' = [hand EXCEPT ![t] = e]
        /\ mem' = [mem EXCEPT ![c].notify = Tail(mem[c].notify)]
    BY <1>2 DEF NotifyOrFree, c
  <2>2. n \in Clients \cup {None}
    BY <1>1, FollowsFacts DEF c
  <2>3. Busy(d) /\ d.at = "notify" /\ d.c = c /\ d.nxt = n
    BY <1>1, <2>2 DEF Busy, Doing, At, c
  <2>4. mem[c].notify \in Seq(Threads \cup {Async})
    BY <1>1, MemoryTypes
  <2>5. Head(mem[c].notify) \in Threads \cup {Async} /\ Tail(mem[c].notify) \in Seq(Threads \cup {Async})
    BY <1>2, <2>4, TailFacts
  <2>6. e \in Entry
    BY <1>1, <2>5 DEF Entry
  <2>7. mem' \in [Clients -> Memory] /\ hand' \in [Hands -> Entry]
    BY <1>1, <2>1, <2>5, <2>6, MemoryTypes, Constants
  <2>8. Around'
    BY <2>7 DEF ListInv, Around
  <2>9. t = Dereg => valid' = TRUE
    BY <1>1 DEF ListInv
  <2>10. Pops(t, c, Head(mem[c].notify))
    <3>1. /\ Contains(mem[c].notify, Head(mem[c].notify))
          /\ Once(mem[c].notify) => Once(Tail(mem[c].notify))
          /\ Once(mem[c].notify) => \A y : Contains(Tail(mem[c].notify), y)
                                       <=> Contains(mem[c].notify, y) /\ y # Head(mem[c].notify)
      BY <1>2, <2>4, TailFacts
    <3>2. mem'[c].notify = Tail(mem[c].notify) /\ \A x \in Clients : x # c => mem'[x].notify = mem[x].notify
      BY <1>1, <2>1 DEF Memory
    <3>. QED BY <1>1, <2>1, <3>1, <3>2 DEF Pops, Waits
  <2>11. \A x \in Clients : mem'[x].reads = mem[x].reads /\ (x # c => mem'[x] = mem[x])
    BY <1>1, <2>1 DEF Memory
  <2>12. Contains(list, c)
    BY FollowsFacts, <1>1 DEF c
  <2>13. Notifies(t, Head(mem[c].notify))
    BY <1>1, <2>1, <2>2, <2>10, <2>11, <2>12 DEF Notifies, NotifyOrFree, c
  <2>. HIDE DEF d, e
  <2>14. ListInv'
    BY <1>1, <2>1, <2>3, <2>8, <2>9, OneMoves DEF c
  <2>. QED BY <2>13, <2>14
<1>3. CASE mem[c].notify = <<>>
  <2>1. Free(t, c, n) /\ hand' = hand
    BY <1>3 DEF NotifyOrFree, c
  <2>2. /\ \E i \in 1 .. Len(list) : list[i] = c /\ list' = RemoveAt(list, i)
        /\ mem' = [mem EXCEPT ![c] = Fresh]
        /\ th' \in [Threads -> Doing] /\ th'[t] = Released(t)
        /\ \A u \in Threads \ {t} :
             th'[u] = th[u] \/ (th[u].at = "urb" /\ th'[u] = [th[u] EXCEPT !.at = "sent"])
    BY <1>1, <2>1, FreeDoes DEF c
  <2>3. list' \in Seq(Clients) /\ Once(list')
    BY <1>1, <2>2, RemoveAtFacts, RemoveAtContains
  <2>4. mem' \in [Clients -> Memory]
    BY <1>1, <2>2, MemoryTypes
  <2>5. Around'
    BY <2>1, <2>4 DEF ListInv, Around
  <2>6. ASSUME NEW u \in Threads
        PROVE  Busy(th'[u]) /\ th'[u].at # "notify" /\ (th'[u].at = "gone" <=> th[u].at = "gone")
    <3>1. CASE u = t
      BY <1>1, <2>2, <3>1, WhereThreadsGo, Fields
    <3>2. CASE u # t /\ th'[u] = th[u]
      BY <3>2 DEF ListInv, NoNotifier
    <3>3. CASE u # t /\ th[u].at = "urb" /\ th'[u] = [th[u] EXCEPT !.at = "sent"]
      <4>1. Busy(th[u]) /\ th[u] \in Doing /\ th[u].op # "none"
        BY <3>3 DEF ListInv, Busy
      <4>2. Busy(th'[u])
        BY <3>3, <4>1, WhereThreadsGo
      <4>. QED BY <3>3, <4>1, <4>2 DEF Doing
    <3>. QED BY <2>2, <3>1, <3>2, <3>3
  <2>7. valid' = (th'[Dereg].at # "gone")
    BY <2>6, Constants DEF ListInv
  <2>8. ListInv'
    BY <2>2, <2>3, <2>5, <2>6, <2>7, ListChanges
  <2>9. Frees(t)
    BY <1>1, <1>3, <2>1, <2>2 DEF Frees, c
  <2>. QED BY <2>8, <2>9
<1>. QED BY <1>2, <1>3

\* What follows the client that is released now.
LEMMA NextOnList ==
  ASSUME ListInv, NEW c, Place(list, c) # 0
  PROVE  Follows(c, IF Place(list, c) \in 1 .. Len(list) - 1 THEN list[Place(list, c) + 1] ELSE None)
<1>1. Place(list, c) \in 1 .. Len(list) /\ list[Place(list, c)] = c /\ Len(list) \in Nat
  BY PlaceFacts, LenProperties DEF ListInv
<1>. QED BY <1>1 DEF Follows

\* A release keeps what the list must be, ...
LEMMA CleanupKeepsList ==
  ASSUME ListInv, NEW t \in Threads, Cleanup(t) \/ CleanupAgain(t)
  PROVE  /\ ListInv'
         /\ \/ Frees(t) \/ \E e : Notifies(t, e)
            \/ (Calm(t, Released(t)) /\ ~Contains(list, th[t].c))
<1>1. CASE CleanupAgain(t)
  <2>1. Follows(th[t].c, th[t].nxt)
    BY <1>1 DEF ListInv, CleanupAgain
  <2>. QED BY <1>1, <2>1, TurnKeepsList DEF CleanupAgain
<1>2. CASE Cleanup(t)
  <2>. DEFINE c == th[t].c
              i == Place(list, c)
              n == IF i \in 1 .. Len(list) - 1 THEN list[i + 1] ELSE None
  <2>1. CASE i # 0
    <3>1. Follows(c, n)
      BY <2>1, NextOnList
    <3>2. NotifyOrFree(t, n)
      BY <1>2, <2>1 DEF Cleanup, Place
    <3>. HIDE DEF n, c
    <3>. QED BY <1>2, <3>1, <3>2, TurnKeepsList DEF Cleanup, c
  <2>2. CASE i = 0
    <3>1. /\ th' = [th EXCEPT ![t] = Released(t)]
          /\ UNCHANGED <<list, mem, hand, valid, file, tids, cb, pending, assigned>>
          /\ th[t].at = "cleanup"
      BY <1>2, <2>2 DEF Cleanup, Place
    <3>2. Busy(Released(t)) /\ Released(t).at \notin {"notify", "gone"}
      BY WhereThreadsGo, Fields
    <3>3. Around' /\ (t = Dereg => valid')
      BY <3>1 DEF ListInv, Around
    <3>4. Calm(t, Released(t))
      BY <3>1, <3>2, CalmThread, Fields
    <3>5. ~Contains(list, c)
      BY <2>2, PlaceFacts DEF ListInv
    <3>. QED BY <3>1, <3>2, <3>3, <3>4, <3>5, OneMoves
  <2>. QED BY <2>1, <2>2
<1>. QED BY <1>1, <1>2

\* ... and so does deregistration.
LEMMA DeregKeepsList ==
  ASSUME ListInv, DeregLoop \/ Kill
  PROVE  ListInv' /\ \E d : Calm(Dereg, d)
<1>1. /\ th \in [Threads -> Doing] /\ tids \in Nat /\ list \in Seq(Clients) /\ Dereg \in Threads
      /\ Busy(th[Dereg])
  BY Constants DEF ListInv, Around
<1>. DEFINE n == IF TidOf(tids + 1) = 0 THEN tids + 2 ELSE tids + 1
            c == Head(list)
            a == IF c = Ctl THEN "cleanup" ELSE "write"
<1>2. n \in Nat
  BY <1>1
<1>3. CASE DeregLoop /\ list # <<>>
  <2>1. th' = [th EXCEPT ![Dereg] = Leaving(a, c, n)] /\ tids' \in {tids, n}
        /\ UNCHANGED <<valid, list, mem, file, hand, cb, pending, assigned>> /\ valid
    BY <1>3 DEF DeregLoop, Releasing, Leaving
  <2>. HIDE DEF n, a
  <2>2. c \in Clients
    BY <1>1, <1>3, HeadTailProperties, EmptySeq
  <2>3. Busy(Leaving(a, c, n)) /\ Leaving(a, c, n).at \in {"write", "cleanup"}
    <3>1. \A b \in {"cleanup", "write"}, x \in Clients, k \in Nat : Busy(Leaving(b, x, k))
      BY <1>1, WhereThreadsGo
    <3>2. Leaving(a, c, n).at = a /\ a \in {"cleanup", "write"}
      BY Fields DEF a
    <3>. QED BY <1>2, <2>2, <3>1, <3>2
  <2>4. Around'
    BY <1>1, <1>2, <2>1 DEF ListInv, Around
  <2>. HIDE DEF c
  <2>5. ListInv'
    BY <1>1, <2>1, <2>3, <2>4, OneMoves DEF ListInv, Around
  <2>6. th[Dereg].at \notin {"asleep", "notify", "gone", "woken"}
    BY <1>3 DEF DeregLoop
  <2>7. Calm(Dereg, Leaving(a, c, n))
    BY <1>1, <2>1, <2>3, <2>6, CalmThread
  <2>. QED BY <2>5, <2>7
<1>4. ASSUME NEW x \in {"kill", "gone"}, th[Dereg].op = "none", th[Dereg].at \in {"idle", "loop", "kill"}, th' = [th EXCEPT ![Dereg].at = x],
             valid' = (x # "gone"), UNCHANGED <<list, mem, file, tids, hand, cb, pending, assigned>>
      PROVE  ListInv' /\ \E d : Calm(Dereg, d)
  <2>. DEFINE d == [th[Dereg] EXCEPT !.at = x]
  <2>1. Busy(d) /\ d.at = x
    BY <1>1, <1>4 DEF Busy, Doing, At
  <2>2. th' = [th EXCEPT ![Dereg] = d] /\ Around'
    BY <1>4 DEF ListInv, Around
  <2>. HIDE DEF d
  <2>3. Calm(Dereg, d)
    BY <1>1, <1>4, <2>1, <2>2, CalmThread
  <2>. QED BY <1>1, <1>4, <2>1, <2>2, <2>3, OneMoves
<1>5. CASE DeregLoop /\ list = <<>>
  BY <1>1, <1>4, <1>5 DEF DeregLoop, Busy
<1>6. CASE Kill
  BY <1>1, <1>4, <1>6 DEF Kill, Busy
<1>. QED BY <1>3, <1>5, <1>6 DEF DeregLoop, Kill

\* The notifications keep it, ...
LEMMA NotificationsKeepList ==
  ASSUME ListInv, NEW h \in Hands, UpSem(h) \/ WdsCallback(h) \/ ReadAsync(h)
  PROVE  ListInv'
<1>1. /\ hand \in [Hands -> Entry] /\ hand[h] \in Entry /\ mem \in [Clients -> Memory]
      /\ th \in [Threads -> Doing]
  BY DEF ListInv, Around
<1>. DEFINE c == hand[h].c
<1>2. NoHand \in Entry /\ [hand[h] EXCEPT !.at = "rearm"] \in Entry
      /\ [hand[h] EXCEPT !.at = "up"] \in Entry
  BY <1>1, RecordTypes DEF Entry
<1>3. CASE UpSem(h)
  <2>. DEFINE e == hand[h].entry
              d == [th[e] EXCEPT !.at = IF @ = "asleep" THEN "woken" ELSE @]
  <2>1. e \in Threads /\ th' = [th EXCEPT ![e] = d] /\ hand' = [hand EXCEPT ![h] = NoHand]
        /\ UNCHANGED <<valid, list, mem, file, tids, cb, pending, assigned>>
    BY <1>3 DEF UpSem
  <2>2. Busy(th[e])
    BY <2>1 DEF ListInv
  <2>3. Busy(d) /\ d.at = (IF th[e].at = "asleep" THEN "woken" ELSE th[e].at)
        /\ d.c = th[e].c /\ d.nxt = th[e].nxt
    BY <2>2 DEF Busy, Doing, At
  <2>4. Around'
    BY <1>1, <1>2, <2>1 DEF ListInv, Around
  <2>. HIDE DEF e, d
  <2>. QED BY <2>1, <2>3, <2>4, OneMoves DEF ListInv
<1>4. CASE WdsCallback(h) \/ ReadAsync(h)
  <2>1. UNCHANGED <<valid, list, file, tids, th, cb, pending, assigned>>
        /\ hand' \in [Hands -> Entry]
    BY <1>1, <1>2, <1>4 DEF WdsCallback, ReadAsync
  <2>2. mem' \in {mem, [mem EXCEPT ![c].reads = Tail(mem[c].reads)],
                  [mem EXCEPT ![c].notify = Append(mem[c].notify, Async)]}
        /\ (mem' = mem \/ Listed(c))
        /\ (mem' = mem \/ mem' = [mem EXCEPT ![c].notify = Append(mem[c].notify, Async)]
              \/ mem[c].reads # <<>>)
    BY <1>4 DEF WdsCallback, ReadAsync
  <2>3. mem' \in [Clients -> Memory]
    <3>1. CASE ~Listed(c)
      BY <1>1, <2>2, <3>1
    <3>2. CASE Listed(c)
      <4>1. c \in Clients
        BY <3>2, ElementOfSeq DEF Listed, Contains, ListInv
      <4>2. /\ mem[c].reads \in Seq(Messages) /\ mem[c].notify \in Seq(Threads \cup {Async})
            /\ \A x \in Seq(Messages) : [mem EXCEPT ![c].reads = x] \in [Clients -> Memory]
            /\ \A x \in Seq(Threads \cup {Async}) : [mem EXCEPT ![c].notify = x] \in [Clients -> Memory]
        BY <4>1, MemoryTypes
      <4>3. Append(mem[c].notify, Async) \in Seq(Threads \cup {Async})
            /\ (mem[c].reads # <<>> => Tail(mem[c].reads) \in Seq(Messages))
        BY <4>2, AppendFacts, TailFacts
      <4>. HIDE DEF c
      <4>. QED BY <1>1, <2>2, <4>2, <4>3
    <3>. QED BY <3>1, <3>2
  <2>4. Around'
    BY <2>1, <2>3 DEF ListInv, Around
  <2>. QED BY <2>1, <2>4, NobodyMoves
<1>. QED BY <1>3, <1>4

\* The types of what a message changes.
LEMMA PostedTypes ==
  ASSUME ListInv, NEW i, NEW to \in SUBSET Clients, NEW m \in Messages, Posted(i, to, m)
  PROVE  /\ mem' \in [Clients -> Memory] /\ hand' \in [Hands -> Entry]
         /\ cb' \in [to : SUBSET Clients, msg : Messages, c : Clients \cup {None}]
<1>1. PICK R \in SUBSET Clients :
        \/ mem' = Given(R, m) /\ cb' = NoCb /\ hand' = hand
        \/ \E c \in R :
             /\ FirstWaiter(c, m.tid) \in 1 .. Len(mem[c].notify)
             /\ mem' = [Given(R, m) EXCEPT ![c].notify = RemoveAt(@, FirstWaiter(c, m.tid))]
             /\ hand' = [hand EXCEPT ![ReadCb] =
                           [at |-> "up", entry |-> mem[c].notify[FirstWaiter(c, m.tid)], c |-> c]]
             /\ cb' = [to |-> to, msg |-> m, c |-> c]
  BY DEF Posted
<1>2. Given(R, m) \in [Clients -> Memory]
      /\ \A x \in Clients : Given(R, m)[x].notify = mem[x].notify
  <2>1. ASSUME NEW x \in Clients  PROVE [mem[x] EXCEPT !.reads = Append(@, m)] \in Memory
    <3>1. mem[x] \in Memory /\ Append(mem[x].reads, m) \in Seq(Messages)
      BY MemoryTypes, AppendFacts
    <3>. QED BY <3>1 DEF Memory
  <2>2. ASSUME NEW x \in Clients
        PROVE  Given(R, m)[x] \in Memory /\ Given(R, m)[x].notify = mem[x].notify
    <3>1. mem[x] \in Memory
      BY MemoryTypes
    <3>2. Given(R, m)[x] \in {mem[x], [mem[x] EXCEPT !.reads = Append(@, m)]}
      BY DEF Given
    <3>3. [mem[x] EXCEPT !.reads = Append(@, m)].notify = mem[x].notify
      BY <3>1 DEF Memory
    <3>. QED BY <2>1, <3>1, <3>2, <3>3
  <2>. QED BY <2>2 DEF Given
<1>3. CASE mem' = Given(R, m) /\ cb' = NoCb /\ hand' = hand
  BY <1>2, <1>3, RecordTypes DEF ListInv, Around
<1>4. ASSUME NEW c \in R,
             FirstWaiter(c, m.tid) \in 1 .. Len(mem[c].notify),
             mem' = [Given(R, m) EXCEPT ![c].notify = RemoveAt(@, FirstWaiter(c, m.tid))],
             hand' = [hand EXCEPT ![ReadCb] =
                           [at |-> "up", entry |-> mem[c].notify[FirstWaiter(c, m.tid)], c |-> c]],
             cb' = [to |-> to, msg |-> m, c |-> c]
      PROVE  /\ mem' \in [Clients -> Memory] /\ hand' \in [Hands -> Entry]
             /\ cb' \in [to : SUBSET Clients, msg : Messages, c : Clients \cup {None}]
  <2>. DEFINE w == FirstWaiter(c, m.tid)
  <2>1. c \in Clients /\ mem[c].notify \in Seq(Threads \cup {Async})
    BY MemoryTypes
  <2>2. mem[c].notify[w] \in Threads \cup {Async} /\ RemoveAt(mem[c].notify, w) \in Seq(Threads \cup {Async})
    BY <1>4, <2>1, ElementOfSeq, RemoveAtFacts
  <2>3. [at |-> "up", entry |-> mem[c].notify[w], c |-> c] \in Entry
    BY <2>1, <2>2 DEF Entry
  <2>4. hand' \in [Hands -> Entry]
    BY <1>4, <2>3, Constants DEF ListInv, Around
  <2>5. mem' = [Given(R, m) EXCEPT ![c].notify = RemoveAt(mem[c].notify, w)]
    BY <1>2, <1>4, <2>1
  <2>6. mem' \in [Clients -> Memory]
    BY <1>2, <2>1, <2>2, <2>5 DEF Memory
  <2>. QED BY <1>4, <2>1, <2>4, <2>6
<1>. QED BY <1>1, <1>3, <1>4

\* The message is an answer, or an indication, or still the last one.
Source(i, to, m) ==
  \/ /\ cb = NoCb /\ to = {Ctl}
     /\ \E r \in pending, id \in Ids \cup {None} :
          /\ m = [n |-> r.n, tid |-> TidOf(r.n), id |-> id]
          /\ pending' = pending \ {r}
          /\ \/ r.op = "get" /\ assigned' = assigned \cup ({id} \ {None}) /\ id \notin assigned
             \/ r.op # "get" /\ assigned' = assigned \ {r.c} /\ id = None
  \/ cb = NoCb /\ to \subseteq {Wds} \cup Ids /\ m = NoMsg /\ UNCHANGED <<pending, assigned>>
  \/ /\ cb # NoCb /\ hand[ReadCb] = NoHand /\ to = cb.to /\ m = cb.msg
     /\ i = IF Place(list, cb.c) = 0 THEN Len(list) + 1 ELSE Place(list, cb.c) + 1
     /\ UNCHANGED <<pending, assigned>>

\* ... and so does ReadCallback.
LEMMA PostKeepsList ==
  ASSUME ListInv, (\E r \in pending : Answer(r)) \/ Indicate \/ PostOn
  PROVE  /\ ListInv' /\ UNCHANGED <<valid, list, file, tids, th>>
         /\ \E i \in Nat \ {0}, to \in SUBSET Clients, m \in Messages :
              Posted(i, to, m) /\ Source(i, to, m)
<1>1. \E i \in Nat \ {0}, to \in SUBSET Clients, m \in Messages : Post(i, to, m) /\ Source(i, to, m)
  <2>1. CASE \E r \in pending : Answer(r)
    <3>1. PICK r \in pending : Answer(r)
      BY <2>1
    <3>2. PICK id \in IF r.op = "get" THEN (Ids \ assigned) \cup {None} ELSE {None} :
            /\ assigned' = IF r.op = "get" THEN assigned \cup ({id} \ {None}) ELSE assigned \ {r.c}
            /\ Post(1, {Ctl}, [n |-> r.n, tid |-> TidOf(r.n), id |-> id])
      BY <3>1 DEF Answer
    <3>. DEFINE m == [n |-> r.n, tid |-> TidOf(r.n), id |-> id]
    <3>3. r.n \in Nat
      BY DEF ListInv, Around
    <3>4. m \in Messages /\ {Ctl} \in SUBSET Clients
      BY <3>2, <3>3, TidType, Constants DEF Messages
    <3>5. cb = NoCb /\ pending' = pending \ {r}
      BY <3>1 DEF Answer, Reading
    <3>6. id \in Ids \cup {None} /\ id \notin assigned
      BY <3>2, Constants DEF ListInv, Around
    <3>7. Source(1, {Ctl}, m)
      BY <3>2, <3>5, <3>6 DEF Source
    <3>. QED BY <3>2, <3>4, <3>7
  <2>2. CASE Indicate
    <3>1. PICK to \in {{c} : c \in assigned} \cup {{Wds} \cup Ids} : Post(1, to, NoMsg)
      BY <2>2 DEF Indicate
    <3>2. to \in SUBSET Clients /\ NoMsg \in Messages /\ to \subseteq {Wds} \cup Ids
      BY Constants, RecordTypes DEF ListInv, Around
    <3>3. Source(1, to, NoMsg)
      BY <2>2, <3>2 DEF Source, Indicate, Reading
    <3>. QED BY <3>1, <3>2, <3>3
  <2>3. CASE PostOn
    <3>. DEFINE i == Place(list, cb.c)
                k == IF i = 0 THEN Len(list) + 1 ELSE i + 1
    <3>1. Post(k, cb.to, cb.msg)
      BY <2>3 DEF PostOn, Place
    <3>2. k \in Nat \ {0} /\ cb.to \in SUBSET Clients /\ cb.msg \in Messages
      BY PlaceFacts, LenProperties DEF ListInv, Around
    <3>3. Source(k, cb.to, cb.msg)
      BY <2>3 DEF Source, PostOn
    <3>. QED BY <3>1, <3>2, <3>3
  <2>. QED BY <2>1, <2>2, <2>3
<1>2. \E i \in Nat \ {0}, to \in SUBSET Clients, m \in Messages : Posted(i, to, m) /\ Source(i, to, m)
  BY <1>1, PostDoes
<1>3. /\ mem' \in [Clients -> Memory] /\ hand' \in [Hands -> Entry]
      /\ cb' \in [to : SUBSET Clients, msg : Messages, c : Clients \cup {None}]
  BY <1>2, PostedTypes
<1>4. UNCHANGED <<valid, list, file, tids, th>>
      /\ pending' \subseteq pending /\ assigned' \subseteq Ids
  BY DEF Answer, Indicate, PostOn, ListInv, Around
<1>5. Around'
  BY <1>3, <1>4 DEF ListInv, Around
<1>6. ListInv'
  BY <1>4, <1>5, NobodyMoves
<1>. QED BY <1>2, <1>4, <1>6

\* The list is as it must be.
LEMMA ListKept == Overlap = FALSE /\ ListInv /\ [Next]_vars => ListInv'
<1>. SUFFICES ASSUME Overlap = FALSE, ListInv, [Next]_vars PROVE ListInv'
  OBVIOUS
<1>1. CASE UNCHANGED vars
  BY <1>1 DEF vars, ListInv, Around, Follows, Busy, Once
<1>2. CASE Next
  BY <1>2, Constants, FileStepsKeepList, WriteStepsKeepList, ReadStepsKeepList, RegisterKeepsList,
     CleanupKeepsList, DeregKeepsList, NotificationsKeepList, PostKeepsList DEF Next
<1>. QED BY <1>1, <1>2

\* What a message does to the clients R that it reaches: nobody waits for it, or
\* the first who waits is notified.
Nobody(x, tid) == \A y : Waits(x, y) => tid # 0 /\ EntryTid(y) \notin {0, tid}

Gives(R, i, to, m) ==
  /\ R \in SUBSET Clients /\ Reach(R, i, to)
  /\ \A x \in Clients : mem'[x].reads = IF x \in R THEN Append(mem[x].reads, m) ELSE mem[x].reads
  /\ \A x \in Clients : x \notin R => mem'[x] = mem[x]
  /\ \/ /\ \A x \in R : Nobody(x, m.tid)
        /\ cb' = NoCb /\ hand' = hand /\ \A x \in Clients : mem'[x].notify = mem[x].notify
     \/ \E c \in R : \E e :
          /\ \A x \in R : x # c => Nobody(x, m.tid)
          /\ Pops(ReadCb, c, e) /\ (m.tid = 0 \/ EntryTid(e) \in {0, m.tid})
          /\ cb' = [to |-> to, msg |-> m, c |-> c]

\* Posted, told in this way.
LEMMA PostedGives ==
  ASSUME ListInv, NEW i, NEW to, NEW m \in Messages, Posted(i, to, m)
  PROVE  \E R : Gives(R, i, to, m)
<1>1. ASSUME NEW x \in Clients, FirstWaiter(x, m.tid) = 0  PROVE Nobody(x, m.tid)
  BY <1>1, FirstWaiterFacts DEF Nobody, Waits, Contains
<1>2. PICK R \in SUBSET Clients :
    /\ Reach(R, i, to)
    /\ \/ /\ \A x \in R : FirstWaiter(x, m.tid) = 0
          /\ mem' = Given(R, m) /\ cb' = NoCb /\ hand' = hand
       \/ \E c \in R :
            /\ \A x \in R \ {c} : FirstWaiter(x, m.tid) = 0
            /\ FirstWaiter(c, m.tid) \in 1 .. Len(mem[c].notify)
            /\ mem' = [Given(R, m) EXCEPT ![c].notify = RemoveAt(@, FirstWaiter(c, m.tid))]
            /\ hand' = [hand EXCEPT ![ReadCb] =
                          [at |-> "up", entry |-> mem[c].notify[FirstWaiter(c, m.tid)], c |-> c]]
            /\ cb' = [to |-> to, msg |-> m, c |-> c]
  BY DEF Posted
<1>3. ASSUME NEW x \in Clients
      PROVE  /\ Given(R, m)[x].notify = mem[x].notify
             /\ Given(R, m)[x].reads = IF x \in R THEN Append(mem[x].reads, m) ELSE mem[x].reads
             /\ x \notin R => Given(R, m)[x] = mem[x]
             /\ Given(R, m)[x] \in Memory
  <2>1. mem[x] \in Memory /\ Append(mem[x].reads, m) \in Seq(Messages)
    BY MemoryTypes, AppendFacts
  <2>2. Given(R, m)[x] = IF x \in R THEN [mem[x] EXCEPT !.reads = Append(mem[x].reads, m)] ELSE mem[x]
    BY DEF Given
  <2>. QED BY <2>1, <2>2 DEF Memory
<1>4. CASE /\ \A x \in R : FirstWaiter(x, m.tid) = 0
           /\ mem' = Given(R, m) /\ cb' = NoCb /\ hand' = hand
  <2>1. \A x \in R : Nobody(x, m.tid)
    BY <1>1, <1>4
  <2>. QED BY <1>2, <1>3, <1>4, <2>1 DEF Gives
<1>5. ASSUME NEW c \in R, \A x \in R \ {c} : FirstWaiter(x, m.tid) = 0,
             FirstWaiter(c, m.tid) \in 1 .. Len(mem[c].notify),
             mem' = [Given(R, m) EXCEPT ![c].notify = RemoveAt(@, FirstWaiter(c, m.tid))],
             hand' = [hand EXCEPT ![ReadCb] =
                          [at |-> "up", entry |-> mem[c].notify[FirstWaiter(c, m.tid)], c |-> c]],
             cb' = [to |-> to, msg |-> m, c |-> c]
      PROVE  Gives(R, i, to, m)
  <2>. DEFINE s == mem[c].notify
              w == FirstWaiter(c, m.tid)
              e == s[w]
  <2>1. c \in Clients /\ s \in Seq(Threads \cup {Async})
    BY MemoryTypes
  <2>2. m.tid = 0 \/ EntryTid(e) \in {0, m.tid}
    <3>1. w # 0
      BY <1>5
    <3>. QED BY <2>1, <3>1, FirstWaiterFacts
  <2>3. DOMAIN Given(R, m) = Clients
    BY DEF Given
  <2>4. /\ mem'[c].notify = RemoveAt(s, w)
        /\ \A x \in Clients : mem'[x].reads = Given(R, m)[x].reads
        /\ \A x \in Clients : x # c => mem'[x] = Given(R, m)[x]
    BY <1>3, <1>5, <2>1, <2>3 DEF Memory
  <2>5. Waits(c, e)
    BY <1>5 DEF Waits, Contains
  <2>6. Once(s) => /\ Once(RemoveAt(s, w))
                   /\ \A y : Contains(RemoveAt(s, w), y) <=> Contains(s, y) /\ y # e
    <3>1. w \in 1 .. Len(s)
      BY <1>5
    <3>. HIDE DEF s, w
    <3>. QED BY <2>1, <3>1, RemoveAtContains
  <2>7. Pops(ReadCb, c, e)
    BY <1>3, <1>5, <2>1, <2>4, <2>5, <2>6 DEF Pops, Waits
  <2>8. \A x \in R : x # c => Nobody(x, m.tid)
    BY <1>1, <1>5
  <2>. HIDE DEF e
  <2>. QED BY <1>2, <1>3, <1>5, <2>1, <2>2, <2>4, <2>7, <2>8 DEF Gives
<1>. QED BY <1>2, <1>4, <1>5

-----------------------------------------------------------------------------
(* Deregistration, memory and notifications                                 *)

\* Deregistration releases Ctl last; ...
DeregInv ==
  /\ \A i \in 1 .. Len(list) : list[i] = Ctl => i = 1
  /\ th[Dereg].at \in {"idle", "write", "cleanup", "notify", "loop", "kill", "gone"}
  /\ th[Dereg].op \in {"none", "release"}
  /\ th[Dereg].at = "write" => ~Contains(list, Ctl)
  /\ th[Dereg].at \in {"kill", "gone"} => list = <<>>

\* ... a client that is not on the list has nothing; ...
MemInv == \A c \in Clients : ~Contains(list, c) => mem[c] = Fresh

\* ... only who releases a client and ReadCallback notify; ReadCallback walks with
\* an answer over Ctl, and with an indication over the others.
HandInv ==
  /\ \A t \in Threads : hand[t] # NoHand => th[t].at = "notify"
  /\ \A h \in Hands : \/ hand[h] = NoHand
                      \/ /\ hand[h].at \in {"up", "rearm"} /\ hand[h].c \in Clients
                         /\ hand[h].entry \in Threads \cup {Async}
  /\ \A h \in Hands : hand[h].at = "rearm" => hand[h].entry = Async
  /\ hand[ReadCb] # NoHand => cb # NoCb
  /\ \/ cb = NoCb
     \/ cb.to = {Ctl} /\ cb.c = Ctl
     \/ cb.to \subseteq {Wds} \cup Ids /\ cb.msg = NoMsg /\ cb.c \in {Wds} \cup Ids


\* A step that leaves list and notifications alone keeps the latter two.
LEMMA HandsAlone ==
  ASSUME MemInv, HandInv, UNCHANGED <<list, hand, cb>>,
         \A u \in Threads : th[u].at = "notify" => th'[u].at = "notify",
         \A x \in Clients : ~Contains(list, x) => mem'[x] = mem[x]
  PROVE  MemInv' /\ HandInv'
  BY DEF MemInv, HandInv

\* Threads that read and write, ...
LEMMA ThreadsKeepHands ==
  ASSUME CleanSignals = TRUE, ListInv, MemInv, HandInv, NEW t \in Threads,
         \/ \E d : Calm(t, d)
         \/ \E i : Takes(t, i)
         \/ Sleeps(t) \/ Interrupted(t)
  PROVE  MemInv' /\ HandInv'
<1>1. /\ \E d : th' = [th EXCEPT ![t] = d]
      /\ UNCHANGED <<list, hand, cb>> /\ th[t].at # "notify"
  BY DEF Calm, Takes, Sleeps, Interrupted
<1>2. \A x \in Clients : ~Contains(list, x) => mem'[x] = mem[x]
  <2>1. CASE \E d : Calm(t, d)
    BY <2>1 DEF Calm
  <2>2. CASE (\E i : Takes(t, i)) \/ Sleeps(t)
    BY <2>2 DEF Takes, Sleeps, Listed
  <2>3. CASE Interrupted(t)
    <3>1. Waits(Channel(t), t)
      BY <2>3 DEF Interrupted
    <3>2. \A x \in Clients : ~Contains(list, x) => ~Waits(x, t)
      BY DEF MemInv, Fresh, Waits, Contains
    <3>. QED BY <2>3, <3>1, <3>2 DEF Interrupted
  <2>. QED BY <2>1, <2>2, <2>3
<1>3. \A u \in Threads : th[u].at = "notify" => th'[u].at = "notify"
  BY <1>1 DEF ListInv
<1>. QED BY <1>1, <1>2, <1>3, HandsAlone

\* ... those that get and release clients, ...
LEMMA ReleasesKeepHands ==
  ASSUME ListInv, MemInv, HandInv, NEW t \in Threads,
         Adds(t) \/ Frees(t) \/ \E e : Notifies(t, e)
  PROVE  MemInv' /\ HandInv'
<1>1. mem \in [Clients -> Memory] /\ th \in [Threads -> Doing] /\ list \in Seq(Clients)
      /\ hand \in [Hands -> Entry] /\ t \in Hands /\ ReadCb # t
  BY Constants DEF ListInv, Around
<1>2. CASE Adds(t)
  <2>1. \A x : Contains(list', x) <=> Contains(list, x) \/ x = th[t].c
    BY <1>1, <1>2, Constants, AppendContains DEF Adds
  <2>2. MemInv'
    BY <1>1, <1>2, <2>1 DEF MemInv, Adds
  <2>3. \A u \in Threads : th[u].at # "notify"
    BY <1>2 DEF Adds, Quiet, NoNotifier
  <2>4. UNCHANGED <<hand, cb>>
    BY <1>2 DEF Adds
  <2>. QED BY <2>2, <2>3, <2>4 DEF HandInv
<1>3. CASE Frees(t)
  <2>. DEFINE c == th[t].c
  <2>1. \A x : Contains(list, x) /\ x # c => Contains(list', x)
    BY <1>1, <1>3, RemoveAtContains DEF Frees
  <2>2. MemInv'
    BY <1>1, <1>3, <2>1 DEF MemInv, Frees
  <2>3. \A u \in Threads : hand[u] # NoHand => u # t /\ th'[u].at = "notify"
    BY <1>1, <1>3 DEF HandInv, Frees
  <2>4. UNCHANGED <<hand, cb>>
    BY <1>3 DEF Frees
  <2>. QED BY <2>2, <2>3, <2>4 DEF HandInv
<1>4. CASE \E e : Notifies(t, e)
  <2>1. PICK e : Notifies(t, e)
    BY <1>4
  <2>. DEFINE c == th[t].c
              new == [at |-> "up", entry |-> e, c |-> c]
  <2>2. MemInv'
    BY <2>1 DEF MemInv, Notifies
  <2>3. c \in Clients /\ Waits(c, e) /\ hand' = [hand EXCEPT ![t] = new]
    BY <2>1 DEF Notifies, Pops
  <2>4. e \in Threads \cup {Async}
    <3>1. mem[c].notify \in Seq(Threads \cup {Async})
      BY <2>3, MemoryTypes
    <3>. QED BY <2>3, <3>1, ElementOfSeq DEF Waits, Contains
  <2>5. hand'[t] = new /\ \A h \in Hands : h # t => hand'[h] = hand[h]
    BY <1>1, <2>3
  <2>6. \A u \in Threads : u # t => th'[u] = th[u]
    BY <1>1, <2>1 DEF Notifies
  <2>7. th'[t].at = "notify"
    BY <1>1, <2>1 DEF Notifies, Doing
  <2>8. cb' = cb
    BY <2>1 DEF Notifies
  <2>. QED BY <1>1, <2>2, <2>3, <2>4, <2>5, <2>6, <2>7, <2>8, Constants DEF HandInv
<1>. QED BY <1>2, <1>3, <1>4

\* ... notifications ...
LEMMA NotificationsKeepHands ==
  ASSUME ListInv, MemInv, HandInv, NEW h \in Hands, UpSem(h) \/ WdsCallback(h) \/ ReadAsync(h)
  PROVE  MemInv' /\ HandInv'
<1>1. mem \in [Clients -> Memory] /\ th \in [Threads -> Doing]
      /\ hand \in [Hands -> Entry] /\ hand[h] \in Entry
  BY DEF ListInv, Around
<1>2. UNCHANGED <<list, cb>> /\ hand[h] # NoHand
  BY DEF UpSem, WdsCallback, ReadAsync, NoHand
<1>3. \A u \in Threads : th[u].at = "notify" => th'[u].at = "notify"
  <2>1. CASE UpSem(h)
    <3>. DEFINE e == hand[h].entry
    <3>1. \A u \in Threads : u # e => th'[u] = th[u]
      BY <1>1, <2>1 DEF UpSem
    <3>2. th[e].at = "notify" => th'[e] = [th[e] EXCEPT !.at = "notify"]
      BY <1>1, <2>1 DEF UpSem
    <3>. QED BY <1>1, <2>1, <3>1, <3>2 DEF UpSem, Doing
  <2>2. CASE WdsCallback(h) \/ ReadAsync(h)
    BY <2>2 DEF WdsCallback, ReadAsync
  <2>. QED BY <2>1, <2>2
<1>4. MemInv'
  BY <1>1, <1>2 DEF MemInv, UpSem, WdsCallback, ReadAsync, Listed
<1>5. PICK v : /\ hand' = [hand EXCEPT ![h] = v]
               /\ \/ v = NoHand
                  \/ v.at \in {"up", "rearm"} /\ v.c = hand[h].c /\ v.entry = hand[h].entry
                     /\ hand[h].entry = Async
  <2>1. CASE UpSem(h)
    BY <2>1 DEF UpSem
  <2>2. CASE WdsCallback(h)
    <3>1. hand' \in {[hand EXCEPT ![h] = NoHand], [hand EXCEPT ![h] = [hand[h] EXCEPT !.at = "rearm"]]}
      BY <2>2 DEF WdsCallback
    <3>2. hand[h].entry = Async
      BY <2>2 DEF WdsCallback
    <3>. QED BY <1>1, <3>1, <3>2 DEF Entry
  <2>3. CASE ReadAsync(h)
    <3>1. hand' \in {[hand EXCEPT ![h] = NoHand], [hand EXCEPT ![h] = [hand[h] EXCEPT !.at = "up"]]}
      BY <2>3 DEF ReadAsync
    <3>2. hand[h].entry = Async
      BY <2>3 DEF ReadAsync, HandInv
    <3>. QED BY <1>1, <3>1, <3>2 DEF Entry
  <2>. QED BY <2>1, <2>2, <2>3
<1>6. hand'[h] = v /\ \A g \in Hands : g # h => hand'[g] = hand[g]
  BY <1>1, <1>5
<1>7. NoHand.at # "rearm"
  BY DEF NoHand
<1>. QED BY <1>2, <1>3, <1>4, <1>5, <1>6, <1>7, Constants DEF HandInv

\* ... and messages.
LEMMA PostKeepsHands ==
  ASSUME ListInv, MemInv, HandInv, UNCHANGED <<valid, list, file, tids, th>>,
         NEW i \in Nat \ {0}, NEW to \in SUBSET Clients, NEW m \in Messages,
         Source(i, to, m), NEW R, Gives(R, i, to, m)
  PROVE  MemInv' /\ HandInv' /\ hand[ReadCb] = NoHand
         /\ \A x \in R : Contains(list, x) /\ x \in to
<1>1. mem \in [Clients -> Memory] /\ hand \in [Hands -> Entry] /\ list \in Seq(Clients)
  BY DEF ListInv, Around
<1>2. hand[ReadCb] = NoHand
  BY DEF Source, HandInv
<1>3. \A x \in R : Contains(list, x) /\ x \in to
  BY LenProperties, <1>1 DEF Gives, Reach, Contains
<1>4. MemInv'
  BY <1>3 DEF Gives, MemInv
<1>5. to = {Ctl} \/ (to \subseteq {Wds} \cup Ids /\ m = NoMsg)
  BY DEF Source, HandInv
<1>6. ASSUME cb' = NoCb, hand' = hand  PROVE HandInv'
  <2>1. th' = th
    OBVIOUS
  <2>. QED BY <1>2, <1>6, <2>1 DEF HandInv
<1>7. ASSUME NEW c \in R, NEW e, Pops(ReadCb, c, e), cb' = [to |-> to, msg |-> m, c |-> c]
      PROVE  HandInv'
  <2>. DEFINE new == [at |-> "up", entry |-> e, c |-> c]
  <2>1. c \in Clients /\ Waits(c, e) /\ hand' = [hand EXCEPT ![ReadCb] = new]
    BY <1>7 DEF Pops
  <2>2. e \in Threads \cup {Async}
    <3>1. mem[c].notify \in Seq(Threads \cup {Async})
      BY <2>1, MemoryTypes
    <3>. QED BY <2>1, <3>1, ElementOfSeq DEF Waits, Contains
  <2>3. hand'[ReadCb] = new /\ \A h \in Hands : h # ReadCb => hand'[h] = hand[h]
    BY <1>1, <2>1, Constants
  <2>4. cb' # NoCb
    BY <1>7, <1>3 DEF NoCb
  <2>5. \/ cb'.to = {Ctl} /\ cb'.c = Ctl
        \/ cb'.to \subseteq {Wds} \cup Ids /\ cb'.msg = NoMsg /\ cb'.c \in {Wds} \cup Ids
    BY <1>3, <1>5, <1>7
  <2>. QED BY <2>1, <2>2, <2>3, <2>4, <2>5, Constants DEF HandInv
<1>. QED BY <1>2, <1>3, <1>4, <1>6, <1>7 DEF Gives

\* Deregistration: the others leave it alone, and do not touch Ctl.
LEMMA OthersKeepDereg ==
  ASSUME ListInv, DeregInv, th'[Dereg] = th[Dereg],
         \/ list' = list
         \/ \E t \in Threads : Adds(t)
         \/ \E t \in Threads : Frees(t)
  PROVE  DeregInv'
<1>1. list \in Seq(Clients) /\ Len(list) \in Nat
  BY LenProperties DEF ListInv
<1>2. CASE list' = list
  BY <1>2 DEF DeregInv
<1>3. ASSUME NEW t \in Threads, Adds(t)  PROVE DeregInv'
  <2>. DEFINE c == th[t].c
  <2>1. list' = Append(list, c) /\ c \in Clients /\ c # Ctl /\ th[Dereg].at \notin {"kill", "gone"}
    BY <1>3, Constants DEF Adds, Quiet
  <2>2. \A i \in 1 .. Len(list') : list'[i] = Ctl => i = 1
    BY <1>1, <2>1, AppendFacts DEF DeregInv
  <2>3. Contains(list', Ctl) => Contains(list, Ctl)
    BY <1>1, <2>1, AppendContains
  <2>. QED BY <2>1, <2>2, <2>3 DEF DeregInv
<1>4. ASSUME NEW t \in Threads, Frees(t)  PROVE DeregInv'
  <2>1. PICK k \in 1 .. Len(list) : list' = RemoveAt(list, k)
    BY <1>4 DEF Frees
  <2>2. ASSUME NEW i \in 1 .. Len(list'), list'[i] = Ctl  PROVE i = 1
    <3>1. i \in 1 .. Len(list) - 1 /\ list'[i] = IF i < k THEN list[i] ELSE list[i + 1]
      BY <1>1, <2>1, RemoveAtFacts
    <3>2. i < k => i \in 1 .. Len(list)
      BY <1>1, <3>1
    <3>3. ~(i < k) => i + 1 \in 1 .. Len(list) /\ i + 1 # 1
      BY <1>1, <3>1
    <3>. QED BY <2>2, <3>1, <3>2, <3>3 DEF DeregInv
  <2>3. Contains(list', Ctl) => Contains(list, Ctl)
    BY <1>1, <2>1, RemoveAtContains
  <2>4. list # <<>>
    BY <1>1, <2>1, EmptySeq
  <2>. QED BY <2>2, <2>3, <2>4 DEF DeregInv
<1>. QED BY <1>2, <1>3, <1>4

\* Its own steps.
LEMMA DeregStepsKeepDereg ==
  ASSUME ListInv, DeregInv,
         \/ DeregLoop \/ Kill
         \/ Submit(Dereg) \/ Transmitted(Dereg) \/ TakeBack(Dereg) \/ Look(Dereg)
         \/ Interrupt(Dereg) \/ Register(Dereg) \/ Cleanup(Dereg) \/ CleanupAgain(Dereg)
  PROVE  DeregInv'
<1>1. /\ list \in Seq(Clients) /\ Len(list) \in Nat /\ th \in [Threads -> Doing] /\ Dereg \in Threads
      /\ Busy(th[Dereg]) /\ th[Dereg] \in Doing
  BY LenProperties, Constants DEF ListInv
<1>2. ASSUME NEW d, th'[Dereg] = d, list' = list, d.op \in {"none", "release"},
             \/ d.at \in {"cleanup", "loop", "notify"}
             \/ d.at = "write" /\ ~Contains(list, Ctl)
             \/ d.at \in {"kill", "gone"} /\ list = <<>>
      PROVE  DeregInv'
  BY <1>2 DEF DeregInv
<1>3. CASE Submit(Dereg)
  <2>1. th[Dereg].at = "write" /\ th[Dereg].op = "release"
    BY <1>1, <1>3 DEF Submit, DeregInv, Busy
  <2>2. ~Listed(Channel(Dereg))
    BY <2>1 DEF Channel, Asks, Listed, DeregInv
  <2>3. th' = [th EXCEPT ![Dereg] = [th[Dereg] EXCEPT !.at = "cleanup"]] /\ list' = list
    BY <1>3, <2>1, <2>2 DEF Submit, Failed
  <2>4. th'[Dereg].at = "cleanup" /\ th'[Dereg].op = "release"
    BY <1>1, <2>1, <2>3 DEF Doing
  <2>. QED BY <1>2, <2>3, <2>4
<1>4. CASE Transmitted(Dereg) \/ TakeBack(Dereg) \/ Look(Dereg) \/ Interrupt(Dereg) \/ Register(Dereg)
  BY <1>4 DEF Transmitted, TakeBack, Look, Interrupt, Register, DeregInv
<1>5. CASE Cleanup(Dereg) \/ CleanupAgain(Dereg)
  <2>1. \/ Frees(Dereg) \/ \E e : Notifies(Dereg, e)
        \/ (Calm(Dereg, Released(Dereg)) /\ ~Contains(list, th[Dereg].c))
    BY <1>1, <1>5, CleanupKeepsList
  <2>2. CASE Calm(Dereg, Released(Dereg))
    <3>1. th'[Dereg] = Released(Dereg) /\ list' = list
      BY <1>1, <2>2 DEF Calm
    <3>. QED BY <1>2, <3>1, Fields
  <2>3. ASSUME NEW e, Notifies(Dereg, e)  PROVE DeregInv'
    <3>1. th'[Dereg].at = "notify" /\ th'[Dereg].op = "release" /\ list' = list
      BY <1>1, <2>3 DEF Notifies, Doing
    <3>. QED BY <1>2, <3>1
  <2>4. CASE Frees(Dereg)
    <3>1. th'[Dereg].at = "loop" /\ th'[Dereg].op = "none"
      BY <2>4, Fields DEF Frees
    <3>2. PICK k \in 1 .. Len(list) : list' = RemoveAt(list, k)
      BY <2>4 DEF Frees
    <3>3. ASSUME NEW i \in 1 .. Len(list'), list'[i] = Ctl  PROVE i = 1
      <4>1. i \in 1 .. Len(list) - 1 /\ list'[i] = IF i < k THEN list[i] ELSE list[i + 1]
        BY <1>1, <3>2, RemoveAtFacts
      <4>2. i < k => i \in 1 .. Len(list)
        BY <1>1, <4>1
      <4>3. ~(i < k) => i + 1 \in 1 .. Len(list) /\ i + 1 # 1
        BY <1>1, <4>1
      <4>. QED BY <3>3, <4>1, <4>2, <4>3 DEF DeregInv
    <3>. QED BY <3>1, <3>3 DEF DeregInv
  <2>. QED BY <2>1, <2>2, <2>3, <2>4
<1>6. CASE DeregLoop /\ list = <<>>
  <2>1. th'[Dereg] = [th[Dereg] EXCEPT !.at = "kill"] /\ list' = list /\ th[Dereg].at \in {"idle", "loop"}
    BY <1>1, <1>6 DEF DeregLoop
  <2>2. th'[Dereg].at = "kill" /\ th'[Dereg].op = "none"
    BY <1>1, <2>1 DEF Busy, Doing
  <2>. QED BY <1>2, <1>6, <2>1, <2>2
<1>7. CASE Kill
  <2>1. th'[Dereg] = [th[Dereg] EXCEPT !.at = "gone"] /\ list' = list /\ th[Dereg].at = "kill"
    BY <1>1, <1>7 DEF Kill
  <2>2. th'[Dereg].at = "gone" /\ th'[Dereg].op = "none" /\ list = <<>>
    BY <1>1, <2>1 DEF Busy, Doing, DeregInv
  <2>. QED BY <1>2, <2>1, <2>2
<1>8. CASE DeregLoop /\ list # <<>>
  <2>. DEFINE n == IF TidOf(tids + 1) = 0 THEN tids + 2 ELSE tids + 1
              c == Head(list)
              a == IF c = Ctl THEN "cleanup" ELSE "write"
  <2>1. th' = [th EXCEPT ![Dereg] = Leaving(a, c, n)] /\ list' = list
    BY <1>8 DEF DeregLoop, Releasing, Leaving
  <2>2. Leaving(a, c, n).at = a /\ Leaving(a, c, n).op = "release"
    BY Fields
  <2>3. c = list[1] /\ 1 \in 1 .. Len(list)
    BY <1>1, <1>8, HeadTailProperties, EmptySeq
  <2>4. c # Ctl => ~Contains(list, Ctl)
    BY <2>3 DEF DeregInv, Contains
  <2>5. th'[Dereg] = Leaving(a, c, n)
    BY <1>1, <2>1
  <2>. HIDE DEF n, c
  <2>. QED BY <1>2, <2>1, <2>2, <2>4, <2>5
<1>. QED BY <1>3, <1>4, <1>5, <1>6, <1>7, <1>8 DEF DeregLoop

\* The steps of a thread, of a notification and of ReadCallback.
ThreadStep(t) ==
  \/ Submit(t) \/ Transmitted(t) \/ TakeBack(t) \/ Look(t)
  \/ Interrupt(t) \/ Register(t) \/ Cleanup(t) \/ CleanupAgain(t)

StepOf(t) ==
  \/ (\E d : Calm(t, d)) \/ (\E i : Takes(t, i)) \/ Sleeps(t) \/ Interrupted(t)
  \/ Adds(t) \/ Frees(t) \/ \E e : Notifies(t, e)

NotifyStep(h) == UpSem(h) \/ WdsCallback(h) \/ ReadAsync(h)

PostStep ==
  /\ UNCHANGED <<valid, list, file, tids, th>>
  /\ \E i \in Nat \ {0}, to \in SUBSET Clients, m \in Messages :
       Source(i, to, m) /\ \E R : Gives(R, i, to, m)

\* Each action of a thread is one of those steps, ...
LEMMA StepKinds ==
  ASSUME Overlap = FALSE, ListInv
  PROVE  /\ \A t \in Users, f \in Files : Ioctl(t, f) \/ Close(t, f) \/ ReadWrite(t, f) => StepOf(t)
         /\ \A t \in Threads : ThreadStep(t) => StepOf(t)
         /\ DeregLoop \/ Kill => StepOf(Dereg)
         /\ (\E r \in pending : Answer(r)) \/ Indicate \/ PostOn => PostStep
<1>1. ASSUME NEW t \in Users, NEW f \in Files, Ioctl(t, f) \/ Close(t, f) \/ ReadWrite(t, f)
      PROVE  StepOf(t)
  BY <1>1, FileStepsKeepList DEF StepOf
<1>2. ASSUME NEW t \in Threads, ThreadStep(t)  PROVE StepOf(t)
  <2>1. CASE Submit(t) \/ Transmitted(t) \/ TakeBack(t)
    BY <2>1, WriteStepsKeepList DEF StepOf
  <2>2. CASE Look(t) \/ Interrupt(t)
    BY <2>2, ReadStepsKeepList DEF StepOf
  <2>3. CASE Register(t)
    BY <2>3, RegisterKeepsList DEF StepOf
  <2>4. CASE Cleanup(t) \/ CleanupAgain(t)
    BY <2>4, CleanupKeepsList DEF StepOf
  <2>. QED BY <1>2, <2>1, <2>2, <2>3, <2>4 DEF ThreadStep
<1>3. DeregLoop \/ Kill => StepOf(Dereg)
  BY DeregKeepsList DEF StepOf
<1>4. (\E r \in pending : Answer(r)) \/ Indicate \/ PostOn => PostStep
  <2>. SUFFICES ASSUME (\E r \in pending : Answer(r)) \/ Indicate \/ PostOn  PROVE PostStep
    OBVIOUS
  <2>1. UNCHANGED <<valid, list, file, tids, th>>
        /\ \E i \in Nat \ {0}, to \in SUBSET Clients, m \in Messages :
             Posted(i, to, m) /\ Source(i, to, m)
    BY PostKeepsList
  <2>. QED BY <2>1, PostedGives DEF PostStep
<1>. QED BY <1>1, <1>2, <1>3, <1>4

\* Every step is one of these.
LEMMA NextKinds ==
  ASSUME Overlap = FALSE, ListInv, Next
  PROVE  \/ \E t \in Threads : StepOf(t)
         \/ \E h \in Hands : NotifyStep(h)
         \/ PostStep
<1>1. CASE \E t \in Users, f \in Files : Ioctl(t, f) \/ Close(t, f) \/ ReadWrite(t, f)
  BY <1>1, StepKinds, Constants
<1>2. CASE \E t \in Threads : ThreadStep(t)
  BY <1>2, StepKinds
<1>3. CASE DeregLoop \/ Kill
  BY <1>3, StepKinds, Constants
<1>4. CASE \E h \in Threads \cup {ReadCb} : UpSem(h) \/ WdsCallback(h) \/ ReadAsync(h)
  BY <1>4 DEF NotifyStep, Hands
<1>5. CASE (\E r \in pending : Answer(r)) \/ Indicate \/ PostOn
  BY <1>5, StepKinds
<1>. QED BY <1>1, <1>2, <1>3, <1>4, <1>5 DEF Next, ThreadStep

DeviceInv == ListInv /\ DeregInv /\ MemInv /\ HandInv

\* All four hold together.
LEMMA DeviceInit == Init => DeviceInv
<1>. SUFFICES ASSUME Init PROVE DeviceInv
  OBVIOUS
<1>1. ListInv
  BY ListInit
<1>2. DeregInv
  <2>1. list = <<Ctl, Wds>> /\ Ctl # Wds /\ th[Dereg] = Rest
    BY Constants DEF Init
  <2>. QED BY <2>1, Fields DEF DeregInv
<1>3. MemInv
  <2>1. list = <<Ctl, Wds>> /\ \A c \in Clients : c # Wds => mem[c] = Fresh
    BY DEF Init
  <2>2. Contains(list, Wds)
    BY <2>1 DEF Contains
  <2>. QED BY <2>1, <2>2 DEF MemInv
<1>4. HandInv
  <2>1. /\ \A h \in Hands : hand[h] = NoHand
        /\ NoHand.at = "none" /\ cb = NoCb
    BY DEF Init, Hands, NoHand
  <2>. QED BY <2>1, Constants DEF HandInv
<1>. QED BY <1>1, <1>2, <1>3, <1>4 DEF DeviceInv

\* Every step keeps them, when no client is added while a notification runs and
\* signals are clean.
LEMMA DeviceKept == Overlap = FALSE /\ CleanSignals = TRUE /\ DeviceInv /\ [Next]_vars => DeviceInv'
<1>. SUFFICES ASSUME Overlap = FALSE, CleanSignals = TRUE, DeviceInv, [Next]_vars PROVE DeviceInv'
  OBVIOUS
<1>1. ListInv /\ ListInv'
  BY ListKept DEF DeviceInv
<1>2. CASE UNCHANGED vars
  BY <1>1, <1>2 DEF vars, DeviceInv, DeregInv, MemInv, HandInv
<1>3. CASE Next
  <2>1. MemInv' /\ HandInv'
    <3>1. CASE \E t \in Threads : StepOf(t)
      BY <1>1, <3>1, ThreadsKeepHands, ReleasesKeepHands DEF StepOf, DeviceInv
    <3>2. CASE \E h \in Hands : NotifyStep(h)
      BY <1>1, <3>2, NotificationsKeepHands DEF NotifyStep, DeviceInv
    <3>3. CASE PostStep
      <4>1. PICK i \in Nat \ {0}, to \in SUBSET Clients, m \in Messages :
              Source(i, to, m) /\ \E R : Gives(R, i, to, m)
        BY <3>3 DEF PostStep
      <4>2. PICK R : Gives(R, i, to, m)
        BY <4>1
      <4>. QED BY <1>1, <3>3, <4>1, <4>2, PostKeepsHands DEF PostStep, DeviceInv
    <3>. QED BY <1>1, <1>3, <3>1, <3>2, <3>3, NextKinds
  <2>2. DeregInv'
    <3>1. CASE DeregLoop \/ Kill \/ ThreadStep(Dereg)
      BY <1>1, <3>1, DeregStepsKeepDereg DEF ThreadStep, DeviceInv
    <3>2. ASSUME NEW t \in Users, StepOf(t)  PROVE DeregInv'
      <4>1. t # Dereg /\ t \in Threads /\ Dereg \in Threads /\ th \in [Threads -> Doing]
        BY <1>1, Constants DEF ListInv
      <4>2. th[Dereg].at # "urb"
        BY DEF DeviceInv, DeregInv
      <4>3. th'[Dereg] = th[Dereg]
        BY <3>2, <4>1, <4>2 DEF StepOf, Calm, Takes, Sleeps, Interrupted, Adds, Frees, Notifies
      <4>4. list' = list \/ Adds(t) \/ Frees(t)
        BY <3>2 DEF StepOf, Calm, Takes, Sleeps, Interrupted, Notifies
      <4>. QED BY <1>1, <4>1, <4>3, <4>4, OthersKeepDereg DEF DeviceInv
    <3>3. ASSUME NEW h \in Hands, NotifyStep(h)  PROVE DeregInv'
      <4>1. list' = list /\ th \in [Threads -> Doing] /\ th[Dereg].at # "asleep"
            /\ Dereg \in Threads
        BY <1>1, <3>3, Constants DEF NotifyStep, UpSem, WdsCallback, ReadAsync, ListInv, DeviceInv, DeregInv
      <4>2. th'[Dereg] = th[Dereg]
        <5>1. CASE UpSem(h)
          <6>1. CASE hand[h].entry # Dereg
            BY <4>1, <5>1, <6>1 DEF UpSem
          <6>2. CASE hand[h].entry = Dereg
            <7>1. th'[Dereg] = [th[Dereg] EXCEPT !.at = th[Dereg].at]
              BY <4>1, <5>1, <6>2 DEF UpSem
            <7>. QED BY <4>1, <7>1 DEF Doing
          <6>. QED BY <6>1, <6>2
        <5>2. CASE WdsCallback(h) \/ ReadAsync(h)
          BY <5>2 DEF WdsCallback, ReadAsync
        <5>. QED BY <3>3, <5>1, <5>2 DEF NotifyStep
      <4>. QED BY <1>1, <4>1, <4>2, OthersKeepDereg DEF DeviceInv
    <3>4. CASE PostStep
      BY <1>1, <3>4, OthersKeepDereg DEF PostStep, DeviceInv
    <3>5. \/ DeregLoop \/ Kill \/ ThreadStep(Dereg)
          \/ \E t \in Users : StepOf(t)
          \/ \E h \in Hands : NotifyStep(h)
          \/ PostStep
      <4>1. CASE \E t \in Users, f \in Files : Ioctl(t, f) \/ Close(t, f) \/ ReadWrite(t, f)
        BY <1>1, <4>1, StepKinds
      <4>2. CASE \E t \in Threads : ThreadStep(t)
        BY <1>1, <4>2, StepKinds DEF Threads
      <4>3. CASE \E h \in Threads \cup {ReadCb} : UpSem(h) \/ WdsCallback(h) \/ ReadAsync(h)
        BY <4>3 DEF NotifyStep, Hands
      <4>4. CASE (\E r \in pending : Answer(r)) \/ Indicate \/ PostOn
        BY <1>1, <4>4, StepKinds
      <4>. QED BY <1>3, <4>1, <4>2, <4>3, <4>4 DEF Next, ThreadStep
    <3>. QED BY <3>1, <3>2, <3>3, <3>4, <3>5
  <2>. QED BY <1>1, <2>1, <2>2 DEF DeviceInv
<1>. QED BY <1>2, <1>3

-----------------------------------------------------------------------------
(* Who waits                                                                *)

\* The entry of a reader that sleeps, or of the callback of Wds, is in one place:
\* with the client that the reader reads, or in the hand of one notifier.
WaitInv ==
  /\ \A c \in Clients : \A e : Waits(c, e) =>
       \/ e \in Users /\ th[e].at = "asleep" /\ Channel(e) = c
       \/ e = Async /\ c = Wds
  /\ \A c \in Clients : \A e : Waits(c, e) => \A h \in Hands : hand[h].entry # e
  /\ \A c \in Clients : Once(mem[c].notify)
  /\ \A h \in Hands : hand[h].entry \in Users \cup {Async, None}
  /\ \A h \in Hands, u \in Users :
       hand[h].entry = u => th[u].at = "asleep" /\ Channel(u) = hand[h].c
  /\ \A h \in Hands : hand[h].entry = Async => hand[h].c = Wds
  /\ \A g, h \in Hands : hand[g].entry # None /\ hand[g].entry = hand[h].entry => g = h
  /\ \A u \in Users : th[u].at = "asleep" =>
       Waits(Channel(u), u) \/ \E h \in Hands : hand[h].entry = u

\* Those who sleep sleep on.
SleepOn ==
  \A u \in Users : /\ th[u].at = "asleep" => th'[u] = th[u]
                   /\ th'[u].at = "asleep" => th[u].at = "asleep"

\* Who does the same reads the same client.
LEMMA ChannelKept ==
  \A u \in Threads : th'[u] = th[u] => Channel(u)' = Channel(u) /\ ReadTid(u)' = ReadTid(u)
  BY DEF Channel, Asks, ReadTid

\* No entry moves, ...
LEMMA NoEntryMoves ==
  ASSUME WaitInv, SleepOn,
         \A h \in Hands : \/ hand'[h].entry = hand[h].entry /\ hand'[h].c = hand[h].c
                          \/ hand[h].entry = Async /\ hand'[h].entry = None,
         \A c \in Clients : mem'[c].notify = mem[c].notify,
         \A u \in Users : th[u].at = "asleep" => Channel(u) \in Clients
  PROVE  WaitInv'
<1>1. \A c \in Clients : \A e : Waits(c, e)' <=> Waits(c, e)
  BY DEF Waits
<1>2. \A c \in Clients : Once(mem[c].notify)' <=> Once(mem[c].notify)
  BY DEF Once
<1>3. \A u \in Users : th[u].at = "asleep" <=> th'[u].at = "asleep"
  BY DEF SleepOn
<1>4. \A u \in Users : th[u].at = "asleep" => Channel(u)' = Channel(u)
  BY ChannelKept, Constants DEF SleepOn
<1>5. \A u \in Users : u # Async /\ u # None
  BY Constants
<1>6. ASSUME NEW u \in Users, th'[u].at = "asleep"
      PROVE  (Waits(Channel(u), u) \/ \E h \in Hands : hand[h].entry = u)'
  <2>1. th[u].at = "asleep"
    BY <1>3, <1>6
  <2>2. Waits(Channel(u), u)' <=> Waits(Channel(u), u)
    BY <1>4, <2>1 DEF Waits
  <2>3. \A h \in Hands : hand[h].entry = u => hand'[h].entry = u
    BY <1>5
  <2>. QED BY <2>1, <2>2, <2>3 DEF WaitInv
<1>7. \A h \in Hands : hand'[h].entry # None => hand'[h].entry = hand[h].entry /\ hand'[h].c = hand[h].c
  OBVIOUS
<1>8. \A c \in Clients : \A e : Waits(c, e)' =>
       /\ \/ e \in Users /\ th'[e].at = "asleep" /\ Channel(e)' = c
          \/ e = Async /\ c = Wds
       /\ \A h \in Hands : hand'[h].entry # e
  <2>. SUFFICES ASSUME NEW c \in Clients, NEW e, Waits(c, e)'
                PROVE  /\ \/ e \in Users /\ th'[e].at = "asleep" /\ Channel(e)' = c
                          \/ e = Async /\ c = Wds
                       /\ \A h \in Hands : hand'[h].entry # e
    OBVIOUS
  <2>1. \/ e \in Users /\ th[e].at = "asleep" /\ Channel(e) = c
        \/ e = Async /\ c = Wds
    BY <1>1 DEF WaitInv
  <2>2. \A h \in Hands : hand[h].entry # e
    BY <1>1 DEF WaitInv
  <2>3. e # None
    BY <2>1, <1>5, Constants
  <2>. QED BY <1>3, <1>4, <1>7, <2>1, <2>2, <2>3
<1>9. \A h \in Hands, u \in Users :
        hand'[h].entry = u => th'[u].at = "asleep" /\ Channel(u)' = hand'[h].c
  BY <1>3, <1>4, <1>5, <1>7 DEF WaitInv
<1>10. \A h \in Hands : /\ hand'[h].entry \in Users \cup {Async, None}
                        /\ hand'[h].entry = Async => hand'[h].c = Wds
  BY Constants DEF WaitInv
<1>11. \A f, g \in Hands : hand'[f].entry # None /\ hand'[f].entry = hand'[g].entry => f = g
  BY <1>7 DEF WaitInv
<1>. QED BY <1>2, <1>6, <1>8, <1>9, <1>10, <1>11 DEF WaitInv

\* ... or one is taken to be notified, ...
LEMMA OneIsPopped ==
  ASSUME ListInv, WaitInv, SleepOn, NEW h \in Hands, hand[h] = NoHand, NEW c, NEW e, Pops(h, c, e)
  PROVE  WaitInv'
<1>1. /\ hand \in [Hands -> Entry] /\ c \in Clients /\ Waits(c, e)
      /\ Once(mem[c].notify)
      /\ \A x \in Clients : x # c => mem'[x].notify = mem[x].notify
      /\ Once(mem'[c].notify)
      /\ \A y : Contains(mem'[c].notify, y) <=> Waits(c, y) /\ y # e
  BY DEF Pops, ListInv, Around, WaitInv
<1>2. /\ \A g \in Hands : g # h => hand'[g] = hand[g]
      /\ hand'[h].entry = e /\ hand'[h].c = c /\ hand[h].entry = None
  BY <1>1 DEF Pops, NoHand
<1>3. \A x \in Clients : \A y : Waits(x, y)' <=> Waits(x, y) /\ (x # c \/ y # e)
  BY <1>1 DEF Waits
<1>4. \A x \in Clients : Once(mem[x].notify)'
  BY <1>1 DEF Once, WaitInv
<1>5. \A u \in Users : th[u].at = "asleep" <=> th'[u].at = "asleep"
  BY DEF SleepOn
<1>6. \A u \in Users : th[u].at = "asleep" => Channel(u)' = Channel(u)
  BY ChannelKept, Constants DEF SleepOn
<1>7. \/ e \in Users /\ th[e].at = "asleep" /\ Channel(e) = c
      \/ e = Async /\ c = Wds
  BY <1>1 DEF WaitInv
<1>8. \A x \in Clients : Waits(x, e) => x = c
  BY <1>7, Constants DEF WaitInv
<1>9. \A x \in Clients : \A y : Waits(x, y)' =>
       /\ \/ y \in Users /\ th'[y].at = "asleep" /\ Channel(y)' = x
          \/ y = Async /\ x = Wds
       /\ \A g \in Hands : hand'[g].entry # y
  <2>. SUFFICES ASSUME NEW x \in Clients, NEW y, Waits(x, y)'
                PROVE  /\ \/ y \in Users /\ th'[y].at = "asleep" /\ Channel(y)' = x
                          \/ y = Async /\ x = Wds
                       /\ \A g \in Hands : hand'[g].entry # y
    OBVIOUS
  <2>1. Waits(x, y) /\ y # e
    BY <1>3, <1>8
  <2>. QED BY <1>2, <1>5, <1>6, <2>1 DEF WaitInv
<1>10. \A g \in Hands : /\ hand'[g].entry \in Users \cup {Async, None}
                        /\ hand'[g].entry = Async => hand'[g].c = Wds
  BY <1>2, <1>7, Constants DEF WaitInv
<1>11. \A g \in Hands, u \in Users :
         hand'[g].entry = u => th'[u].at = "asleep" /\ Channel(u)' = hand'[g].c
  <2>. SUFFICES ASSUME NEW g \in Hands, NEW u \in Users, hand'[g].entry = u
                PROVE  th'[u].at = "asleep" /\ Channel(u)' = hand'[g].c
    OBVIOUS
  <2>1. CASE g = h
    BY <1>2, <1>5, <1>6, <1>7, <2>1, Constants
  <2>2. CASE g # h
    BY <1>2, <1>5, <1>6, <2>2 DEF WaitInv
  <2>. QED BY <2>1, <2>2
<1>12. \A f, g \in Hands : hand'[f].entry # None /\ hand'[f].entry = hand'[g].entry => f = g
  <2>1. \A g \in Hands : hand[g].entry # e
    BY <1>1 DEF WaitInv
  <2>. QED BY <1>2, <2>1 DEF WaitInv
<1>13. ASSUME NEW u \in Users, th'[u].at = "asleep"
       PROVE  (Waits(Channel(u), u) \/ \E g \in Hands : hand[g].entry = u)'
  <2>1. th[u].at = "asleep" /\ Channel(u)' = Channel(u)
    BY <1>5, <1>6, <1>13
  <2>2. CASE u = e
    BY <1>2, <2>2
  <2>3. CASE u # e /\ Waits(Channel(u), u)
    <3>1. Waits(Channel(u), u)'
      <4>1. CASE Channel(u) = c
        BY <1>1, <2>1, <2>3, <4>1 DEF Waits
      <4>2. CASE Channel(u) # c
        <5>1. Channel(u) \in Clients
          <6>1. u \in Threads /\ th[u].op # "none"
            BY <2>1, Constants DEF ListInv, Busy
          <6>. QED BY <6>1, ChannelType
        <5>. QED BY <1>1, <2>1, <2>3, <4>2, <5>1 DEF Waits
      <4>. QED BY <4>1, <4>2
    <3>. QED BY <3>1
  <2>4. CASE \E g \in Hands : hand[g].entry = u
    <3>1. PICK g \in Hands : hand[g].entry = u
      BY <2>4
    <3>2. g # h
      BY <1>2, <3>1, Constants
    <3>. QED BY <1>2, <3>1, <3>2
  <2>. QED BY <2>1, <2>2, <2>3, <2>4 DEF WaitInv
<1>. QED BY <1>4, <1>9, <1>10, <1>11, <1>12, <1>13 DEF WaitInv

\* ... or is let go, ...
LEMMA OneIsLetGo ==
  ASSUME ListInv, WaitInv, NEW h \in Hands, NEW u \in Users, hand[h].entry = u,
         hand' = [hand EXCEPT ![h] = NoHand], mem' = mem,
         th'[u].at # "asleep", \A v \in Users : v # u => th'[v] = th[v]
  PROVE  WaitInv'
<1>1. /\ \A g \in Hands : g # h => hand'[g] = hand[g]
      /\ hand'[h].entry = None
  BY DEF NoHand, ListInv, Around
<1>2. \A x \in Clients : \A y : Waits(x, y)' <=> Waits(x, y)
  BY DEF Waits
<1>3. \A x \in Clients : Once(mem[x].notify)'
  BY DEF Once, WaitInv
<1>4. \A x \in Clients : ~Waits(x, u)
  BY DEF WaitInv
<1>5. \A g \in Hands : g # h => hand[g].entry # u
  BY Constants DEF WaitInv
<1>6. \A v \in Users : v # u => Channel(v)' = Channel(v)
  BY ChannelKept, Constants
<1>7. ASSUME NEW v \in Users, th'[v].at = "asleep"
      PROVE  (Waits(Channel(v), v) \/ \E g \in Hands : hand[g].entry = v)'
  <2>1. v # u /\ th[v].at = "asleep" /\ Channel(v)' = Channel(v)
    BY <1>6, <1>7
  <2>2. Waits(Channel(v), v)' <=> Waits(Channel(v), v)
    BY <2>1 DEF Waits
  <2>3. ASSUME NEW g \in Hands, hand[g].entry = v  PROVE hand'[g].entry = v
    BY <1>1, <2>1, <2>3
  <2>. QED BY <2>1, <2>2, <2>3 DEF WaitInv
<1>8. \A x \in Clients : \A y : Waits(x, y)' =>
       /\ \/ y \in Users /\ th'[y].at = "asleep" /\ Channel(y)' = x
          \/ y = Async /\ x = Wds
       /\ \A g \in Hands : hand'[g].entry # y
  <2>. SUFFICES ASSUME NEW x \in Clients, NEW y, Waits(x, y)'
                PROVE  /\ \/ y \in Users /\ th'[y].at = "asleep" /\ Channel(y)' = x
                          \/ y = Async /\ x = Wds
                       /\ \A g \in Hands : hand'[g].entry # y
    OBVIOUS
  <2>1. Waits(x, y) /\ y # u /\ y # None
    BY <1>2, <1>4, Constants DEF WaitInv
  <2>. QED BY <1>1, <1>6, <2>1 DEF WaitInv
<1>9. \A g \in Hands, v \in Users :
        hand'[g].entry = v => th'[v].at = "asleep" /\ Channel(v)' = hand'[g].c
  BY <1>1, <1>5, <1>6, Constants DEF WaitInv
<1>10. \A g \in Hands : /\ hand'[g].entry \in Users \cup {Async, None}
                        /\ hand'[g].entry = Async => hand'[g].c = Wds
  BY <1>1, Constants DEF WaitInv
<1>11. \A f, g \in Hands : hand'[f].entry # None /\ hand'[f].entry = hand'[g].entry => f = g
  BY <1>1 DEF WaitInv
<1>. QED BY <1>3, <1>7, <1>8, <1>9, <1>10, <1>11 DEF WaitInv

\* ... or one is appended, ...
LEMMA OneIsAppended ==
  ASSUME ListInv, WaitInv, NEW c \in Clients, NEW e \in Threads \cup {Async},
         \A x \in Clients : mem'[x].notify = IF x = c THEN Append(mem[c].notify, e) ELSE mem[x].notify,
         \/ e \in Users /\ th[e].at # "asleep" /\ th'[e].at = "asleep" /\ Channel(e)' = c /\ hand' = hand
         \/ /\ e = Async /\ c = Wds /\ th' = th
            /\ \E h \in Hands : hand[h].entry = Async /\ hand' = [hand EXCEPT ![h] = NoHand],
         \A v \in Users : v # e => th'[v] = th[v]
  PROVE  WaitInv'
<1>1. \A h \in Hands : /\ hand'[h].entry # e
                       /\ \/ hand'[h].entry = hand[h].entry /\ hand'[h].c = hand[h].c
                          \/ hand[h].entry = Async /\ hand'[h].entry = None /\ e = Async
  <2>1. CASE e \in Users /\ th[e].at # "asleep" /\ hand' = hand
    BY <2>1 DEF WaitInv
  <2>2. ASSUME e = Async, NEW g \in Hands, hand[g].entry = Async, hand' = [hand EXCEPT ![g] = NoHand]
        PROVE  \A h \in Hands :
                 /\ hand'[h].entry # e
                 /\ \/ hand'[h].entry = hand[h].entry /\ hand'[h].c = hand[h].c
                    \/ hand[h].entry = Async /\ hand'[h].entry = None /\ e = Async
    <3>1. \A h \in Hands : hand'[h] = IF h = g THEN NoHand ELSE hand[h]
      BY <2>2 DEF ListInv, Around
    <3>2. \A h \in Hands : h # g => hand[h].entry # Async
      BY <2>2, Constants DEF WaitInv
    <3>3. NoHand.entry = None
      BY DEF NoHand
    <3>. QED BY <2>2, <3>1, <3>2, <3>3, Constants
  <2>. QED BY <2>1, <2>2
<1>2. ~Waits(c, e)
  <2>1. CASE e \in Users /\ th[e].at # "asleep"
    BY <2>1, Constants DEF WaitInv
  <2>2. CASE \E h \in Hands : hand[h].entry = Async /\ e = Async
    BY <2>2 DEF WaitInv
  <2>. QED BY <2>1, <2>2
<1>3. mem[c].notify \in Seq(Threads \cup {Async})
  BY MemoryTypes
<1>4. \A y : Contains(Append(mem[c].notify, e), y) <=> Waits(c, y) \/ y = e
  BY <1>3, AppendContains DEF Waits
<1>5. Once(Append(mem[c].notify, e))
  BY <1>2, <1>3, AppendContains DEF Waits, WaitInv
<1>6. \A x \in Clients : \A y : Waits(x, y)' <=> Waits(x, y) \/ (x = c /\ y = e)
  BY <1>4 DEF Waits
<1>7. \A x \in Clients : Once(mem[x].notify)'
  BY <1>5 DEF Once, WaitInv
<1>8. \A v \in Users : v # e => Channel(v)' = Channel(v)
  BY ChannelKept, Constants
<1>9. \A x \in Clients : ~Waits(x, e) /\ e # None
  <2>1. CASE e \in Users /\ th[e].at # "asleep"
    BY <2>1, Constants DEF WaitInv
  <2>2. CASE \E h \in Hands : hand[h].entry = Async /\ e = Async
    BY <2>2, Constants DEF WaitInv
  <2>. QED BY <2>1, <2>2
<1>10. \A x \in Clients : \A y : Waits(x, y)' =>
       /\ \/ y \in Users /\ th'[y].at = "asleep" /\ Channel(y)' = x
          \/ y = Async /\ x = Wds
       /\ \A h \in Hands : hand'[h].entry # y
  <2>. SUFFICES ASSUME NEW x \in Clients, NEW y, Waits(x, y)'
                PROVE  /\ \/ y \in Users /\ th'[y].at = "asleep" /\ Channel(y)' = x
                          \/ y = Async /\ x = Wds
                       /\ \A h \in Hands : hand'[h].entry # y
    OBVIOUS
  <2>1. CASE x = c /\ y = e
    BY <1>1, <2>1
  <2>2. CASE Waits(x, y)
    <3>1. y # e /\ y # None
      BY <1>9, <2>2, Constants DEF WaitInv
    <3>2. \/ y \in Users /\ th[y].at = "asleep" /\ Channel(y) = x
          \/ y = Async /\ x = Wds
      BY <2>2 DEF WaitInv
    <3>3. \A h \in Hands : hand[h].entry # y
      BY <2>2 DEF WaitInv
    <3>. QED BY <1>1, <1>8, <3>1, <3>2, <3>3
  <2>. QED BY <1>6, <2>1, <2>2
<1>11. \A h \in Hands, u \in Users :
         hand'[h].entry = u => th'[u].at = "asleep" /\ Channel(u)' = hand'[h].c
  BY <1>1, <1>8, Constants DEF WaitInv
<1>12. \A h \in Hands : /\ hand'[h].entry \in Users \cup {Async, None}
                        /\ hand'[h].entry = Async => hand'[h].c = Wds
  BY <1>1, Constants DEF WaitInv
<1>13. \A f, g \in Hands : hand'[f].entry # None /\ hand'[f].entry = hand'[g].entry => f = g
  BY <1>1 DEF WaitInv
<1>14. ASSUME NEW u \in Users, th'[u].at = "asleep"
       PROVE  (Waits(Channel(u), u) \/ \E h \in Hands : hand[h].entry = u)'
  <2>1. CASE u = e
    <3>1. Waits(c, e)' /\ Channel(u)' = c
      BY <1>6, <2>1, Constants
    <3>. QED BY <2>1, <3>1 DEF Waits
  <2>2. CASE u # e
    <3>1. th[u].at = "asleep" /\ Channel(u)' = Channel(u)
      BY <1>8, <1>14, <2>2
    <3>2. Channel(u) \in Clients
      <4>1. u \in Threads /\ th[u].op # "none"
        BY <3>1, Constants DEF ListInv, Busy
      <4>. QED BY <4>1, ChannelType
    <3>3. Waits(Channel(u), u) => Waits(Channel(u), u)'
      <4>1. Waits(Channel(u), u) => Contains(mem'[Channel(u)].notify, u)
        BY <1>4, <3>2 DEF Waits
      <4>. QED BY <3>1, <4>1 DEF Waits
    <3>4. \A h \in Hands : hand[h].entry = u => hand'[h].entry = u
      BY <1>1, Constants
    <3>. QED BY <3>1, <3>3, <3>4 DEF WaitInv
  <2>. QED BY <2>1, <2>2
<1>. QED BY <1>7, <1>10, <1>11, <1>12, <1>13, <1>14 DEF WaitInv

\* ... or the reader takes its own away.
LEMMA OneIsRemoved ==
  ASSUME ListInv, WaitInv, NEW c \in Clients, NEW e \in Users, Waits(c, e), th'[e].at # "asleep",
         \A x \in Clients : mem'[x].notify = IF x = c THEN RemoveFirst(mem[c].notify, e)
                                                       ELSE mem[x].notify,
         \A v \in Users : v # e => th'[v] = th[v], hand' = hand
  PROVE  WaitInv'
<1>1. mem[c].notify \in Seq(Threads \cup {Async}) /\ Once(mem[c].notify)
  BY MemoryTypes DEF WaitInv
<1>2. \A y : Contains(RemoveFirst(mem[c].notify, e), y) <=> Waits(c, y) /\ y # e
  BY <1>1, RemoveFirstFacts DEF Waits
<1>3. Once(RemoveFirst(mem[c].notify, e))
  BY <1>1, RemoveFirstFacts
<1>4. \A x \in Clients : Waits(x, e) => x = c
  BY Constants DEF WaitInv
<1>5. \A x \in Clients : \A y : Waits(x, y)' <=> Waits(x, y) /\ y # e
  BY <1>2, <1>4 DEF Waits
<1>6. \A x \in Clients : Once(mem[x].notify)'
  BY <1>3 DEF Once, WaitInv
<1>7. \A v \in Users : v # e => Channel(v)' = Channel(v)
  BY ChannelKept, Constants
<1>8. \A h \in Hands : hand[h].entry # e
  BY DEF WaitInv
<1>9. \A x \in Clients : \A y : Waits(x, y)' =>
       /\ \/ y \in Users /\ th'[y].at = "asleep" /\ Channel(y)' = x
          \/ y = Async /\ x = Wds
       /\ \A h \in Hands : hand'[h].entry # y
  BY <1>5, <1>7 DEF WaitInv
<1>10. \A h \in Hands, u \in Users :
         hand'[h].entry = u => th'[u].at = "asleep" /\ Channel(u)' = hand'[h].c
  BY <1>7, <1>8 DEF WaitInv
<1>11. ASSUME NEW u \in Users, th'[u].at = "asleep"
       PROVE  (Waits(Channel(u), u) \/ \E h \in Hands : hand[h].entry = u)'
  <2>1. u # e /\ th[u].at = "asleep" /\ Channel(u)' = Channel(u)
    BY <1>7, <1>11
  <2>2. Channel(u) \in Clients
    <3>1. u \in Threads /\ th[u].op # "none"
      BY <2>1, Constants DEF ListInv, Busy
    <3>. QED BY <3>1, ChannelType
  <2>3. Waits(Channel(u), u) => Waits(Channel(u), u)'
    <3>1. Waits(Channel(u), u) => Contains(mem'[Channel(u)].notify, u)
      BY <1>2, <2>1, <2>2 DEF Waits
    <3>. QED BY <2>1, <3>1 DEF Waits
  <2>. QED BY <2>1, <2>3 DEF WaitInv
<1>. QED BY <1>6, <1>9, <1>10, <1>11 DEF WaitInv

\* A reader reads a client, and never Wds.
LEMMA ReaderHasClient ==
  ASSUME ListInv, NEW t \in Threads, th[t].at \in {"read", "woken", "asleep"}
  PROVE  Channel(t) \in Clients /\ Channel(t) # Wds /\ th[t].op # "none"
<1>1. th[t].op # "none" /\ Busy(th[t]) /\ th[t] \in Doing
  BY DEF ListInv, Busy
<1>2. th[t].op \in {"get", "release", "read", "write"}
  BY <1>1 DEF Doing
<1>. QED BY <1>1, <1>2, ChannelType, Constants DEF Asks

\* Threads, ...
LEMMA ThreadsKeepWaits ==
  ASSUME CleanSignals = TRUE, DeviceInv, WaitInv, NEW t \in Threads, StepOf(t)
  PROVE  WaitInv'
<1>1. /\ ListInv /\ th \in [Threads -> Doing] /\ th[t] \in Doing
      /\ mem \in [Clients -> Memory] /\ Users \subseteq Threads
      /\ \A u \in Users : th[u].at = "asleep" => Channel(u) \in Clients
  BY Constants, ReaderHasClient DEF DeviceInv, ListInv, Around
<1>2. ASSUME UNCHANGED hand, \A c \in Clients : mem'[c].notify = mem[c].notify,
             th[t].at # "asleep", th'[t].at # "asleep",
             \A u \in Threads : u # t =>
               th'[u] = th[u] \/ (th[u].at = "urb" /\ th'[u] = [th[u] EXCEPT !.at = "sent"])
      PROVE  WaitInv'
  <2>1. SleepOn
    BY <1>1, <1>2 DEF SleepOn, Doing
  <2>. QED BY <1>1, <1>2, <2>1, NoEntryMoves
<1>3. CASE \E d : Calm(t, d)
  <2>1. PICK d : Calm(t, d)
    BY <1>3
  <2>. QED BY <1>1, <1>2, <2>1 DEF Calm
<1>4. CASE \E i : Takes(t, i)
  <2>1. PICK i : Takes(t, i)
    BY <1>4
  <2>. DEFINE m == mem[Channel(t)].reads[i]
  <2>2. m \in Messages
    <3>1. Channel(t) \in Clients
      BY <1>1, <2>1, ReaderHasClient DEF Takes
    <3>. QED BY <1>1, <2>1, <3>1, MemoryTypes, ElementOfSeq DEF Takes
  <2>3. Got(t, m).at # "asleep"
    BY <1>1, <2>1, <2>2, GotType DEF Takes
  <2>4. th'[t] = Got(t, m) /\ \A u \in Threads : u # t => th'[u] = th[u]
    BY <1>1, <2>1 DEF Takes
  <2>5. th[t].at # "asleep" /\ hand' = hand /\ \A c \in Clients : mem'[c].notify = mem[c].notify
    BY <2>1 DEF Takes
  <2>. QED BY <1>2, <2>3, <2>4, <2>5
<1>5. CASE Sleeps(t)
  <2>1. th[t].at \in {"read", "woken"} /\ t \in Users
    BY <1>5 DEF Sleeps, DeviceInv, DeregInv, Threads
  <2>2. th'[t] = [th[t] EXCEPT !.at = "asleep"] /\ \A u \in Threads : u # t => th'[u] = th[u]
    BY <1>1, <1>5 DEF Sleeps
  <2>3. th'[t].at = "asleep" /\ Channel(t)' = Channel(t)
    BY <1>1, <2>2 DEF Doing, Channel, Asks
  <2>4. Channel(t) \in Clients
    BY <1>1, <2>1, ReaderHasClient
  <2>5. hand' = hand /\ \A x \in Clients :
          mem'[x].notify = IF x = Channel(t) THEN Append(mem[Channel(t)].notify, t) ELSE mem[x].notify
    BY <1>5 DEF Sleeps
  <2>6. t \in Threads \cup {Async} /\ \A v \in Users : v # t => th'[v] = th[v]
    BY <1>1, <2>2
  <2>7. \/ t \in Users /\ th[t].at # "asleep" /\ th'[t].at = "asleep" /\ Channel(t)' = Channel(t)
             /\ hand' = hand
        \/ /\ t = Async /\ Channel(t) = Wds /\ th' = th
           /\ \E h \in Hands : hand[h].entry = Async /\ hand' = [hand EXCEPT ![h] = NoHand]
    BY <2>1, <2>3, <2>5
  <2>. QED BY <1>1, <2>4, <2>5, <2>6, <2>7, OneIsAppended
<1>6. CASE Interrupted(t)
  <2>1. th[t].at = "asleep" /\ t \in Users /\ Waits(Channel(t), t)
    BY <1>6 DEF Interrupted, DeviceInv, DeregInv, Threads
  <2>2. th'[t] = Failed(t) /\ \A u \in Threads : u # t => th'[u] = th[u]
    BY <1>1, <1>6 DEF Interrupted
  <2>3. th'[t].at # "asleep"
    BY <1>1, <2>2, FailedType, Fields DEF Doing
  <2>4. Channel(t) \in Clients
    BY <1>1, <2>1, ReaderHasClient
  <2>5. hand' = hand /\ \A x \in Clients :
          mem'[x].notify = IF x = Channel(t) THEN RemoveFirst(mem[Channel(t)].notify, t) ELSE mem[x].notify
    BY <1>6 DEF Interrupted
  <2>. QED BY <1>1, <2>1, <2>2, <2>3, <2>4, <2>5, OneIsRemoved
<1>7. CASE Adds(t)
  <2>1. th[t].at = "register" /\ th'[t] = Rest /\ \A u \in Threads : u # t => th'[u] = th[u]
    BY <1>1, <1>7 DEF Adds
  <2>2. \A c \in Clients : mem'[c].notify = mem[c].notify
    BY <1>1, <1>7 DEF Adds, DeviceInv, MemInv
  <2>. QED BY <1>2, <1>7, <2>1, <2>2, Fields DEF Adds
<1>8. CASE Frees(t)
  <2>1. th[t].at \in {"cleanup", "notify"} /\ th'[t] = Released(t) /\ hand' = hand
    BY <1>8 DEF Frees
  <2>2. \A c \in Clients : mem'[c].notify = mem[c].notify
    <3>1. Fresh.notify = <<>>
      BY DEF Fresh
    <3>. QED BY <1>1, <1>8, <3>1 DEF Frees
  <2>3. Released(t).at # "asleep"
    BY Fields
  <2>. QED BY <1>2, <1>8, <2>1, <2>2, <2>3 DEF Frees
<1>9. CASE \E e : Notifies(t, e)
  <2>1. PICK e : Notifies(t, e)
    BY <1>9
  <2>2. hand[t] = NoHand /\ Pops(t, th[t].c, e) /\ t \in Hands
    BY <2>1, Constants DEF Notifies, DeviceInv, HandInv
  <2>3. th'[t].at = "notify" /\ th[t].at # "asleep" /\ \A u \in Threads : u # t => th'[u] = th[u]
    BY <1>1, <2>1 DEF Notifies, Doing
  <2>4. SleepOn
    BY <1>1, <2>3 DEF SleepOn
  <2>. QED BY <1>1, <2>2, <2>4, OneIsPopped
<1>. QED BY <1>3, <1>4, <1>5, <1>6, <1>7, <1>8, <1>9 DEF StepOf

\* ... notifications and messages keep the entries where they must be.
LEMMA NotifiersKeepWaits ==
  ASSUME DeviceInv, WaitInv, NEW h \in Hands, NotifyStep(h)
  PROVE  WaitInv'
<1>1. /\ ListInv /\ th \in [Threads -> Doing] /\ hand \in [Hands -> Entry] /\ hand[h] \in Entry
      /\ mem \in [Clients -> Memory]
      /\ \A u \in Users : th[u].at = "asleep" => Channel(u) \in Clients
  BY Constants, ReaderHasClient DEF DeviceInv, ListInv, Around
<1>2. CASE UpSem(h)
  <2>. DEFINE e == hand[h].entry
  <2>1. e \in Users
    BY <1>2, Constants DEF UpSem, WaitInv
  <2>2. th[e].at = "asleep" /\ e \in Threads
    BY <2>1, Constants DEF WaitInv
  <2>3. th'[e] = [th[e] EXCEPT !.at = "woken"] /\ \A u \in Threads : u # e => th'[u] = th[u]
    BY <1>1, <1>2, <2>2 DEF UpSem
  <2>4. th'[e].at = "woken"
    BY <1>1, <2>2, <2>3 DEF Doing
  <2>5. hand' = [hand EXCEPT ![h] = NoHand] /\ mem' = mem
    BY <1>2 DEF UpSem
  <2>6. hand[h].entry = e /\ th'[e].at # "asleep" /\ \A v \in Users : v # e => th'[v] = th[v]
    BY <2>3, <2>4, Constants
  <2>. HIDE DEF e
  <2>. QED BY <1>1, <2>1, <2>5, <2>6, OneIsLetGo
<1>3. CASE WdsCallback(h)
  <2>1. th' = th /\ hand[h].entry = Async
    BY <1>3 DEF WdsCallback
  <2>2. \A g \in Hands : \/ hand'[g].entry = hand[g].entry /\ hand'[g].c = hand[g].c
                         \/ hand[g].entry = Async /\ hand'[g].entry = None
    <3>1. hand' \in {[hand EXCEPT ![h] = NoHand], [hand EXCEPT ![h] = [hand[h] EXCEPT !.at = "rearm"]]}
      BY <1>3 DEF WdsCallback
    <3>. QED BY <1>1, <2>1, <3>1 DEF NoHand, Entry
  <2>3. \A c \in Clients : mem'[c].notify = mem[c].notify
    BY <1>1, <1>3 DEF WdsCallback, Memory
  <2>4. SleepOn
    BY <2>1 DEF SleepOn
  <2>. QED BY <1>1, <2>2, <2>3, <2>4, NoEntryMoves
<1>4. CASE ReadAsync(h)
  <2>1. th' = th /\ hand[h].entry = Async /\ hand[h].c = Wds /\ SleepOn
    BY <1>4 DEF ReadAsync, SleepOn, DeviceInv, HandInv, WaitInv
  <2>2. \/ mem' = mem
        \/ mem' = [mem EXCEPT ![Wds].notify = Append(mem[Wds].notify, Async)]
             /\ hand' = [hand EXCEPT ![h] = NoHand]
    BY <1>4, <2>1 DEF ReadAsync
  <2>3. \A g \in Hands : \/ hand'[g].entry = hand[g].entry /\ hand'[g].c = hand[g].c
                         \/ hand[g].entry = Async /\ hand'[g].entry = None
    <3>1. hand' \in {[hand EXCEPT ![h] = NoHand], [hand EXCEPT ![h] = [hand[h] EXCEPT !.at = "up"]]}
      BY <1>4 DEF ReadAsync
    <3>. QED BY <1>1, <2>1, <3>1 DEF NoHand, Entry
  <2>4. CASE mem' = mem
    BY <1>1, <2>1, <2>3, <2>4, NoEntryMoves
  <2>5. CASE mem' = [mem EXCEPT ![Wds].notify = Append(mem[Wds].notify, Async)]
             /\ hand' = [hand EXCEPT ![h] = NoHand]
    <3>1. \A x \in Clients : mem'[x].notify = IF x = Wds THEN Append(mem[Wds].notify, Async)
                                                        ELSE mem[x].notify
      BY <1>1, <2>5 DEF Memory
    <3>2. Wds \in Clients /\ Async \in Threads \cup {Async}
          /\ \A v \in Users : v # Async => th'[v] = th[v]
      BY <2>1, Constants
    <3>3. /\ Async = Async /\ Wds = Wds /\ th' = th
          /\ \E g \in Hands : hand[g].entry = Async /\ hand' = [hand EXCEPT ![g] = NoHand]
      BY <2>1, <2>5
    <3>. QED BY <1>1, <3>1, <3>2, <3>3, OneIsAppended
  <2>. QED BY <2>2, <2>4, <2>5
<1>. QED BY <1>2, <1>3, <1>4 DEF NotifyStep

\* ReadCallback may take one entry in hand, and moves no other.
LEMMA PostKeepsWaits ==
  ASSUME DeviceInv, WaitInv, PostStep
  PROVE  WaitInv'
<1>1. /\ ListInv /\ th' = th /\ SleepOn
      /\ \A u \in Users : th[u].at = "asleep" => Channel(u) \in Clients
  BY Constants, ReaderHasClient DEF DeviceInv, PostStep, SleepOn
<1>2. PICK i \in Nat \ {0}, to \in SUBSET Clients, m \in Messages :
        Source(i, to, m) /\ \E R : Gives(R, i, to, m)
  BY DEF PostStep
<1>3. PICK R : Gives(R, i, to, m)
  BY <1>2
<1>4. hand[ReadCb] = NoHand /\ ReadCb \in Hands
  BY <1>2, <1>3, PostKeepsHands, Constants DEF PostStep, DeviceInv
<1>5. CASE hand' = hand /\ \A x \in Clients : mem'[x].notify = mem[x].notify
  BY <1>1, <1>5, NoEntryMoves
<1>6. CASE \E c, e : Pops(ReadCb, c, e)
  BY <1>1, <1>4, <1>6, OneIsPopped
<1>. QED BY <1>3, <1>5, <1>6 DEF Gives

\* At the start only the callback of Wds waits.
LEMMA WaitInit == Init => WaitInv
<1>. SUFFICES ASSUME Init PROVE WaitInv
  OBVIOUS
<1>1. /\ \A c \in Clients : mem[c].notify = IF c = Wds THEN <<Async>> ELSE <<>>
      /\ \A h \in Hands : hand[h].entry = None /\ hand[h].c = None
      /\ \A u \in Users : th[u].at = "idle"
  BY Constants, Fields DEF Init, Fresh, Hands, NoHand
<1>2. \A c \in Clients : \A e : Waits(c, e) => e = Async /\ c = Wds
  BY <1>1 DEF Waits, Contains
<1>3. \A c \in Clients : Once(mem[c].notify)
  BY <1>1 DEF Once
<1>. QED BY <1>1, <1>2, <1>3, Constants DEF WaitInv

\* Every step keeps the entries in one place.
LEMMA WaitKept ==
  Overlap = FALSE /\ CleanSignals = TRUE /\ DeviceInv /\ WaitInv /\ [Next]_vars => WaitInv'
<1>. SUFFICES ASSUME Overlap = FALSE, CleanSignals = TRUE, DeviceInv, WaitInv, [Next]_vars
              PROVE  WaitInv'
  OBVIOUS
<1>1. CASE UNCHANGED vars
  <2>1. SleepOn /\ hand' = hand /\ mem' = mem
    BY <1>1 DEF vars, SleepOn
  <2>2. \A u \in Users : th[u].at = "asleep" => Channel(u) \in Clients
    BY Constants, ReaderHasClient DEF DeviceInv
  <2>. QED BY <2>1, <2>2, NoEntryMoves
<1>2. CASE Next
  BY <1>2, NextKinds, ThreadsKeepWaits, NotifiersKeepWaits, PostKeepsWaits DEF DeviceInv
<1>. QED BY <1>1, <1>2

-----------------------------------------------------------------------------
(* The callback of Wds                                                      *)

\* Nobody notifies the readers of Wds to release it.
WdsKept == \A t \in Threads : th[t].at = "notify" => th[t].c # Wds

\* While client Wds is there the callback waits with no message unread, or it is
\* notified, and has one when it starts.
WdsInv ==
  Contains(list, Wds) /\ WdsKept =>
    /\ (Waits(Wds, Async) /\ mem[Wds].reads = <<>>) \/ \E h \in Hands : hand[h].entry = Async
    /\ \A h \in Hands : hand[h].entry = Async /\ hand[h].at = "up" => mem[Wds].reads # <<>>

\* A step that leaves Wds and its callback alone.
LEMMA WdsAlone ==
  ASSUME WdsInv, Contains(list', Wds) => Contains(list, Wds), WdsKept' => WdsKept,
         mem'[Wds].reads = mem[Wds].reads,
         Waits(Wds, Async) => Contains(mem'[Wds].notify, Async),
         \A h \in Hands : /\ hand[h].entry = Async => hand'[h] = hand[h]
                          /\ hand'[h].entry = Async => hand'[h] = hand[h]
  PROVE  WdsInv'
  BY DEF WdsInv, Waits

\* Who is between the two halves of a notification is so after a step of another.
LEMMA OthersNotify ==
  ASSUME NEW t \in Threads, th \in [Threads -> Doing], WdsKept',
         th[t].at = "notify" => th[t].c # Wds,
         \A u \in Threads : u # t =>
           th'[u] = th[u] \/ (th[u].at = "urb" /\ th'[u] = [th[u] EXCEPT !.at = "sent"])
  PROVE  WdsKept
  BY DEF WdsKept

\* Threads keep Wds armed: only one that releases it takes its entry, and that one
\* is between the two halves of a notification then.
LEMMA ThreadsKeepWds ==
  ASSUME CleanSignals = TRUE, DeviceInv, WaitInv, WdsInv, NEW t \in Threads, StepOf(t)
  PROVE  WdsInv'
<1>1. /\ ListInv /\ th \in [Threads -> Doing] /\ th[t] \in Doing /\ list \in Seq(Clients)
      /\ mem \in [Clients -> Memory] /\ hand \in [Hands -> Entry] /\ Wds \in Clients
      /\ t \in Hands
  BY Constants DEF DeviceInv, ListInv, Around
<1>2. ASSUME th[t].at # "notify", list' = list, hand' = hand,
             \E d : th' = [th EXCEPT ![t] = d],
             mem'[Wds].reads = mem[Wds].reads, mem'[Wds].notify = mem[Wds].notify
      PROVE  WdsInv'
  <2>1. WdsKept' => WdsKept
    BY <1>1, <1>2, OthersNotify
  <2>. QED BY <1>2, <2>1, WdsAlone DEF Waits
<1>3. CASE \E d : Calm(t, d)
  BY <1>1, <1>2, <1>3 DEF Calm
<1>4. CASE (\E i : Takes(t, i)) \/ Sleeps(t) \/ Interrupted(t)
  <2>1. th[t].at \in {"read", "woken", "asleep"}
    BY <1>4 DEF Takes, Sleeps, Interrupted
  <2>2. Channel(t) # Wds
    BY <1>1, <2>1, ReaderHasClient
  <2>. QED BY <1>1, <1>2, <1>4, <2>1, <2>2 DEF Takes, Sleeps, Interrupted
<1>5. CASE Adds(t)
  <2>1. th[t].c # Wds /\ th[t].c \in Clients /\ th[t].at # "notify" /\ hand' = hand
        /\ mem'[Wds] = mem[Wds] /\ \A u \in Threads : u # t => th'[u] = th[u]
    BY <1>1, <1>5, Constants DEF Adds
  <2>2. Contains(list', Wds) => Contains(list, Wds)
    BY <1>1, <1>5, <2>1, AppendContains DEF Adds
  <2>3. WdsKept' => WdsKept
    BY <1>1, <2>1, OthersNotify
  <2>. QED BY <2>1, <2>2, <2>3, WdsAlone DEF Waits
<1>6. CASE Frees(t)
  <2>. DEFINE c == th[t].c
  <2>1. PICK i \in 1 .. Len(list) : list[i] = c /\ list' = RemoveAt(list, i)
    BY <1>6 DEF Frees
  <2>2. CASE c = Wds
    <3>1. ~Contains(list', Wds)
      <4>1. Once(list)
        BY <1>1 DEF ListInv
      <4>. QED BY <1>1, <2>1, <2>2, <4>1, RemoveAtContains
    <3>. QED BY <3>1 DEF WdsInv
  <2>3. CASE c # Wds
    <3>1. mem'[Wds] = mem[Wds] /\ hand' = hand
      BY <1>1, <1>6, <2>3 DEF Frees
    <3>2. Contains(list', Wds) => Contains(list, Wds)
      BY <1>1, <2>1, RemoveAtContains
    <3>3. WdsKept' => WdsKept
      BY <1>1, <1>6, <2>3, OthersNotify DEF Frees
    <3>. QED BY <3>1, <3>2, <3>3, WdsAlone DEF Waits
  <2>. QED BY <2>2, <2>3
<1>7. ASSUME NEW e, Notifies(t, e)  PROVE WdsInv'
  <2>. DEFINE c == th[t].c
  <2>1. PICK n \in Clients \cup {None} :
          th' = [th EXCEPT ![t] = [th[t] EXCEPT !.at = "notify", !.nxt = n]]
    BY <1>7 DEF Notifies
  <2>2. th'[t].at = "notify" /\ th'[t].c = c /\ \A u \in Threads : u # t => th'[u] = th[u]
    BY <1>1, <2>1 DEF Doing
  <2>3. CASE c = Wds
    BY <2>2, <2>3 DEF WdsInv, WdsKept
  <2>4. CASE c # Wds
    <3>1. mem'[Wds] = mem[Wds] /\ list' = list /\ Pops(t, c, e) /\ hand[t] = NoHand
      BY <1>1, <1>7, <2>4 DEF Notifies, DeviceInv, HandInv
    <3>2. e # Async /\ Async # None
      BY <2>4, <3>1, Constants DEF WaitInv, Pops
    <3>3. hand' = [hand EXCEPT ![t] = [at |-> "up", entry |-> e, c |-> c]] /\ hand[t].entry = None
      BY <3>1 DEF Pops, NoHand
    <3>4. \A h \in Hands : /\ hand[h].entry = Async => hand'[h] = hand[h]
                           /\ hand'[h].entry = Async => hand'[h] = hand[h]
      BY <1>1, <3>2, <3>3
    <3>5. WdsKept' => WdsKept
      BY <1>1, <2>2, <2>4, OthersNotify
    <3>. QED BY <3>1, <3>4, <3>5, WdsAlone DEF Waits
  <2>. QED BY <2>3, <2>4
<1>. QED BY <1>3, <1>4, <1>5, <1>6, <1>7 DEF StepOf

\* Notifications do: the callback reads its message and waits again, or is run
\* once more.
LEMMA NotifiersKeepWds ==
  ASSUME DeviceInv, WaitInv, WdsInv, NEW h \in Hands, NotifyStep(h)
  PROVE  WdsInv'
<1>1. /\ ListInv /\ th \in [Threads -> Doing] /\ hand \in [Hands -> Entry] /\ hand[h] \in Entry
      /\ mem \in [Clients -> Memory] /\ Wds \in Clients /\ list' = list
      /\ mem[Wds].notify \in Seq(Threads \cup {Async}) /\ mem[Wds].reads \in Seq(Messages)
  BY Constants, MemoryTypes DEF DeviceInv, ListInv, Around, NotifyStep, UpSem, WdsCallback, ReadAsync
<1>2. Contains(list, Wds) => Listed(Wds)
  <2>1. Contains(list, Wds) => list # <<>>
    BY DEF Contains
  <2>. QED BY <1>1, <2>1 DEF Listed, DeviceInv, DeregInv, ListInv
<1>3. CASE UpSem(h)
  <2>. DEFINE e == hand[h].entry
  <2>1. e \in Users /\ e \in Threads /\ e # Async
    BY <1>3, Constants DEF UpSem, WaitInv
  <2>2. th[e].at = "asleep"
    BY <2>1 DEF WaitInv
  <2>3. \A u \in Threads : u # e => th'[u] = th[u]
    BY <1>1, <1>3 DEF UpSem
  <2>4. WdsKept' => WdsKept
    BY <1>1, <2>1, <2>2, <2>3, OthersNotify
  <2>5. \A g \in Hands : hand'[g] = IF g = h THEN NoHand ELSE hand[g]
    BY <1>1, <1>3 DEF UpSem
  <2>6. NoHand.entry # Async
    BY Constants DEF NoHand
  <2>7. mem' = mem
    BY <1>3 DEF UpSem
  <2>. QED BY <1>1, <2>1, <2>4, <2>5, <2>6, <2>7, WdsAlone DEF Waits
<1>4. ASSUME hand[h].entry = Async  PROVE hand[h].c = Wds /\ \A g \in Hands : g # h => hand[g].entry # Async
  BY <1>4, Constants DEF WaitInv
<1>5. CASE WdsCallback(h)
  <2>1. th' = th /\ hand[h].entry = Async /\ hand[h].at = "up"
    BY <1>5 DEF WdsCallback
  <2>2. SUFFICES ASSUME Contains(list, Wds), WdsKept
                 PROVE  /\ \E g \in Hands : hand'[g].entry = Async
                        /\ \A g \in Hands : hand'[g].entry = Async => hand'[g].at # "up"
    BY <1>1, <2>1 DEF WdsInv, WdsKept
  <2>3. Listed(Wds) /\ mem[Wds].reads # <<>>
    BY <1>2, <2>1, <2>2 DEF WdsInv
  <2>4. hand' = [hand EXCEPT ![h] = [hand[h] EXCEPT !.at = "rearm"]]
    BY <1>4, <1>5, <2>1, <2>3 DEF WdsCallback
  <2>5. hand'[h].at = "rearm" /\ hand'[h].entry = Async /\ \A g \in Hands : g # h => hand'[g] = hand[g]
    BY <1>1, <2>1, <2>4 DEF Entry
  <2>. QED BY <1>4, <2>1, <2>5
<1>6. CASE ReadAsync(h)
  <2>1. th' = th /\ hand[h].entry = Async /\ hand[h].at = "rearm"
    BY <1>6 DEF ReadAsync, DeviceInv, HandInv
  <2>2. CASE ~(Contains(list, Wds) /\ WdsKept)
    BY <1>1, <2>1, <2>2 DEF WdsInv, WdsKept
  <2>3. CASE Contains(list, Wds) /\ mem[Wds].reads # <<>>
    <3>1. hand' = [hand EXCEPT ![h] = [hand[h] EXCEPT !.at = "up"]] /\ mem' = mem
      BY <1>2, <1>4, <1>6, <2>1, <2>3 DEF ReadAsync
    <3>2. hand'[h].entry = Async
      BY <1>1, <2>1, <3>1 DEF Entry
    <3>. QED BY <2>3, <3>1, <3>2 DEF WdsInv
  <2>4. CASE Contains(list, Wds) /\ mem[Wds].reads = <<>>
    <3>1. /\ hand' = [hand EXCEPT ![h] = NoHand]
          /\ mem' = [mem EXCEPT ![Wds].notify = Append(mem[Wds].notify, Async)]
      BY <1>2, <1>4, <1>6, <2>1, <2>4 DEF ReadAsync
    <3>2. /\ mem'[Wds].notify = Append(mem[Wds].notify, Async) /\ mem'[Wds].reads = <<>>
      BY <1>1, <2>4, <3>1 DEF Memory
    <3>3. Contains(Append(mem[Wds].notify, Async), Async)
      BY <1>1, AppendContains
    <3>4. \A g \in Hands : hand'[g].entry # Async
      <4>1. \A g \in Hands : hand'[g] = IF g = h THEN NoHand ELSE hand[g]
        BY <1>1, <3>1
      <4>. QED BY <1>4, <2>1, <4>1, Constants DEF NoHand
    <3>. QED BY <3>2, <3>3, <3>4 DEF WdsInv, Waits
  <2>. QED BY <2>2, <2>3, <2>4
<1>. QED BY <1>3, <1>5, <1>6 DEF NotifyStep

\* So does ReadCallback, which pops the entry when it gives Wds a message.
LEMMA PostKeepsWds ==
  ASSUME DeviceInv, WaitInv, WdsInv, PostStep
  PROVE  WdsInv'
<1>1. /\ ListInv /\ th' = th /\ list' = list /\ Wds \in Clients /\ hand \in [Hands -> Entry]
      /\ mem[Wds].reads \in Seq(Messages)
  BY Constants, MemoryTypes DEF DeviceInv, PostStep, ListInv, Around
<1>2. PICK i \in Nat \ {0}, to \in SUBSET Clients, m \in Messages :
        Source(i, to, m) /\ \E R : Gives(R, i, to, m)
  BY DEF PostStep
<1>3. PICK R : Gives(R, i, to, m)
  BY <1>2
<1>4. hand[ReadCb] = NoHand /\ ReadCb \in Hands
  BY <1>2, <1>3, PostKeepsHands, Constants DEF PostStep, DeviceInv
<1>5. WdsKept' <=> WdsKept
  BY <1>1 DEF WdsKept
<1>6. Nobody(Wds, m.tid) => ~Waits(Wds, Async)
  BY DEF Nobody, EntryTid
<1>7. /\ Wds \in R => mem'[Wds].reads # <<>>
      /\ Wds \notin R => mem'[Wds].reads = mem[Wds].reads
  <2>1. Append(mem[Wds].reads, m) # <<>>
    BY <1>1, <1>2, AppendFacts
  <2>2. \A x \in Clients : mem'[x].reads = IF x \in R THEN Append(mem[x].reads, m) ELSE mem[x].reads
    BY <1>3 DEF Gives
  <2>. QED BY <1>1, <2>1, <2>2
<1>8. CASE /\ \A x \in R : Nobody(x, m.tid)
           /\ hand' = hand /\ mem'[Wds].notify = mem[Wds].notify
  <2>1. CASE Wds \notin R
    <3>1. mem'[Wds].reads = mem[Wds].reads
      BY <1>7, <2>1
    <3>. QED BY <1>1, <1>5, <1>8, <3>1, WdsAlone DEF Waits
  <2>2. CASE Wds \in R
    <3>1. ~Waits(Wds, Async) /\ mem'[Wds].reads # <<>>
      BY <1>6, <1>7, <1>8, <2>2
    <3>. QED BY <1>1, <1>5, <1>8, <3>1 DEF WdsInv
  <2>. QED BY <2>1, <2>2
<1>9. ASSUME NEW c \in R, NEW e, \A x \in R : x # c => Nobody(x, m.tid), Pops(ReadCb, c, e)
      PROVE  WdsInv'
  <2>. DEFINE new == [at |-> "up", entry |-> e, c |-> c]
  <2>1. /\ c \in Clients /\ Waits(c, e) /\ hand' = [hand EXCEPT ![ReadCb] = new]
        /\ \A x \in Clients : x # c => mem'[x].notify = mem[x].notify
    BY <1>9 DEF Pops
  <2>2. hand'[ReadCb] = new /\ \A h \in Hands : h # ReadCb => hand'[h] = hand[h]
    BY <1>1, <1>4, <2>1
  <2>3. CASE c = Wds
    <3>1. e = Async
      <4>1. e \in Users /\ th[e].at = "asleep" => Channel(e) # Wds
        BY <1>1, ReaderHasClient, Constants
      <4>. QED BY <2>1, <2>3, <4>1 DEF WaitInv
    <3>2. mem'[Wds].reads # <<>>
      BY <1>7, <2>3
    <3>. QED BY <1>4, <2>2, <3>1, <3>2 DEF WdsInv
  <2>4. CASE c # Wds
    <3>1. e # Async /\ Async # None
      BY <2>1, <2>4, Constants DEF WaitInv
    <3>2. \A h \in Hands : /\ hand[h].entry = Async => hand'[h] = hand[h]
                           /\ hand'[h].entry = Async => hand'[h] = hand[h]
      <4>1. NoHand.entry = None
        BY DEF NoHand
      <4>. QED BY <1>4, <2>2, <3>1, <4>1
    <3>3. mem'[Wds].notify = mem[Wds].notify
      BY <1>1, <2>1, <2>4
    <3>4. CASE Wds \notin R
      <4>1. mem'[Wds].reads = mem[Wds].reads
        BY <1>7, <3>4
      <4>. QED BY <1>1, <1>5, <3>2, <3>3, <4>1, WdsAlone DEF Waits
    <3>5. CASE Wds \in R
      <4>1. ~Waits(Wds, Async) /\ mem'[Wds].reads # <<>>
        BY <1>6, <1>7, <1>9, <2>4, <3>5
      <4>. QED BY <1>1, <1>5, <3>2, <4>1 DEF WdsInv
    <3>. QED BY <3>4, <3>5
  <2>. QED BY <2>3, <2>4
<1>. QED BY <1>1, <1>3, <1>8, <1>9 DEF Gives

\* Wds is armed at first, ...
LEMMA WdsInit == Init => WdsInv
<1>. SUFFICES ASSUME Init PROVE WdsInv
  OBVIOUS
<1>1. mem[Wds].notify = <<Async>> /\ mem[Wds].reads = <<>>
  BY Constants DEF Init, Fresh
<1>2. Waits(Wds, Async)
  BY <1>1 DEF Waits, Contains
<1>3. \A h \in Hands : hand[h].entry # Async
  BY Constants DEF Init, Hands, NoHand
<1>. QED BY <1>1, <1>2, <1>3 DEF WdsInv

\* ... and after every step.
LEMMA WdsInvKept ==
  Overlap = FALSE /\ CleanSignals = TRUE /\ DeviceInv /\ WaitInv /\ WdsInv /\ [Next]_vars => WdsInv'
<1>. SUFFICES ASSUME Overlap = FALSE, CleanSignals = TRUE, DeviceInv, WaitInv, WdsInv, [Next]_vars
              PROVE  WdsInv'
  OBVIOUS
<1>1. CASE UNCHANGED vars
  BY <1>1 DEF vars, WdsInv, WdsKept, Waits
<1>2. CASE Next
  BY <1>2, NextKinds, ThreadsKeepWds, NotifiersKeepWds, PostKeepsWds DEF DeviceInv
<1>. QED BY <1>1, <1>2

-----------------------------------------------------------------------------
(* What the threads are about                                               *)

FileStep(t) == \E f \in Files : Ioctl(t, f) \/ Close(t, f) \/ ReadWrite(t, f)

\* A thread asks for a client, ...
Begins(t) ==
  /\ th[t].at = "idle" /\ tids' \in {tids + 1, tids + 2}
  /\ \E f \in Files : th'[t] = Getting(f, tids + 1)
  /\ UNCHANGED <<file, pending, list>>

\* ... or closes a file, whose client it then releases, ...
Closes(t, f) ==
  /\ th[t].at = "idle" /\ tids' \in {tids + 1, tids + 2} /\ f \in Files /\ file[f] \in Ids
  /\ th'[t] = Leaving("write", file[f], tids')
  /\ file' = [file EXCEPT ![f] = None]
  /\ UNCHANGED <<pending, list>>

\* ... or has nothing to ask for, at a start or at an end, ...
AsksNothing(t) ==
  /\ th'[t].op \notin {"get", "release"} /\ th'[t].got = 0 /\ th'[t].c \in Ids \cup {None}
  /\ th'[t].at \in {"idle", "read", "write"}
  /\ UNCHANGED <<tids, file, pending>>

\* ... or goes on with what it is about, ...
SameJob(t) ==
  /\ th'[t].op = th[t].op /\ th'[t].c = th[t].c /\ th'[t].n = th[t].n
  /\ th'[t].got = th[t].got /\ th'[t].file = th[t].file
GoesOn(t) ==
  /\ SameJob(t) /\ th'[t].at \notin {"register", "idle"}
  /\ th'[t].at \in {"write", "urb"} => th[t].at = "write"
  /\ UNCHANGED <<tids, file, pending>>

\* ... and its request is at the modem, ...
Sends(t) ==
  /\ SameJob(t) /\ th[t].at = "urb" /\ th'[t].at = "sent" /\ Asks(t)
  /\ pending' = pending \cup {[n |-> th[t].n, op |-> th[t].op, c |-> th[t].c]}
  /\ UNCHANGED <<tids, file>>

\* ... or it reads a message, ...
Reads(t) == (\E i : Takes(t, i)) /\ UNCHANGED <<tids, file, pending>>

\* ... or gives the client to its file.
Gets(t) ==
  /\ Adds(t) /\ th'[t] = Rest /\ file' = [file EXCEPT ![th[t].file] = th[t].c]
  /\ UNCHANGED <<tids, pending>>

JobStep(t) ==
  \/ Begins(t) \/ (\E f : Closes(t, f)) \/ AsksNothing(t) \/ GoesOn(t)
  \/ Sends(t) \/ Reads(t) \/ Gets(t)

\* The threads other than t are about the same.
OthersSame(t) ==
  \A u \in Threads : u # t =>
    th'[u] = th[u] \/ (th[u].at = "urb" /\ th'[u] = [th[u] EXCEPT !.at = "sent"])

\* A step of one thread leaves the others with their job.
LEMMA StepOthers ==
  ASSUME ListInv, NEW t \in Threads, StepOf(t)
  PROVE  OthersSame(t)
<1>1. th \in [Threads -> Doing]
  BY DEF ListInv
<1>. QED BY <1>1 DEF StepOf, OthersSame, Calm, Takes, Sleeps, Interrupted, Adds, Frees, Notifies

\* A failure ends a thread's work, or leads to the cleanup of a release.
LEMMA FailedJob ==
  ASSUME ListInv, NEW t \in Users, th'[t] = Failed(t), UNCHANGED <<tids, file, pending>>
  PROVE  AsksNothing(t) \/ GoesOn(t)
<1>1. th[t] \in Doing
  BY Constants DEF ListInv
<1>2. CASE Failed(t) = Rest
  BY <1>2, Fields DEF AsksNothing
<1>3. CASE Failed(t) = [th[t] EXCEPT !.at = "cleanup"]
  BY <1>1, <1>3 DEF GoesOn, SameJob, Doing
<1>. QED BY <1>2, <1>3, FailedType, Constants

\* The operations of a file start one job, or none; ...
LEMMA FileJobs ==
  ASSUME ListInv, NEW t \in Users, FileStep(t)
  PROVE  JobStep(t) /\ assigned' = assigned
<1>1. /\ th \in [Threads -> Doing] /\ t \in Threads /\ file \in [Files -> Ids \cup {None}]
      /\ tids \in Nat
  BY Constants DEF ListInv, Around
<1>2. PICK f \in Files : Ioctl(t, f) \/ Close(t, f) \/ ReadWrite(t, f)
  BY DEF FileStep
<1>3. CASE Ioctl(t, f)
  <2>1. th'[t] = Getting(f, tids + 1)
    BY <1>1, <1>3 DEF Ioctl, Getting
  <2>. QED BY <1>3, <2>1 DEF Ioctl, JobStep, Begins
<1>4. CASE Close(t, f)
  <2>1. file[f] \in Ids /\ file[f] # Ctl
    BY <1>1, <1>4, Constants DEF Close
  <2>2. tids' \in {tids + 1, tids + 2} /\ th'[t] = Leaving("write", file[f], tids')
    BY <1>1, <1>4, <2>1 DEF Close, Releasing, Leaving
  <2>3. Closes(t, f)
    BY <1>4, <2>1, <2>2 DEF Close, Closes
  <2>. QED BY <1>4, <2>3 DEF JobStep, Close
<1>5. CASE ReadWrite(t, f)
  <2>1. file[f] \in Ids
    BY <1>1, <1>5 DEF ReadWrite
  <2>2. PICK op \in {"read", "write"} : th'[t] = Using(op, file[f])
    BY <1>1, <1>5 DEF ReadWrite, Using
  <2>3. th'[t].at = op /\ th'[t].op = op /\ th'[t].c = file[f] /\ th'[t].got = 0
    BY <2>2, Fields
  <2>4. UNCHANGED <<tids, file, pending, assigned>>
    BY <1>5 DEF ReadWrite
  <2>. QED BY <2>1, <2>3, <2>4 DEF JobStep, AsksNothing
<1>. QED BY <1>2, <1>3, <1>4, <1>5

\* ... the other actions of a user thread go on with it or end it; ...
LEMMA ThreadJobs ==
  ASSUME Overlap = FALSE, DeviceInv, NEW t \in Users, ThreadStep(t)
  PROVE  JobStep(t) /\ assigned' = assigned
<1>1. /\ ListInv /\ th \in [Threads -> Doing] /\ t \in Threads /\ th[t] \in Doing
      /\ file \in [Files -> Ids \cup {None}] /\ t # Dereg /\ Busy(th[t])
  BY Constants DEF DeviceInv, ListInv, Around
<1>2. assigned' = assigned
  BY DEF ThreadStep, Submit, Transmitted, TakeBack, Look, Interrupt, Register, Cleanup, CleanupAgain
<1>3. ASSUME NEW a \in {"urb", "sent", "read", "asleep"}, th'[t] = [th[t] EXCEPT !.at = a],
             a = "urb" => th[t].at = "write", UNCHANGED <<tids, file, pending>>
      PROVE  GoesOn(t)
  BY <1>1, <1>3 DEF GoesOn, SameJob, Doing
<1>4. CASE Submit(t)
  <2>1. UNCHANGED <<tids, file, pending>> /\ th[t].at = "write"
        /\ (th'[t] = [th[t] EXCEPT !.at = "urb"] \/ th'[t] = Failed(t))
    BY <1>1, <1>4 DEF Submit
  <2>. QED BY <1>1, <1>2, <1>3, <2>1, FailedJob DEF JobStep
<1>5. CASE Transmitted(t)
  <2>1. UNCHANGED <<tids, file>> /\ th[t].at = "urb" /\ th'[t] = [th[t] EXCEPT !.at = "sent"]
    BY <1>1, <1>5 DEF Transmitted
  <2>2. CASE Asks(t)
    <3>1. pending' = pending \cup {[n |-> th[t].n, op |-> th[t].op, c |-> th[t].c]}
      BY <1>5, <2>2 DEF Transmitted
    <3>2. SameJob(t) /\ th'[t].at = "sent"
      BY <1>1, <2>1 DEF SameJob, Doing
    <3>. QED BY <1>2, <2>1, <2>2, <3>1, <3>2 DEF Sends, JobStep
  <2>3. CASE ~Asks(t)
    <3>1. pending' = pending
      BY <1>5, <2>3 DEF Transmitted
    <3>. QED BY <1>2, <1>3, <2>1, <3>1 DEF JobStep
  <2>. QED BY <2>2, <2>3
<1>6. CASE TakeBack(t)
  <2>1. UNCHANGED <<tids, file, pending>>
        /\ (th'[t] = [th[t] EXCEPT !.at = "read"] \/ th'[t] = Rest \/ th'[t] = Failed(t))
    BY <1>1, <1>6 DEF TakeBack
  <2>2. th'[t] = Rest => AsksNothing(t)
    BY <2>1, Fields DEF AsksNothing
  <2>. QED BY <1>1, <1>2, <1>3, <2>1, <2>2, FailedJob DEF JobStep
<1>7. CASE Look(t)
  <2>1. UNCHANGED <<tids, file, pending>> /\ th[t].at \in {"read", "woken"}
    BY <1>7 DEF Look
  <2>2. CASE ~Listed(Channel(t))
    <3>1. th'[t] = Failed(t)
      BY <1>1, <1>7, <2>2 DEF Look
    <3>. QED BY <1>1, <1>2, <2>1, <3>1, FailedJob DEF JobStep
  <2>3. CASE Listed(Channel(t)) /\ FirstUnread(Channel(t), ReadTid(t)) = 0
    <3>1. th'[t] = [th[t] EXCEPT !.at = "asleep"]
      BY <1>1, <1>7, <2>3 DEF Look
    <3>. QED BY <1>2, <1>3, <2>1, <3>1 DEF JobStep
  <2>4. CASE \E i : Takes(t, i)
    BY <1>2, <2>1, <2>4 DEF JobStep, Reads
  <2>5. CASE Listed(Channel(t)) /\ FirstUnread(Channel(t), ReadTid(t)) # 0
    <3>. DEFINE c == Channel(t)
                i == FirstUnread(c, ReadTid(t))
    <3>1. c \in Clients
      BY <1>1, <2>1, ReaderHasClient
    <3>2. i \in 1 .. Len(mem[c].reads) /\ ReadTid(t) \in {0, mem[c].reads[i].tid}
      BY <1>1, <2>5, <3>1, FirstUnreadFacts
    <3>3. /\ th' = [th EXCEPT ![t] = Got(t, mem[c].reads[i])] /\ UNCHANGED <<list, hand, cb>>
          /\ mem' = [mem EXCEPT ![c].reads = RemoveAt(@, i)]
      BY <1>7, <2>5 DEF Look
    <3>4. /\ mem'[c].reads = RemoveAt(mem[c].reads, i) /\ mem'[c].notify = mem[c].notify
          /\ \A x \in Clients : x # c => mem'[x] = mem[x]
      BY <1>1, <3>1, <3>3 DEF ListInv, Around, Memory
    <3>5. Takes(t, i)
      <4>. HIDE DEF i, c
      <4>1. \A x \in Clients :
              /\ mem'[x].reads = IF x = c THEN RemoveAt(mem[c].reads, i) ELSE mem[x].reads
              /\ mem'[x].notify = mem[x].notify /\ (x # c => mem'[x] = mem[x])
        BY <3>4
      <4>. QED BY <2>1, <2>5, <3>2, <3>3, <4>1 DEF Takes, c
    <3>. QED BY <2>4, <3>5
  <2>. QED BY <2>2, <2>3, <2>5
<1>8. CASE Interrupt(t)
  <2>1. UNCHANGED <<tids, file, pending>> /\ th'[t] = Failed(t)
    BY <1>1, <1>8 DEF Interrupt
  <2>. QED BY <1>1, <1>2, <2>1, FailedJob DEF JobStep
<1>9. CASE Register(t)
  <2>1. th'[t] = Rest /\ UNCHANGED <<tids, pending>>
    BY <1>1, <1>9 DEF Register
  <2>2. CASE Listed(th[t].c)
    <3>1. file' = file
      BY <1>9, <2>2 DEF Register
    <3>. QED BY <1>2, <2>1, <3>1, Fields DEF JobStep, AsksNothing
  <2>3. CASE ~Listed(th[t].c)
    <3>1. /\ th[t].at = "register" /\ Quiet /\ list' = Append(list, th[t].c)
          /\ mem' = [mem EXCEPT ![th[t].c] = Fresh]
          /\ file' = [file EXCEPT ![th[t].file] = th[t].c]
          /\ th' = [th EXCEPT ![t] = Rest] /\ UNCHANGED <<hand, cb>>
      BY <1>9, <2>3 DEF Register
    <3>2. th[t].c \in Ids /\ valid
      BY <1>1, <3>1 DEF Busy, Quiet, ListInv
    <3>3. Adds(t)
      BY <2>3, <3>1, <3>2 DEF Adds, Listed
    <3>. QED BY <1>2, <2>1, <3>1, <3>3 DEF JobStep, Gets
  <2>. QED BY <2>2, <2>3
<1>10. CASE Cleanup(t) \/ CleanupAgain(t)
  <2>1. UNCHANGED <<tids, file, pending>>
    BY <1>10 DEF Cleanup, CleanupAgain
  <2>2. \/ Frees(t) \/ (\E e : Notifies(t, e))
        \/ Calm(t, Released(t))
    BY <1>1, <1>10, CleanupKeepsList
  <2>3. CASE Frees(t) \/ Calm(t, Released(t))
    <3>1. th'[t] = Released(t)
      BY <1>1, <2>3 DEF Frees, Calm
    <3>2. Released(t) = Rest
      BY <1>1 DEF Released
    <3>. QED BY <1>2, <2>1, <3>1, <3>2, Fields DEF JobStep, AsksNothing
  <2>4. ASSUME NEW e, Notifies(t, e)  PROVE GoesOn(t)
    <3>1. PICK n \in Clients \cup {None} : th'[t] = [th[t] EXCEPT !.at = "notify", !.nxt = n]
      BY <1>1, <2>4 DEF Notifies
    <3>. QED BY <1>1, <2>1, <3>1 DEF GoesOn, SameJob, Doing
  <2>. QED BY <1>2, <2>2, <2>3, <2>4 DEF JobStep
<1>. QED BY <1>4, <1>5, <1>6, <1>7, <1>8, <1>9, <1>10 DEF ThreadStep

\* Deregistration asks, but its requests never come to the modem.
DeregJob ==
  /\ th'[Dereg].got = th[Dereg].got \/ th'[Dereg].got = 0
  /\ th'[Dereg].at # "idle" /\ tids' \in {tids, tids + 1, tids + 2}
  /\ UNCHANGED <<file, pending, assigned>>
\* ... deregistration has jobs of its own; ...
LEMMA DeregJobs ==
  ASSUME Overlap = FALSE, DeviceInv, DeregLoop \/ Kill \/ ThreadStep(Dereg)
  PROVE  DeregJob
<1>1. /\ ListInv /\ th \in [Threads -> Doing] /\ Dereg \in Threads /\ th[Dereg] \in Doing
      /\ tids \in Nat
  BY Constants DEF DeviceInv, ListInv, Around
<1>2. CASE DeregLoop
  <2>1. UNCHANGED <<file, pending, assigned>>
    BY <1>2 DEF DeregLoop
  <2>2. CASE list = <<>>
    <3>1. th'[Dereg] = [th[Dereg] EXCEPT !.at = "kill"] /\ tids' = tids
      BY <1>1, <1>2, <2>2 DEF DeregLoop
    <3>. QED BY <1>1, <2>1, <3>1 DEF DeregJob, Doing
  <2>3. CASE list # <<>>
    <3>1. tids' \in {tids, tids + 1, tids + 2} /\ \E n : \E a \in {"cleanup", "write"} :
            th'[Dereg] = Leaving(a, Head(list), n)
      BY <1>1, <1>2, <2>3 DEF DeregLoop, Releasing, Leaving
    <3>. QED BY <2>1, <3>1, Fields DEF DeregJob
  <2>. QED BY <2>2, <2>3
<1>3. CASE Kill
  <2>1. th'[Dereg] = [th[Dereg] EXCEPT !.at = "gone"] /\ UNCHANGED <<tids, file, pending, assigned>>
    BY <1>1, <1>3 DEF Kill
  <2>. QED BY <1>1, <2>1 DEF DeregJob, Doing
<1>4. CASE Submit(Dereg)
  <2>1. th[Dereg].at = "write" /\ th[Dereg].op = "release" /\ UNCHANGED <<tids, file, pending, assigned>>
    BY <1>1, <1>4 DEF Submit, DeviceInv, DeregInv, ListInv, Busy
  <2>2. ~Listed(Channel(Dereg))
    BY <2>1 DEF Channel, Asks, Listed, DeviceInv, DeregInv
  <2>3. th'[Dereg] = [th[Dereg] EXCEPT !.at = "cleanup"]
    BY <1>1, <1>4, <2>1, <2>2 DEF Submit, Failed
  <2>. QED BY <1>1, <2>1, <2>3 DEF DeregJob, Doing
<1>5. CASE Transmitted(Dereg) \/ TakeBack(Dereg) \/ Look(Dereg) \/ Interrupt(Dereg) \/ Register(Dereg)
  BY <1>5 DEF Transmitted, TakeBack, Look, Interrupt, Register, DeviceInv, DeregInv
<1>6. CASE Cleanup(Dereg) \/ CleanupAgain(Dereg)
  <2>1. UNCHANGED <<tids, file, pending, assigned>>
    BY <1>6 DEF Cleanup, CleanupAgain
  <2>2. \/ Frees(Dereg) \/ (\E e : Notifies(Dereg, e))
        \/ Calm(Dereg, Released(Dereg))
    BY <1>1, <1>6, CleanupKeepsList
  <2>3. CASE Frees(Dereg) \/ Calm(Dereg, Released(Dereg))
    <3>1. th'[Dereg] = Released(Dereg)
      BY <1>1, <2>3 DEF Frees, Calm
    <3>. QED BY <2>1, <3>1, Fields DEF DeregJob
  <2>4. ASSUME NEW e, Notifies(Dereg, e)  PROVE DeregJob
    <3>1. PICK n \in Clients \cup {None} : th'[Dereg] = [th[Dereg] EXCEPT !.at = "notify", !.nxt = n]
      BY <1>1, <2>4 DEF Notifies
    <3>. QED BY <1>1, <2>1, <3>1 DEF DeregJob, Doing
  <2>. QED BY <2>2, <2>3, <2>4
<1>. QED BY <1>2, <1>3, <1>4, <1>5, <1>6 DEF ThreadStep

\* Every step, with what the thread is about.
UserStep(t) == StepOf(t) /\ JobStep(t) /\ OthersSame(t) /\ assigned' = assigned
DeregStep == StepOf(Dereg) /\ DeregJob /\ OthersSame(Dereg)

\* ... and so every step is one of these.
LEMMA NextJobs ==
  ASSUME Overlap = FALSE, DeviceInv, Next
  PROVE  \/ \E t \in Users : UserStep(t)
         \/ DeregStep
         \/ \E h \in Hands : NotifyStep(h)
         \/ PostStep
<1>1. ListInv
  BY DEF DeviceInv
<1>2. ASSUME NEW t \in Users, FileStep(t)  PROVE UserStep(t)
  <2>1. t \in Threads /\ StepOf(t)
    BY <1>1, <1>2, StepKinds, Constants DEF FileStep
  <2>. QED BY <1>1, <1>2, <2>1, FileJobs, StepOthers DEF UserStep
<1>3. ASSUME NEW t \in Users, ThreadStep(t)  PROVE UserStep(t)
  <2>1. t \in Threads /\ StepOf(t)
    BY <1>1, <1>3, StepKinds, Constants
  <2>. QED BY <1>1, <1>3, <2>1, ThreadJobs, StepOthers DEF UserStep
<1>4. CASE DeregLoop \/ Kill \/ ThreadStep(Dereg)
  <2>1. StepOf(Dereg)
    BY <1>1, <1>4, StepKinds, Constants
  <2>. QED BY <1>1, <1>4, <2>1, DeregJobs, StepOthers, Constants DEF DeregStep
<1>5. CASE \E h \in Threads \cup {ReadCb} : UpSem(h) \/ WdsCallback(h) \/ ReadAsync(h)
  BY <1>5 DEF NotifyStep, Hands
<1>6. CASE (\E r \in pending : Answer(r)) \/ Indicate \/ PostOn
  BY <1>1, <1>6, StepKinds
<1>. QED BY <1>2, <1>3, <1>4, <1>5, <1>6 DEF Next, FileStep, ThreadStep, Threads

-----------------------------------------------------------------------------
(* Transaction ids                                                          *)

\* An answer that the modem has given to the request with that number.
Numbered(m) == m.n \in 1 .. tids /\ m.tid = TidOf(m.n)

\* Requests of user threads have numbers of their own, which the counter has
\* passed, and so have the answers; a user thread is never about Ctl or Wds.
NumInv ==
  /\ \A t \in Users : th[t].c \in Ids \cup {None} /\ (Asks(t) => th[t].n \in 1 .. tids)
  /\ \A r \in pending : r.n \in 1 .. tids /\ r.c \in Ids \cup {None}
  /\ \A i \in 1 .. Len(mem[Ctl].reads) : Numbered(mem[Ctl].reads[i])
  /\ cb.to = {Ctl} => Numbered(cb.msg)
  /\ th[Dereg].got = 0
  /\ \A t, u \in Users : Asks(t) /\ Asks(u) /\ th[t].n = th[u].n => t = u

\* Until the counter wraps, an answer that was read is that of the request, and no
\* reader of Ctl waits for a message that is there.
AnswerInv ==
  tids < TidRange =>
    /\ \A t \in Threads : th[t].got # 0 => th[t].got = th[t].n
    /\ \A t \in Users : Waits(Ctl, t) =>
         \A i \in 1 .. Len(mem[Ctl].reads) : mem[Ctl].reads[i].tid # ReadTid(t)

\* Before it wraps, a transaction id is the number.
LEMMA TidSmall ==
  ASSUME tids \in Nat, tids < TidRange, NEW n \in 1 .. tids
  PROVE  TidOf(n) = n /\ TidOf(n) # 0
<1>1. n \in 0 .. TidRange - 1 /\ TidRange \in Nat \ {0}
  BY Constants
<1>2. n % TidRange = n
  BY <1>1
<1>. QED BY <1>2 DEF TidOf

\* The threads other than t go on with the same.
LEMMA OthersJobs ==
  ASSUME ListInv, NEW t \in Threads, OthersSame(t), NEW u \in Threads, u # t
  PROVE  /\ th'[u].op = th[u].op /\ th'[u].c = th[u].c /\ th'[u].n = th[u].n
         /\ th'[u].got = th[u].got /\ th'[u].file = th[u].file
         /\ Asks(u)' = Asks(u) /\ ReadTid(u)' = ReadTid(u) /\ Channel(u)' = Channel(u)
         /\ th'[u].at = th[u].at \/ (th[u].at = "urb" /\ th'[u].at = "sent")
<1>1. th[u] \in Doing
  BY DEF ListInv
<1>2. /\ th'[u].op = th[u].op /\ th'[u].c = th[u].c /\ th'[u].n = th[u].n
      /\ th'[u].got = th[u].got /\ th'[u].file = th[u].file
      /\ th'[u].at = th[u].at \/ (th[u].at = "urb" /\ th'[u].at = "sent")
  BY <1>1 DEF OthersSame, Doing
<1>. QED BY <1>2 DEF Asks, ReadTid, Channel

\* What a thread does with a message.
LEMMA GotJob ==
  ASSUME ListInv, NEW t \in Threads, NEW m \in Messages, NEW d, d = Got(t, m)
  PROVE  \/ d = Rest
         \/ /\ d.op = th[t].op /\ d.n = th[t].n /\ d.file = th[t].file /\ d.got = m.n
            /\ \/ th[t].op = "get" /\ d.at = "register" /\ d.c = m.id /\ m.id \in Ids
               \/ th[t].op = "release" /\ d.at = "cleanup" /\ d.c = th[t].c
<1>1. th[t] \in Doing
  BY DEF ListInv
<1>2. m.id \in Ids \cup {None}
  BY DEF Messages
<1>3. CASE th[t].op = "get" /\ m.id # None
  <2>1. d = [th[t] EXCEPT !.at = "register", !.c = m.id, !.got = m.n]
    BY <1>3 DEF Got
  <2>. QED BY <1>1, <1>2, <1>3, <2>1 DEF Doing
<1>4. CASE th[t].op = "release"
  <2>1. d = [th[t] EXCEPT !.at = "cleanup", !.got = m.n]
    BY <1>4 DEF Got
  <2>. QED BY <1>1, <1>4, <2>1 DEF Doing
<1>5. CASE ~(th[t].op = "get" /\ m.id # None) /\ th[t].op # "release"
  BY <1>5 DEF Got
<1>. QED BY <1>3, <1>4, <1>5

\* A step of a thread leaves Ctl some of its messages.
LEMMA CtlReadsShrink ==
  ASSUME DeviceInv, NEW t \in Threads, StepOf(t)
  PROVE  \A j \in 1 .. Len(mem'[Ctl].reads) :
           \E i \in 1 .. Len(mem[Ctl].reads) : mem'[Ctl].reads[j] = mem[Ctl].reads[i]
<1>1. /\ ListInv /\ mem \in [Clients -> Memory] /\ Ctl \in Clients
      /\ mem[Ctl].reads \in Seq(Messages)
  BY Constants, MemoryTypes DEF DeviceInv, ListInv, Around
<1>2. CASE mem'[Ctl].reads = mem[Ctl].reads
  BY <1>2
<1>3. ASSUME NEW i, Takes(t, i), Channel(t) = Ctl
      PROVE  \A j \in 1 .. Len(mem'[Ctl].reads) :
           \E k \in 1 .. Len(mem[Ctl].reads) : mem'[Ctl].reads[j] = mem[Ctl].reads[k]
  <2>. DEFINE s == mem[Ctl].reads
  <2>1. mem'[Ctl].reads = RemoveAt(s, i) /\ i \in 1 .. Len(s)
    BY <1>1, <1>3 DEF Takes
  <2>2. /\ Len(RemoveAt(s, i)) = Len(s) - 1 /\ Len(s) \in Nat /\ i \in Nat
        /\ \A j \in 1 .. Len(s) - 1 : RemoveAt(s, i)[j] = IF j < i THEN s[j] ELSE s[j + 1]
    BY <1>1, <2>1, RemoveAtFacts
  <2>3. \A j \in 1 .. Len(s) - 1 : j \in 1 .. Len(s) /\ j + 1 \in 1 .. Len(s)
    BY <2>2
  <2>. HIDE DEF s
  <2>. QED BY <2>1, <2>2, <2>3 DEF s
<1>4. CASE mem'[Ctl].reads = <<>>
  BY <1>4
<1>5. CASE \E i : Takes(t, i)
  BY <1>1, <1>2, <1>3, <1>5 DEF Takes
<1>6. CASE (\E d : Calm(t, d)) \/ Sleeps(t) \/ Interrupted(t) \/ \E e : Notifies(t, e)
  BY <1>1, <1>2, <1>6 DEF Calm, Sleeps, Interrupted, Notifies
<1>7. CASE Adds(t) \/ Frees(t)
  <2>1. mem' = [mem EXCEPT ![th[t].c] = Fresh]
    BY <1>7 DEF Adds, Frees
  <2>2. mem'[Ctl] = mem[Ctl] \/ mem'[Ctl] = Fresh
    BY <1>1, <2>1
  <2>. QED BY <1>2, <1>4, <2>2 DEF Fresh
<1>. QED BY <1>5, <1>6, <1>7 DEF StepOf

\* Threads, ...
LEMMA UsersKeepNumbers ==
  ASSUME DeviceInv, NumInv, NEW t \in Users, UserStep(t)
  PROVE  NumInv' /\ tids' \in Nat /\ tids <= tids'
<1>1. /\ ListInv /\ th \in [Threads -> Doing] /\ t \in Threads /\ th[t] \in Doing /\ tids \in Nat
      /\ Dereg \in Threads /\ Dereg # t /\ StepOf(t) /\ OthersSame(t) /\ Users \subseteq Threads
  BY Constants DEF DeviceInv, ListInv, Around, UserStep
<1>2. \A u \in Threads : u # t =>
        /\ th'[u].op = th[u].op /\ th'[u].c = th[u].c /\ th'[u].n = th[u].n
        /\ th'[u].got = th[u].got /\ Asks(u)' = Asks(u)
  BY <1>1, OthersJobs
<1>3. tids' \in Nat /\ tids <= tids'
  BY <1>1, Fields DEF UserStep, JobStep, Begins, Closes, AsksNothing, GoesOn, Sends, Reads, Gets
<1>4. /\ th'[t].c \in Ids \cup {None}
      /\ Asks(t)' => \/ Asks(t) /\ th'[t].n = th[t].n
                     \/ th'[t].n \in tids + 1 .. tids'
  <2>1. CASE Begins(t) \/ \E f : Closes(t, f)
    BY <1>1, <2>1, Fields DEF Begins, Closes
  <2>2. CASE AsksNothing(t)
    BY <2>2 DEF AsksNothing, Asks
  <2>3. CASE GoesOn(t) \/ Sends(t)
    BY <2>3 DEF GoesOn, Sends, SameJob, Asks, NumInv
  <2>4. CASE Reads(t)
    <3>1. PICK i : Takes(t, i)
      BY <2>4 DEF Reads
    <3>. DEFINE m == mem[Channel(t)].reads[i]
    <3>2. m \in Messages
      <4>1. Channel(t) \in Clients
        BY <1>1, <3>1, ReaderHasClient DEF Takes
      <4>. QED BY <1>1, <3>1, <4>1, MemoryTypes, ElementOfSeq DEF Takes
    <3>3. th'[t] = Got(t, m)
      BY <1>1, <3>1 DEF Takes
    <3>. HIDE DEF m
    <3>. QED BY <1>1, <3>2, <3>3, GotJob, Fields DEF Asks, NumInv
  <2>5. CASE Gets(t)
    BY <2>5, Fields DEF Gets, Asks
  <2>. QED BY <2>1, <2>2, <2>3, <2>4, <2>5 DEF UserStep, JobStep
<1>5. \A r \in pending' : r \in pending \/ (r.n = th[t].n /\ r.c = th[t].c /\ Asks(t))
  BY DEF UserStep, JobStep, Begins, Closes, AsksNothing, GoesOn, Sends, Reads, Gets
<1>6. cb' = cb
  BY <1>1 DEF StepOf, Calm, Takes, Sleeps, Interrupted, Adds, Frees, Notifies
<1>7. \A m : Numbered(m) => m.n \in 1 .. tids' /\ m.tid = TidOf(m.n)
  BY <1>1, <1>3 DEF Numbered
<1>8. \A i \in 1 .. Len(mem'[Ctl].reads) :
        mem'[Ctl].reads[i].n \in 1 .. tids' /\ mem'[Ctl].reads[i].tid = TidOf(mem'[Ctl].reads[i].n)
  BY <1>1, <1>7, CtlReadsShrink DEF NumInv
<1>9. \A u \in Users : th'[u].c \in Ids \cup {None} /\ (Asks(u)' => th'[u].n \in 1 .. tids')
  BY <1>1, <1>2, <1>3, <1>4 DEF NumInv
<1>10. \A r \in pending' : r.n \in 1 .. tids' /\ r.c \in Ids \cup {None}
  BY <1>1, <1>3, <1>5 DEF NumInv
<1>11. \A u, v \in Users : Asks(u)' /\ Asks(v)' /\ th'[u].n = th'[v].n => u = v
  <2>1. \A u \in Users : u # t /\ Asks(u)' => Asks(u) /\ th'[u].n = th[u].n /\ th[u].n \in 1 .. tids
    BY <1>1, <1>2 DEF NumInv
  <2>. QED BY <1>1, <1>4, <2>1 DEF NumInv
<1>12. cb'.to = {Ctl} => cb'.msg.n \in 1 .. tids' /\ cb'.msg.tid = TidOf(cb'.msg.n)
  BY <1>6, <1>7 DEF NumInv
<1>13. th'[Dereg].got = 0
  BY <1>1, <1>2 DEF NumInv
<1>. QED BY <1>3, <1>8, <1>9, <1>10, <1>11, <1>12, <1>13 DEF NumInv, Asks, Numbered

\* Deregistration takes numbers too, for releases that it does not send.
LEMMA DeregKeepsNumbers ==
  ASSUME DeviceInv, NumInv, DeregStep
  PROVE  NumInv' /\ tids' \in Nat /\ tids <= tids'
<1>1. /\ ListInv /\ th \in [Threads -> Doing] /\ tids \in Nat
      /\ Dereg \in Threads /\ Users \subseteq Threads /\ Dereg \notin Users
      /\ StepOf(Dereg) /\ OthersSame(Dereg)
  BY Constants DEF DeviceInv, ListInv, Around, DeregStep
<1>2. \A u \in Users :
        /\ th'[u].op = th[u].op /\ th'[u].c = th[u].c /\ th'[u].n = th[u].n /\ Asks(u)' = Asks(u)
  BY <1>1, OthersJobs
<1>3. tids' \in Nat /\ tids <= tids' /\ pending' = pending /\ th'[Dereg].got = 0
  BY <1>1 DEF DeregStep, DeregJob, NumInv
<1>4. cb' = cb
  BY <1>1 DEF StepOf, Calm, Takes, Sleeps, Interrupted, Adds, Frees, Notifies
<1>5. \A m : Numbered(m) => m.n \in 1 .. tids' /\ m.tid = TidOf(m.n)
  BY <1>1, <1>3 DEF Numbered
<1>6. \A i \in 1 .. Len(mem'[Ctl].reads) :
        mem'[Ctl].reads[i].n \in 1 .. tids' /\ mem'[Ctl].reads[i].tid = TidOf(mem'[Ctl].reads[i].n)
  BY <1>1, <1>5, CtlReadsShrink DEF NumInv
<1>7. \A u \in Users : th'[u].c \in Ids \cup {None} /\ (Asks(u)' => th'[u].n \in 1 .. tids')
  BY <1>1, <1>2, <1>3 DEF NumInv
<1>8. \A r \in pending' : r.n \in 1 .. tids' /\ r.c \in Ids \cup {None}
  BY <1>1, <1>3 DEF NumInv
<1>9. \A u, v \in Users : Asks(u)' /\ Asks(v)' /\ th'[u].n = th'[v].n => u = v
  BY <1>2 DEF NumInv
<1>10. cb'.to = {Ctl} => cb'.msg.n \in 1 .. tids' /\ cb'.msg.tid = TidOf(cb'.msg.n)
  BY <1>4, <1>5 DEF NumInv
<1>. QED BY <1>3, <1>6, <1>7, <1>8, <1>9, <1>10 DEF NumInv, Asks, Numbered

\* ... notifications ...
LEMMA NotifyLeaves ==
  ASSUME DeviceInv, WaitInv, NEW h \in Hands, NotifyStep(h)
  PROVE  /\ UNCHANGED <<valid, list, file, tids, cb, pending, assigned>> /\ mem'[Ctl] = mem[Ctl]
         /\ \A c \in Ids : mem'[c] = mem[c]
         /\ \A u \in Threads :
              /\ th'[u].op = th[u].op /\ th'[u].c = th[u].c /\ th'[u].n = th[u].n
              /\ th'[u].got = th[u].got /\ th'[u].file = th[u].file
              /\ th'[u].at = th[u].at \/ (th[u].at = "asleep" /\ th'[u].at = "woken" /\ hand[h].entry = u)
<1>1. /\ ListInv /\ th \in [Threads -> Doing] /\ mem \in [Clients -> Memory]
      /\ Ctl \in Clients /\ Ctl # Wds /\ Ids \subseteq Clients /\ Wds \notin Ids
  BY Constants DEF DeviceInv, ListInv, Around
<1>2. UNCHANGED <<valid, list, file, tids, cb, pending, assigned>>
  BY DEF NotifyStep, UpSem, WdsCallback, ReadAsync
<1>3. CASE UpSem(h)
  <2>. DEFINE e == hand[h].entry
  <2>1. e \in Threads /\ mem' = mem
        /\ th' = [th EXCEPT ![e] = [th[e] EXCEPT !.at = IF th[e].at = "asleep" THEN "woken" ELSE th[e].at]]
    BY <1>1, <1>3 DEF UpSem
  <2>2. ASSUME NEW u \in Threads
        PROVE  /\ th'[u].op = th[u].op /\ th'[u].c = th[u].c /\ th'[u].n = th[u].n
               /\ th'[u].got = th[u].got /\ th'[u].file = th[u].file
               /\ th'[u].at = th[u].at \/ (th[u].at = "asleep" /\ th'[u].at = "woken" /\ e = u)
    <3>1. th[u] \in Doing /\ th[e] \in Doing
      BY <1>1, <2>1
    <3>. HIDE DEF e
    <3>2. CASE u # e
      BY <1>1, <2>1, <3>2
    <3>3. CASE u = e
      BY <1>1, <2>1, <3>1, <3>3 DEF Doing
    <3>. QED BY <3>2, <3>3
  <2>. QED BY <1>2, <2>1, <2>2
<1>4. CASE WdsCallback(h) \/ ReadAsync(h)
  <2>1. hand[h].entry = Async /\ hand[h].c = Wds
    BY <1>4 DEF WdsCallback, ReadAsync, DeviceInv, HandInv, WaitInv
  <2>2. th' = th /\ \A x \in Clients : x # Wds => mem'[x] = mem[x]
    BY <1>1, <1>4, <2>1 DEF WdsCallback, ReadAsync
  <2>. QED BY <1>1, <1>2, <2>2
<1>. QED BY <1>3, <1>4 DEF NotifyStep

\* Notifications leave numbers alone.
LEMMA NotifiersKeepNumbers ==
  ASSUME DeviceInv, WaitInv, NumInv, NEW h \in Hands, NotifyStep(h)
  PROVE  NumInv'
<1>1. /\ UNCHANGED <<tids, cb, pending>> /\ mem'[Ctl] = mem[Ctl]
      /\ \A u \in Threads :
            /\ th'[u].op = th[u].op /\ th'[u].c = th[u].c /\ th'[u].n = th[u].n
            /\ th'[u].got = th[u].got
  BY NotifyLeaves
<1>. QED BY <1>1, Constants DEF NumInv, Asks, Numbered

\* ... and messages.
LEMMA PostLeaves ==
  ASSUME DeviceInv, NumInv, NEW i \in Nat \ {0}, NEW to \in SUBSET Clients, NEW m \in Messages,
         Source(i, to, m), NEW R, Gives(R, i, to, m), list' = list, th' = th
  PROVE  /\ Ctl \in R => to = {Ctl} /\ Numbered(m)
         /\ pending' \subseteq pending
         /\ cb'.to = {Ctl} => Numbered(cb'.msg)
<1>1. R \subseteq to
  BY DEF Gives, Reach
<1>2. to = {Ctl} => Numbered(m)
  <2>1. CASE cb = NoCb /\ \E r \in pending, id \in Ids \cup {None} : m = [n |-> r.n, tid |-> TidOf(r.n), id |-> id]
    BY <2>1 DEF NumInv, Numbered
  <2>2. CASE to \subseteq {Wds} \cup Ids
    BY <2>2, Constants
  <2>3. CASE to = cb.to /\ m = cb.msg
    BY <2>3 DEF NumInv
  <2>. QED BY <2>1, <2>2, <2>3 DEF Source
<1>3. to = {Ctl} \/ Ctl \notin to
  <2>1. cb = NoCb \/ cb.to = {Ctl} \/ Ctl \notin cb.to
    BY Constants DEF DeviceInv, HandInv
  <2>. QED BY <2>1, Constants DEF Source
<1>4. pending' \subseteq pending
  BY DEF Source
<1>5. cb'.to = {Ctl} => Numbered(cb'.msg)
  <2>1. NoCb.to # {Ctl}
    BY DEF NoCb
  <2>2. cb' = NoCb \/ (cb'.to = to /\ cb'.msg = m)
    BY DEF Gives
  <2>. QED BY <1>2, <2>1, <2>2
<1>. QED BY <1>1, <1>2, <1>3, <1>4, <1>5

\* The answer that the modem gives has the number of its request.
LEMMA PostKeepsNumbers ==
  ASSUME DeviceInv, NumInv, PostStep
  PROVE  NumInv'
<1>1. /\ ListInv /\ UNCHANGED <<list, tids, th>> /\ mem[Ctl].reads \in Seq(Messages) /\ Ctl \in Clients
  BY Constants, MemoryTypes DEF DeviceInv, PostStep
<1>2. PICK i \in Nat \ {0}, to \in SUBSET Clients, m \in Messages :
        Source(i, to, m) /\ \E R : Gives(R, i, to, m)
  BY DEF PostStep
<1>3. PICK R : Gives(R, i, to, m)
  BY <1>2
<1>4. /\ Ctl \in R => to = {Ctl} /\ Numbered(m)
      /\ pending' \subseteq pending
      /\ cb'.to = {Ctl} => Numbered(cb'.msg)
  BY <1>1, <1>2, <1>3, PostLeaves
<1>5. mem'[Ctl].reads = IF Ctl \in R THEN Append(mem[Ctl].reads, m) ELSE mem[Ctl].reads
  BY <1>1, <1>3 DEF Gives
<1>6. \A k \in 1 .. Len(mem'[Ctl].reads) : Numbered(mem'[Ctl].reads[k])
  <2>1. CASE Ctl \notin R
    BY <1>5, <2>1 DEF NumInv
  <2>2. CASE Ctl \in R
    <3>1. Numbered(m) /\ mem'[Ctl].reads = Append(mem[Ctl].reads, m)
      BY <1>4, <1>5, <2>2
    <3>. QED BY <1>1, <1>2, <3>1, AppendFacts DEF NumInv
  <2>. QED BY <2>1, <2>2
<1>7. \A x : Numbered(x)' <=> Numbered(x)
  BY <1>1 DEF Numbered
<1>. QED BY <1>1, <1>4, <1>6, <1>7 DEF NumInv, Asks, Numbered

\* At first there are no requests, ...
LEMMA NumInit == Init => NumInv
<1>. SUFFICES ASSUME Init PROVE NumInv
  OBVIOUS
<1>1. /\ \A t \in Threads : th[t] = Rest
      /\ mem[Ctl].reads = <<>> /\ cb = NoCb /\ pending = {}
  BY Constants DEF Init, Fresh
<1>2. NoCb.to # {Ctl}
  BY DEF NoCb
<1>. QED BY <1>1, <1>2, Fields, Constants DEF NumInv, Asks

\* ... and every step keeps their numbers apart.
LEMMA NumKept ==
  Overlap = FALSE /\ DeviceInv /\ WaitInv /\ NumInv /\ [Next]_vars => NumInv'
<1>. SUFFICES ASSUME Overlap = FALSE, DeviceInv, WaitInv, NumInv, [Next]_vars
              PROVE  NumInv'
  OBVIOUS
<1>1. CASE UNCHANGED vars
  BY <1>1 DEF vars, NumInv, Asks, Numbered
<1>2. CASE Next
  BY <1>2, NextJobs, UsersKeepNumbers, DeregKeepsNumbers, NotifiersKeepNumbers, PostKeepsNumbers
<1>. QED BY <1>1, <1>2

-----------------------------------------------------------------------------
(* Answers                                                                  *)

\* A user thread is about Ctl when it asks.
LEMMA AsksCtl ==
  ASSUME NumInv, NEW t \in Users
  PROVE  Channel(t) = Ctl <=> Asks(t)
  BY Constants DEF NumInv, Channel

\* After a step of a thread the readers of Ctl are those from before it, or the
\* one that has found no message.
LEMMA CtlWaiters ==
  ASSUME DeviceInv, WaitInv, NEW t \in Threads, StepOf(t), NEW u \in Users, Waits(Ctl, u)'
  PROVE  Waits(Ctl, u) \/ (u = t /\ Sleeps(t) /\ Channel(t) = Ctl)
<1>1. /\ ListInv /\ mem \in [Clients -> Memory] /\ Ctl \in Clients
      /\ mem[Ctl].notify \in Seq(Threads \cup {Async})
  BY Constants, MemoryTypes DEF DeviceInv, ListInv, Around
<1>2. CASE mem'[Ctl].notify = mem[Ctl].notify
  BY <1>2 DEF Waits
<1>3. CASE (\E d : Calm(t, d)) \/ (\E i : Takes(t, i))
  BY <1>1, <1>2, <1>3 DEF Calm, Takes
<1>4. CASE Sleeps(t)
  <2>1. CASE Channel(t) # Ctl
    BY <1>1, <1>2, <1>4, <2>1 DEF Sleeps
  <2>2. CASE Channel(t) = Ctl
    <3>1. mem'[Ctl].notify = Append(mem[Ctl].notify, t)
      BY <1>1, <1>4, <2>2 DEF Sleeps
    <3>2. \A y : Contains(Append(mem[Ctl].notify, t), y) <=> Contains(mem[Ctl].notify, y) \/ y = t
      BY <1>1, AppendContains
    <3>. QED BY <1>4, <2>2, <3>1, <3>2 DEF Waits
  <2>. QED BY <2>1, <2>2
<1>5. CASE Interrupted(t)
  <2>1. mem'[Ctl].notify = mem[Ctl].notify \/ mem'[Ctl].notify = RemoveFirst(mem[Ctl].notify, t)
    BY <1>1, <1>5 DEF Interrupted
  <2>2. Once(mem[Ctl].notify)
    BY <1>1 DEF WaitInv
  <2>3. \A y : Contains(RemoveFirst(mem[Ctl].notify, t), y) => Contains(mem[Ctl].notify, y)
    BY <1>1, <2>2, RemoveFirstFacts
  <2>. QED BY <1>2, <2>1, <2>3 DEF Waits
<1>6. CASE Adds(t) \/ Frees(t)
  <2>1. mem' = [mem EXCEPT ![th[t].c] = Fresh]
    BY <1>6 DEF Adds, Frees
  <2>2. mem'[Ctl] = mem[Ctl] \/ mem'[Ctl].notify = <<>>
    BY <1>1, <2>1 DEF Fresh
  <2>. QED BY <1>2, <2>2 DEF Waits, Contains
<1>7. CASE \E e : Notifies(t, e)
  <2>1. Once(mem[Ctl].notify)
    BY <1>1 DEF WaitInv
  <2>. QED BY <1>1, <1>2, <1>7, <2>1 DEF Notifies, Pops, Waits
<1>. QED BY <1>3, <1>4, <1>5, <1>6, <1>7 DEF StepOf

\* No thread leaves a reader of Ctl with a message for it; ...
LEMMA ThreadsLeaveNone ==
  ASSUME DeviceInv, WaitInv, WaitInv', AnswerInv, NEW t \in Threads, StepOf(t), OthersSame(t),
         tids < TidRange, NEW u \in Users, Waits(Ctl, u)', NEW j \in 1 .. Len(mem'[Ctl].reads)
  PROVE  mem'[Ctl].reads[j].tid # ReadTid(u)'
<1>1. /\ ListInv /\ th \in [Threads -> Doing] /\ mem \in [Clients -> Memory] /\ Ctl \in Clients
      /\ u \in Threads
  BY Constants DEF DeviceInv, ListInv, Around
<1>2. PICK i \in 1 .. Len(mem[Ctl].reads) : mem'[Ctl].reads[j] = mem[Ctl].reads[i]
  BY CtlReadsShrink
<1>3. th'[u].at = "asleep"
  BY <1>1, Constants DEF WaitInv
<1>4. CASE u = t /\ Sleeps(t) /\ Channel(t) = Ctl
  <2>1. ReadTid(t) # mem[Ctl].reads[i].tid
    BY <1>4 DEF Sleeps
  <2>2. th'[t] = [th[t] EXCEPT !.at = "asleep"]
    BY <1>1, <1>4 DEF Sleeps
  <2>3. ReadTid(t)' = ReadTid(t)
    BY <1>1, <2>2 DEF Doing, ReadTid, Asks
  <2>. QED BY <1>2, <1>4, <2>1, <2>3
<1>5. CASE Waits(Ctl, u)
  <2>1. mem[Ctl].reads[i].tid # ReadTid(u)
    BY <1>5 DEF AnswerInv
  <2>2. ReadTid(u)' = ReadTid(u)
    <3>1. CASE u # t
      BY <1>1, <3>1, OthersJobs
    <3>2. CASE u = t
      <4>1. th[t].at = "asleep"
        BY <1>1, <1>5, <3>2, Constants DEF WaitInv
      <4>2. Interrupted(t)
        BY <4>1 DEF StepOf, Calm, Takes, Sleeps, Adds, Frees, Notifies
      <4>3. th'[t] = Failed(t)
        BY <1>1, <4>2 DEF Interrupted
      <4>4. Failed(t).at # "asleep"
        BY <1>1, FailedType, Fields DEF Doing
      <4>. QED BY <1>3, <3>2, <4>3, <4>4
    <3>. QED BY <3>1, <3>2
  <2>. QED BY <1>2, <2>1, <2>2
<1>. QED BY <1>4, <1>5, CtlWaiters

\* ... and what is read is the answer to the request.
LEMMA UsersReadOwn ==
  ASSUME DeviceInv, NumInv, AnswerInv, NEW t \in Users, UserStep(t), tids < TidRange,
         NEW u \in Threads, th'[u].got # 0
  PROVE  th'[u].got = th'[u].n
<1>1. /\ ListInv /\ th \in [Threads -> Doing] /\ t \in Threads /\ th[t] \in Doing /\ tids \in Nat
      /\ StepOf(t) /\ OthersSame(t)
  BY Constants DEF DeviceInv, ListInv, Around, UserStep
<1>2. CASE u # t
  BY <1>1, <1>2, OthersJobs DEF AnswerInv
<1>3. CASE u = t
  <2>1. CASE Begins(t) \/ (\E f : Closes(t, f)) \/ AsksNothing(t) \/ Gets(t)
    BY <1>3, <2>1, Fields DEF Begins, Closes, AsksNothing, Gets
  <2>2. CASE GoesOn(t) \/ Sends(t)
    BY <1>3, <2>2 DEF GoesOn, Sends, SameJob, AnswerInv
  <2>3. CASE Reads(t)
    <3>1. PICK i : Takes(t, i)
      BY <2>3 DEF Reads
    <3>. DEFINE m == mem[Channel(t)].reads[i]
    <3>2. m \in Messages /\ i \in 1 .. Len(mem[Channel(t)].reads) /\ ReadTid(t) \in {0, m.tid}
      <4>1. Channel(t) \in Clients
        BY <1>1, <3>1, ReaderHasClient DEF Takes
      <4>. QED BY <1>1, <3>1, <4>1, MemoryTypes, ElementOfSeq DEF Takes
    <3>3. th'[t] = Got(t, m)
      BY <1>1, <3>1 DEF Takes
    <3>4. Asks(t) => Numbered(m)
      BY <3>2, AsksCtl DEF NumInv
    <3>. HIDE DEF m
    <3>5. CASE th'[t] = Rest
      BY <1>3, <3>5, Fields
    <3>6. CASE Asks(t) /\ th'[t].n = th[t].n /\ th'[t].got = m.n
      <4>1. th[t].n \in 1 .. tids /\ m.n \in 1 .. tids /\ m.tid = TidOf(m.n)
        BY <3>4, <3>6 DEF NumInv, Numbered
      <4>2. TidOf(th[t].n) = th[t].n /\ TidOf(th[t].n) # 0 /\ TidOf(m.n) = m.n
        BY <1>1, <4>1, TidSmall
      <4>3. ReadTid(t) = TidOf(th[t].n)
        BY <3>6 DEF ReadTid
      <4>. QED BY <1>3, <3>2, <3>6, <4>1, <4>2, <4>3
    <3>. QED BY <1>1, <3>2, <3>3, <3>5, <3>6, GotJob DEF Asks
  <2>. QED BY <2>1, <2>2, <2>3 DEF UserStep, JobStep
<1>. QED BY <1>2, <1>3

\* No message is left with a reader of Ctl that waits for it.
LEMMA PostLeavesNone ==
  ASSUME DeviceInv, WaitInv, NumInv, AnswerInv, tids < TidRange, PostStep,
         NEW u \in Users, Waits(Ctl, u)', NEW j \in 1 .. Len(mem'[Ctl].reads)
  PROVE  mem'[Ctl].reads[j].tid # ReadTid(u)'
<1>1. /\ ListInv /\ UNCHANGED <<list, tids, th>> /\ mem[Ctl].reads \in Seq(Messages) /\ Ctl \in Clients
      /\ mem[Ctl].notify \in Seq(Threads \cup {Async}) /\ u \in Threads /\ tids \in Nat
  BY Constants, MemoryTypes DEF DeviceInv, PostStep, ListInv, Around
<1>2. PICK i \in Nat \ {0}, to \in SUBSET Clients, m \in Messages :
        Source(i, to, m) /\ \E R : Gives(R, i, to, m)
  BY DEF PostStep
<1>3. PICK R : Gives(R, i, to, m)
  BY <1>2
<1>4. Ctl \in R => Numbered(m)
  BY <1>1, <1>2, <1>3, PostLeaves
<1>5. mem'[Ctl].reads = IF Ctl \in R THEN Append(mem[Ctl].reads, m) ELSE mem[Ctl].reads
  BY <1>1, <1>3 DEF Gives
<1>6. ReadTid(u)' = ReadTid(u)
  BY <1>1 DEF ReadTid, Asks
<1>7. \A c, e : Pops(ReadCb, c, e) /\ Waits(Ctl, u)' => Waits(Ctl, u) /\ (c = Ctl => e # u)
  <2>1. Once(mem[Ctl].notify)
    BY <1>1 DEF WaitInv
  <2>. QED BY <1>1, <2>1 DEF Pops, Waits
<1>8. Waits(Ctl, u)
  <2>1. \/ \A x \in Clients : mem'[x].notify = mem[x].notify
        \/ \E c, e : Pops(ReadCb, c, e)
    BY <1>3 DEF Gives
  <2>. QED BY <1>1, <1>7, <2>1 DEF Waits
<1>9. ASSUME Ctl \in R, m.tid = ReadTid(u)  PROVE FALSE
  <2>1. EntryTid(u) = ReadTid(u)
    BY <1>1, Constants DEF EntryTid
  <2>2. ~Nobody(Ctl, m.tid)
    BY <1>8, <1>9, <2>1 DEF Nobody
  <2>c. PICK c \in R : \E e : /\ \A x \in R : x # c => Nobody(x, m.tid)
                              /\ Pops(ReadCb, c, e) /\ (m.tid = 0 \/ EntryTid(e) \in {0, m.tid})
    BY <1>3, <1>9, <2>2 DEF Gives
  <2>3. PICK e : /\ \A x \in R : x # c => Nobody(x, m.tid)
                 /\ Pops(ReadCb, c, e) /\ (m.tid = 0 \/ EntryTid(e) \in {0, m.tid})
    BY <2>c
  <2>4. c = Ctl /\ Waits(Ctl, e) /\ e # u
    BY <1>7, <1>9, <2>2, <2>3 DEF Pops
  <2>5. e \in Users /\ Channel(e) = Ctl /\ Channel(u) = Ctl
    BY <1>1, <1>8, <2>4, Constants DEF WaitInv
  <2>6. Asks(e) /\ Asks(u) /\ th[e].n \in 1 .. tids /\ th[u].n \in 1 .. tids
    BY <2>5, AsksCtl DEF NumInv
  <2>7. EntryTid(e) = th[e].n /\ EntryTid(e) # 0 /\ ReadTid(u) = th[u].n /\ ReadTid(u) # 0
    <3>1. e \in Threads
      BY <2>5, Constants
    <3>. QED BY <1>1, <2>6, <3>1, TidSmall, Constants DEF EntryTid, ReadTid
  <2>8. th[e].n = th[u].n
    BY <1>9, <2>3, <2>7
  <2>. QED BY <2>4, <2>5, <2>6, <2>8 DEF NumInv
<1>10. CASE Ctl \notin R
  BY <1>5, <1>6, <1>8, <1>10 DEF AnswerInv
<1>11. CASE Ctl \in R
  <2>1. mem'[Ctl].reads = Append(mem[Ctl].reads, m) /\ m.tid # ReadTid(u)
    BY <1>5, <1>9, <1>11
  <2>. QED BY <1>1, <1>2, <1>6, <1>8, <2>1, AppendFacts DEF AnswerInv
<1>. QED BY <1>10, <1>11

\* At first nobody reads, ...
LEMMA AnswerInit == Init => AnswerInv
<1>. SUFFICES ASSUME Init PROVE AnswerInv
  OBVIOUS
<1>1. /\ \A t \in Threads : th[t] = Rest
      /\ mem[Ctl].reads = <<>>
  BY Constants DEF Init, Fresh
<1>. QED BY <1>1, Fields, Constants DEF AnswerInv

\* ... and every step keeps the answers with their requests.
LEMMA AnswerKept ==
  Overlap = FALSE /\ DeviceInv /\ WaitInv /\ WaitInv' /\ NumInv /\ AnswerInv /\ [Next]_vars => AnswerInv'
<1>. SUFFICES ASSUME Overlap = FALSE, DeviceInv, WaitInv, WaitInv', NumInv, AnswerInv, [Next]_vars
              PROVE  AnswerInv'
  OBVIOUS
<1>1. CASE UNCHANGED vars
  BY <1>1 DEF vars, AnswerInv, Waits, ReadTid, Asks
<1>2. ASSUME NEW t \in Users, UserStep(t)  PROVE AnswerInv'
  <2>1. tids \in Nat /\ tids' \in Nat /\ tids <= tids' /\ TidRange \in Nat /\ t \in Threads
        /\ StepOf(t) /\ OthersSame(t)
    BY <1>2, UsersKeepNumbers, Constants DEF UserStep, DeviceInv, ListInv, Around
  <2>2. SUFFICES ASSUME tids' < TidRange
                 PROVE  /\ \A u \in Threads : th'[u].got # 0 => th'[u].got = th'[u].n
                        /\ \A u \in Users : Waits(Ctl, u)' =>
                             \A i \in 1 .. Len(mem'[Ctl].reads) : mem'[Ctl].reads[i].tid # ReadTid(u)'
    BY DEF AnswerInv
  <2>3. tids < TidRange
    BY <2>1, <2>2
  <2>. QED BY <1>2, <2>1, <2>3, UsersReadOwn, ThreadsLeaveNone
<1>3. CASE DeregStep
  <2>1. tids \in Nat /\ tids' \in Nat /\ tids <= tids' /\ TidRange \in Nat /\ Dereg \in Threads
        /\ StepOf(Dereg) /\ OthersSame(Dereg) /\ ListInv
    BY <1>3, DeregKeepsNumbers, Constants DEF DeregStep, DeviceInv, ListInv, Around
  <2>2. SUFFICES ASSUME tids' < TidRange
                 PROVE  /\ \A u \in Threads : th'[u].got # 0 => th'[u].got = th'[u].n
                        /\ \A u \in Users : Waits(Ctl, u)' =>
                             \A i \in 1 .. Len(mem'[Ctl].reads) : mem'[Ctl].reads[i].tid # ReadTid(u)'
    BY DEF AnswerInv
  <2>3. tids < TidRange
    BY <2>1, <2>2
  <2>4. \A u \in Threads : th'[u].got # 0 => th'[u].got = th'[u].n
    <3>1. th'[Dereg].got = 0
      BY <1>3 DEF DeregStep, DeregJob, NumInv
    <3>. QED BY <2>1, <2>3, <3>1, OthersJobs DEF AnswerInv
  <2>. QED BY <2>1, <2>3, <2>4, ThreadsLeaveNone
<1>4. ASSUME NEW h \in Hands, NotifyStep(h)  PROVE AnswerInv'
  <2>1. /\ tids' = tids /\ mem'[Ctl] = mem[Ctl]
        /\ \A u \in Threads : /\ th'[u].op = th[u].op /\ th'[u].n = th[u].n /\ th'[u].got = th[u].got
    BY <1>4, NotifyLeaves
  <2>2. \A u \in Users : ReadTid(u)' = ReadTid(u)
    BY <2>1, Constants DEF ReadTid, Asks
  <2>. QED BY <2>1, <2>2 DEF AnswerInv, Waits
<1>5. CASE PostStep
  <2>1. th' = th /\ tids' = tids
    BY <1>5 DEF PostStep
  <2>2. tids < TidRange => \A u \in Users : Waits(Ctl, u)' =>
          \A i \in 1 .. Len(mem'[Ctl].reads) : mem'[Ctl].reads[i].tid # ReadTid(u)'
    BY <1>5, PostLeavesNone
  <2>. QED BY <2>1, <2>2 DEF AnswerInv
<1>6. CASE Next
  BY <1>2, <1>3, <1>4, <1>5, <1>6, NextJobs
<1>. QED BY <1>1, <1>6

-----------------------------------------------------------------------------
(* Readers on their way                                                     *)

\* A reader that is woken up, or whose entry a notifier has in hand.
OnItsWay(u) == th[u].at = "woken" \/ \E h \in Hands : hand[h].entry = u
Coming(c) == {u \in Users : Channel(u) = c /\ OnItsWay(u)}
Awaited(c) == \E e : Waits(c, e)

\* While somebody waits at a client with messages, as many readers are on their
\* way to it.
ComingInv ==
  \A c \in Ids : Awaited(c) => Len(mem[c].reads) <= Cardinality(Coming(c))

\* Those who come are finitely many, ...
LEMMA ComingFinite ==
  ASSUME NEW c
  PROVE  IsFiniteSet(Coming(c)) /\ Cardinality(Coming(c)) \in Nat
         /\ \A S \in SUBSET Coming(c) : IsFiniteSet(S) /\ Cardinality(S) <= Cardinality(Coming(c))
  BY QmiAssumption, FS_Subset, FS_CardinalityType DEF Coming

\* ... also after a step.
LEMMA ComingNext ==
  ASSUME NEW c
  PROVE  IsFiniteSet(Coming(c)') /\ Cardinality(Coming(c)') \in Nat
         /\ \A S \in SUBSET Coming(c)' : IsFiniteSet(S) /\ Cardinality(S) <= Cardinality(Coming(c)')
<1>1. Coming(c)' \subseteq Users
  BY DEF Coming
<1>. QED BY <1>1, QmiAssumption, FS_Subset, FS_CardinalityType

\* A step that gives client c neither messages nor waiters and takes no reader off
\* its way.
LEMMA ComingAlone ==
  ASSUME ListInv, ComingInv, NEW c \in Ids, Awaited(c)' => Awaited(c),
         mem'[c].reads = mem[c].reads, Coming(c) \subseteq Coming(c)', Awaited(c)'
  PROVE  Len(mem'[c].reads) <= Cardinality(Coming(c)')
<1>1. Len(mem[c].reads) \in Nat
  BY Constants, MemoryTypes, LenProperties
<1>2. Cardinality(Coming(c)) <= Cardinality(Coming(c)')
  BY ComingNext
<1>3. Len(mem[c].reads) <= Cardinality(Coming(c))
  BY DEF ComingInv
<1>. QED BY <1>1, <1>2, <1>3, ComingFinite, ComingNext

\* Who comes stays on its way, when it is not t that takes a step.
LEMMA OthersCome ==
  ASSUME ListInv, NEW t \in Threads, OthersSame(t), NEW c,
         \A u \in Users, h \in Hands : hand[h].entry = u => hand'[h].entry = u
  PROVE  \A u \in Coming(c) : u # t => u \in Coming(c)'
<1>1. \A u \in Users : u # t => /\ Channel(u)' = Channel(u)
                                /\ th[u].at = "woken" => th'[u].at = "woken"
  BY OthersJobs, Constants
<1>. QED BY <1>1 DEF Coming, OnItsWay

\* A thread that comes takes a message, and one that goes to sleep has found none.
LEMMA ThreadsKeepComing ==
  ASSUME CleanSignals = TRUE, DeviceInv, WaitInv, NumInv, ComingInv, NEW t \in Threads, StepOf(t)
  PROVE  ComingInv'
<1>1. /\ ListInv /\ th \in [Threads -> Doing] /\ th[t] \in Doing
      /\ mem \in [Clients -> Memory] /\ Ids \subseteq Clients /\ hand \in [Hands -> Entry]
      /\ OthersSame(t) /\ list \in Seq(Clients)
  BY Constants, StepOthers DEF DeviceInv, ListInv, Around
<1>2. SUFFICES ASSUME NEW c \in Ids, Awaited(c)'
               PROVE  Len(mem'[c].reads) <= Cardinality(Coming(c)')
  BY DEF ComingInv
<1>3. mem[c].reads \in Seq(Messages) /\ mem[c].notify \in Seq(Threads \cup {Async})
  BY <1>1, MemoryTypes
<1>4. hand' = hand => \A u \in Coming(c) : u # t => u \in Coming(c)'
  BY <1>1, OthersCome
<1>5. ASSUME t \in Coming(c), th[t].at # "woken"  PROVE th[t].at = "asleep" /\ ~Waits(c, t)
  BY <1>5, <1>1 DEF Coming, OnItsWay, WaitInv
<1>6. CASE \E d : Calm(t, d)
  <2>1. PICK d : Calm(t, d)
    BY <1>6
  <2>2. mem'[c].reads = mem[c].reads /\ mem'[c].notify = mem[c].notify /\ hand' = hand
        /\ (th[t].at = "woken" => ~Listed(Channel(t))) /\ th[t].at # "asleep"
    BY <1>1, <2>1 DEF Calm
  <2>3. Awaited(c)
    BY <1>2, <2>2 DEF Awaited, Waits
  <2>4. t \notin Coming(c)
    <3>1. SUFFICES ASSUME t \in Coming(c)  PROVE FALSE
      OBVIOUS
    <3>2. Channel(t) = c /\ ~Listed(c)
      BY <1>5, <2>2, <3>1 DEF Coming
    <3>3. ~Contains(list, c)
      <4>1. list = <<>> => ~Contains(list, c)
        BY DEF Contains
      <4>. QED BY <1>1, <3>2, <4>1 DEF Listed, DeviceInv, DeregInv, ListInv
    <3>4. mem[c].notify = <<>>
      BY <1>1, <3>3 DEF DeviceInv, MemInv, Fresh
    <3>. QED BY <2>3, <3>4 DEF Awaited, Waits, Contains
  <2>. QED BY <1>1, <1>2, <1>4, <2>2, <2>3, <2>4, ComingAlone
<1>7. CASE \E i : Takes(t, i)
  <2>1. PICK i : Takes(t, i)
    BY <1>7
  <2>2. hand' = hand /\ mem'[c].notify = mem[c].notify /\ th[t].at \in {"read", "woken"}
    BY <1>1, <2>1 DEF Takes
  <2>3. Awaited(c)
    BY <1>2, <2>2 DEF Awaited, Waits
  <2>4. CASE Channel(t) # c
    <3>1. mem'[c].reads = mem[c].reads /\ t \notin Coming(c)
      BY <1>1, <2>1, <2>4 DEF Takes, Coming
    <3>. QED BY <1>1, <1>2, <1>4, <2>2, <2>3, <3>1, ComingAlone
  <2>5. CASE Channel(t) = c
    <3>1. mem'[c].reads = RemoveAt(mem[c].reads, i) /\ i \in 1 .. Len(mem[c].reads)
      BY <1>1, <2>1, <2>5 DEF Takes
    <3>2. Len(mem'[c].reads) = Len(mem[c].reads) - 1 /\ Len(mem[c].reads) \in Nat
      BY <1>3, <3>1, RemoveAtFacts
    <3>3. Cardinality(Coming(c)) - 1 <= Cardinality(Coming(c) \ {t})
      <4>1. CASE t \in Coming(c)
        BY <4>1, ComingFinite, FS_RemoveElement
      <4>2. CASE t \notin Coming(c)
        <5>1. Coming(c) \ {t} = Coming(c)
          BY <4>2
        <5>. QED BY <5>1, ComingFinite
      <4>. QED BY <4>1, <4>2
    <3>4. Coming(c) \ {t} \subseteq Coming(c)'
      BY <1>4, <2>2
    <3>5. Cardinality(Coming(c) \ {t}) <= Cardinality(Coming(c)')
          /\ Cardinality(Coming(c) \ {t}) \in Nat
      BY <3>4, ComingNext, FS_CardinalityType
    <3>6. Len(mem[c].reads) <= Cardinality(Coming(c))
      BY <2>3 DEF ComingInv
    <3>. QED BY <3>2, <3>3, <3>5, <3>6, ComingFinite, ComingNext
  <2>. QED BY <2>4, <2>5
<1>8. CASE Sleeps(t)
  <2>1. hand' = hand /\ mem'[c].reads = mem[c].reads /\ th[t].at \in {"read", "woken"}
    BY <1>1, <1>8 DEF Sleeps
  <2>2. CASE Channel(t) # c
    <3>1. mem'[c].notify = mem[c].notify /\ t \notin Coming(c)
      BY <1>1, <1>8, <2>2 DEF Sleeps, Coming
    <3>2. Awaited(c)
      BY <1>2, <3>1 DEF Awaited, Waits
    <3>. QED BY <1>1, <1>2, <1>4, <2>1, <3>1, <3>2, ComingAlone
  <2>3. CASE Channel(t) = c
    <3>1. ReadTid(t) = 0
      BY <1>1, <2>3, Constants DEF Channel, ReadTid
    <3>2. Len(mem[c].reads) = 0
      <4>1. \A i \in 1 .. Len(mem[c].reads) : FALSE
        BY <1>8, <2>3, <3>1 DEF Sleeps
      <4>2. Len(mem[c].reads) \in Nat
        BY <1>3, LenProperties
      <4>. QED BY <4>1, <4>2
    <3>. QED BY <2>1, <3>2, ComingNext
  <2>. QED BY <2>2, <2>3
<1>9. CASE Interrupted(t)
  <2>1. hand' = hand /\ mem'[c].reads = mem[c].reads /\ th[t].at = "asleep" /\ Waits(Channel(t), t)
        /\ mem'[c].notify = IF c = Channel(t) THEN RemoveFirst(mem[c].notify, t) ELSE mem[c].notify
    BY <1>1, <1>9 DEF Interrupted
  <2>2. t \notin Coming(c)
    BY <1>5, <2>1 DEF Coming
  <2>3. Awaited(c)
    <3>1. Once(mem[c].notify)
      BY <1>1 DEF WaitInv
    <3>2. \A y : Contains(RemoveFirst(mem[c].notify, t), y) => Contains(mem[c].notify, y)
      BY <1>3, <3>1, RemoveFirstFacts
    <3>. QED BY <1>2, <2>1, <3>2 DEF Awaited, Waits
  <2>. QED BY <1>1, <1>2, <1>4, <2>1, <2>2, <2>3, ComingAlone
<1>10. CASE Adds(t) \/ Frees(t)
  <2>1. mem' = [mem EXCEPT ![th[t].c] = Fresh] /\ hand' = hand /\ th[t].at \notin {"woken", "asleep"}
    BY <1>10 DEF Adds, Frees
  <2>2. CASE c = th[t].c
    <3>1. mem'[c].notify = <<>>
      BY <1>1, <2>1, <2>2 DEF Fresh
    <3>. QED BY <1>2, <3>1 DEF Awaited, Waits, Contains
  <2>3. CASE c # th[t].c
    <3>1. mem'[c] = mem[c]
      BY <1>1, <2>1, <2>3
    <3>2. Awaited(c) /\ t \notin Coming(c)
      BY <1>2, <1>5, <2>1, <3>1 DEF Awaited, Waits, Coming, OnItsWay
    <3>. QED BY <1>1, <1>2, <1>4, <2>1, <3>1, <3>2, ComingAlone
  <2>. QED BY <2>2, <2>3
<1>11. ASSUME NEW e, Notifies(t, e)  PROVE Len(mem'[c].reads) <= Cardinality(Coming(c)')
  <2>1. /\ Pops(t, th[t].c, e) /\ mem'[c].reads = mem[c].reads /\ th[t].at \notin {"woken", "asleep"}
        /\ hand[t] = NoHand
    BY <1>1, <1>11 DEF Notifies, DeviceInv, HandInv
  <2>2. \A u \in Users, h \in Hands : hand[h].entry = u => hand'[h].entry = u
    <3>1. hand' = [hand EXCEPT ![t] = [at |-> "up", entry |-> e, c |-> th[t].c]]
      BY <2>1 DEF Pops
    <3>2. \A h \in Hands : h # t => hand'[h] = hand[h]
      BY <1>1, <3>1
    <3>3. hand[t].entry = None
      BY <2>1 DEF NoHand
    <3>. QED BY <3>2, <3>3, Constants
  <2>3. t \notin Coming(c)
    BY <1>5, <2>1 DEF Coming, OnItsWay
  <2>4. Coming(c) \subseteq Coming(c)'
    BY <1>1, <2>2, <2>3, OthersCome
  <2>5. Awaited(c)
    <3>1. Once(mem[c].notify)
      BY <1>1 DEF WaitInv
    <3>2. CASE c = th[t].c
      BY <1>2, <2>1, <3>1, <3>2 DEF Awaited, Waits, Pops
    <3>3. CASE c # th[t].c
      BY <1>1, <1>2, <2>1, <3>3 DEF Awaited, Waits, Pops
    <3>. QED BY <3>2, <3>3
  <2>. QED BY <1>1, <1>2, <2>1, <2>4, <2>5, ComingAlone
<1>. QED BY <1>6, <1>7, <1>8, <1>9, <1>10, <1>11 DEF StepOf

\* A reader whose entry a notifier has in hand is woken up by it.
LEMMA NotifiersKeepComing ==
  ASSUME DeviceInv, WaitInv, ComingInv, NEW h \in Hands, NotifyStep(h)
  PROVE  ComingInv'
<1>1. /\ ListInv /\ hand \in [Hands -> Entry] /\ hand[h] \in Entry /\ Users \subseteq Threads
  BY Constants DEF DeviceInv, ListInv, Around
<1>2. SUFFICES ASSUME NEW c \in Ids, Awaited(c)'
               PROVE  Len(mem'[c].reads) <= Cardinality(Coming(c)')
  BY DEF ComingInv
<1>3. /\ mem'[c] = mem[c]
      /\ \A u \in Threads :
           /\ th'[u].op = th[u].op /\ th'[u].c = th[u].c
           /\ th'[u].at = th[u].at \/ (th[u].at = "asleep" /\ th'[u].at = "woken" /\ hand[h].entry = u)
  BY NotifyLeaves
<1>4. \A u \in Users : Channel(u)' = Channel(u)
  BY <1>1, <1>3 DEF Channel, Asks
<1>5. \A u \in Users : hand[h].entry = u => hand'[h].entry = u \/ th'[u].at = "woken"
  <2>1. CASE UpSem(h)
    <3>. SUFFICES ASSUME NEW u \in Users, hand[h].entry = u  PROVE th'[u].at = "woken"
      OBVIOUS
    <3>1. th[u].at = "asleep" /\ u \in Threads /\ th \in [Threads -> Doing] /\ th[u] \in Doing
      BY <1>1 DEF WaitInv, DeviceInv, ListInv
    <3>2. th'[u] = [th[u] EXCEPT !.at = "woken"]
      BY <2>1, <3>1 DEF UpSem
    <3>. QED BY <3>1, <3>2 DEF Doing
  <2>2. CASE WdsCallback(h) \/ ReadAsync(h)
    <3>1. hand[h].entry = Async
      BY <2>2 DEF WdsCallback, ReadAsync, DeviceInv, HandInv
    <3>. QED BY <3>1, Constants
  <2>. QED BY <2>1, <2>2 DEF NotifyStep
<1>6. \A g \in Hands : g # h => hand'[g] = hand[g]
  BY <1>1 DEF NotifyStep, UpSem, WdsCallback, ReadAsync
<1>7. Coming(c) \subseteq Coming(c)'
  BY <1>1, <1>3, <1>4, <1>5, <1>6 DEF Coming, OnItsWay
<1>8. Awaited(c)
  BY <1>2, <1>3 DEF Awaited, Waits
<1>. QED BY <1>1, <1>2, <1>3, <1>7, <1>8, ComingAlone

\* ReadCallback sets a reader on its way with every message that it gives to a
\* client where one waits.
LEMMA PostKeepsComing ==
  ASSUME DeviceInv, WaitInv, ComingInv, PostStep
  PROVE  ComingInv'
<1>1. /\ ListInv /\ UNCHANGED <<list, th>> /\ Ids \subseteq Clients /\ hand \in [Hands -> Entry]
      /\ Users \subseteq Threads /\ ReadCb \in Hands
  BY Constants DEF DeviceInv, PostStep, ListInv, Around
<1>2. PICK i \in Nat \ {0}, to \in SUBSET Clients, m \in Messages :
        Source(i, to, m) /\ \E R : Gives(R, i, to, m)
  BY DEF PostStep
<1>3. PICK R : Gives(R, i, to, m)
  BY <1>2
<1>4. SUFFICES ASSUME NEW c \in Ids, Awaited(c)'
               PROVE  Len(mem'[c].reads) <= Cardinality(Coming(c)')
  BY DEF ComingInv
<1>5. mem[c].reads \in Seq(Messages) /\ c \in Clients
      /\ mem'[c].reads = IF c \in R THEN Append(mem[c].reads, m) ELSE mem[c].reads
  BY <1>1, <1>3, MemoryTypes DEF Gives
<1>6. hand[ReadCb] = NoHand
  BY <1>1, <1>2, <1>3, PostKeepsHands DEF PostStep, DeviceInv
<1>7. \A u : Channel(u)' = Channel(u)
  BY <1>1 DEF Channel, Asks
<1>8. ASSUME NEW x, NEW e, Pops(ReadCb, x, e)
      PROVE  /\ Coming(c) \subseteq Coming(c)' /\ Awaited(c)
             /\ x = c => e \in Coming(c)' /\ e \notin Coming(c)
  <2>1. hand' = [hand EXCEPT ![ReadCb] = [at |-> "up", entry |-> e, c |-> x]]
    BY <1>8 DEF Pops
  <2>2. hand'[ReadCb].entry = e /\ \A h \in Hands : h # ReadCb => hand'[h] = hand[h]
    BY <1>1, <2>1
  <2>3. hand[ReadCb].entry = None
    BY <1>6 DEF NoHand
  <2>4. Coming(c) \subseteq Coming(c)'
    BY <1>1, <1>7, <2>2, <2>3, Constants DEF Coming, OnItsWay
  <2>5. Awaited(c)
    <3>1. Once(mem[c].notify)
      BY <1>5 DEF WaitInv
    <3>2. CASE c = x
      BY <1>4, <1>8, <3>1, <3>2 DEF Awaited, Waits, Pops
    <3>3. CASE c # x
      BY <1>4, <1>5, <1>8, <3>3 DEF Awaited, Waits, Pops
    <3>. QED BY <3>2, <3>3
  <2>6. ASSUME x = c  PROVE e \in Coming(c)' /\ e \notin Coming(c)
    <3>1. Waits(c, e)
      BY <1>8, <2>6 DEF Pops
    <3>2. e \in Users /\ th[e].at = "asleep" /\ Channel(e) = c /\ \A h \in Hands : hand[h].entry # e
      BY <1>5, <3>1, Constants DEF WaitInv
    <3>. QED BY <1>1, <1>7, <2>2, <3>2 DEF Coming, OnItsWay
  <2>. QED BY <2>4, <2>5, <2>6
<1>9. CASE c \notin R
  <2>1. \/ hand' = hand /\ mem'[c].notify = mem[c].notify
        \/ \E x, e : Pops(ReadCb, x, e)
    BY <1>3, <1>5 DEF Gives
  <2>2. Coming(c) \subseteq Coming(c)' /\ Awaited(c)
    <3>1. CASE hand' = hand /\ mem'[c].notify = mem[c].notify
      BY <1>1, <1>4, <1>7, <3>1 DEF Coming, OnItsWay, Awaited, Waits
    <3>. QED BY <1>8, <2>1, <3>1
  <2>. QED BY <1>1, <1>4, <1>5, <1>9, <2>2, ComingAlone
<1>10. CASE c \in R
  <2>1. ~(Nobody(c, m.tid) /\ Awaited(c))
    <3>1. \A e : Waits(c, e) => EntryTid(e) = 0
      BY <1>5, Constants DEF WaitInv, EntryTid, ReadTid, Channel
    <3>. QED BY <3>1 DEF Nobody, Awaited
  <2>2. ~Nobody(c, m.tid)
    <3>1. SUFFICES ASSUME Nobody(c, m.tid)  PROVE FALSE
      OBVIOUS
    <3>2. CASE mem'[c].notify = mem[c].notify
      BY <1>4, <2>1, <3>1, <3>2 DEF Awaited, Waits
    <3>3. CASE \E x, e : Pops(ReadCb, x, e)
      BY <1>8, <2>1, <3>1, <3>3
    <3>. QED BY <1>3, <1>5, <3>2, <3>3 DEF Gives
  <2>x. PICK x \in R : \E e : /\ \A y \in R : y # x => Nobody(y, m.tid)
                              /\ Pops(ReadCb, x, e)
    BY <1>3, <1>10, <2>2 DEF Gives
  <2>3. PICK e : /\ \A y \in R : y # x => Nobody(y, m.tid)
                 /\ Pops(ReadCb, x, e)
    BY <2>x
  <2>4. x = c
    BY <1>10, <2>2, <2>3
  <2>5. Coming(c) \cup {e} \subseteq Coming(c)' /\ e \notin Coming(c) /\ Awaited(c)
    BY <1>8, <2>3, <2>4
  <2>6. Cardinality(Coming(c) \cup {e}) = Cardinality(Coming(c)) + 1
    BY <2>5, ComingFinite, FS_AddElement
  <2>7. Cardinality(Coming(c) \cup {e}) <= Cardinality(Coming(c)')
    BY <2>5, ComingNext
  <2>8. Len(mem'[c].reads) = Len(mem[c].reads) + 1 /\ Len(mem[c].reads) \in Nat
    BY <1>2, <1>5, <1>10, AppendFacts
  <2>9. Len(mem[c].reads) <= Cardinality(Coming(c))
    BY <2>5 DEF ComingInv
  <2>. QED BY <2>6, <2>7, <2>8, <2>9, ComingFinite, ComingNext
<1>. QED BY <1>9, <1>10

\* At first there are no messages, ...
LEMMA ComingInit == Init => ComingInv
<1>. SUFFICES ASSUME Init PROVE ComingInv
  OBVIOUS
<1>1. \A c \in Ids : mem[c].notify = <<>>
  BY Constants DEF Init, Fresh
<1>. QED BY <1>1 DEF ComingInv, Awaited, Waits, Contains

\* ... and every step keeps readers coming.
LEMMA ComingKept ==
  Overlap = FALSE /\ CleanSignals = TRUE /\ DeviceInv /\ WaitInv /\ NumInv /\ ComingInv
    /\ [Next]_vars => ComingInv'
<1>. SUFFICES ASSUME Overlap = FALSE, CleanSignals = TRUE, DeviceInv, WaitInv, NumInv, ComingInv,
                     [Next]_vars
              PROVE  ComingInv'
  OBVIOUS
<1>1. CASE UNCHANGED vars
  BY <1>1 DEF vars, ComingInv, Awaited, Waits, Coming, OnItsWay, Channel, Asks
<1>2. CASE Next
  BY <1>2, NextKinds, ThreadsKeepComing, NotifiersKeepComing, PostKeepsComing DEF DeviceInv
<1>. QED BY <1>1, <1>2

-----------------------------------------------------------------------------
(* Who has a client                                                         *)

\* The id c is in a message of s.
HasId(s, c) == \E i \in 1 .. Len(s) : s[i].id = c
IdsOnce(s) == \A i, j \in 1 .. Len(s) : s[i].id = s[j].id /\ s[i].id # None => i = j

\* A client id that the modem has assigned is with a file, with a thread that
\* registers it, in an unread answer, with a thread whose release is not sent yet,
\* or in a release that the modem has not handled yet.
Owns(k, x, c) ==
  \/ k = "file" /\ x \in Files /\ file[x] = c
  \/ k = "registers" /\ x \in Users /\ th[x].at = "register" /\ th[x].c = c
  \/ k = "answer" /\ x = c /\ HasId(mem[Ctl].reads, c)
  \/ /\ k = "releases" /\ x \in Users
     /\ th[x].op = "release" /\ th[x].at \in {"write", "urb"} /\ th[x].c = c
  \/ k = "request" /\ x \in pending /\ x.op = "release" /\ x.c = c

\* It is with one of them only, and then the modem has assigned it.
OneOwner ==
  \A c \in Ids : \A k, x : Owns(k, x, c) =>
    c \in assigned /\ \A l, y : Owns(l, y, c) => l = k /\ y = x

OwnInv == OneOwner /\ IdsOnce(mem[Ctl].reads)

\* Before deregistration the client of a file has memory, and who releases one is
\* alone with it.
EarlyInv ==
  th[Dereg].at = "idle" =>
    /\ \A f \in Files : file[f] # None => Contains(list, file[f])
    /\ \A t \in Users : th[t].op = "release" =>
         Contains(list, th[t].c) /\ \A f \in Files : file[f] # th[t].c
    /\ \A t, u \in Users :
         th[t].op = "release" /\ th[u].op = "release" /\ th[t].c = th[u].c => t = u

\* Owners get no more, ...
LEMMA OwnersLess ==
  ASSUME OneOwner, assigned' = assigned, \A c \in Ids : \A k, x : Owns(k, x, c)' => Owns(k, x, c)
  PROVE  OneOwner'
  BY DEF OneOwner

\* ... or one hands over to another.
HandsOver(k0, x0, k1, x1) ==
  \A c \in Ids : \A k, x : Owns(k, x, c)' =>
    \/ Owns(k, x, c) /\ (k # k0 \/ x # x0)
    \/ k = k1 /\ x = x1 /\ Owns(k0, x0, c)

\* ... and who is alone before is so after that.
LEMMA OwnerHandsOver ==
  ASSUME OneOwner, assigned' = assigned, NEW k0, NEW x0, NEW k1, NEW x1,
         HandsOver(k0, x0, k1, x1)
  PROVE  OneOwner'
<1>. USE DEF HandsOver
<1>. SUFFICES ASSUME NEW c \in Ids, NEW k, NEW x, Owns(k, x, c)'
              PROVE  c \in assigned /\ \A l, y : Owns(l, y, c)' => l = k /\ y = x
  BY DEF OneOwner
<1>1. \A l, y, k2, x2 : Owns(l, y, c) /\ Owns(k2, x2, c) => l = k2 /\ y = x2
  BY DEF OneOwner
<1>2. \A l, y : Owns(l, y, c) => c \in assigned
  BY DEF OneOwner
<1>3. c \in assigned
  BY <1>2
<1>4. ASSUME NEW l, NEW y, Owns(l, y, c)'  PROVE l = k /\ y = x
  <2>1. CASE Owns(k, x, c) /\ (k # k0 \/ x # x0)
    <3>1. ~Owns(k0, x0, c)
      BY <1>1, <2>1
    <3>2. Owns(l, y, c)
      BY <1>4, <3>1
    <3>. QED BY <1>1, <2>1, <3>2
  <2>2. CASE k = k1 /\ x = x1 /\ Owns(k0, x0, c)
    <3>1. Owns(l, y, c) => ~(l # k0 \/ y # x0)
      BY <1>1, <2>2
    <3>. QED BY <1>4, <2>2, <3>1
  <2>. QED BY <2>1, <2>2
<1>. QED BY <1>3, <1>4

\* The messages of Ctl after a step of a thread.
LEMMA RemoveKeepsOnce ==
  ASSUME NEW s \in Seq(Messages), NEW i \in 1 .. Len(s), IdsOnce(s)
  PROVE  IdsOnce(RemoveAt(s, i)) /\ (s[i].id # None => ~HasId(RemoveAt(s, i), s[i].id))
<1>. DEFINE r == RemoveAt(s, i)
            from(j) == IF j < i THEN j ELSE j + 1
<1>1. /\ Len(r) = Len(s) - 1 /\ Len(s) \in Nat /\ i \in Nat
      /\ \A j \in 1 .. Len(s) - 1 : r[j] = s[from(j)] /\ from(j) \in 1 .. Len(s) /\ from(j) # i
  BY RemoveAtFacts
<1>2. \A j, k \in 1 .. Len(s) - 1 : from(j) = from(k) => j = k
  BY <1>1
<1>. HIDE DEF r, from
<1>3. IdsOnce(r)
  BY <1>1, <1>2 DEF IdsOnce
<1>4. s[i].id # None => ~HasId(r, s[i].id)
  BY <1>1 DEF IdsOnce, HasId
<1>. QED BY <1>3, <1>4 DEF r

\* A thread takes an answer away for good.
LEMMA ThreadsKeepOnce ==
  ASSUME DeviceInv, NEW t \in Threads, StepOf(t), IdsOnce(mem[Ctl].reads)
  PROVE  /\ IdsOnce(mem'[Ctl].reads)
         /\ \A c \in Ids : HasId(mem'[Ctl].reads, c) => HasId(mem[Ctl].reads, c)
         /\ \A i : Takes(t, i) /\ Channel(t) = Ctl /\ mem[Ctl].reads[i].id \in Ids =>
              ~HasId(mem'[Ctl].reads, mem[Ctl].reads[i].id)
<1>1. /\ ListInv /\ mem \in [Clients -> Memory] /\ Ctl \in Clients /\ None \notin Ids
      /\ mem[Ctl].reads \in Seq(Messages)
  BY Constants, MemoryTypes DEF DeviceInv, ListInv, Around
<1>2. \A c \in Ids : HasId(mem'[Ctl].reads, c) => HasId(mem[Ctl].reads, c)
  BY CtlReadsShrink DEF HasId
<1>3. ASSUME NEW i, Takes(t, i), Channel(t) = Ctl
      PROVE  /\ IdsOnce(mem'[Ctl].reads)
             /\ mem[Ctl].reads[i].id \in Ids => ~HasId(mem'[Ctl].reads, mem[Ctl].reads[i].id)
  <2>1. mem'[Ctl].reads = RemoveAt(mem[Ctl].reads, i) /\ i \in 1 .. Len(mem[Ctl].reads)
    BY <1>1, <1>3 DEF Takes
  <2>. QED BY <1>1, <2>1, RemoveKeepsOnce
<1>4. ASSUME \E i : Takes(t, i)  PROVE IdsOnce(mem'[Ctl].reads)
  <2>1. PICK i : Takes(t, i)
    BY <1>4
  <2>2. ASSUME Channel(t) # Ctl  PROVE IdsOnce(mem'[Ctl].reads)
    <3>1. mem'[Ctl].reads = mem[Ctl].reads
      BY <1>1, <2>1, <2>2 DEF Takes
    <3>. QED BY <3>1 DEF IdsOnce
  <2>. QED BY <1>3, <2>1, <2>2
<1>5. ASSUME (\E d : Calm(t, d)) \/ Sleeps(t) \/ Interrupted(t) \/ \E e : Notifies(t, e)
      PROVE  IdsOnce(mem'[Ctl].reads)
  <2>1. mem'[Ctl].reads = mem[Ctl].reads
    BY <1>1, <1>5 DEF Calm, Sleeps, Interrupted, Notifies
  <2>. QED BY <2>1 DEF IdsOnce
<1>6. ASSUME Adds(t) \/ Frees(t)  PROVE IdsOnce(mem'[Ctl].reads)
  <2>1. mem' = [mem EXCEPT ![th[t].c] = Fresh]
    BY <1>6 DEF Adds, Frees
  <2>2. mem'[Ctl] = mem[Ctl] \/ mem'[Ctl].reads = <<>>
    BY <1>1, <2>1 DEF Fresh
  <2>. QED BY <2>2 DEF IdsOnce
<1>7. IdsOnce(mem'[Ctl].reads)
  BY <1>4, <1>5, <1>6 DEF StepOf
<1>. QED BY <1>2, <1>3, <1>7

\* Who is not concerned in a step of t owns no more after it.
LEMMA OthersOwn ==
  ASSUME DeviceInv, OwnInv, NEW t \in Threads, StepOf(t), OthersSame(t)
  PROVE  \A c \in Ids : \A k, x : Owns(k, x, c)' =>
           \/ Owns(k, x, c) /\ ~(x = t /\ t \in Users /\ k \in {"registers", "releases"})
           \/ x = t /\ t \in Users /\ k = "registers" /\ th'[t].at = "register" /\ th'[t].c = c
           \/ x = t /\ t \in Users /\ k = "releases" /\ th'[t].op = "release"
                /\ th'[t].at \in {"write", "urb"} /\ th'[t].c = c
           \/ k = "file" /\ x \in Files /\ file' # file /\ file'[x] = c
           \/ k = "request" /\ x \in pending' /\ pending' # pending /\ x.op = "release" /\ x.c = c
<1>. SUFFICES ASSUME NEW c \in Ids, NEW k, NEW x, Owns(k, x, c)'
              PROVE
           \/ Owns(k, x, c) /\ ~(x = t /\ t \in Users /\ k \in {"registers", "releases"})
           \/ x = t /\ t \in Users /\ k = "registers" /\ th'[t].at = "register" /\ th'[t].c = c
           \/ x = t /\ t \in Users /\ k = "releases" /\ th'[t].op = "release"
                /\ th'[t].at \in {"write", "urb"} /\ th'[t].c = c
           \/ k = "file" /\ x \in Files /\ file' # file /\ file'[x] = c
           \/ k = "request" /\ x \in pending' /\ pending' # pending /\ x.op = "release" /\ x.c = c
  OBVIOUS
<1>1. ListInv /\ Users \subseteq Threads
  BY Constants DEF DeviceInv
<1>2. CASE k = "file" /\ x \in Files /\ file'[x] = c
  BY <1>2 DEF Owns
<1>3. CASE k = "registers" /\ x \in Users /\ th'[x].at = "register" /\ th'[x].c = c
  <2>1. x # t => th[x].at = "register" /\ th[x].c = c
    BY <1>1, <1>3, OthersJobs
  <2>. QED BY <1>3, <2>1 DEF Owns
<1>4. CASE k = "answer" /\ x = c /\ HasId(mem'[Ctl].reads, c)
  <2>1. HasId(mem[Ctl].reads, c)
    BY <1>4, ThreadsKeepOnce DEF OwnInv
  <2>. QED BY <1>4, <2>1 DEF Owns
<1>5. CASE /\ k = "releases" /\ x \in Users
           /\ th'[x].op = "release" /\ th'[x].at \in {"write", "urb"} /\ th'[x].c = c
  <2>1. x # t => th[x].op = "release" /\ th[x].at \in {"write", "urb"} /\ th[x].c = c
    BY <1>1, <1>5, OthersJobs
  <2>. QED BY <1>5, <2>1 DEF Owns
<1>6. CASE k = "request" /\ x \in pending' /\ x.op = "release" /\ x.c = c
  BY <1>6 DEF Owns
<1>7. HasId(mem[Ctl].reads, c)' <=> HasId(mem'[Ctl].reads, c)
  BY DEF HasId
<1>. QED BY <1>2, <1>3, <1>4, <1>5, <1>6, <1>7 DEF Owns

\* A thread hands over the client that it closes, asks for, or releases; ...
LEMMA UsersKeepOwners ==
  ASSUME DeviceInv, NumInv, OwnInv, NEW t \in Users, UserStep(t)
  PROVE  OwnInv'
<1>1. /\ ListInv /\ th \in [Threads -> Doing] /\ t \in Threads /\ th[t] \in Doing
      /\ file \in [Files -> Ids \cup {None}] /\ None \notin Ids
      /\ StepOf(t) /\ OthersSame(t) /\ assigned' = assigned /\ Busy(th[t])
  BY Constants DEF DeviceInv, ListInv, Around, UserStep
<1>2. \A c \in Ids : \A k, x : Owns(k, x, c)' =>
           \/ Owns(k, x, c) /\ ~(x = t /\ t \in Users /\ k \in {"registers", "releases"})
           \/ x = t /\ t \in Users /\ k = "registers" /\ th'[t].at = "register" /\ th'[t].c = c
           \/ x = t /\ t \in Users /\ k = "releases" /\ th'[t].op = "release"
                /\ th'[t].at \in {"write", "urb"} /\ th'[t].c = c
           \/ k = "file" /\ x \in Files /\ file' # file /\ file'[x] = c
           \/ k = "request" /\ x \in pending' /\ pending' # pending /\ x.op = "release" /\ x.c = c
  BY <1>1, OthersOwn
<1>3. IdsOnce(mem[Ctl].reads)'
  <2>1. IdsOnce(mem'[Ctl].reads)
    BY <1>1, ThreadsKeepOnce DEF OwnInv
  <2>. QED BY <2>1 DEF IdsOnce
<1>4. OneOwner
  BY DEF OwnInv
<1>5. CASE Begins(t)
  <2>1. th'[t].at = "write" /\ th'[t].op = "get" /\ file' = file /\ pending' = pending
    BY <1>5, Fields DEF Begins
  <2>2. \A c \in Ids : \A k, x : Owns(k, x, c)' => Owns(k, x, c)
    BY <1>2, <2>1
  <2>. QED BY <1>1, <1>3, <1>4, <2>2, OwnersLess DEF OwnInv
<1>6. ASSUME NEW f, Closes(t, f)  PROVE OwnInv'
  <2>1. /\ f \in Files /\ file[f] \in Ids /\ file' = [file EXCEPT ![f] = None] /\ pending' = pending
        /\ th'[t].at = "write" /\ th'[t].op = "release" /\ th'[t].c = file[f]
    BY <1>6, Fields DEF Closes
  <2>2. \A c \in Ids : \A k, x : Owns(k, x, c)' =>
          \/ Owns(k, x, c) /\ (k # "file" \/ x # f)
          \/ k = "releases" /\ x = t /\ Owns("file", f, c)
    <3>. SUFFICES ASSUME NEW c \in Ids, NEW k, NEW x, Owns(k, x, c)'
                  PROVE  \/ Owns(k, x, c) /\ (k # "file" \/ x # f)
                         \/ k = "releases" /\ x = t /\ Owns("file", f, c)
      OBVIOUS
    <3>1. CASE k = "file" /\ x \in Files /\ file'[x] = c
      <4>1. x # f /\ file[x] = c
        BY <1>1, <2>1, <3>1
      <4>. QED BY <3>1, <4>1 DEF Owns
    <3>2. CASE x = t /\ k = "releases" /\ th'[t].c = c
      BY <2>1, <3>2 DEF Owns
    <3>3. CASE Owns(k, x, c) /\ k # "file"
      BY <3>3
    <3>4. k = "file" => x \in Files /\ file'[x] = c
      BY DEF Owns
    <3>. QED BY <1>2, <2>1, <3>1, <3>2, <3>3, <3>4
  <2>8. HandsOver("file", f, "releases", t)
    BY <2>2 DEF HandsOver
  <2>9. OneOwner'
    BY <1>1, <1>4, <2>8, OwnerHandsOver
  <2>. QED BY <1>3, <2>9 DEF OwnInv
<1>7. CASE AsksNothing(t)
  <2>1. \A c \in Ids : \A k, x : Owns(k, x, c)' => Owns(k, x, c)
    BY <1>2, <1>7 DEF AsksNothing
  <2>. QED BY <1>1, <1>3, <1>4, <2>1, OwnersLess DEF OwnInv
<1>8. CASE GoesOn(t)
  <2>1. \A c \in Ids : \A k, x : Owns(k, x, c)' => Owns(k, x, c)
    BY <1>2, <1>8 DEF GoesOn, SameJob, Owns
  <2>. QED BY <1>1, <1>3, <1>4, <2>1, OwnersLess DEF OwnInv
<1>9. CASE Sends(t)
  <2>. DEFINE r == [n |-> th[t].n, op |-> th[t].op, c |-> th[t].c]
  <2>1. /\ file' = file /\ pending' = pending \cup {r} /\ th'[t].at = "sent" /\ th[t].at = "urb"
        /\ r.op = th[t].op /\ r.c = th[t].c
    BY <1>9 DEF Sends
  <2>. HIDE DEF r
  <2>2. \A c \in Ids : \A k, x : Owns(k, x, c)' =>
          \/ Owns(k, x, c) /\ (k # "releases" \/ x # t)
          \/ k = "request" /\ x = r /\ Owns("releases", t, c)
    <3>. SUFFICES ASSUME NEW c \in Ids, NEW k, NEW x, Owns(k, x, c)'
                  PROVE  \/ Owns(k, x, c) /\ (k # "releases" \/ x # t)
                         \/ k = "request" /\ x = r /\ Owns("releases", t, c)
      OBVIOUS
    <3>1. CASE k = "request" /\ x \in pending' /\ x.op = "release" /\ x.c = c
      <4>1. CASE x \in pending
        BY <3>1, <4>1 DEF Owns
      <4>2. CASE x = r
        BY <2>1, <3>1, <4>2 DEF Owns
      <4>. QED BY <2>1, <3>1, <4>1, <4>2
    <3>2. CASE Owns(k, x, c) /\ ~(x = t /\ t \in Users /\ k \in {"registers", "releases"})
      BY <3>2
    <3>. QED BY <1>2, <2>1, <3>1, <3>2
  <2>8. HandsOver("releases", t, "request", r)
    BY <2>2 DEF HandsOver
  <2>9. OneOwner'
    BY <1>1, <1>4, <2>8, OwnerHandsOver
  <2>. QED BY <1>3, <2>9 DEF OwnInv
<1>10. CASE Reads(t)
  <2>1. PICK i : Takes(t, i)
    BY <1>10 DEF Reads
  <2>. DEFINE m == mem[Channel(t)].reads[i]
  <2>2. m \in Messages /\ i \in 1 .. Len(mem[Channel(t)].reads)
    <3>1. Channel(t) \in Clients
      BY <1>1, <2>1, ReaderHasClient DEF Takes
    <3>. QED BY <1>1, <2>1, <3>1, MemoryTypes, ElementOfSeq DEF Takes
  <2>3. th'[t] = Got(t, m) /\ UNCHANGED <<file, pending>>
    BY <1>1, <1>10, <2>1 DEF Takes, Reads
  <2>. HIDE DEF m
  <2>4. \/ th'[t] = Rest
        \/ th[t].op = "get" /\ th'[t].op = "get" /\ th'[t].at = "register" /\ th'[t].c = m.id /\ m.id \in Ids
        \/ th'[t].at = "cleanup"
    BY <1>1, <2>2, <2>3, GotJob
  <2>5. CASE th'[t] = Rest \/ th'[t].at = "cleanup"
    <3>1. th'[t].at \in {"idle", "cleanup"}
      BY <2>5, Fields
    <3>2. \A c \in Ids : \A k, x : Owns(k, x, c)' => Owns(k, x, c)
      BY <1>2, <2>3, <3>1
    <3>. QED BY <1>1, <1>3, <1>4, <3>2, OwnersLess DEF OwnInv
  <2>6. CASE th[t].op = "get" /\ th'[t].op = "get" /\ th'[t].at = "register" /\ th'[t].c = m.id /\ m.id \in Ids
    <3>1. Channel(t) = Ctl
      BY <2>6 DEF Channel, Asks
    <3>2. ~HasId(mem'[Ctl].reads, m.id) /\ HasId(mem[Ctl].reads, m.id)
      BY <1>1, <2>1, <2>2, <2>6, <3>1, ThreadsKeepOnce DEF OwnInv, HasId, m
    <3>3. \A c \in Ids : \A k, x : Owns(k, x, c)' =>
            \/ Owns(k, x, c) /\ (k # "answer" \/ x # m.id)
            \/ k = "registers" /\ x = t /\ Owns("answer", m.id, c)
      <4>. SUFFICES ASSUME NEW c \in Ids, NEW k, NEW x, Owns(k, x, c)'
                    PROVE  \/ Owns(k, x, c) /\ (k # "answer" \/ x # m.id)
                           \/ k = "registers" /\ x = t /\ Owns("answer", m.id, c)
        OBVIOUS
      <4>1. CASE k = "registers" /\ x = t /\ th'[t].c = c
        BY <2>6, <3>2, <4>1 DEF Owns
      <4>2. CASE k = "answer" /\ x = m.id
        <5>1. x = c /\ HasId(mem'[Ctl].reads, c)
          BY <4>2 DEF Owns, HasId
        <5>. QED BY <3>2, <4>2, <5>1
      <4>. QED BY <1>2, <2>3, <2>6, <4>1, <4>2
    <3>8. HandsOver("answer", m.id, "registers", t)
      BY <3>3 DEF HandsOver
    <3>9. OneOwner'
      BY <1>1, <1>4, <3>8, OwnerHandsOver
    <3>. QED BY <1>3, <3>9 DEF OwnInv
  <2>. QED BY <2>4, <2>5, <2>6
<1>11. CASE Gets(t)
  <2>. DEFINE f == th[t].file
  <2>1. /\ th[t].at = "register" /\ f \in Files /\ file' = [file EXCEPT ![f] = th[t].c]
        /\ th'[t].at = "idle" /\ pending' = pending
    BY <1>1, <1>11, Fields DEF Gets, Adds, Busy
  <2>. HIDE DEF f
  <2>2. \A c \in Ids : \A k, x : Owns(k, x, c)' =>
          \/ Owns(k, x, c) /\ (k # "registers" \/ x # t)
          \/ k = "file" /\ x = f /\ Owns("registers", t, c)
    <3>. SUFFICES ASSUME NEW c \in Ids, NEW k, NEW x, Owns(k, x, c)'
                  PROVE  \/ Owns(k, x, c) /\ (k # "registers" \/ x # t)
                         \/ k = "file" /\ x = f /\ Owns("registers", t, c)
      OBVIOUS
    <3>1. CASE k = "file" /\ x \in Files /\ file'[x] = c
      <4>1. CASE x = f
        <5>1. th[t].c = c
          BY <1>1, <2>1, <3>1, <4>1
        <5>. QED BY <2>1, <3>1, <4>1, <5>1 DEF Owns
      <4>2. CASE x # f
        <5>1. file[x] = c
          BY <1>1, <2>1, <3>1, <4>2
        <5>. QED BY <3>1, <5>1 DEF Owns
      <4>. QED BY <4>1, <4>2
    <3>2. CASE Owns(k, x, c) /\ ~(x = t /\ t \in Users /\ k \in {"registers", "releases"})
      BY <3>2
    <3>. QED BY <1>2, <2>1, <3>1, <3>2
  <2>8. HandsOver("registers", t, "file", f)
    BY <2>2 DEF HandsOver
  <2>9. OneOwner'
    BY <1>1, <1>4, <2>8, OwnerHandsOver
  <2>. QED BY <1>3, <2>9 DEF OwnInv
<1>. QED BY <1>5, <1>6, <1>7, <1>8, <1>9, <1>10, <1>11 DEF UserStep, JobStep

\* ... deregistration and notifications do not; ...
LEMMA DeregKeepsOwners ==
  ASSUME DeviceInv, OwnInv, DeregStep
  PROVE  OwnInv'
<1>1. /\ Dereg \in Threads /\ Dereg \notin Users
      /\ StepOf(Dereg) /\ OthersSame(Dereg) /\ UNCHANGED <<file, pending, assigned>>
  BY Constants DEF DeregStep, DeregJob
<1>2. \A c \in Ids : \A k, x : Owns(k, x, c)' => Owns(k, x, c)
  BY <1>1, OthersOwn
<1>3. IdsOnce(mem'[Ctl].reads)
  BY <1>1, ThreadsKeepOnce DEF OwnInv
<1>. QED BY <1>1, <1>2, <1>3, OwnersLess DEF OwnInv, IdsOnce

\* ... notifications do not either; ...
LEMMA NotifiersKeepOwners ==
  ASSUME DeviceInv, WaitInv, OwnInv, NEW h \in Hands, NotifyStep(h)
  PROVE  OwnInv'
<1>1. /\ UNCHANGED <<file, pending, assigned>> /\ mem'[Ctl] = mem[Ctl]
      /\ \A u \in Users :
           /\ th'[u].op = th[u].op /\ th'[u].c = th[u].c
           /\ th'[u].at = th[u].at \/ (th[u].at = "asleep" /\ th'[u].at = "woken")
  BY NotifyLeaves, Constants
<1>2. \A c \in Ids : \A k, x : Owns(k, x, c)' => Owns(k, x, c)
  BY <1>1 DEF Owns, HasId
<1>. QED BY <1>1, <1>2, OwnersLess DEF OwnInv, IdsOnce

\* ... the modem assigns an id that nobody has, and releases it when only the
\* request has it left.
LEMMA PostKeepsOwners ==
  ASSUME DeviceInv, NumInv, OwnInv, PostStep
  PROVE  OwnInv'
<1>1. /\ ListInv /\ UNCHANGED <<list, file, th>> /\ mem[Ctl].reads \in Seq(Messages) /\ Ctl \in Clients
      /\ None \notin Ids /\ Ctl \notin Ids /\ Ctl # Wds
      /\ pending \subseteq [n : Nat, op : {"get", "release"}, c : Clients \cup {None}]
  BY Constants, MemoryTypes DEF DeviceInv, PostStep, ListInv, Around
<1>2. PICK i \in Nat \ {0}, to \in SUBSET Clients, m \in Messages :
        Source(i, to, m) /\ \E R : Gives(R, i, to, m)
  BY DEF PostStep
<1>3. PICK R : Gives(R, i, to, m)
  BY <1>2
<1>4. mem'[Ctl].reads = IF Ctl \in R THEN Append(mem[Ctl].reads, m) ELSE mem[Ctl].reads
  BY <1>1, <1>3 DEF Gives
<1>5. ASSUME pending' = pending, assigned' = assigned, Ctl \notin R  PROVE OwnInv'
  <2>1. mem'[Ctl].reads = mem[Ctl].reads
    BY <1>4, <1>5
  <2>2. \A c \in Ids : \A k, x : Owns(k, x, c)' => Owns(k, x, c)
    BY <1>1, <1>5, <2>1 DEF Owns, HasId
  <2>. QED BY <1>5, <2>1, <2>2, OwnersLess DEF OwnInv, IdsOnce
<1>6. CASE cb = NoCb /\ to \subseteq {Wds} \cup Ids /\ m = NoMsg /\ UNCHANGED <<pending, assigned>>
  <2>1. Ctl \notin R
    BY <1>1, <1>3, <1>6 DEF Gives, Reach
  <2>. QED BY <1>5, <1>6, <2>1
<1>7. CASE /\ cb # NoCb /\ hand[ReadCb] = NoHand /\ to = cb.to /\ m = cb.msg
           /\ i = IF Place(list, cb.c) = 0 THEN Len(list) + 1 ELSE Place(list, cb.c) + 1
           /\ UNCHANGED <<pending, assigned>>
  <2>1. Ctl \notin R
    <3>1. SUFFICES ASSUME Ctl \in R  PROVE FALSE
      OBVIOUS
    <3>2. Ctl \in to /\ \E j \in i .. Len(list) : list[j] = Ctl
      BY <1>3, <3>1 DEF Gives, Reach
    <3>3. cb.to = {Ctl} /\ cb.c = Ctl
      BY <1>1, <1>7, <3>2 DEF DeviceInv, HandInv
    <3>4. list \in Seq(Clients) /\ Len(list) \in Nat /\ Once(list) /\ Place(list, Ctl) \in Nat
      BY <1>1, LenProperties, PlaceFacts DEF ListInv
    <3>5. PICK j \in i .. Len(list) : list[j] = Ctl
      BY <3>2
    <3>6. j \in 1 .. Len(list) /\ i \in Nat
      BY <1>2, <3>4, <3>5
    <3>7. Contains(list, Ctl)
      BY <3>5, <3>6 DEF Contains
    <3>8. Place(list, Ctl) \in 1 .. Len(list) /\ list[Place(list, Ctl)] = Ctl
      BY <3>4, <3>7, PlaceFacts
    <3>9. Place(list, Ctl) = j /\ i = Place(list, Ctl) + 1
      BY <1>7, <3>3, <3>4, <3>5, <3>6, <3>8 DEF Once
    <3>. QED BY <3>4, <3>5, <3>9
  <2>. QED BY <1>5, <1>7, <2>1
<1>8. ASSUME cb = NoCb, to = {Ctl}, NEW r \in pending, NEW id \in Ids \cup {None},
             m = [n |-> r.n, tid |-> TidOf(r.n), id |-> id], pending' = pending \ {r},
             \/ r.op = "get" /\ assigned' = assigned \cup ({id} \ {None}) /\ id \notin assigned
             \/ r.op # "get" /\ assigned' = assigned \ {r.c} /\ id = None
      PROVE  OwnInv'
  <2>1. m.id = id
    BY <1>8
  <2>2. \A c \in Ids : HasId(mem'[Ctl].reads, c) => HasId(mem[Ctl].reads, c) \/ c = id
    <3>1. \A c : HasId(Append(mem[Ctl].reads, m), c) => HasId(mem[Ctl].reads, c) \/ c = id
      BY <1>1, <1>2, <2>1, AppendFacts DEF HasId
    <3>. QED BY <1>4, <3>1
  <2>3. \A c \in Ids : \A k, x : Owns(k, x, c)' =>
          \/ Owns(k, x, c) /\ (k # "request" \/ x # r)
          \/ k = "answer" /\ x = c /\ c = id
    <3>. SUFFICES ASSUME NEW c \in Ids, NEW k, NEW x, Owns(k, x, c)'
                  PROVE  \/ Owns(k, x, c) /\ (k # "request" \/ x # r)
                         \/ k = "answer" /\ x = c /\ c = id
      OBVIOUS
    <3>1. CASE k = "answer" /\ x = c /\ HasId(mem'[Ctl].reads, c)
      BY <2>2, <3>1 DEF Owns
    <3>2. CASE k = "request" /\ x \in pending' /\ x.op = "release" /\ x.c = c
      BY <1>8, <3>2 DEF Owns
    <3>3. HasId(mem[Ctl].reads, c)' <=> HasId(mem'[Ctl].reads, c)
      BY DEF HasId
    <3>. QED BY <1>1, <3>1, <3>2, <3>3 DEF Owns
  <2>4. CASE r.op = "get" /\ assigned' = assigned \cup ({id} \ {None}) /\ id \notin assigned
    <3>1. id \in Ids => \A k, x : ~Owns(k, x, id)
      BY <2>4 DEF OwnInv, OneOwner
    <3>2. OneOwner'
      <4>. SUFFICES ASSUME NEW c \in Ids, NEW k, NEW x, Owns(k, x, c)'
                    PROVE  c \in assigned' /\ \A l, y : Owns(l, y, c)' => l = k /\ y = x
        BY DEF OneOwner
      <4>1. CASE c = id
        <5>1. \A l, y : Owns(l, y, c)' => l = "answer" /\ y = c
          BY <2>3, <3>1, <4>1
        <5>. QED BY <1>1, <2>4, <4>1, <5>1
      <4>2. CASE c # id
        <5>1. \A l, y : Owns(l, y, c)' => Owns(l, y, c)
          BY <2>3, <4>2
        <5>. QED BY <2>4, <5>1 DEF OwnInv, OneOwner
      <4>. QED BY <4>1, <4>2
    <3>3. IdsOnce(mem'[Ctl].reads)
      <4>1. id \in Ids => ~HasId(mem[Ctl].reads, id)
        BY <3>1 DEF Owns
      <4>2. IdsOnce(Append(mem[Ctl].reads, m))
        <5>1. IdsOnce(mem[Ctl].reads)
          BY DEF OwnInv
        <5>. QED BY <1>1, <1>2, <2>1, <4>1, <5>1, AppendFacts DEF IdsOnce, HasId
      <4>. QED BY <1>4, <4>2 DEF OwnInv, IdsOnce
    <3>. QED BY <3>2, <3>3 DEF OwnInv, IdsOnce
  <2>5. CASE r.op # "get" /\ assigned' = assigned \ {r.c} /\ id = None
    <3>1. r.op = "release"
      BY <1>1, <2>5
    <3>2. OneOwner'
      <4>. SUFFICES ASSUME NEW c \in Ids, NEW k, NEW x, Owns(k, x, c)'
                    PROVE  c \in assigned' /\ \A l, y : Owns(l, y, c)' => l = k /\ y = x
        BY DEF OneOwner
      <4>1. \A l, y : Owns(l, y, c)' => Owns(l, y, c) /\ (l # "request" \/ y # r)
        BY <1>1, <2>3, <2>5
      <4>2. c # r.c
        <5>1. c = r.c => Owns("request", r, c)
          BY <3>1 DEF Owns
        <5>. QED BY <4>1, <5>1 DEF OwnInv, OneOwner
      <4>. QED BY <2>5, <4>1, <4>2 DEF OwnInv, OneOwner
    <3>3. IdsOnce(mem'[Ctl].reads)
      <4>1. IdsOnce(Append(mem[Ctl].reads, m))
        <5>1. IdsOnce(mem[Ctl].reads)
          BY DEF OwnInv
        <5>. QED BY <1>1, <1>2, <2>1, <2>5, <5>1, AppendFacts DEF IdsOnce
      <4>. QED BY <1>4, <4>1 DEF OwnInv, IdsOnce
    <3>. QED BY <3>2, <3>3 DEF OwnInv, IdsOnce
  <2>. QED BY <1>8, <2>4, <2>5
<1>9. CASE /\ cb = NoCb /\ to = {Ctl}
           /\ \E r \in pending, id \in Ids \cup {None} :
                /\ m = [n |-> r.n, tid |-> TidOf(r.n), id |-> id]
                /\ pending' = pending \ {r}
                /\ \/ r.op = "get" /\ assigned' = assigned \cup ({id} \ {None}) /\ id \notin assigned
                   \/ r.op # "get" /\ assigned' = assigned \ {r.c} /\ id = None
  BY <1>8, <1>9
<1>. QED BY <1>2, <1>6, <1>7, <1>9 DEF Source

\* At first no client is assigned, ...
LEMMA OwnInit == Init => OwnInv
<1>. SUFFICES ASSUME Init PROVE OwnInv
  OBVIOUS
<1>1. /\ \A t \in Users : th[t] = Rest
      /\ mem[Ctl].reads = <<>> /\ pending = {} /\ \A f \in Files : file[f] = None
      /\ None \notin Ids
  BY Constants DEF Init, Fresh
<1>2. \A c \in Ids : \A k, x : ~Owns(k, x, c)
  BY <1>1, Fields DEF Owns, HasId
<1>. QED BY <1>1, <1>2 DEF OwnInv, OneOwner, IdsOnce

\* ... and every step keeps the owners apart.
LEMMA OwnKept ==
  Overlap = FALSE /\ DeviceInv /\ WaitInv /\ NumInv /\ OwnInv /\ [Next]_vars => OwnInv'
<1>. SUFFICES ASSUME Overlap = FALSE, DeviceInv, WaitInv, NumInv, OwnInv, [Next]_vars
              PROVE  OwnInv'
  OBVIOUS
<1>1. CASE UNCHANGED vars
  BY <1>1 DEF vars, OwnInv, OneOwner, Owns, HasId, IdsOnce
<1>2. CASE Next
  BY <1>2, NextJobs, UsersKeepOwners, DeregKeepsOwners, NotifiersKeepOwners, PostKeepsOwners
<1>. QED BY <1>1, <1>2

-----------------------------------------------------------------------------
\* A client leaves the list when a thread has released it.
LEMMA ListAfter ==
  ASSUME DeviceInv, NEW t \in Threads, StepOf(t), NEW c, Contains(list, c), ~Contains(list', c)
  PROVE  Frees(t) /\ th[t].c = c
<1>1. ListInv /\ list \in Seq(Clients)
  BY DEF DeviceInv, ListInv
<1>2. CASE list' = list
  BY <1>2
<1>3. CASE Adds(t)
  <2>1. list' = Append(list, th[t].c) /\ th[t].c \in Clients
    BY <1>3, Constants DEF Adds
  <2>. QED BY <1>1, <2>1, AppendContains
<1>4. CASE Frees(t)
  <2>1. PICK i \in 1 .. Len(list) : list[i] = th[t].c /\ list' = RemoveAt(list, i)
    BY <1>4 DEF Frees
  <2>. QED BY <1>1, <1>4, <2>1, RemoveAtContains
<1>. QED BY <1>2, <1>3, <1>4 DEF StepOf, Calm, Takes, Sleeps, Interrupted, Notifies

\* A thread that releases a client after its step did so before it, or closes a
\* file.
LEMMA ReleasesBefore ==
  ASSUME DeviceInv, NEW t \in Users, UserStep(t), ~(\E f : Closes(t, f)),
         NEW u \in Users, th'[u].op = "release"
  PROVE  th[u].op = "release" /\ th'[u].c = th[u].c /\ ~(u = t /\ Frees(t))
<1>1. /\ ListInv /\ th \in [Threads -> Doing] /\ t \in Threads /\ u \in Threads
      /\ StepOf(t) /\ OthersSame(t)
  BY Constants DEF DeviceInv, ListInv, Around, UserStep
<1>2. CASE u # t
  BY <1>1, <1>2, OthersJobs
<1>3. CASE u = t
  <2>1. ~Frees(t)
    <3>1. Frees(t) => th'[t].op = "none"
      BY Fields DEF Frees
    <3>. QED BY <1>3, <3>1
  <2>2. CASE Begins(t) \/ AsksNothing(t) \/ Gets(t)
    BY <1>3, <2>2, Fields DEF Begins, AsksNothing, Gets
  <2>3. CASE GoesOn(t) \/ Sends(t)
    BY <1>3, <2>1, <2>3 DEF GoesOn, Sends, SameJob
  <2>4. CASE Reads(t)
    <3>1. PICK i : Takes(t, i)
      BY <2>4 DEF Reads
    <3>. DEFINE m == mem[Channel(t)].reads[i]
    <3>2. m \in Messages
      <4>1. Channel(t) \in Clients
        BY <1>1, <3>1, ReaderHasClient DEF Takes
      <4>. QED BY <1>1, <3>1, <4>1, MemoryTypes, ElementOfSeq DEF Takes
    <3>3. th'[t] = Got(t, m)
      BY <1>1, <3>1 DEF Takes
    <3>. HIDE DEF m
    <3>. QED BY <1>1, <1>3, <2>1, <3>2, <3>3, GotJob, Fields
  <2>. QED BY <2>2, <2>3, <2>4 DEF UserStep, JobStep
<1>. QED BY <1>2, <1>3

\* Closing a file leaves its client with the thread alone, and registering gives it
\* memory.
LEMMA UsersKeepEarly ==
  ASSUME DeviceInv, NumInv, OwnInv, EarlyInv, NEW t \in Users, UserStep(t)
  PROVE  EarlyInv'
<1>1. /\ ListInv /\ th \in [Threads -> Doing] /\ t \in Threads /\ th[t] \in Doing
      /\ file \in [Files -> Ids \cup {None}] /\ None \notin Ids /\ None \notin Clients
      /\ StepOf(t) /\ OthersSame(t) /\ Busy(th[t]) /\ Dereg \in Threads /\ Dereg # t
      /\ list \in Seq(Clients)
  BY Constants DEF DeviceInv, ListInv, Around, UserStep
<1>2. SUFFICES ASSUME th'[Dereg].at = "idle"
               PROVE  /\ \A f \in Files : file'[f] # None => Contains(list', file'[f])
                      /\ \A u \in Users : th'[u].op = "release" =>
                           Contains(list', th'[u].c) /\ \A f \in Files : file'[f] # th'[u].c
                      /\ \A u, v \in Users :
                           th'[u].op = "release" /\ th'[v].op = "release" /\ th'[u].c = th'[v].c => u = v
  BY DEF EarlyInv
<1>3. th[Dereg].at = "idle"
  BY <1>1, <1>2, OthersJobs
<1>4. /\ \A f \in Files : file[f] # None => Contains(list, file[f])
      /\ \A u \in Users : th[u].op = "release" =>
           Contains(list, th[u].c) /\ \A f \in Files : file[f] # th[u].c
      /\ \A u, v \in Users :
           th[u].op = "release" /\ th[v].op = "release" /\ th[u].c = th[v].c => u = v
  BY <1>3 DEF EarlyInv
<1>5. CASE \E f : Closes(t, f)
  <2>1. PICK f : Closes(t, f)
    BY <1>5
  <2>2. /\ f \in Files /\ file[f] \in Ids /\ file' = [file EXCEPT ![f] = None] /\ list' = list
        /\ th'[t].op = "release" /\ th'[t].c = file[f]
    BY <2>1, Fields DEF Closes
  <2>3. \A u \in Users : u # t => th'[u].op = th[u].op /\ th'[u].c = th[u].c
    BY <1>1, OthersJobs, Constants
  <2>4. \A g \in Files : g # f => file[g] # file[f]
    <3>1. \A g \in Files : file[g] = file[f] => Owns("file", g, file[f])
      BY DEF Owns
    <3>. QED BY <2>2, <3>1 DEF OwnInv, OneOwner
  <2>5. \A g \in Files : file'[g] = IF g = f THEN None ELSE file[g]
    BY <1>1, <2>2
  <2>6. \A u \in Users : th[u].op = "release" => th[u].c # None
    BY <1>1, Constants DEF ListInv, Busy
  <2>7. Contains(list, file[f])
    BY <1>1, <1>4, <2>2
  <2>8. \A u \in Users : th'[u].op = "release" =>
           Contains(list', th'[u].c) /\ \A g \in Files : file'[g] # th'[u].c
    BY <1>1, <1>4, <2>2, <2>3, <2>4, <2>5, <2>6, <2>7
  <2>9. \A u, v \in Users :
           th'[u].op = "release" /\ th'[v].op = "release" /\ th'[u].c = th'[v].c => u = v
    BY <1>4, <2>2, <2>3
  <2>. QED BY <1>4, <2>2, <2>5, <2>8, <2>9
<1>6. CASE ~(\E f : Closes(t, f))
  <2>1. \A u \in Users : th'[u].op = "release" =>
          th[u].op = "release" /\ th'[u].c = th[u].c /\ ~(u = t /\ Frees(t))
    BY <1>6, ReleasesBefore
  <2>2. Frees(t) => th[t].op = "release"
    BY DEF Frees
  <2>3. \A u \in Users : th'[u].op = "release" => Contains(list', th'[u].c)
    BY <1>1, <1>4, <2>1, <2>2, ListAfter
  <2>4. \A u, v \in Users :
           th'[u].op = "release" /\ th'[v].op = "release" /\ th'[u].c = th'[v].c => u = v
    BY <1>4, <2>1
  <2>5. \A f \in Files : file[f] # None => Contains(list', file[f])
    BY <1>1, <1>4, <2>2, ListAfter
  <2>6. CASE file' = file
    BY <1>4, <2>1, <2>3, <2>4, <2>5, <2>6
  <2>7. CASE Gets(t)
    <3>1. /\ file' = [file EXCEPT ![th[t].file] = th[t].c] /\ list' = Append(list, th[t].c)
          /\ th[t].c \in Clients /\ ~Contains(list, th[t].c)
      BY <2>7, Constants DEF Gets, Adds
    <3>2. \A f \in Files : file'[f] = file[f] \/ file'[f] = th[t].c
      BY <1>1, <3>1
    <3>3. Contains(list', th[t].c)
      BY <1>1, <3>1, AppendContains
    <3>. QED BY <1>4, <2>1, <2>3, <2>4, <2>5, <3>1, <3>2, <3>3
  <2>. QED BY <1>6, <2>6, <2>7 DEF UserStep, JobStep, Begins, AsksNothing, GoesOn, Sends, Reads
<1>. QED BY <1>5, <1>6

\* At first no file has a client, ...
LEMMA EarlyInit == Init => EarlyInv
<1>. SUFFICES ASSUME Init PROVE EarlyInv
  OBVIOUS
<1>1. (\A t \in Users : th[t] = Rest) /\ \A f \in Files : file[f] = None
  BY Constants DEF Init
<1>. QED BY <1>1, Fields DEF EarlyInv

\* ... and every step keeps the memory of those that have one.
LEMMA EarlyKept ==
  Overlap = FALSE /\ DeviceInv /\ WaitInv /\ NumInv /\ OwnInv /\ EarlyInv /\ [Next]_vars => EarlyInv'
<1>. SUFFICES ASSUME Overlap = FALSE, DeviceInv, WaitInv, NumInv, OwnInv, EarlyInv, [Next]_vars
              PROVE  EarlyInv'
  OBVIOUS
<1>1. CASE UNCHANGED vars
  BY <1>1 DEF vars, EarlyInv
<1>2. CASE DeregStep
  BY <1>2 DEF DeregStep, DeregJob, EarlyInv
<1>3. ASSUME NEW h \in Hands, NotifyStep(h)  PROVE EarlyInv'
  <2>1. /\ UNCHANGED <<list, file>>
        /\ \A u \in Threads :
             /\ th'[u].op = th[u].op /\ th'[u].c = th[u].c
             /\ th'[u].at = th[u].at \/ (th[u].at = "asleep" /\ th'[u].at = "woken")
    BY <1>3, NotifyLeaves
  <2>2. th'[Dereg].at = "idle" => th[Dereg].at = "idle"
    BY <2>1, Constants
  <2>3. \A u \in Users : th'[u].op = th[u].op /\ th'[u].c = th[u].c
    BY <2>1, Constants
  <2>. QED BY <2>1, <2>2, <2>3 DEF EarlyInv
<1>4. CASE PostStep
  BY <1>4 DEF PostStep, EarlyInv
<1>5. CASE Next
  BY <1>2, <1>3, <1>4, <1>5, NextJobs, UsersKeepEarly
<1>. QED BY <1>1, <1>5

-----------------------------------------------------------------------------
(* All of it                                                                *)

\* The parts hold together, as long as a client is not added while a notification
\* runs and signals are clean.
QmiInv ==
  /\ DeviceInv /\ WaitInv /\ WdsInv /\ NumInv /\ AnswerInv /\ ComingInv /\ OwnInv /\ EarlyInv

\* They hold at first, ...
LEMMA QmiInit == Init => QmiInv
  BY DeviceInit, WaitInit, WdsInit, NumInit, AnswerInit, ComingInit, OwnInit, EarlyInit DEF QmiInv

\* ... and after every step.
LEMMA QmiKept == Overlap = FALSE /\ CleanSignals = TRUE /\ QmiInv /\ [Next]_vars => QmiInv'
<1>. SUFFICES ASSUME Overlap = FALSE, CleanSignals = TRUE, QmiInv, [Next]_vars  PROVE QmiInv'
  OBVIOUS
<1>1. /\ DeviceInv /\ WaitInv /\ WdsInv /\ NumInv /\ AnswerInv /\ ComingInv /\ OwnInv /\ EarlyInv
  BY DEF QmiInv
<1>2. DeviceInv' /\ WaitInv'
  BY <1>1, DeviceKept, WaitKept
<1>3. WdsInv'
  BY <1>1, WdsInvKept
<1>4. NumInv' /\ AnswerInv'
  BY <1>1, <1>2, NumKept, AnswerKept
<1>5. ComingInv'
  BY <1>1, ComingKept
<1>6. OwnInv' /\ EarlyInv'
  BY <1>1, OwnKept, EarlyKept
<1>. QED BY <1>2, <1>3, <1>4, <1>5, <1>6 DEF QmiInv

\* The invariant always holds.
LEMMA QmiAlways == Overlap = FALSE /\ CleanSignals = TRUE => (Spec => []QmiInv)
<1>. SUFFICES ASSUME Overlap = FALSE, CleanSignals = TRUE  PROVE Spec => []QmiInv
  OBVIOUS
<1>1. QmiInv /\ [Next]_vars => QmiInv'
  BY QmiKept
<1>. QED BY <1>1, QmiInit, PTL DEF Spec

\* A client with a reader to notify is on the list of a valid device.
LEMMA WaiterListed ==
  ASSUME DeviceInv, NEW c \in Clients, NEW e, Contains(mem[c].notify, e)
  PROVE  Listed(c)
<1>1. ListInv /\ MemInv /\ DeregInv
  BY DEF DeviceInv
<1>2. mem[c] # Fresh
  BY DEF Fresh, Contains
<1>3. Contains(list, c)
  BY <1>1, <1>2 DEF MemInv
<1>4. list # <<>>
  BY <1>3 DEF Contains
<1>5. valid
  BY <1>1, <1>4 DEF ListInv, DeregInv
<1>. QED BY <1>3, <1>5 DEF Listed

\* Everything has its type, no client is on the list twice, and no reader waits
\* twice at a client (mpClientMemList, mpReadNotifyList).
THEOREM DeviceTypeCorrect == Overlap = FALSE /\ CleanSignals = TRUE => (Spec => []TypeOK)
<1>. SUFFICES ASSUME Overlap = FALSE, CleanSignals = TRUE  PROVE Spec => []TypeOK
  OBVIOUS
<1>1. ASSUME QmiInv  PROVE TypeOK
  <2>1. /\ Around /\ list \in Seq(Clients) /\ Once(list) /\ th \in [Threads -> Doing]
        /\ WaitInv /\ NumInv
    BY <1>1 DEF QmiInv, DeviceInv, ListInv
  <2>2. ToSet(list) \subseteq Clients /\ Cardinality(ToSet(list)) = Len(list)
    <3>1. DOMAIN list = 1 .. Len(list) /\ \A i \in 1 .. Len(list) : list[i] \in Clients
      BY <2>1, LenProperties, ElementOfSeq
    <3>. QED BY <2>1, <3>1, OnceCardinality DEF ToSet
  <2>3. ASSUME NEW c \in Clients
        PROVE  /\ mem[c].reads \in Seq(Messages)
               /\ ToSet(mem[c].notify) \subseteq Users \cup {Async}
               /\ Cardinality(ToSet(mem[c].notify)) = Len(mem[c].notify)
               /\ ToSet(mem[c].urbs) \subseteq Threads \cup {None}
    <3>1. /\ mem[c].reads \in Seq(Messages) /\ mem[c].notify \in Seq(Threads \cup {Async})
          /\ mem[c].urbs \in Seq(Threads \cup {None}) /\ Once(mem[c].notify)
      BY <2>1 DEF Around, Memory, WaitInv
    <3>2. Cardinality(ToSet(mem[c].notify)) = Len(mem[c].notify)
      BY <3>1, OnceCardinality
    <3>3. ToSet(mem[c].urbs) \subseteq Threads \cup {None}
      BY <3>1, LenProperties, ElementOfSeq DEF ToSet
    <3>4. ToSet(mem[c].notify) \subseteq Users \cup {Async}
      <4>1. \A e \in ToSet(mem[c].notify) : Waits(c, e)
        BY <3>1, LenProperties DEF ToSet, Waits, Contains
      <4>. QED BY <2>1, <4>1 DEF WaitInv
    <3>. QED BY <3>1, <3>2, <3>3, <3>4
  <2>4. th \in [Threads -> [at : At, op : {"none", "get", "release", "read", "write"},
                            file : Files \cup {None}, c : Clients \cup {None},
                            n : Nat, got : Nat, nxt : Clients \cup {None}]]
    BY <2>1 DEF Doing
  <2>5. hand \in [Threads \cup {ReadCb} ->
                    [at : {"none", "up", "rearm"}, entry : Users \cup {Async, None},
                     c : Clients \cup {None}]]
    <3>1. hand \in [Hands -> Entry] /\ \A h \in Hands : hand[h].entry \in Users \cup {Async, None}
      BY <2>1 DEF Around, WaitInv
    <3>2. \A h \in Hands : hand[h] \in [at : {"none", "up", "rearm"},
                                        entry : Users \cup {Async, None}, c : Clients \cup {None}]
      BY <3>1 DEF Entry
    <3>. QED BY <3>1, <3>2 DEF Hands
  <2>6. pending \subseteq [n : Nat, op : {"get", "release"}, c : Ids \cup {None}]
    <3>1. /\ pending \subseteq [n : Nat, op : {"get", "release"}, c : Clients \cup {None}]
          /\ \A r \in pending : r.c \in Ids \cup {None}
      BY <2>1 DEF Around, NumInv
    <3>. QED BY <3>1
  <2>. QED BY <2>1, <2>2, <2>3, <2>4, <2>5, <2>6 DEF TypeOK, Around
<1>. QED BY <1>1, QmiAlways, PTL

\* A reader that sleeps is listed with a client that is on the list, or a notifier
\* has its entry in hand, whoever releases clients meanwhile (ReadSync,
\* ReleaseClientID, NotifyAndPopNotifyList).
THEOREM SleepersAreListed == Overlap = FALSE /\ CleanSignals = TRUE => (Spec => []SleepersListed)
<1>. SUFFICES ASSUME Overlap = FALSE, CleanSignals = TRUE  PROVE Spec => []SleepersListed
  OBVIOUS
<1>1. QmiInv => SleepersListed
  <2>. SUFFICES ASSUME QmiInv, NEW t \in Users, th[t].at = "asleep",
                       ~\E h \in DOMAIN hand : hand[h].entry = t
                PROVE  Listed(Channel(t)) /\ Contains(mem[Channel(t)].notify, t)
    BY DEF SleepersListed
  <2>1. DeviceInv /\ WaitInv /\ DOMAIN hand = Hands
    BY DEF QmiInv, DeviceInv, ListInv, Around
  <2>2. Channel(t) \in Clients
    BY <2>1, ReaderHasClient, Constants DEF DeviceInv
  <2>3. Contains(mem[Channel(t)].notify, t)
    BY <2>1 DEF WaitInv, Waits
  <2>4. Listed(Channel(t))
    BY <2>1, <2>2, <2>3, WaiterListed
  <2>. QED BY <2>3, <2>4
<1>. QED BY <1>1, QmiAlways, PTL

\* Until the counter of transaction ids wraps, as many readers are on their way to a
\* client as it has messages that a sleeping one could take (ReadCallback,
\* NotifyAndPopNotifyList).
THEOREM ReadersAreWoken ==
  Overlap = FALSE /\ CleanSignals = TRUE => (Spec => [](tids < TidRange => ReadersWake))
<1>. SUFFICES ASSUME Overlap = FALSE, CleanSignals = TRUE
              PROVE  Spec => [](tids < TidRange => ReadersWake)
  OBVIOUS
<1>1. ASSUME QmiInv, tids < TidRange  PROVE NoLostWakeup
  <2>. DEFINE wanted(t) == {i \in DOMAIN mem[Channel(t)].reads :
                              ReadTid(t) \in {0, mem[Channel(t)].reads[i].tid}}
              coming(t) == {u \in Users :
                              /\ Channel(u) = Channel(t) /\ ReadTid(u) = ReadTid(t)
                              /\ \/ th[u].at = "woken"
                                 \/ \E h \in DOMAIN hand : hand[h].entry = u}
  <2>1. SUFFICES ASSUME NEW t \in Users, th[t].at = "asleep",
                        Contains(mem[Channel(t)].notify, t)
                 PROVE  Cardinality(wanted(t)) <= Cardinality(coming(t))
    BY DEF NoLostWakeup
  <2>2. /\ DeviceInv /\ ListInv /\ WaitInv /\ NumInv /\ AnswerInv /\ ComingInv
        /\ DOMAIN hand = Hands /\ th \in [Threads -> Doing] /\ tids \in Nat
    BY <1>1 DEF QmiInv, DeviceInv, ListInv, Around
  <2>3. t \in Threads /\ Channel(t) \in Clients /\ th[t].op # "none"
    BY <2>1, <2>2, ReaderHasClient, Constants
  <2>4. /\ mem[Channel(t)].reads \in Seq(Messages) /\ Len(mem[Channel(t)].reads) \in Nat
        /\ DOMAIN mem[Channel(t)].reads = 1 .. Len(mem[Channel(t)].reads)
    BY <2>2, <2>3, MemoryTypes, LenProperties
  <2>5. IsFiniteSet(coming(t)) /\ Cardinality(coming(t)) \in Nat
    BY QmiAssumption, FS_Subset, FS_CardinalityType
  <2>6. CASE Asks(t)
    <3>1. Channel(t) = Ctl /\ ReadTid(t) # 0
      <4>1. th[t].n \in 1 .. tids
        BY <2>2, <2>6 DEF NumInv
      <4>. QED BY <1>1, <2>2, <2>6, <4>1, TidSmall DEF ReadTid, Channel
    <3>2. \A i \in 1 .. Len(mem[Ctl].reads) : mem[Ctl].reads[i].tid # ReadTid(t)
      BY <1>1, <2>1, <2>2, <3>1 DEF AnswerInv, Waits
    <3>3. wanted(t) = {}
      BY <2>4, <3>1, <3>2
    <3>. HIDE DEF wanted, coming
    <3>. QED BY <2>5, <3>3, FS_EmptySet
  <2>7. CASE ~Asks(t)
    <3>1. Channel(t) \in Ids
      <4>1. Channel(t) = th[t].c /\ th[t].c \in Ids \cup {None}
        BY <2>2, <2>7 DEF Channel, NumInv
      <4>. QED BY <2>3, <4>1, Constants
    <3>2. ReadTid(t) = 0
      BY <2>7 DEF ReadTid
    <3>3. Coming(Channel(t)) \subseteq coming(t)
      <4>1. \A u \in Users : Channel(u) = Channel(t) => ReadTid(u) = 0
        BY <3>1, Constants DEF Channel, ReadTid
      <4>. QED BY <2>2, <3>2, <4>1 DEF Coming, OnItsWay
    <3>4. Len(mem[Channel(t)].reads) <= Cardinality(Coming(Channel(t)))
      BY <2>1, <2>2, <3>1 DEF ComingInv, Awaited, Waits
    <3>5. wanted(t) \subseteq 1 .. Len(mem[Channel(t)].reads)
      BY <2>4
    <3>. HIDE DEF wanted, coming
    <3>6. Cardinality(Coming(Channel(t))) <= Cardinality(coming(t))
      BY <2>5, <3>3, FS_Subset
    <3>7. /\ IsFiniteSet(1 .. Len(mem[Channel(t)].reads))
          /\ Cardinality(1 .. Len(mem[Channel(t)].reads)) = Len(mem[Channel(t)].reads)
      BY <2>4, FS_Interval
    <3>8. IsFiniteSet(wanted(t)) /\ Cardinality(wanted(t)) <= Len(mem[Channel(t)].reads)
      BY <3>5, <3>7, FS_Subset
    <3>9. Cardinality(wanted(t)) \in Nat /\ Cardinality(Coming(Channel(t))) \in Nat
      BY <3>8, FS_CardinalityType, ComingFinite
    <3>. QED BY <2>4, <2>5, <3>4, <3>6, <3>8, <3>9
  <2>. QED BY <2>6, <2>7
<1>2. QmiInv => (tids < TidRange => NoLostWakeup)
  BY <1>1
<1>3. Spec => []SleepersListed
  BY SleepersAreListed
<1>4. SleepersListed /\ (tids < TidRange => NoLostWakeup) => (tids < TidRange => ReadersWake)
  BY DEF ReadersWake
<1>. QED BY <1>2, <1>3, <1>4, QmiAlways, PTL

\* Until the counter wraps, GetClientID and ReleaseClientID read the answer to their
\* own request.
THEOREM AnswersAreOwn ==
  Overlap = FALSE /\ CleanSignals = TRUE => (Spec => [](tids < TidRange => OwnAnswer))
<1>. SUFFICES ASSUME Overlap = FALSE, CleanSignals = TRUE
              PROVE  Spec => [](tids < TidRange => OwnAnswer)
  OBVIOUS
<1>1. QmiInv => (tids < TidRange => OwnAnswer)
  BY DEF QmiInv, AnswerInv, OwnAnswer
<1>. QED BY <1>1, QmiAlways, PTL

\* Until deregistration the client of an open file has its memory and its id, and
\* no two files have the same (GetClientID, ReleaseClientID).
THEOREM FilesKeepClients == Overlap = FALSE /\ CleanSignals = TRUE => (Spec => []FileKeepsClient)
<1>. SUFFICES ASSUME Overlap = FALSE, CleanSignals = TRUE  PROVE Spec => []FileKeepsClient
  OBVIOUS
<1>1. ASSUME QmiInv  PROVE FileKeepsClient
  <2>1. /\ ListInv /\ OneOwner /\ EarlyInv /\ file \in [Files -> Ids \cup {None}]
    BY <1>1 DEF QmiInv, DeviceInv, ListInv, Around, OwnInv
  <2>2. \A f \in Files : file[f] # None => file[f] \in Ids /\ Owns("file", f, file[f])
    BY <2>1 DEF Owns
  <2>3. th[Dereg].at = "idle" => valid
    BY <2>1 DEF ListInv
  <2>4. \A f \in Files : file[f] # None /\ th[Dereg].at = "idle"
                          => Listed(file[f]) /\ file[f] \in assigned
    BY <2>1, <2>2, <2>3 DEF EarlyInv, OneOwner, Listed
  <2>5. \A f, g \in Files : file[f] # None /\ file[f] = file[g] => f = g
    BY <2>1, <2>2 DEF OneOwner
  <2>. QED BY <2>4, <2>5 DEF FileKeepsClient
<1>. QED BY <1>1, QmiAlways, PTL

\* While client Wds is there its callback runs, or waits with no message left
\* unread (QMIWDSCallback, ReadAsync, ReadCallback).
THEOREM WdsIsArmed == Overlap = FALSE /\ CleanSignals = TRUE => (Spec => []WdsStaysArmed)
<1>. SUFFICES ASSUME Overlap = FALSE, CleanSignals = TRUE  PROVE Spec => []WdsStaysArmed
  OBVIOUS
<1>1. QmiInv => WdsStaysArmed
  <2>1. QmiInv => WdsInv /\ DOMAIN hand = Hands
    BY DEF QmiInv, DeviceInv, ListInv, Around
  <2>. QED BY <2>1 DEF WdsInv, WdsKept, WdsStaysArmed, Listed, Waits
<1>. QED BY <1>1, QmiAlways, PTL
=============================================================================
