----------------------------- MODULE GobiAutoPm -----------------------------
(***************************************************************************)
(* Transmission in the GobiNet driver, GobiUSBNet.c: packets are queued as *)
(* URBs, and a thread submits one at a time, holding a power management    *)
(* reference on the interface while it is under way, so that the device    *)
(* can sleep in between.  The thread, the URB's callback, the transmit     *)
(* function, suspend and resume, and open and stop of the interface run    *)
(* concurrently; mURBListLock and mActiveURBLock are held for one action   *)
(* each.                                                                   *)
(*                                                                         *)
(* Packets are numbered in the order in which they are queued; a packet    *)
(* stands for its URB.  The USB core (external) resumes an interface that  *)
(* sleeps by itself, and refuses while the system is suspended.            *)
(***************************************************************************)
EXTENDS Integers, FiniteSets, SequencesExt

CONSTANTS
  NoURB, Done,    \* no active URB; the marker ERR_PTR( -EAGAIN )
  Idle,           \* nobody is about to kill a URB
  TxQueueLength,  \* txQueueLength
  MaxPackets,     \* bound: packets that are queued
  MaxSuspends,    \* bound: suspensions, with the system or not
  MaxOpens,       \* bound: times the interface is opened
  MaxTimeouts,    \* bound: transmit timeouts
  MaxErrors,      \* bound: resumptions that fail though the system is not suspended
  LateSuspend,    \* may the system be resumed before the thread acts on -EPERM?
  CleanReopen     \* is the interface opened only when no old URB is under way?

ASSUME AutoPmAssumption ==
  /\ NoURB \notin Nat /\ Done \notin Nat /\ NoURB # Done
  /\ TxQueueLength \in Nat \ {0} /\ MaxPackets \in Nat
  /\ MaxSuspends \in Nat /\ MaxOpens \in Nat /\ MaxTimeouts \in Nat
  /\ MaxErrors \in Nat /\ LateSuspend \in BOOLEAN /\ CleanReopen \in BOOLEAN

VARIABLES
  queue,   \* mpURBList; mURBListLen is its length
  active,  \* mpActiveURB
  flying,  \* URBs that are submitted and whose callback has not run
  work,    \* mThreadDoWork: how often the thread is still to wake up
  exit,    \* mbExit
  thread,  \* where the thread is
  hold,    \* the URB list entry that the thread has popped
  killer,  \* the pointers read by the thread and by TXTimeout, about to kill
  pm,      \* the usage count of the interface: its gets less its puts
  base,    \* history: pm when the interface was opened
  power,   \* on, asleep (autosuspended) or suspended (with the system)
  down,    \* the down reason DRIVER_SUSPENDED
  last,    \* history: the packet that was submitted last
  count    \* history: packets, suspensions, opens, timeouts and errors so far

pmVars == <<queue, active, flying, work, exit, thread, hold, killer, pm, base,
          power, down, last, count>>

Packets == 1 .. MaxPackets
Running == thread # "gone" /\ ~exit

PmInit ==
  /\ queue = <<>> /\ active = NoURB /\ flying = {} /\ work = 0
  /\ exit = FALSE /\ thread = "gone" /\ hold = NoURB
  /\ killer = [thread |-> Idle, timeout |-> Idle]
  /\ pm = 0 /\ base = 0 /\ power = "on" /\ down = FALSE /\ last = 0
  /\ count = [packets |-> 0, suspends |-> 0, opens |-> 0, timeouts |-> 0,
               errors |-> 0]

-----------------------------------------------------------------------------
(* The network layer and power management.                                 *)

\* GobiUSBNetOpen: everything about URBs is reset, and the thread started
Open ==
  /\ thread = "gone" /\ killer.timeout = Idle /\ count.opens < MaxOpens
  /\ CleanReopen => flying = {}
  /\ queue' = <<>> /\ active' = NoURB /\ work' = 0 /\ exit' = FALSE
  /\ thread' = "top" /\ base' = pm
  /\ count' = [count EXCEPT !.opens = @ + 1]
  /\ UNCHANGED <<flying, hold, killer, pm, power, down, last>>

\* GobiUSBNetStop, which then waits until the thread is gone
Stop ==
  /\ Running
  /\ exit' = TRUE /\ work' = work + 1
  /\ UNCHANGED <<queue, active, flying, thread, hold, killer, pm, base, power,
                 down, last, count>>

\* GobiUSBNetStartXmit
StartXmit ==
  /\ Running /\ count.packets < MaxPackets /\ ~down
  /\ Len(queue) < TxQueueLength
  /\ queue' = Append(queue, count.packets + 1)
  /\ count' = [count EXCEPT !.packets = @ + 1]
  /\ work' = work + 1
  /\ UNCHANGED <<active, flying, exit, thread, hold, killer, pm, base, power,
                 down, last>>

\* GobiSuspend, with the system (which sets the down reason) or, when nobody
\* holds a reference, by itself
Suspend ==
  /\ count.suspends < MaxSuspends
  /\ count' = [count EXCEPT !.suspends = @ + 1]
  /\ \/ power # "suspended" /\ power' = "suspended" /\ down' = TRUE
     \/ power = "on" /\ pm = 0 /\ power' = "asleep" /\ UNCHANGED down
  /\ UNCHANGED <<queue, active, flying, work, exit, thread, hold, killer, pm,
                 base, last>>

\* GobiResume, with the system or by a wakeup of the device; it kicks the thread
Resume_NoKick ==
  /\ power # "on"
  /\ LateSuspend \/ thread # "refused"
  /\ power' = "on" /\ down' = FALSE
  /\ UNCHANGED <<queue, active, flying, work, exit, thread, hold, killer, pm,
                 base, last, count>>
Resume ==
  /\ power # "on"
  /\ LateSuspend \/ thread # "refused"
  /\ power' = "on" /\ down' = FALSE /\ work' = work + 1
  /\ UNCHANGED <<queue, active, flying, exit, thread, hold, killer, pm, base,
                 last, count>>

\* GobiUSBNetTXTimeout reads the active URB, ...
TXTimeout ==
  /\ Running /\ killer.timeout = Idle /\ count.timeouts < MaxTimeouts
  /\ killer' = [killer EXCEPT !.timeout = active]
  /\ count' = [count EXCEPT !.timeouts = @ + 1]
  /\ UNCHANGED <<queue, active, flying, work, exit, thread, hold, pm, base,
                 power, down, last>>

\* ... kills it, which waits for its callback, and frees the queue
TXTimeoutKill ==
  /\ killer.timeout # Idle /\ killer.timeout \notin flying
  /\ killer' = [killer EXCEPT !.timeout = Idle]
  /\ queue' = <<>> /\ work' = work + 1
  /\ UNCHANGED <<active, flying, exit, thread, hold, pm, base, power, down,
                 last, count>>

\* GobiUSBNetURBCallback
URBCallback(p) ==
  /\ p \in flying
  /\ flying' = flying \ {p} /\ active' = Done /\ work' = work + 1
  /\ UNCHANGED <<queue, exit, thread, hold, killer, pm, base, power, down,
                 last, count>>

-----------------------------------------------------------------------------
(* GobiUSBNetAutoPMThread.                                                 *)

\* the condition of the loop
Top ==
  /\ thread = "top"
  /\ thread' = IF exit THEN "gone" ELSE "wait"
  /\ UNCHANGED <<queue, active, flying, work, exit, hold, killer, pm, base,
                 power, down, last, count>>

\* wait_for_completion; then it may be time to exit
Wake ==
  /\ thread = "wait" /\ work > 0
  /\ work' = work - 1
  /\ thread' = IF exit THEN "exit" ELSE "look"
  /\ UNCHANGED <<queue, active, flying, exit, hold, killer, pm, base, power,
                 down, last, count>>

\* to exit is to read the active URB, ...
ReadActive ==
  /\ thread = "exit"
  /\ killer' = [killer EXCEPT !.thread = active]
  /\ thread' = "killing"
  /\ UNCHANGED <<queue, active, flying, work, exit, hold, pm, base, power, down,
                 last, count>>

\* ... to kill it, which waits for its callback, and to free the queue
KillActive ==
  /\ thread = "killing" /\ killer.thread \notin flying
  /\ killer' = [killer EXCEPT !.thread = Idle]
  /\ queue' = <<>> /\ thread' = "gone"
  /\ UNCHANGED <<active, flying, work, exit, hold, pm, base, power, down, last,
                 count>>

\* With both locks: a URB is taken from the queue when none is active
Pick_ActiveIgnored ==
  IF queue # <<>>
  THEN /\ active' = Head(queue) /\ hold' = Head(queue)
       /\ queue' = Tail(queue) /\ thread' = "get"
  ELSE thread' = "top" /\ UNCHANGED <<active, hold, queue>>
Pick ==
  IF active = NoURB /\ queue # <<>>
  THEN /\ active' = Head(queue) /\ hold' = Head(queue)
       /\ queue' = Tail(queue) /\ thread' = "get"
  ELSE thread' = "top" /\ UNCHANGED <<active, hold, queue>>

\* is the active URB done?  Then its reference goes first, without the locks
LookAtActive_MarkerKept ==
  /\ thread = "look"
  /\ IF active = Done
     THEN thread' = "put" /\ UNCHANGED <<active, queue, hold>>
     ELSE Pick
  /\ UNCHANGED <<flying, work, exit, killer, pm, base, power, down, last, count>>
LookAtActive ==
  /\ thread = "look"
  /\ IF active = Done
     THEN active' = NoURB /\ thread' = "put" /\ UNCHANGED <<queue, hold>>
     ELSE Pick
  /\ UNCHANGED <<flying, work, exit, killer, pm, base, power, down, last, count>>

\* usb_autopm_put_interface
Put ==
  /\ thread = "put"
  /\ pm' = pm - 1 /\ thread' = "look again"
  /\ UNCHANGED <<queue, active, flying, work, exit, hold, killer, base, power,
                 down, last, count>>

LookAgain ==
  /\ thread = "look again"
  /\ Pick
  /\ UNCHANGED <<flying, work, exit, killer, pm, base, power, down, last, count>>

\* usb_autopm_get_interface, which resumes a device that sleeps
Get ==
  /\ thread = "get"
  /\ \/ /\ power # "suspended"
        /\ pm' = pm + 1 /\ thread' = "submit"
        /\ power' = "on"
        /\ down' = (down /\ power = "on")
        /\ work' = IF power = "on" THEN work ELSE work + 1
        /\ UNCHANGED count
     \/ /\ power = "suspended"
        /\ thread' = "refused"
        /\ UNCHANGED <<pm, power, down, work, count>>
     \/ /\ power # "suspended" /\ count.errors < MaxErrors
        /\ count' = [count EXCEPT !.errors = @ + 1]
        /\ thread' = "push back"
        /\ UNCHANGED <<pm, power, down, work>>
  /\ UNCHANGED <<queue, active, flying, exit, hold, killer, base, last>>

\* -EPERM: the thread runs GobiSuspend itself
Refused ==
  /\ thread = "refused"
  /\ power' = "suspended" /\ down' = TRUE
  /\ thread' = "push back"
  /\ UNCHANGED <<queue, active, flying, work, exit, hold, killer, pm, base,
                 last, count>>

\* the URB goes back to the front of the queue; ...
PushBack_AtEnd ==
  /\ thread = "push back"
  /\ queue' = Append(queue, hold) /\ thread' = "clear"
  /\ UNCHANGED <<active, flying, work, exit, hold, killer, pm, base, power,
                 down, last, count>>
PushBack ==
  /\ thread = "push back"
  /\ queue' = Cons(hold, queue) /\ thread' = "clear"
  /\ UNCHANGED <<active, flying, work, exit, hold, killer, pm, base, power,
                 down, last, count>>

\* ... then no URB is active
Clear ==
  /\ thread = "clear"
  /\ active' = NoURB /\ hold' = NoURB /\ thread' = "top"
  /\ UNCHANGED <<queue, flying, work, exit, killer, pm, base, power, down, last,
                 count>>

\* usb_submit_urb; a packet that cannot be submitted is dropped
SubmitURB_FailureKeepsPm ==
  /\ thread = "submit"
  /\ \/ /\ flying' = flying \cup {active} /\ last' = active
        /\ UNCHANGED <<active, pm, work>>
     \/ /\ active' = NoURB /\ work' = work + 1
        /\ UNCHANGED <<flying, last, pm>>
  /\ hold' = NoURB /\ thread' = "top"
  /\ UNCHANGED <<queue, exit, killer, base, power, down, count>>
SubmitURB ==
  /\ thread = "submit"
  /\ \/ /\ flying' = flying \cup {active} /\ last' = active
        /\ UNCHANGED <<active, pm, work>>
     \/ /\ active' = NoURB /\ pm' = pm - 1 /\ work' = work + 1
        /\ UNCHANGED <<flying, last>>
  /\ hold' = NoURB /\ thread' = "top"
  /\ UNCHANGED <<queue, exit, killer, base, power, down, count>>

-----------------------------------------------------------------------------
AutoPMThread ==
  \/ Top \/ Wake \/ ReadActive \/ KillActive \/ LookAtActive \/ Put \/ LookAgain
  \/ Get \/ Refused \/ PushBack \/ Clear \/ SubmitURB

PmNext ==
  \/ Open \/ Stop \/ StartXmit \/ Suspend \/ Resume \/ TXTimeout \/ TXTimeoutKill
  \/ \E p \in Packets : URBCallback(p)
  \/ AutoPMThread

\* The thread is scheduled, a URB completes, and a suspended system is resumed.
Fairness ==
  /\ WF_pmVars(AutoPMThread)
  /\ \A p \in Packets : WF_pmVars(URBCallback(p))
  /\ WF_pmVars(power = "suspended" /\ Resume)

PmSpec == PmInit /\ [][PmNext]_pmVars /\ Fairness

-----------------------------------------------------------------------------
Places == {"gone", "top", "wait", "exit", "killing", "look", "put", "look again",
           "get", "refused", "push back", "clear", "submit"}
Pointers == Packets \cup {NoURB, Done}

\* PmTypeOK: every variable has its type; the thread holds an entry exactly from
\* taking it to giving it back or submitting it (mpURBList, mpActiveURB).
PmTypeOK ==
  /\ queue \in Seq(Packets) /\ active \in Pointers /\ flying \subseteq Packets
  /\ work \in Nat /\ exit \in BOOLEAN /\ thread \in Places
  /\ hold \in Packets \cup {NoURB}
  /\ hold # NoURB <=> thread \in {"get", "refused", "push back", "clear", "submit"}
  /\ killer \in [thread : Pointers \cup {Idle}, timeout : Pointers \cup {Idle}]
  /\ pm \in Nat /\ base \in Nat
  /\ power \in {"on", "asleep", "suspended"} /\ down \in BOOLEAN
  /\ last \in 0 .. MaxPackets
  /\ count \in [packets : 0 .. MaxPackets, suspends : 0 .. MaxSuspends,
                opens : 0 .. MaxOpens, timeouts : 0 .. MaxTimeouts,
                errors : 0 .. MaxErrors]

\* OneInFlight: at most one URB is under way, and it is the active one, so the
\* marker Done never hides one, with timeouts, failures and stops in between
\* (GobiUSBNetAutoPMThread, GobiUSBNetURBCallback).
OneInFlight == thread # "gone" => flying \subseteq {active}

\* PmExact: while the thread runs it holds one reference on the interface when a
\* packet is under way or its end has not been handled, and none otherwise: the
\* device neither sleeps under a packet nor stays awake for none.
PmExact ==
  thread # "gone" =>
    pm = base + IF \/ thread \in {"submit", "put"} \/ active = Done
                   \/ flying # {}
                THEN 1 ELSE 0

\* SentInOrder: packets are submitted in the order in which they were queued,
\* also when one is taken back into the queue (PushBack).
SentInOrder ==
  thread # "gone" =>
    LET taken == IF thread \in {"get", "refused", "push back"} THEN <<hold>> ELSE <<>>
        line == <<last>> \o taken \o queue
    IN \A i, j \in DOMAIN line : i < j => line[i] < line[j]

\* PacketsLeave: while the interface is not stopped, every queued packet leaves
\* the queue for good: no wakeup of the thread is lost between the callback, the
\* transmit function, timeouts, and suspend and resume.  (When resuming has
\* failed for another reason, the thread sleeps until there is more to send.)
PacketsLeave ==
  \A p \in Packets :
    Contains(queue, p) \/ hold = p ~>
      (~Contains(queue, p) /\ hold # p) \/ exit \/ count.errors > 0
=============================================================================
