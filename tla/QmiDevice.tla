------------------------------ MODULE QmiDevice ------------------------------
(***************************************************************************)
(* The QMI device of the GobiNet driver, QMIDevice.c: how several threads  *)
(* share one control channel to the modem.  A client has memory with its   *)
(* unread messages, its readers to notify and its write URBs; client Ctl   *)
(* carries the requests that get and release the other clients, and the    *)
(* driver itself reads Wds with a callback.  All of it is protected by     *)
(* mClientMemLock, so one action is one critical section; a notification   *)
(* drops the lock, so it is a step of its own between two of them.         *)
(*                                                                         *)
(* The device starts registered, with Ctl and Wds.  The modem (external)   *)
(* may answer a request late, in any order, or never.  Closing a file and  *)
(* opening the next one is one step here.                                  *)
(***************************************************************************)
EXTENDS Integers, FiniteSets, SequencesExt

CONSTANTS
  Users,        \* threads of user space
  Dereg,        \* the thread that deregisters the device
  ReadCb,       \* ReadCallback, in interrupt context
  Files, Ids,   \* open files; client ids that the modem assigns to them
  Ctl, Wds,     \* the driver's own clients
  Async,        \* the notify entry of QMIWDSCallback
  None,
  TidRange,     \* how many transaction ids QMICTL has (256)
  MaxTid,       \* bound: transaction ids that user threads use
  MaxUnread,    \* bound: messages that a client has unread
  Overlap,      \* may a client be added while a notification runs or too late?
  CleanSignals  \* does a signal reach a reader only while its entry is listed?

Threads == Users \cup {Dereg}
Clients == {Ctl, Wds} \cup Ids

ASSUME QmiAssumption ==
  /\ TidRange \in Nat \ {0} /\ MaxTid \in Nat /\ MaxUnread \in Nat
  /\ Overlap \in BOOLEAN /\ CleanSignals \in BOOLEAN
  /\ IsFiniteSet(Users) /\ Dereg \notin Users /\ ReadCb \notin Threads
  /\ Ctl # Wds /\ Ctl \notin Ids /\ Wds \notin Ids
  /\ None \notin Clients \cup Threads \cup Files \cup {Async} /\ Async \notin Threads

VARIABLES
  valid,    \* mbQMIValid
  list,     \* mpClientMemList: the clients that have memory
  mem,      \* their unread messages, notify entries and URBs
  file,     \* mClientID of a file, None when it is not set up
  tids,     \* mQMICTLTransactionID
  th,       \* what a thread is doing: at, op, file, c, n, got, nxt
  hand,     \* the notify entry that a thread or ReadCb has popped, lock dropped
  cb,       \* the message that ReadCallback still walks the list with
  pending,  \* requests that the modem has
  assigned  \* ids that the modem has assigned

vars == <<valid, list, mem, file, tids, th, hand, cb, pending, assigned>>

NoHand == [at |-> "none", entry |-> None, c |-> None]
NoMsg == [n |-> 0, tid |-> 0, id |-> None]
NoCb == [to |-> {}, msg |-> NoMsg, c |-> None]
Fresh == [reads |-> <<>>, notify |-> <<>>, urbs |-> <<>>]
Rest == [at |-> "idle", op |-> "none", file |-> None, c |-> None, n |-> 0,
         got |-> 0, nxt |-> None]

\* FindClientMem
Listed(c) == valid /\ Contains(list, c)

Asks(t) == th[t].op \in {"get", "release"}
\* the client that a thread's WriteSync and ReadSync are about
Channel(t) == IF Asks(t) THEN Ctl ELSE th[t].c
TidOf(n) == n % TidRange
ReadTid(t) == IF Asks(t) THEN TidOf(th[t].n) ELSE 0
EntryTid(e) == IF e = Async THEN 0 ELSE ReadTid(e)

\* PopFromReadMemList and NotifyAndPopNotifyList: the first that matches, or 0
FirstUnread_AnyTid(c, tid) == SelectInSeq(mem[c].reads, LAMBDA m : TRUE)
FirstUnread(c, tid) ==
  SelectInSeq(mem[c].reads, LAMBDA m : tid \in {0, m.tid})
FirstWaiter(c, tid) ==
  SelectInSeq(mem[c].notify, LAMBDA e : tid = 0 \/ EntryTid(e) \in {0, tid})

\* no thread and no callback is between the two halves of a notification, ...
NoNotifier == \A t \in Threads : th[t].at # "notify"
\* ... and deregistration still looks at the list
Quiet == NoNotifier /\ cb = NoCb /\ th[Dereg].at \notin {"kill", "gone"}

-----------------------------------------------------------------------------
Init ==
  /\ valid = TRUE
  /\ list = <<Ctl, Wds>>
  /\ mem = [c \in Clients |-> IF c = Wds THEN [Fresh EXCEPT !.notify = <<Async>>]
                                         ELSE Fresh]
  /\ file = [f \in Files |-> None]
  /\ tids = 1
  /\ th = [t \in Threads |-> Rest]
  /\ hand = [h \in Threads \cup {ReadCb} |-> NoHand]
  /\ cb = NoCb
  /\ pending = {} /\ assigned = {}

\* how a thread goes on when WriteSync or ReadSync has failed
Failed(t) ==
  CASE th[t].op = "release" -> [th[t] EXCEPT !.at = "cleanup"]
    [] OTHER -> Rest

\* the first steps of ReleaseClientID: a transaction id that is not zero
Releasing(t, c) ==
  LET n == IF TidOf(tids + 1) = 0 THEN tids + 2 ELSE tids + 1
      at == IF c = Ctl THEN "cleanup" ELSE "write"
  IN /\ tids' = IF c = Ctl THEN tids ELSE n
     /\ th' = [th EXCEPT ![t] = [Rest EXCEPT !.at = at, !.op = "release",
                                             !.c = c, !.n = n]]

-----------------------------------------------------------------------------
(* File operations of user space.                                          *)

\* UserspaceIOCTL and the first steps of GetClientID, which skips the counter
\* past zero but goes on with the zero it has got
Ioctl(t, f) ==
  /\ th[t].at = "idle" /\ valid /\ file[f] = None /\ tids < MaxTid
  /\ tids' = IF TidOf(tids + 1) = 0 THEN tids + 2 ELSE tids + 1
  /\ th' = [th EXCEPT ![t] = [Rest EXCEPT !.at = "write", !.op = "get",
                                          !.file = f, !.n = tids + 1]]
  /\ UNCHANGED <<valid, list, mem, file, hand, cb, pending, assigned>>

\* UserspaceClose; assumed: not while an ioctl on the file is under way
Close(t, f) ==
  /\ th[t].at = "idle" /\ valid /\ file[f] # None /\ tids < MaxTid
  /\ \A u \in Users : th[u].file # f
  /\ file' = [file EXCEPT ![f] = None]
  /\ Releasing(t, file[f])
  /\ UNCHANGED <<valid, list, mem, hand, cb, pending, assigned>>

\* UserspaceRead and UserspaceWrite, up to ReadSync and WriteSync
ReadWrite(t, f) ==
  /\ th[t].at = "idle" /\ valid /\ file[f] # None
  /\ \E op \in {"read", "write"} :
       th' = [th EXCEPT ![t] = [Rest EXCEPT !.at = op, !.op = op, !.c = file[f]]]
  /\ UNCHANGED <<valid, list, mem, file, tids, hand, cb, pending, assigned>>

-----------------------------------------------------------------------------
(* WriteSync.                                                              *)

\* A writer takes the first URB of the list for its own; when it is not, its own
\* stays on the list, freed (None).
PopUrb(t, urbs) ==
  [i \in 1 .. Len(urbs) - 1 |-> IF urbs[i + 1] = t THEN None ELSE urbs[i + 1]]

\* The URB is put on the client's list and submitted, which can fail.
Submit(t) ==
  LET c == Channel(t)
      urbs == Append(mem[c].urbs, t)
  IN
  /\ th[t].at = "write"
  /\ \/ /\ Listed(c)
        /\ th' = [th EXCEPT ![t].at = "urb"]
        /\ mem' = [mem EXCEPT ![c].urbs = urbs]
     \/ /\ th' = [th EXCEPT ![t] = Failed(t)]
        /\ mem' = IF Listed(c) THEN [mem EXCEPT ![c].urbs = PopUrb(t, urbs)] ELSE mem
  /\ UNCHANGED <<valid, list, file, tids, hand, cb, pending, assigned>>

\* WriteSyncCallback: the modem has the request; the control endpoint keeps the
\* order of the URBs that are listed
Transmitted(t) ==
  LET urbs == mem[Channel(t)].urbs
      flying == {i \in DOMAIN urbs : urbs[i] # None /\ th[urbs[i]].at = "urb"}
  IN
  /\ th[t].at = "urb"
  /\ \A i \in flying : (\E j \in 1 .. i : urbs[j] = t) \/ ~Contains(urbs, t)
  /\ th' = [th EXCEPT ![t].at = "sent"]
  /\ pending' = IF Asks(t)
                THEN pending \cup {[n |-> th[t].n, op |-> th[t].op, c |-> th[t].c]}
                ELSE pending
  /\ UNCHANGED <<valid, list, mem, file, tids, hand, cb, assigned>>

\* The writer, woken up by the URB or by a signal, gets its URB back, in no
\* certain order; it fails when it gets another's.
TakeBack(t) ==
  LET c == Channel(t)
      urbs == IF Listed(c) THEN mem[c].urbs ELSE <<>>
      own == urbs # <<>> /\ Head(urbs) = t
      read == IF Asks(t) THEN [th[t] EXCEPT !.at = "read"] ELSE Rest
  IN
  /\ th[t].at = "sent" \/ (th[t].at = "urb" /\ t # Dereg)
  /\ mem' = IF urbs # <<>> THEN [mem EXCEPT ![c].urbs = PopUrb(t, urbs)] ELSE mem
  /\ th' = [th EXCEPT ![t] = IF th[t].at = "sent" /\ own THEN read ELSE Failed(t)]
  /\ UNCHANGED <<valid, list, file, tids, hand, cb, pending, assigned>>

-----------------------------------------------------------------------------
(* ReadSync.                                                               *)

\* what a thread does with the message it has read
Got(t, m) ==
  CASE th[t].op = "get" /\ m.id # None ->
         [th[t] EXCEPT !.at = "register", !.c = m.id, !.got = m.n]
    [] th[t].op = "release" -> [th[t] EXCEPT !.at = "cleanup", !.got = m.n]
    [] OTHER -> Rest

\* one turn of the loop: take a message, or wait for one
Look(t) ==
  LET c == Channel(t)
      i == FirstUnread(c, ReadTid(t))
  IN
  /\ th[t].at \in {"read", "woken"}
  /\ \/ /\ ~Listed(c)
        /\ th' = [th EXCEPT ![t] = Failed(t)]
        /\ UNCHANGED mem
     \/ /\ Listed(c) /\ i # 0
        /\ th' = [th EXCEPT ![t] = Got(t, mem[c].reads[i])]
        /\ mem' = [mem EXCEPT ![c].reads = RemoveAt(@, i)]
     \/ /\ Listed(c) /\ i = 0
        /\ th' = [th EXCEPT ![t].at = "asleep"]
        /\ mem' = [mem EXCEPT ![c].notify = Append(@, t)]
  /\ UNCHANGED <<valid, list, file, tids, hand, cb, pending, assigned>>

\* down_interruptible fails, and the reader removes its entry
Interrupt(t) ==
  /\ th[t].at = "asleep" /\ t # Dereg
  /\ CleanSignals => Contains(mem[Channel(t)].notify, t)
  /\ th' = [th EXCEPT ![t] = Failed(t)]
  /\ mem' = [mem EXCEPT ![Channel(t)].notify = RemoveFirst(@, t)]
  /\ UNCHANGED <<valid, list, file, tids, hand, cb, pending, assigned>>

-----------------------------------------------------------------------------
(* The list of clients.                                                    *)

\* the last steps of GetClientID: the client is appended; its validity is not
\* asked again
Register_NotLookedFor(t) ==
  LET c == th[t].c IN
  /\ th[t].at = "register"
  /\ Overlap \/ Quiet
  /\ list' = Append(list, c)
  /\ mem' = [mem EXCEPT ![c] = Fresh]
  /\ file' = [file EXCEPT ![th[t].file] = c]
  /\ th' = [th EXCEPT ![t] = Rest]
  /\ UNCHANGED <<valid, tids, hand, cb, pending, assigned>>
Register(t) ==
  LET c == th[t].c IN
  /\ th[t].at = "register"
  /\ Overlap \/ Quiet
  /\ IF Listed(c)
     THEN UNCHANGED <<list, mem, file>>
     ELSE /\ list' = Append(list, c)
          /\ mem' = [mem EXCEPT ![c] = Fresh]
          /\ file' = [file EXCEPT ![th[t].file] = c]
  /\ th' = [th EXCEPT ![t] = Rest]
  /\ UNCHANGED <<valid, tids, hand, cb, pending, assigned>>

\* where a thread that has released a client goes on
Released(t) == IF t = Dereg THEN [Rest EXCEPT !.at = "loop"] ELSE Rest

\* ReleaseClientID frees the memory of client c: URBs are killed, which wakes
\* up their writers, and c's predecessor gets the successor that was read
\* before the readers were notified
Free_RestLost(t, c, nxt) ==
  LET i == SelectInSeq(list, LAMBDA y : y = c) IN
  /\ list' = SubSeq(list, 1, i - 1)
  /\ mem' = [mem EXCEPT ![c] = Fresh]
  /\ th' = [th EXCEPT ![t] = Released(t)]
Free(t, c, nxt) ==
  LET at(x) == SelectInSeq(list, LAMBDA y : y = x)
      rest == IF nxt = None THEN <<>> ELSE SubSeq(list, at(nxt), Len(list))
      killed == ToSet(mem[c].urbs)
  IN /\ list' = SubSeq(list, 1, at(c) - 1) \o rest
     /\ mem' = [mem EXCEPT ![c] = Fresh]
     /\ th' = [u \in Threads |->
                 IF u = t THEN Released(t)
                 ELSE IF u \in killed /\ th[u].at = "urb"
                      THEN [th[u] EXCEPT !.at = "sent"] ELSE th[u]]

\* ReleaseClientID notifies the first reader, or, when there is none, frees
NotifyOrFree(t, nxt) ==
  LET c == th[t].c IN
  IF mem[c].notify # <<>>
  THEN /\ hand' = [hand EXCEPT
                     ![t] = [at |-> "up", entry |-> Head(mem[c].notify), c |-> c]]
       /\ mem' = [mem EXCEPT ![c].notify = Tail(@)]
       /\ th' = [th EXCEPT ![t].at = "notify", ![t].nxt = nxt]
       /\ UNCHANGED list
  ELSE /\ Free(t, c, nxt)
       /\ UNCHANGED hand

\* the last part of ReleaseClientID, when it takes the lock; assumed: no other
\* thread is notifying
Cleanup(t) ==
  LET c == th[t].c
      i == SelectInSeq(list, LAMBDA y : y = c)
      nxt == IF i \in 1 .. Len(list) - 1 THEN list[i + 1] ELSE None
  IN
  /\ th[t].at = "cleanup"
  /\ NoNotifier
  /\ Overlap \/ cb = NoCb
  /\ IF i # 0 THEN NotifyOrFree(t, nxt)
     ELSE /\ th' = [th EXCEPT ![t] = Released(t)]
          /\ UNCHANGED <<list, mem, hand>>
  /\ UNCHANGED <<valid, file, tids, cb, pending, assigned>>

\* the next turn, with the lock taken again
CleanupAgain_OneNotified(t) ==
  /\ th[t].at = "notify" /\ hand[t] = NoHand
  /\ Free(t, th[t].c, th[t].nxt)
  /\ UNCHANGED <<valid, file, tids, hand, cb, pending, assigned>>
CleanupAgain(t) ==
  /\ th[t].at = "notify" /\ hand[t] = NoHand
  /\ NotifyOrFree(t, th[t].nxt)
  /\ UNCHANGED <<valid, file, tids, cb, pending, assigned>>

\* DeregisterQMIDevice: release the first client until there is none, ...
DeregLoop ==
  LET next == IF list = <<>> THEN "kill" ELSE "release" IN
  /\ th[Dereg].at \in {"idle", "loop"} /\ valid
  /\ IF next = "kill"
     THEN th' = [th EXCEPT ![Dereg].at = "kill"] /\ UNCHANGED tids
     ELSE Releasing(Dereg, Head(list))
  /\ UNCHANGED <<valid, list, mem, file, hand, cb, pending, assigned>>

\* ... then KillRead waits for ReadCallback, and the device is no longer valid
Kill ==
  /\ th[Dereg].at = "kill" /\ cb = NoCb
  /\ valid' = FALSE
  /\ th' = [th EXCEPT ![Dereg].at = "gone"]
  /\ UNCHANGED <<list, mem, file, tids, hand, cb, pending, assigned>>

-----------------------------------------------------------------------------
(* Notifications, which run without the lock.                              *)

\* UpSem
UpSem(h) ==
  LET e == hand[h].entry IN
  /\ hand[h].at = "up" /\ e \in Threads
  /\ hand' = [hand EXCEPT ![h] = NoHand]
  /\ th' = [th EXCEPT ![e].at = IF @ = "asleep" THEN "woken" ELSE @]
  /\ UNCHANGED <<valid, list, mem, file, tids, cb, pending, assigned>>

\* QMIWDSCallback takes a message; without one it ends, and is not armed again
WdsCallback_EndsOnBadPacket(h) ==
  LET c == hand[h].c
      some == Listed(c) /\ mem[c].reads # <<>>
  IN
  /\ hand[h].at = "up" /\ hand[h].entry = Async
  /\ mem' = IF some THEN [mem EXCEPT ![c].reads = Tail(@)] ELSE mem
  /\ \E at \in {"rearm", "none"} :
       hand' = [hand EXCEPT ![h] = IF some /\ at = "rearm"
                                   THEN [@ EXCEPT !.at = at] ELSE NoHand]
  /\ UNCHANGED <<valid, list, file, tids, th, cb, pending, assigned>>
WdsCallback(h) ==
  LET c == hand[h].c
      some == Listed(c) /\ mem[c].reads # <<>>
  IN
  /\ hand[h].at = "up" /\ hand[h].entry = Async
  /\ mem' = IF some THEN [mem EXCEPT ![c].reads = Tail(@)] ELSE mem
  /\ hand' = [hand EXCEPT ![h] = IF some THEN [@ EXCEPT !.at = "rearm"] ELSE NoHand]
  /\ UNCHANGED <<valid, list, file, tids, th, cb, pending, assigned>>

\* ReadAsync at its end: run the callback again when there is a message, or
\* wait for one
ReadAsync(h) ==
  LET c == hand[h].c
      again == Listed(c) /\ mem[c].reads # <<>>
  IN
  /\ hand[h].at = "rearm"
  /\ hand' = [hand EXCEPT ![h] = IF again THEN [@ EXCEPT !.at = "up"] ELSE NoHand]
  /\ mem' = IF Listed(c) /\ ~again
            THEN [mem EXCEPT ![c].notify = Append(@, Async)] ELSE mem
  /\ UNCHANGED <<valid, list, file, tids, th, cb, pending, assigned>>

-----------------------------------------------------------------------------
(* ReadCallback.                                                           *)

\* The message m goes to the clients of `to` from position i of the list on,
\* until one of them has a reader to notify
Post(i, to, m) ==
  LET hits == {j \in i .. Len(list) : list[j] \in to}
      stops == {j \in hits : FirstWaiter(list[j], m.tid) # 0}
      stop == IF stops = {} THEN 0 ELSE CHOOSE j \in stops : \A k \in stops : j <= k
      reached == {list[j] : j \in {k \in hits : stop = 0 \/ k <= stop}}
      c == list[stop]
      w == FirstWaiter(c, m.tid)
      added == [x \in Clients |-> IF x \in reached
                                  THEN [mem[x] EXCEPT !.reads = Append(@, m)] ELSE mem[x]]
  IN IF stop = 0
     THEN mem' = added /\ cb' = NoCb /\ UNCHANGED hand
     ELSE /\ mem' = [added EXCEPT ![c].notify = RemoveAt(@, w)]
          /\ hand' = [hand EXCEPT
                        ![ReadCb] = [at |-> "up", entry |-> mem[c].notify[w], c |-> c]]
          /\ cb' = [to |-> to, msg |-> m, c |-> c]

\* the read URB is there until deregistration kills it
Reading == valid /\ cb = NoCb

\* the modem answers a request; it may refuse to assign an id
Answer(r) ==
  /\ Reading /\ r \in pending
  /\ pending' = pending \ {r}
  /\ \E id \in IF r.op = "get" THEN (Ids \ assigned) \cup {None} ELSE {None} :
       /\ assigned' = IF r.op = "get" THEN assigned \cup ({id} \ {None})
                                      ELSE assigned \ {r.c}
       /\ Post(1, {Ctl}, [n |-> r.n, tid |-> TidOf(r.n), id |-> id])
  /\ UNCHANGED <<valid, list, file, tids, th>>

\* the modem has a message for a client, or for all clients of a service (which
\* is how Wds gets its own here)
Indicate ==
  /\ Reading
  /\ \E to \in {{c} : c \in assigned} \cup {{Wds} \cup Ids} :
       /\ \A c \in to : Len(mem[c].reads) < MaxUnread
       /\ Post(1, to, NoMsg)
  /\ UNCHANGED <<valid, list, file, tids, th, pending, assigned>>

\* with the lock taken again after a notification: on to the next client (a
\* client that was freed meanwhile has no next)
PostOn ==
  LET i == SelectInSeq(list, LAMBDA y : y = cb.c) IN
  /\ cb # NoCb /\ hand[ReadCb] = NoHand
  /\ Post(IF i = 0 THEN Len(list) + 1 ELSE i + 1, cb.to, cb.msg)
  /\ UNCHANGED <<valid, list, file, tids, th, pending, assigned>>

-----------------------------------------------------------------------------
Next ==
  \/ \E t \in Users, f \in Files : Ioctl(t, f) \/ Close(t, f) \/ ReadWrite(t, f)
  \/ \E t \in Threads : \/ Submit(t) \/ Transmitted(t) \/ TakeBack(t) \/ Look(t)
                        \/ Interrupt(t) \/ Register(t) \/ Cleanup(t) \/ CleanupAgain(t)
  \/ DeregLoop \/ Kill
  \/ \E h \in Threads \cup {ReadCb} : UpSem(h) \/ WdsCallback(h) \/ ReadAsync(h)
  \/ \E r \in pending : Answer(r)
  \/ Indicate \/ PostOn

Spec == Init /\ [][Next]_vars

-----------------------------------------------------------------------------
At == {"idle", "write", "urb", "sent", "read", "asleep", "woken", "register",
       "cleanup", "notify", "loop", "kill", "gone"}
Messages == [n : Nat, tid : 0 .. TidRange - 1, id : Ids \cup {None}]

\* TypeOK: every variable has its type; no client is listed twice, and no thread
\* waits twice at a client (mpClientMemList, mpReadNotifyList, mpURBList).
TypeOK ==
  /\ valid \in BOOLEAN
  /\ ToSet(list) \subseteq Clients /\ Cardinality(ToSet(list)) = Len(list)
  /\ \A c \in Clients :
       /\ mem[c].reads \in Seq(Messages)
       /\ ToSet(mem[c].notify) \subseteq Users \cup {Async}
       /\ Cardinality(ToSet(mem[c].notify)) = Len(mem[c].notify)
       /\ ToSet(mem[c].urbs) \subseteq Threads \cup {None}
  /\ file \in [Files -> Ids \cup {None}]
  /\ tids \in Nat
  /\ th \in [Threads -> [at : At, op : {"none", "get", "release", "read", "write"},
                         file : Files \cup {None}, c : Clients \cup {None},
                         n : Nat, got : Nat, nxt : Clients \cup {None}]]
  /\ hand \in [Threads \cup {ReadCb} ->
                [at : {"none", "up", "rearm"}, entry : Users \cup {Async, None},
                 c : Clients \cup {None}]]
  /\ cb \in [to : SUBSET Clients, msg : Messages, c : Clients \cup {None}]
  /\ pending \subseteq [n : Nat, op : {"get", "release"}, c : Ids \cup {None}]
  /\ assigned \subseteq Ids

\* a thread that sleeps in ReadSync has its entry in the memory of a client that
\* is on the list, or a notifier has it in hand: somebody is left to wake it up
SleepersListed ==
  \A t \in Users : th[t].at = "asleep" =>
    \/ Listed(Channel(t)) /\ Contains(mem[Channel(t)].notify, t)
    \/ \E h \in DOMAIN hand : hand[h].entry = t

\* a message that a sleeping reader waits for is not left with it asleep: as
\* many readers of the client are on their way as messages that it could take
NoLostWakeup ==
  \A t \in Users : th[t].at = "asleep" /\ Contains(mem[Channel(t)].notify, t) =>
    LET c == Channel(t)
        wanted == {i \in DOMAIN mem[c].reads :
                     ReadTid(t) \in {0, mem[c].reads[i].tid}}
        coming == {u \in Users : /\ Channel(u) = c /\ ReadTid(u) = ReadTid(t)
                                 /\ \/ th[u].at = "woken"
                                    \/ \E h \in DOMAIN hand : hand[h].entry = u}
    IN Cardinality(wanted) <= Cardinality(coming)

\* ReadersWake: a reader is not left asleep, neither when its client is released
\* under it nor when its answer has come (ReadSync, ReadCallback,
\* ReleaseClientID, NotifyAndPopNotifyList).
ReadersWake == SleepersListed /\ NoLostWakeup

\* OwnAnswer: the answer that GetClientID or ReleaseClientID reads is the one to
\* its own request, with several requests at the modem and answers left behind
\* by readers that were interrupted.
OwnAnswer == \A t \in Threads : th[t].got # 0 => th[t].got = th[t].n

\* FileKeepsClient: until deregistration starts, the client of an open file has
\* its memory and its id, which no other file has, whatever other threads get
\* and release.
FileKeepsClient ==
  /\ \A f \in Files : file[f] # None /\ th[Dereg].at = "idle"
       => Listed(file[f]) /\ file[f] \in assigned
  /\ \A f, g \in Files : file[f] # None /\ file[f] = file[g] => f = g

\* WdsStaysArmed: while client Wds is there, its callback runs, or it is armed and
\* has left no message unread: the driver does not stop to follow the link
\* (QMIWDSCallback, ReadAsync, ReadCallback).
WdsStaysArmed ==
  Listed(Wds) /\ (\A t \in Threads : th[t].at = "notify" => th[t].c # Wds) =>
    \/ Contains(mem[Wds].notify, Async) /\ mem[Wds].reads = <<>>
    \/ \E h \in DOMAIN hand : hand[h].entry = Async
=============================================================================
