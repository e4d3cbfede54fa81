------------------------------- MODULE SfeDrv -------------------------------
(***************************************************************************)
(* The simulated driver, sfe_drv.c: a connection manager (ECM, external)   *)
(* registers a callback and sends messages that create and destroy rules;  *)
(* the driver executes them in the engine (as SfeOffload promises it to    *)
(* be) and answers from a work queue.  What the engine syncs it hands to   *)
(* the registered callback at once, in whatever context the engine calls.  *)
(*                                                                         *)
(* Messages of one family are modelled; the other has a callback of its    *)
(* own and shares the queue.  Counts and time pass through unchanged, so   *)
(* the engine's stand still here.                                          *)
(***************************************************************************)
EXTENDS Integers, FiniteSets, Sequences

CONSTANTS
  Conns, Flows, MaxCount, MaxJiffies, JiffiesRange, None,   \* see SfeOffload
  Senders,     \* contexts of the connection manager that send messages
  MaxAsked,    \* bound: messages sent
  MaxClients   \* bound: registrations

ASSUME DrvAssumption == MaxAsked \in Nat /\ MaxClients \in Nat

VARIABLES
  state, flow, untold, lastSync, msg, callback, jiffies,    \* see SfeOffload
  tx,       \* what each sender is doing, and with which message
  queue,    \* msg_queue: the responses
  work,     \* is the work item pending?
  worker,   \* where the worker is
  hold,     \* the response that the worker has taken from the queue
  client,   \* the registration: its number, and how far it has come
  cb, data, \* ipv4_stats_sync_cb and ipv4_stats_sync_data: whose they are
  sync,     \* the sync callback in each context that the engine calls it from
  module,   \* how far the driver's exit is
  asked,    \* history: messages sent
  answered, \* history: the last message of each sender that was answered
  made      \* history: the message that made each connection's rule

engine == <<state, flow, untold, lastSync, msg, callback, jiffies>>
responses == <<queue, work, worker, hold>>
registration == <<client, cb, data>>
vars == <<engine, tx, responses, registration, sync, module, asked, answered, made>>

Engine == INSTANCE SfeOffload WITH Tuple <- [f \in Flows |-> f]

\* the sync timer, packets, the driver's exit, and senders
Contexts == {"timer", "packet", "exit"} \cup Senders

NoTx == [at |-> "idle"]
NoSync == [at |-> "idle", conn |-> None, cb |-> 0, data |-> 0]
ConnOf(f) == {c \in Engine!Offloaded : flow[c] = f}

Init ==
  /\ Engine!Init
  /\ tx = [t \in Senders |-> NoTx]
  /\ queue = <<>> /\ work = FALSE /\ worker = "idle" /\ hold = NoTx
  /\ client = [gen |-> 0, at |-> "out"] /\ cb = 0 /\ data = 0
  /\ sync = [r \in Contexts |-> NoSync]
  /\ module = "loaded"
  /\ asked = 0 /\ answered = [t \in Senders |-> 0]
  /\ made = [c \in Conns |-> NoTx]

-----------------------------------------------------------------------------
(* sfe_drv_ipv4_tx.  The response is allocated first: a message for which   *)
(* there is no memory is refused, and nothing has happened.                 *)

Send(t, f, kind) ==
  /\ client.at = "in" /\ tx[t].at = "idle" /\ asked < MaxAsked
  /\ asked' = asked + 1
  /\ tx' = [tx EXCEPT ![t] = [at |-> kind, flow |-> f, kind |-> kind, from |-> t,
                              id |-> asked + 1, gen |-> client.gen, ok |-> TRUE]]
  /\ UNCHANGED <<engine, responses, registration, sync, module, answered, made>>

\* the rule is in the engine ...
CreateRule_Unanswered(t, c) ==
  /\ tx[t].at = "create"
  /\ Engine!Offload(c, tx[t].flow)
  /\ made' = [made EXCEPT ![c] = tx[t]]
  /\ tx' = [tx EXCEPT ![t] = NoTx]
  /\ UNCHANGED <<responses, registration, sync, module, asked, answered>>
CreateRule(t, c) ==
  /\ tx[t].at = "create"
  /\ Engine!Offload(c, tx[t].flow)
  /\ made' = [made EXCEPT ![c] = tx[t]]
  /\ tx' = [tx EXCEPT ![t].at = "enqueue"]
  /\ UNCHANGED <<responses, registration, sync, module, asked, answered>>

\* ... or a check failed, a device was not found, or the engine refused
CreateFail(t) ==
  /\ tx[t].at = "create"
  /\ tx' = [tx EXCEPT ![t].at = "enqueue", ![t].ok = FALSE]
  /\ UNCHANGED <<engine, responses, registration, sync, module, asked, answered, made>>

\* A destroyed rule is flushed by the sender itself; the answer is the same
\* when there is none.
DestroyRule(t) ==
  /\ tx[t].at = "destroy"
  /\ tx' = [tx EXCEPT ![t].at = "enqueue"]
  /\ \/ \E c \in ConnOf(tx[t].flow) :
          /\ Engine!Close(c)
          /\ sync' = [sync EXCEPT ![t].at = "flush", ![t].conn = c]
     \/ ConnOf(tx[t].flow) = {} /\ UNCHANGED <<engine, sync>>
  /\ UNCHANGED <<responses, registration, module, asked, answered, made>>

\* sfe_drv_enqueue_msg: the response joins the queue, under the lock, ...
Enqueue_AtFront(t) ==
  /\ tx[t].at = "enqueue" /\ sync[t].at = "idle"
  /\ queue' = <<tx[t]>> \o queue
  /\ tx' = [tx EXCEPT ![t].at = "schedule"]
  /\ UNCHANGED <<engine, work, worker, hold, registration, sync, module, asked, answered, made>>
Enqueue(t) ==
  /\ tx[t].at = "enqueue" /\ sync[t].at = "idle"
  /\ queue' = Append(queue, tx[t])
  /\ tx' = [tx EXCEPT ![t].at = "schedule"]
  /\ UNCHANGED <<engine, work, worker, hold, registration, sync, module, asked, answered, made>>

\* ... and the work is scheduled, when it is not pending already
Schedule(t) ==
  /\ tx[t].at = "schedule"
  /\ work' = TRUE
  /\ tx' = [tx EXCEPT ![t] = NoTx]
  /\ UNCHANGED <<engine, queue, worker, hold, registration, sync, module, asked, answered, made>>

-----------------------------------------------------------------------------
(* sfe_drv_process_response_msg, on the work queue                          *)

\* the work queue clears the pending bit before it calls the function
StartWork ==
  /\ work /\ worker = "idle"
  /\ work' = FALSE /\ worker' = "pop"
  /\ UNCHANGED <<engine, tx, queue, hold, registration, sync, module, asked, answered, made>>

Pop ==
  /\ worker = "pop"
  /\ IF queue = <<>>
     THEN worker' = "idle" /\ UNCHANGED <<queue, hold>>
     ELSE worker' = "check" /\ hold' = Head(queue) /\ queue' = Tail(queue)
  /\ UNCHANGED <<engine, tx, work, registration, sync, module, asked, answered, made>>

\* Under rcu_read_lock, a response is for nobody when nobody is registered ...
Check ==
  /\ worker = "check"
  /\ IF cb = 0
     THEN worker' = "pop" /\ hold' = NoTx
     ELSE worker' = "call" /\ UNCHANGED hold
  /\ UNCHANGED <<engine, tx, queue, work, registration, sync, module, asked, answered, made>>

\* ... and is told to its own callback otherwise.
Answer_StopsAfterOne ==
  /\ worker = "call"
  /\ answered' = [answered EXCEPT ![hold.from] = hold.id]
  /\ worker' = "idle" /\ hold' = NoTx
  /\ UNCHANGED <<engine, tx, queue, work, registration, sync, module, asked, made>>
Answer ==
  /\ worker = "call"
  /\ answered' = [answered EXCEPT ![hold.from] = hold.id]
  /\ worker' = "pop" /\ hold' = NoTx
  /\ UNCHANGED <<engine, tx, queue, work, registration, sync, module, asked, made>>

-----------------------------------------------------------------------------
(* The engine's syncs.                                                      *)

\* the timer reports a connection
TimerReport(c) ==
  /\ callback /\ sync["timer"].at = "idle"
  /\ Engine!Report(c, jiffies)
  /\ UNCHANGED <<tx, responses, registration, sync, module, asked, answered, made>>

TimerDeliver ==
  /\ sync["timer"].at = "idle"
  /\ Engine!Deliver
  /\ sync' = [sync EXCEPT !["timer"].at = "read cb"]
  /\ UNCHANGED <<tx, responses, registration, module, asked, answered, made>>

\* a packet ends a flow: a FIN, an ICMP error, one that cannot be forwarded; also
\* one that was under way when the exit unhooked the receive path
LeaveFastPath(c) ==
  /\ sync["packet"].at = "idle"
  /\ Engine!Close(c)
  /\ sync' = [sync EXCEPT !["packet"].at = "flush", !["packet"].conn = c]
  /\ UNCHANGED <<tx, responses, registration, module, asked, answered, made>>

\* sfe_ipv4_flush_sfe_ipv4_connection
Flush(r) ==
  /\ sync[r].at = "flush"
  /\ \/ Engine!Final(sync[r].conn) /\ sync' = [sync EXCEPT ![r].at = "read cb"]
     \/ Engine!Drop(sync[r].conn) /\ sync' = [sync EXCEPT ![r] = NoSync]
  /\ UNCHANGED <<tx, responses, registration, module, asked, answered, made>>

\* sfe_drv_ipv4_stats_sync_callback, under rcu_read_lock: who is registered, ...
SyncReadCb(r) ==
  /\ sync[r].at = "read cb"
  /\ sync' = [sync EXCEPT ![r] = IF cb = 0 THEN NoSync
                                 ELSE [@ EXCEPT !.at = "read data", !.cb = cb]]
  /\ UNCHANGED <<engine, tx, responses, registration, module, asked, answered, made>>

\* ... with which data, ...
SyncReadData(r) ==
  /\ sync[r].at = "read data"
  /\ sync' = [sync EXCEPT ![r].at = "call", ![r].data = data]
  /\ UNCHANGED <<engine, tx, responses, registration, module, asked, answered, made>>

\* ... and the call
SyncCall(r) ==
  /\ sync[r].at = "call"
  /\ sync' = [sync EXCEPT ![r] = NoSync]
  /\ UNCHANGED <<engine, tx, responses, registration, module, asked, answered, made>>

\* the connection is freed when its flush is over
Release(c) ==
  /\ \A r \in Contexts : sync[r].conn # c
  /\ Engine!Release(c)
  /\ made' = [made EXCEPT ![c] = NoTx]
  /\ UNCHANGED <<tx, responses, registration, sync, module, asked, answered>>

-----------------------------------------------------------------------------
(* Registration.  The connection manager keeps order among its own calls:   *)
(* it sends while it is registered, unregisters when none of its messages   *)
(* is being sent, and lets readers finish before it registers again.        *)

InCallback == worker = "call" \/ \E r \in Contexts : sync[r].at \in {"read data", "call"}

\* sfe_drv_ipv4_notify_register: the engine's callback, the pointer, the data
Register ==
  /\ client.at = "out" /\ module = "loaded" /\ client.gen < MaxClients
  /\ ~InCallback
  /\ Engine!Register(TRUE)
  /\ client' = [gen |-> client.gen + 1, at |-> "set cb"]
  /\ UNCHANGED <<tx, responses, cb, data, sync, module, asked, answered, made>>

RegisterCb ==
  /\ client.at = "set cb"
  /\ cb' = client.gen /\ client' = [client EXCEPT !.at = "set data"]
  /\ UNCHANGED <<engine, tx, responses, data, sync, module, asked, answered, made>>

RegisterData ==
  /\ client.at = "set data"
  /\ data' = client.gen /\ client' = [client EXCEPT !.at = "in"]
  /\ UNCHANGED <<engine, tx, responses, cb, sync, module, asked, answered, made>>

\* sfe_drv_ipv4_notify_unregister: the same three, ...
Unregister ==
  /\ client.at = "in" /\ \A t \in Senders : tx[t].at = "idle"
  /\ Engine!Register(FALSE)
  /\ client' = [client EXCEPT !.at = "clear cb"]
  /\ UNCHANGED <<tx, responses, cb, data, sync, module, asked, answered, made>>

UnregisterCb ==
  /\ client.at = "clear cb"
  /\ cb' = 0 /\ client' = [client EXCEPT !.at = "clear data"]
  /\ UNCHANGED <<engine, tx, responses, data, sync, module, asked, answered, made>>

UnregisterData ==
  /\ client.at = "clear data"
  /\ data' = 0 /\ client' = [client EXCEPT !.at = "clean"]
  /\ UNCHANGED <<engine, tx, responses, cb, sync, module, asked, answered, made>>

\* ... then sfe_drv_clean_response_msg_by_type
CleanResponses_HeadOnly ==
  /\ client.at = "clean"
  /\ queue' = IF queue = <<>> THEN <<>> ELSE Tail(queue)
  /\ client' = [client EXCEPT !.at = "out"]
  /\ UNCHANGED <<engine, tx, work, worker, hold, cb, data, sync, module, asked, answered, made>>
CleanResponses ==
  /\ client.at = "clean"
  /\ queue' = <<>>
  /\ client' = [client EXCEPT !.at = "out"]
  /\ UNCHANGED <<engine, tx, work, worker, hold, cb, data, sync, module, asked, answered, made>>

-----------------------------------------------------------------------------
(* sfe_drv_exit, when the connection manager is unloaded                    *)

Exit ==
  /\ module = "loaded" /\ client.at = "out"
  /\ module' = "exit"
  /\ UNCHANGED <<engine, tx, responses, registration, sync, asked, answered, made>>

\* sfe_ipv4_destroy_all_rules_for_dev( NULL ), one rule after the other, ...
ExitDestroy(c) ==
  /\ module = "exit" /\ sync["exit"].at = "idle"
  /\ Engine!Close(c)
  /\ sync' = [sync EXCEPT !["exit"].at = "flush", !["exit"].conn = c]
  /\ UNCHANGED <<tx, responses, registration, module, asked, answered, made>>

\* ... then cancel_work_sync, which waits for the worker, ...
ExitCancel ==
  /\ module = "exit" /\ Engine!Offloaded = {} /\ sync["exit"].at = "idle"
  /\ worker = "idle"
  /\ work' = FALSE /\ module' = "cancelled"
  /\ UNCHANGED <<engine, tx, queue, worker, hold, registration, sync, asked, answered, made>>

\* ... and what is left in the queue is for nobody; it unregisters what the
\* connection manager has unregistered before
ExitFree ==
  /\ module = "cancelled"
  /\ queue' = <<>> /\ module' = "gone"
  /\ UNCHANGED <<engine, tx, work, worker, hold, registration, sync, asked, answered, made>>

-----------------------------------------------------------------------------
Worker == StartWork \/ Pop \/ Check \/ Answer

Sending(t) ==
  \/ \E c \in Conns : CreateRule(t, c)
  \/ CreateFail(t) \/ DestroyRule(t) \/ Enqueue(t) \/ Schedule(t)

Syncing(r) == Flush(r) \/ SyncReadCb(r) \/ SyncReadData(r) \/ SyncCall(r)

Next ==
  \/ \E t \in Senders :
       \/ \E f \in Flows, kind \in {"create", "destroy"} : Send(t, f, kind)
       \/ Sending(t)
  \/ \E r \in Contexts : Syncing(r)
  \/ \E c \in Conns : TimerReport(c) \/ LeaveFastPath(c) \/ Release(c) \/ ExitDestroy(c)
  \/ Worker \/ TimerDeliver
  \/ Register \/ RegisterCb \/ RegisterData
  \/ Unregister \/ UnregisterCb \/ UnregisterData \/ CleanResponses
  \/ Exit \/ ExitCancel \/ ExitFree

\* Work that is pending is done, and processes that are in the driver go on.
Fairness ==
  /\ WF_vars(Worker)
  /\ \A t \in Senders : WF_vars(Sending(t))
  /\ \A r \in Contexts : WF_vars(Syncing(r))

Spec == Init /\ [][Next]_vars /\ Fairness

-----------------------------------------------------------------------------
\* Responses on their way to the client, in order: the worker's and the queue's.
Line == (IF hold = NoTx THEN <<>> ELSE <<hold>>) \o queue

\* AnswersInOrder: a sender is answered in the order of its messages, each at
\* most once, whatever other senders and the worker do (sfe_drv_enqueue_msg,
\* sfe_drv_process_response_msg).
AnswersInOrder ==
  \A i \in 1 .. Len(Line) :
    /\ answered[Line[i].from] < Line[i].id
    /\ \A j \in 1 .. i - 1 : Line[j].from = Line[i].from => Line[j].id < Line[i].id

\* RuleIsKnown: a rule that the registered client has made is never without an
\* answer: it was given, or is on its way, for the response is allocated before
\* the rule is made (sfe_drv_create_ipv4_rule_msg).
RuleIsKnown ==
  \A c \in Engine!Offloaded :
    LET m == made[c]
    IN client.at = "in" /\ m.gen = client.gen =>
         \/ m.id <= answered[m.from]
         \/ \E i \in 1 .. Len(Line) : Line[i].id = m.id /\ Line[i].ok
         \/ tx[m.from].at = "enqueue" /\ tx[m.from].id = m.id

\* when unregistering is over, no response of the old client is queued
QueueIsClients ==
  \A i \in 1 .. Len(queue) : queue[i].gen = client.gen /\ client.at # "out"

\* a callback gets the data it was registered with, or none
DataIsClients ==
  \A r \in Contexts : sync[r].at = "call" => sync[r].data \in {sync[r].cb, 0}

\* when the module is gone, no rule would sync into it and no work runs in it
ExitLeavesNothing ==
  module = "gone" => Engine!Offloaded = {} /\ queue = <<>> /\ worker = "idle" /\ ~work

\* NothingOutlives: whatever senders, worker and syncs are doing, what belongs to
\* a registration goes when it ends, and what belongs to the driver when it
\* exits (sfe_drv_ipv4_notify_unregister, sfe_drv_exit).  A response that the
\* worker holds and a sync that is under way are not covered: both may find
\* the next registration, or none.
NothingOutlives == QueueIsClients /\ DataIsClients /\ ExitLeavesNothing

\* AnswersArrive: a message is answered as long as its client stays registered:
\* no wakeup is lost between the queue and the worker (schedule_work).
AnswersArrive ==
  \A n \in 1 .. MaxAsked :
    (\E t \in Senders : tx[t].at \in {"create", "destroy"} /\ tx[t].id = n) ~>
      (\E t \in Senders : answered[t] >= n) \/ client.at # "in"

=============================================================================
