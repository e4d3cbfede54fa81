---------------------------- MODULE SfeDrvProofs ----------------------------
(***************************************************************************)
(* The simulated driver for any connections, flows, senders, messages and  *)
(* registrations: AnswersInOrder, RuleIsKnown and NothingOutlives.  Time   *)
(* and counts of the engine play no part.                                  *)
(***************************************************************************)
EXTENDS SfeDrv, TLAPS

\* Messages that are being sent, and their responses.
Messages == [at : {"create", "destroy", "enqueue", "schedule"}, flow : Flows,
             kind : {"create", "destroy"}, from : Senders, id : Nat, gen : Nat, ok : BOOLEAN]

Syncs == [at : {"idle", "flush", "read cb", "read data", "call"}, conn : Conns \cup {None},
          cb : Nat, data : Nat]

\* The types, in five parts: a sender's message is its own; ...
TxTypes ==
  /\ tx \in [Senders -> Messages \cup {NoTx}]
  /\ \A t \in Senders : tx[t] # NoTx => tx[t].from = t
  /\ asked \in Nat /\ answered \in [Senders -> Nat]

\* ... the worker holds a response between taking it and telling it; ...
ResponseTypes ==
  /\ queue \in Seq(Messages) /\ work \in BOOLEAN
  /\ worker \in {"idle", "pop", "check", "call"}
  /\ hold \in Messages \cup {NoTx}
  /\ hold = NoTx <=> worker \in {"idle", "pop"}

RegistrationTypes ==
  /\ client \in [gen : Nat, at : {"out", "set cb", "set data", "in", "clear cb",
                                  "clear data", "clean"}]
  /\ cb \in Nat /\ data \in Nat
  /\ module \in {"loaded", "exit", "cancelled", "gone"}

SyncTypes == sync \in [Contexts -> Syncs]

\* ... a rule has a message that made it.
RuleTypes ==
  /\ state \in [Conns -> {"free", "offloaded", "closing", "closed"}]
  /\ made \in [Conns -> Messages \cup {NoTx}]
  /\ \A c \in Conns : state[c] = "offloaded" => made[c] # NoTx

TypeInv == TxTypes /\ ResponseTypes /\ RegistrationTypes /\ SyncTypes /\ RuleTypes

-----------------------------------------------------------------------------
(* The steps in groups, and what each group leaves alone.                   *)

Sends(t) ==
  \/ \E f \in Flows, kind \in {"create", "destroy"} : Send(t, f, kind)
  \/ \E c \in Conns : CreateRule(t, c)
  \/ CreateFail(t) \/ DestroyRule(t) \/ Enqueue(t) \/ Schedule(t)

EngineSteps ==
  \/ \E r \in Contexts : Syncing(r)
  \/ \E c \in Conns : TimerReport(c) \/ LeaveFastPath(c) \/ Release(c) \/ ExitDestroy(c)
  \/ TimerDeliver

Registering ==
  \/ Register \/ RegisterCb \/ RegisterData
  \/ Unregister \/ UnregisterCb \/ UnregisterData \/ CleanResponses

Exiting == Exit \/ ExitCancel \/ ExitFree

\* Every step is of one of the groups.
LEMMA Groups ==
  [Next]_vars <=> \/ \E t \in Senders : Sends(t)
                  \/ Worker \/ EngineSteps \/ Registering \/ Exiting \/ UNCHANGED vars
  BY DEF Next, Sends, Sending, EngineSteps, Registering, Exiting

\* A sender leaves the worker and the registration alone.
LEMMA SendsFrame ==
  ASSUME NEW t \in Senders, Sends(t)
  PROVE  UNCHANGED <<worker, hold, client, cb, data, module, answered>>
  BY DEF Sends, Send, CreateRule, CreateFail, DestroyRule, Enqueue, Schedule, responses,
         registration

\* The worker touches only the responses and what was answered.
LEMMA WorkerFrame ==
  ASSUME Worker
  PROVE  UNCHANGED <<state, tx, client, cb, data, sync, module, asked, made>>
  BY DEF Worker, StartWork, Pop, Check, Answer, engine, registration

\* The engine's steps touch only rules and syncs.
LEMMA EngineFrame ==
  ASSUME EngineSteps
  PROVE  UNCHANGED <<tx, queue, work, worker, hold, client, cb, data, module, asked, answered>>
  BY DEF EngineSteps, Syncing, Flush, SyncReadCb, SyncReadData, SyncCall, TimerReport,
         LeaveFastPath, Release, ExitDestroy, TimerDeliver, responses, registration

\* Registering touches only the registration and the queue.
LEMMA RegisteringFrame ==
  ASSUME Registering
  PROVE  UNCHANGED <<state, tx, work, worker, hold, sync, module, asked, answered, made>>
  BY DEF Registering, Register, RegisterCb, RegisterData, Unregister, UnregisterCb,
         UnregisterData, CleanResponses, Engine!Register, engine, responses

\* The exit touches only its own progress and the work.
LEMMA ExitingFrame ==
  ASSUME Exiting
  PROVE  UNCHANGED <<state, tx, worker, hold, client, cb, data, sync, asked, answered, made>>
  BY DEF Exiting, Exit, ExitCancel, ExitFree, engine, responses, registration

-----------------------------------------------------------------------------
(* Types                                                                    *)

\* NoTx is not a message.
LEMMA NoMessage == NoTx \notin Messages /\ NoTx.at = "idle"
  BY DEF NoTx, Messages

\* A sender that is not idle has a message, its own.
LEMMA TxIsMessage ==
  ASSUME TxTypes, NEW t \in Senders, tx[t].at # "idle"
  PROVE  tx[t] \in Messages /\ tx[t].from = t /\ tx[t] # NoTx
<1>1. tx[t] # NoTx
  BY NoMessage
<1>. QED BY <1>1 DEF TxTypes

\* What a sender's step makes of its message.
LEMMA SenderSteps ==
  ASSUME TxTypes, RegistrationTypes, NEW t \in Senders, Sends(t)
  PROVE  \E m \in Messages \cup {NoTx} :
           /\ tx' = [tx EXCEPT ![t] = m]
           /\ m # NoTx => m.from = t
           /\ asked' \in Nat
<1>1. ASSUME NEW f \in Flows, NEW kind \in {"create", "destroy"}, Send(t, f, kind)
      PROVE  /\ tx' = [tx EXCEPT ![t] = [at |-> kind, flow |-> f, kind |-> kind, from |-> t,
                                         id |-> asked + 1, gen |-> client.gen, ok |-> TRUE]]
             /\ [at |-> kind, flow |-> f, kind |-> kind, from |-> t,
                 id |-> asked + 1, gen |-> client.gen, ok |-> TRUE] \in Messages
             /\ asked' \in Nat
  <2>1. asked \in Nat /\ client.gen \in Nat
    BY DEF TxTypes, RegistrationTypes
  <2>. QED BY <1>1, <2>1 DEF Send, Messages
<1>2. ASSUME NEW at \in {"enqueue", "schedule"}, NEW ok \in BOOLEAN, tx[t] \in Messages
      PROVE  /\ [tx[t] EXCEPT !.at = at] \in Messages
             /\ [tx[t] EXCEPT !.at = at].from = tx[t].from
             /\ [tx[t] EXCEPT !.at = at, !.ok = ok] \in Messages
             /\ [tx[t] EXCEPT !.at = at, !.ok = ok].from = tx[t].from
  BY <1>2 DEF Messages
<1>3. CASE Schedule(t)
  BY <1>3 DEF Schedule, TxTypes
<1>4. CASE (\E c \in Conns : CreateRule(t, c)) \/ CreateFail(t) \/ DestroyRule(t) \/ Enqueue(t)
  <2>1. tx[t] \in Messages /\ tx[t].from = t
    BY <1>4, TxIsMessage DEF CreateRule, CreateFail, DestroyRule, Enqueue
  <2>2. \/ tx' = [tx EXCEPT ![t] = [tx[t] EXCEPT !.at = "enqueue"]]
        \/ tx' = [tx EXCEPT ![t] = [tx[t] EXCEPT !.at = "enqueue", !.ok = FALSE]]
        \/ tx' = [tx EXCEPT ![t] = [tx[t] EXCEPT !.at = "schedule"]]
    BY <1>4, <2>1 DEF CreateRule, CreateFail, DestroyRule, Enqueue
  <2>3. asked' \in Nat
    BY <1>4 DEF CreateRule, CreateFail, DestroyRule, Enqueue, TxTypes
  <2>. QED BY <1>2, <2>1, <2>2, <2>3
<1>. QED BY <1>1, <1>3, <1>4 DEF Sends

\* TxTypes is kept.
LEMMA TxTypesStep == TypeInv /\ [Next]_vars => TxTypes'
<1>. SUFFICES ASSUME TypeInv, [Next]_vars  PROVE TxTypes'
  OBVIOUS
<1>0. TxTypes /\ RegistrationTypes /\ ResponseTypes
  BY DEF TypeInv
<1>1. CASE \E t \in Senders : Sends(t)
  <2>. PICK t \in Senders : Sends(t)
    BY <1>1
  <2>. PICK m \in Messages \cup {NoTx} : /\ tx' = [tx EXCEPT ![t] = m]
                                         /\ m # NoTx => m.from = t
                                         /\ asked' \in Nat
    BY <1>0, SenderSteps
  <2>. QED BY <1>0, SendsFrame DEF TxTypes
<1>2. CASE Answer
  <2>1. hold.from \in Senders /\ hold.id \in Nat
    BY <1>0, <1>2 DEF Answer, ResponseTypes, Messages
  <2>. QED BY <1>0, <1>2, <2>1 DEF Answer, TxTypes
<1>3. CASE UNCHANGED <<tx, asked, answered>>
  BY <1>0, <1>3 DEF TxTypes
<1>4. StartWork \/ Pop \/ Check => UNCHANGED <<tx, asked, answered>>
  BY DEF StartWork, Pop, Check
<1>. QED BY <1>1, <1>2, <1>3, <1>4, Groups, EngineFrame, RegisteringFrame, ExitingFrame
         DEF Worker, vars

\* ResponseTypes is kept.
LEMMA ResponseTypesStep == TypeInv /\ [Next]_vars => ResponseTypes'
<1>. SUFFICES ASSUME TypeInv, [Next]_vars  PROVE ResponseTypes'
  OBVIOUS
<1>0. TxTypes /\ ResponseTypes
  BY DEF TypeInv
<1>. DEFINE Queues == queue \in Seq(Messages)
            Others == /\ work \in BOOLEAN /\ worker \in {"idle", "pop", "check", "call"}
                      /\ hold \in Messages \cup {NoTx}
                      /\ hold = NoTx <=> worker \in {"idle", "pop"}
<1>00. ResponseTypes' <=> Queues' /\ Others'
  BY DEF ResponseTypes
<1>1. Queues'
  <2>1. CASE \E t \in Senders : Enqueue(t)
    <3>. PICK t \in Senders : Enqueue(t)
      BY <2>1
    <3>1. tx[t] \in Messages
      BY <1>0, TxIsMessage DEF Enqueue
    <3>. QED BY <1>0, <3>1 DEF Enqueue, ResponseTypes
  <2>2. CASE queue' = <<>> \/ UNCHANGED queue \/ (queue # <<>> /\ queue' = Tail(queue))
    <3>1. <<>> \in Seq(Messages) /\ queue \in Seq(Messages)
      BY <1>0 DEF ResponseTypes
    <3>2. queue # <<>> => Tail(queue) \in Seq(Messages)
      BY <3>1
    <3>. QED BY <2>2, <3>1, <3>2
  <2>3. Worker => UNCHANGED queue \/ (queue # <<>> /\ queue' = Tail(queue))
    BY DEF Worker, StartWork, Pop, Check, Answer
  <2>4. Registering => UNCHANGED queue \/ queue' = <<>>
    BY DEF Registering, Register, RegisterCb, RegisterData, Unregister, UnregisterCb,
         UnregisterData, CleanResponses, responses
  <2>5. Exiting => UNCHANGED queue \/ queue' = <<>>
    BY DEF Exiting, Exit, ExitCancel, ExitFree, responses
  <2>6. (\E t \in Senders : Sends(t)) => UNCHANGED queue \/ \E t \in Senders : Enqueue(t)
    BY DEF Sends, Send, CreateRule, CreateFail, DestroyRule, Schedule, responses
  <2>. QED BY <2>1, <2>2, <2>3, <2>4, <2>5, <2>6, Groups, EngineFrame DEF vars, responses
<1>2. Others'
  <2>0. Others
    BY <1>0 DEF ResponseTypes
  <2>1. CASE Worker
    <3>1. queue # <<>> => Head(queue) \in Messages
      BY <1>0 DEF ResponseTypes
    <3>. QED BY <2>0, <2>1, <3>1, NoMessage DEF Worker, StartWork, Pop, Check, Answer
  <2>2. CASE \E t \in Senders : Sends(t)
    <3>1. work' \in BOOLEAN
      BY <2>0, <2>2 DEF Sends, Send, CreateRule, CreateFail, DestroyRule, Enqueue, Schedule,
                        responses
    <3>. QED BY <2>0, <2>2, <3>1, SendsFrame
  <2>3. CASE Exiting
    <3>1. work' \in BOOLEAN
      BY <2>0, <2>3 DEF Exiting, Exit, ExitCancel, ExitFree, responses
    <3>. QED BY <2>0, <2>3, <3>1, ExitingFrame
  <2>4. CASE UNCHANGED <<work, worker, hold>>
    BY <2>0, <2>4
  <2>. QED BY <2>1, <2>2, <2>3, <2>4, Groups, EngineFrame, RegisteringFrame DEF vars, responses
<1>. QED BY <1>00, <1>1, <1>2

\* RegistrationTypes is kept.
LEMMA RegistrationTypesStep == TypeInv /\ [Next]_vars => RegistrationTypes'
<1>. SUFFICES ASSUME RegistrationTypes, [Next]_vars  PROVE RegistrationTypes'
  BY DEF TypeInv
<1>1. CASE Registering
  <2>. DEFINE Ats == {"out", "set cb", "set data", "in", "clear cb", "clear data", "clean"}
  <2>0. client \in [gen : Nat, at : Ats]
    BY DEF RegistrationTypes
  <2>1. client' \in [gen : Nat, at : Ats]
    <3>1. Register => client' \in [gen : Nat, at : Ats]
      <4>0. client.gen \in Nat
        BY DEF RegistrationTypes
      <4>1. client.gen + 1 \in Nat
        BY <4>0
      <4>2. \A n \in Nat : [gen |-> n, at |-> "set cb"] \in [gen : Nat, at : Ats]
        OBVIOUS
      <4>3. Register => client' = [gen |-> client.gen + 1, at |-> "set cb"]
        BY DEF Register
      <4>. QED BY <4>1, <4>2, <4>3, Zenon
    <3>2. ~Register => \E at \in Ats : client' = [client EXCEPT !.at = at]
      BY <1>1 DEF Registering, RegisterCb, RegisterData, Unregister, UnregisterCb,
                  UnregisterData, CleanResponses
    <3>3. \A at \in Ats : [client EXCEPT !.at = at] \in [gen : Nat, at : Ats]
      BY <2>0
    <3>. QED BY <3>1, <3>2, <3>3
  <2>2. cb' \in {cb, client.gen, 0} /\ data' \in {data, client.gen, 0}
    BY <1>1 DEF Registering, Register, RegisterCb, RegisterData, Unregister, UnregisterCb,
                UnregisterData, CleanResponses
  <2>3. client.gen \in Nat /\ cb \in Nat /\ data \in Nat
    BY DEF RegistrationTypes
  <2>4. cb' \in Nat /\ data' \in Nat
    BY <2>2, <2>3
  <2>. QED BY <1>1, <2>1, <2>4, RegisteringFrame DEF RegistrationTypes
<1>2. CASE Exiting
  <2>1. module' \in {"exit", "cancelled", "gone"}
    BY <1>2 DEF Exiting, Exit, ExitCancel, ExitFree
  <2>. QED BY <1>2, <2>1, ExitingFrame DEF RegistrationTypes
<1>3. CASE UNCHANGED <<client, cb, data, module>>
  BY <1>3 DEF RegistrationTypes
<1>. QED BY <1>1, <1>2, <1>3, Groups, SendsFrame, WorkerFrame, EngineFrame DEF vars, registration

\* The sync callback of a context goes through its steps ...
LEMMA SyncingSteps ==
  ASSUME SyncTypes, RegistrationTypes, NEW r \in Contexts, Syncing(r)
  PROVE  \E s \in Syncs : sync' = [sync EXCEPT ![r] = s]
<1>0. sync[r] \in Syncs /\ cb \in Nat /\ data \in Nat
  BY DEF SyncTypes, RegistrationTypes
<1>1. NoSync \in Syncs
  BY DEF NoSync, Syncs
<1>2. [sync[r] EXCEPT !.at = "read cb"] \in Syncs
  BY <1>0 DEF Syncs
<1>3. [sync[r] EXCEPT !.at = "read data", !.cb = cb] \in Syncs
  BY <1>0 DEF Syncs
<1>4. [sync[r] EXCEPT !.at = "call", !.data = data] \in Syncs
  BY <1>0 DEF Syncs
<1>5. CASE Flush(r)
  BY <1>1, <1>2, <1>5 DEF Flush
<1>6. CASE SyncReadCb(r)
  BY <1>1, <1>3, <1>6 DEF SyncReadCb
<1>7. CASE SyncReadData(r)
  BY <1>4, <1>7 DEF SyncReadData
<1>8. CASE SyncCall(r)
  BY <1>1, <1>8 DEF SyncCall
<1>. QED BY <1>5, <1>6, <1>7, <1>8 DEF Syncing

\* ... and begins with a flush, or a message of the timer.
LEMMA SyncBegins ==
  ASSUME SyncTypes, NEW c \in Conns
  PROVE  /\ LeaveFastPath(c) => \E s \in Syncs : sync' = [sync EXCEPT !["packet"] = s]
         /\ ExitDestroy(c) => \E s \in Syncs : sync' = [sync EXCEPT !["exit"] = s]
         /\ TimerDeliver => \E s \in Syncs : sync' = [sync EXCEPT !["timer"] = s]
         /\ \A t \in Senders : [sync[t] EXCEPT !.at = "flush", !.conn = c] \in Syncs
<1>1. \A r \in Contexts : sync[r] \in Syncs
  BY DEF SyncTypes
<1>2. \A r \in Contexts : /\ [sync[r] EXCEPT !.at = "flush", !.conn = c] \in Syncs
                          /\ [sync[r] EXCEPT !.at = "read cb"] \in Syncs
  BY <1>1 DEF Syncs
<1>3. {"timer", "packet", "exit"} \subseteq Contexts /\ Senders \subseteq Contexts
  BY DEF Contexts
<1>4. LeaveFastPath(c)
        => sync' = [sync EXCEPT !["packet"] = [sync["packet"] EXCEPT !.at = "flush", !.conn = c]]
  BY DEF LeaveFastPath
<1>5. ExitDestroy(c)
        => sync' = [sync EXCEPT !["exit"] = [sync["exit"] EXCEPT !.at = "flush", !.conn = c]]
  BY DEF ExitDestroy
<1>6. TimerDeliver
        => sync' = [sync EXCEPT !["timer"] = [sync["timer"] EXCEPT !.at = "read cb"]]
  BY DEF TimerDeliver
<1>. QED BY <1>2, <1>3, <1>4, <1>5, <1>6

\* A sender that destroys a rule flushes it.
LEMMA DestroyBegins ==
  ASSUME SyncTypes, NEW t \in Senders, DestroyRule(t)
  PROVE  \/ UNCHANGED <<state, sync>>
         \/ \E c \in Conns : /\ state[c] = "offloaded"
                             /\ state' = [state EXCEPT ![c] = "closing"]
                             /\ sync' = [sync EXCEPT ![t].at = "flush", ![t].conn = c]
  BY DEF DestroyRule, ConnOf, Engine!Offloaded, Engine!Close, engine

\* SyncTypes is kept.
LEMMA SyncTypesStep == TypeInv /\ [Next]_vars => SyncTypes'
<1>. SUFFICES ASSUME SyncTypes, RegistrationTypes, [Next]_vars  PROVE SyncTypes'
  BY DEF TypeInv
<1>0. {"timer", "packet", "exit"} \subseteq Contexts /\ Senders \subseteq Contexts
  BY DEF Contexts
<1>1. ASSUME NEW r \in Contexts, NEW s \in Syncs, sync' = [sync EXCEPT ![r] = s]
      PROVE  SyncTypes'
  BY <1>1 DEF SyncTypes
<1>2. CASE UNCHANGED sync
  BY <1>2 DEF SyncTypes
<1>3. CASE \E t \in Senders : Sends(t)
  <2>1. CASE \E t \in Senders : DestroyRule(t)
    <3>. PICK t \in Senders : DestroyRule(t)
      BY <2>1
    <3>1. CASE \E c \in Conns : sync' = [sync EXCEPT ![t].at = "flush", ![t].conn = c]
      <4>. PICK c \in Conns : sync' = [sync EXCEPT ![t].at = "flush", ![t].conn = c]
        BY <3>1
      <4>1. sync' = [sync EXCEPT ![t] = [sync[t] EXCEPT !.at = "flush", !.conn = c]]
        OBVIOUS
      <4>. QED BY <1>0, <1>1, <4>1, SyncBegins
    <3>. QED BY <1>2, <3>1, DestroyBegins
  <2>2. (\E t \in Senders : DestroyRule(t)) \/ UNCHANGED sync
    BY <1>3 DEF Sends, Send, CreateRule, CreateFail, Enqueue, Schedule
  <2>. QED BY <1>2, <2>1, <2>2
<1>4. CASE EngineSteps
  <2>1. UNCHANGED sync \/ \E r \in Contexts, s \in Syncs : sync' = [sync EXCEPT ![r] = s]
    <3>1. \A c \in Conns : TimerReport(c) \/ Release(c) => UNCHANGED sync
      BY DEF TimerReport, Release
    <3>2. TimerDeliver => \E s \in Syncs : sync' = [sync EXCEPT !["timer"] = s]
      <4>1. [sync["timer"] EXCEPT !.at = "read cb"] \in Syncs
        BY <1>0 DEF SyncTypes, Syncs
      <4>. QED BY <4>1 DEF TimerDeliver
    <3>. QED BY <1>0, <1>4, <3>1, <3>2, SyncingSteps, SyncBegins DEF EngineSteps
  <2>. QED BY <1>1, <1>2, <2>1
<1>. QED BY <1>2, <1>3, <1>4, Groups, WorkerFrame, RegisteringFrame, ExitingFrame DEF vars

\* What the steps do to the rules: one is made, begins to close, ends to, or goes.
LEMMA RuleSteps ==
  ASSUME TypeInv, [Next]_vars
  PROVE  \/ \E t \in Senders, c \in Conns : CreateRule(t, c)
         \/ \E c \in Conns : Release(c)
         \/ /\ UNCHANGED made
            /\ \/ UNCHANGED state
               \/ \E c \in Conns, s \in {"closing", "closed"} : state' = [state EXCEPT ![c] = s]
<1>1. CASE \E t \in Senders : Sends(t)
  <2>1. \A t \in Senders : DestroyRule(t) => UNCHANGED made
    BY DEF DestroyRule
  <2>2. \A t \in Senders, f \in Flows, k \in {"create", "destroy"} :
          Send(t, f, k) => UNCHANGED <<state, made>>
    BY DEF Send, engine
  <2>3. \A t \in Senders : CreateFail(t) \/ Enqueue(t) \/ Schedule(t) => UNCHANGED <<state, made>>
    BY DEF CreateFail, Enqueue, Schedule, engine
  <2>. QED BY <1>1, <2>1, <2>2, <2>3, DestroyBegins DEF Sends, TypeInv
<1>2. CASE EngineSteps
  <2>1. ASSUME NEW r \in Contexts, Syncing(r)
        PROVE  /\ UNCHANGED made
               /\ UNCHANGED state
                  \/ \E c \in Conns : state' = [state EXCEPT ![c] = "closed"]
    <3>1. \A c : state[c] = "closing" /\ c \notin Conns
                => [state EXCEPT ![c] = "closed"] = state
      BY DEF TypeInv, RuleTypes
    <3>. QED BY <2>1, <3>1 DEF Syncing, Flush, SyncReadCb, SyncReadData, SyncCall,
                               Engine!Final, Engine!Drop, engine
  <2>2. \A c \in Conns :
          /\ TimerReport(c) => UNCHANGED <<state, made>>
          /\ LeaveFastPath(c) \/ ExitDestroy(c)
                => UNCHANGED made /\ state' = [state EXCEPT ![c] = "closing"]
    BY DEF TimerReport, LeaveFastPath, ExitDestroy, Engine!Report, Engine!Close
  <2>3. TimerDeliver => UNCHANGED <<state, made>>
    BY DEF TimerDeliver, Engine!Deliver
  <2>. QED BY <1>2, <2>1, <2>2, <2>3 DEF EngineSteps
<1>3. UNCHANGED vars => UNCHANGED <<state, made>>
  BY DEF vars, engine
<1>. QED BY <1>1, <1>2, <1>3, Groups, WorkerFrame, RegisteringFrame, ExitingFrame

\* RuleTypes is kept.
LEMMA RuleTypesStep == TypeInv /\ [Next]_vars => RuleTypes'
<1>. SUFFICES ASSUME TypeInv, [Next]_vars  PROVE RuleTypes'
  OBVIOUS
<1>0. RuleTypes /\ TxTypes
  BY DEF TypeInv
<1>1. CASE \E t \in Senders, c \in Conns : CreateRule(t, c)
  <2>. PICK t \in Senders, c \in Conns : CreateRule(t, c)
    BY <1>1
  <2>1. tx[t] \in Messages /\ tx[t] # NoTx
    BY <1>0, TxIsMessage DEF CreateRule
  <2>. QED BY <1>0, <2>1 DEF CreateRule, Engine!Offload, RuleTypes
<1>2. CASE \E c \in Conns : Release(c)
  BY <1>0, <1>2 DEF Release, Engine!Release, RuleTypes
<1>3. CASE /\ UNCHANGED made
           /\ \/ UNCHANGED state
              \/ \E c \in Conns, s \in {"closing", "closed"} : state' = [state EXCEPT ![c] = s]
  <2>1. UNCHANGED state => RuleTypes'
    BY <1>0, <1>3, Zenon DEF RuleTypes
  <2>2. ASSUME NEW c \in Conns, NEW s \in {"closing", "closed"},
               state' = [state EXCEPT ![c] = s]
        PROVE  RuleTypes'
    <3>1. state' \in [Conns -> {"free", "offloaded", "closing", "closed"}]
      BY <1>0, <2>2 DEF RuleTypes
    <3>2. \A b \in Conns : state'[b] = "offloaded" => state[b] = "offloaded"
      BY <1>0, <2>2 DEF RuleTypes
    <3>. QED BY <1>0, <1>3, <3>1, <3>2, Zenon DEF RuleTypes
  <2>. QED BY <1>3, <2>1, <2>2
<1>. QED BY <1>1, <1>2, <1>3, RuleSteps

\* The types are kept.
LEMMA TypeStep == TypeInv /\ [Next]_vars => TypeInv'
  BY TxTypesStep, ResponseTypesStep, RegistrationTypesStep, SyncTypesStep, RuleTypesStep
     DEF TypeInv

\* The types hold in the beginning.
LEMMA TypeInit == Init => TypeInv
<1>. SUFFICES ASSUME Init  PROVE TypeInv
  OBVIOUS
<1>1. TxTypes
  BY DEF Init, TxTypes
<1>2. ResponseTypes
  <2>1. <<>> \in Seq(Messages)
    OBVIOUS
  <2>2. queue = <<>> /\ work = FALSE /\ worker = "idle" /\ hold = NoTx
    BY DEF Init
  <2>. QED BY <2>1, <2>2 DEF ResponseTypes
<1>3. RegistrationTypes
  BY DEF Init, RegistrationTypes
<1>4. SyncTypes
  BY DEF Init, SyncTypes, Syncs, NoSync
<1>5. RuleTypes
  BY DEF Init, RuleTypes, Engine!Init
<1>. QED BY <1>1, <1>2, <1>3, <1>4, <1>5 DEF TypeInv

-----------------------------------------------------------------------------
(* The order of the responses                                               *)

\* Whatever is answered to sender t, or on its way to it, is older than message n.
Before(t, n) ==
  /\ answered[t] < n
  /\ hold # NoTx /\ hold.from = t => hold.id < n
  /\ \A i \in 1 .. Len(queue) : queue[i].from = t => queue[i].id < n

\* Responses are newer than what was answered to their sender, and in order; ...
QueueOrder ==
  \A i \in 1 .. Len(queue) :
    /\ answered[queue[i].from] < queue[i].id
    /\ \A j \in 1 .. i - 1 : queue[j].from = queue[i].from => queue[j].id < queue[i].id

\* ... the one that the worker holds comes first; ...
HoldOrder ==
  hold # NoTx =>
    /\ answered[hold.from] < hold.id
    /\ \A i \in 1 .. Len(queue) : queue[i].from = hold.from => hold.id < queue[i].id

\* ... a message whose response is not queued yet comes after all of them, and so
\* does one that is still to be sent.
TxOrder ==
  \A t \in Senders :
    /\ tx[t].at \in {"create", "destroy", "enqueue"} => Before(t, tx[t].id)
    /\ tx[t].at # "idle" => tx[t].id <= asked
    /\ Before(t, asked + 1)

Order == QueueOrder /\ HoldOrder /\ TxOrder

\* How far the registration is decides whose the pointer and the data are; ...
Registered ==
  /\ client.at # "out" => client.gen > 0
  /\ cb = IF client.at \in {"set data", "in", "clear cb"} THEN client.gen ELSE 0
  /\ data = IF client.at \in {"in", "clear cb", "clear data"} THEN client.gen ELSE 0

\* ... only a registered client sends, and nothing has failed before it is tried; ...
SendersRegistered ==
  \A t \in Senders : /\ tx[t].at # "idle" => client.at = "in" /\ tx[t].gen = client.gen
                     /\ tx[t].at = "create" => tx[t].ok

\* ... a sync that has read the pointer is for the registration that is there; ...
SyncsRegistered ==
  \A r \in Contexts :
    /\ sync[r].at = "read data" => sync[r].cb = client.gen
    /\ sync[r].at = "call" => sync[r].data \in {sync[r].cb, 0}

\* ... the driver exits when nobody is registered, and nothing moves when the exit
\* has cancelled the work.
Exited ==
  /\ module # "loaded" => client.at = "out"
  /\ module \in {"cancelled", "gone"} => Engine!Offloaded = {} /\ worker = "idle" /\ ~work
  /\ module = "gone" => queue = <<>>

\* Response r answers message m, and says that the rule is made.
Answers(r, m) == r.id = m.id /\ r.from = m.from /\ r.ok

\* The answer to m was given, is on its way, or is about to be queued.
Known(m) ==
  \/ m.id <= answered[m.from]
  \/ hold # NoTx /\ Answers(hold, m)
  \/ \E i \in 1 .. Len(queue) : Answers(queue[i], m)
  \/ tx[m.from].at = "enqueue" /\ Answers(tx[m.from], m)

\* Rules were made by this client or an earlier one, and this one's are known.
RuleKnown(c) ==
  /\ made[c].gen <= client.gen
  /\ client.at \in {"set cb", "set data"} => made[c].gen < client.gen
  /\ client.at = "in" /\ made[c].gen = client.gen => Known(made[c])

RulesKnown == \A c \in Engine!Offloaded : RuleKnown(c)

DrvInv ==
  /\ TypeInv /\ Order
  /\ Registered /\ SendersRegistered /\ SyncsRegistered /\ QueueIsClients /\ Exited
  /\ RulesKnown

-----------------------------------------------------------------------------
\* Senders and numbers of the responses.
LEMMA ResponseParts ==
  ASSUME ResponseTypes
  PROVE  /\ \A i \in 1 .. Len(queue) : queue[i] \in Messages /\ queue[i].from \in Senders
                                     /\ queue[i].id \in Nat
         /\ Len(queue) \in Nat
         /\ hold # NoTx => hold \in Messages /\ hold.from \in Senders /\ hold.id \in Nat
<1>1. queue \in Seq(Messages) /\ (hold # NoTx => hold \in Messages)
  BY DEF ResponseTypes
<1>2. Len(queue) \in Nat /\ \A i \in 1 .. Len(queue) : queue[i] \in Messages
  BY <1>1
<1>3. \A m \in Messages : m.from \in Senders /\ m.id \in Nat
  BY DEF Messages
<1>. QED BY <1>1, <1>2, <1>3

\* Order is kept by a step of a sender that leaves the responses alone, ...
LEMMA OrderSending ==
  ASSUME TypeInv, Order, NEW t \in Senders, NEW m \in Messages \cup {NoTx},
         tx' = [tx EXCEPT ![t] = m], UNCHANGED <<queue, hold, answered>>,
         \/ m = NoTx /\ asked' = asked
         \/ m # NoTx /\ tx[t].at \in {"create", "destroy"} /\ m.id = tx[t].id /\ asked' = asked
         \/ m # NoTx /\ m.id = asked + 1 /\ asked' = asked + 1
  PROVE  Order'
<1>0. ResponseTypes /\ TxTypes
  BY DEF TypeInv
<1>1. QueueOrder' /\ HoldOrder'
  BY DEF Order, QueueOrder, HoldOrder
<1>2. asked \in Nat /\ asked' \in Nat /\ asked <= asked' /\ \A u \in Senders : answered[u] \in Nat
  BY <1>0 DEF TxTypes
<1>3. ASSUME NEW u \in Senders  PROVE Before(u, asked' + 1)
  BY <1>0, <1>2, ResponseParts DEF Order, TxOrder, Before
<1>5. ASSUME NEW u \in Senders, u # t
      PROVE  /\ tx[u].at \in {"create", "destroy", "enqueue"} => Before(u, tx[u].id)
             /\ tx[u].at # "idle" => tx[u].id <= asked'
             /\ tx'[u] = tx[u]
  <2>1. tx[u].at # "idle" => tx[u].id \in Nat
    BY <1>0, TxIsMessage DEF Messages
  <2>2. tx'[u] = tx[u]
    BY <1>0, <1>5 DEF TxTypes
  <2>. QED BY <1>2, <2>1, <2>2 DEF Order, TxOrder
<1>6. /\ tx'[t].at \in {"create", "destroy", "enqueue"} => Before(t, tx'[t].id)
      /\ tx'[t].at # "idle" => tx'[t].id <= asked'
  <2>1. tx'[t] = m
    BY <1>0 DEF TxTypes
  <2>2. CASE m = NoTx
    BY <2>1, <2>2, NoMessage
  <2>3. CASE m # NoTx /\ m.id = asked + 1 /\ asked' = asked + 1
    BY <1>2, <2>1, <2>3 DEF Order, TxOrder
  <2>4. CASE /\ m # NoTx /\ tx[t].at \in {"create", "destroy"} /\ m.id = tx[t].id
             /\ asked' = asked
    BY <2>1, <2>4 DEF Order, TxOrder
  <2>. QED BY <2>2, <2>3, <2>4
<1>7. \A u \in Senders :
        /\ tx'[u].at \in {"create", "destroy", "enqueue"} => Before(u, tx'[u].id)
        /\ tx'[u].at # "idle" => tx'[u].id <= asked'
        /\ Before(u, asked' + 1)
  BY <1>3, <1>5, <1>6
<1>8. TxOrder'
  BY <1>7 DEF TxOrder, Before
<1>. QED BY <1>1, <1>8 DEF Order

\* ... by queueing a response, ...
LEMMA OrderEnqueue ==
  ASSUME TypeInv, Order, NEW t \in Senders, Enqueue(t)
  PROVE  Order'
<1>0. ResponseTypes /\ TxTypes
  BY DEF TypeInv
<1>1. /\ tx[t] \in Messages /\ tx[t].from = t /\ tx[t].id \in Nat /\ tx[t].id <= asked
      /\ Before(t, tx[t].id)
  BY <1>0, TxIsMessage DEF Enqueue, Messages, Order, TxOrder
<1>2. UNCHANGED <<hold, answered, asked>> /\ asked \in Nat
  BY <1>0 DEF Enqueue, TxTypes
<1>3. /\ Len(queue') = Len(queue) + 1 /\ Len(queue) \in Nat
      /\ \A i \in 1 .. Len(queue) : queue'[i] = queue[i]
      /\ queue'[Len(queue) + 1] = tx[t]
  BY <1>0, <1>1 DEF Enqueue, ResponseTypes
<1>4. QueueOrder'
  <2>. SUFFICES ASSUME NEW i \in 1 .. Len(queue')
                PROVE  /\ answered[queue'[i].from] < queue'[i].id
                       /\ \A j \in 1 .. i - 1 : queue'[j].from = queue'[i].from
                                                => queue'[j].id < queue'[i].id
    BY <1>2 DEF QueueOrder
  <2>1. CASE i \in 1 .. Len(queue)
    <3>1. \A j \in 1 .. i - 1 : queue'[j] = queue[j]
      BY <1>3, <2>1
    <3>. QED BY <1>3, <2>1, <3>1 DEF Order, QueueOrder
  <2>2. CASE i = Len(queue) + 1
    <3>1. \A j \in 1 .. i - 1 : j \in 1 .. Len(queue)
      BY <1>3, <2>2
    <3>. QED BY <1>1, <1>3, <2>2, <3>1 DEF Before
  <2>. QED BY <1>3, <2>1, <2>2
<1>5. HoldOrder'
  <2>. SUFFICES ASSUME hold # NoTx
                PROVE  /\ answered[hold.from] < hold.id
                       /\ \A i \in 1 .. Len(queue') : queue'[i].from = hold.from
                                                     => hold.id < queue'[i].id
    BY <1>2 DEF HoldOrder
  <2>. QED BY <1>1, <1>3 DEF Order, HoldOrder, Before
<1>6. ASSUME NEW u \in Senders, NEW n \in Nat, Before(u, n), u = t => tx[t].id < n
      PROVE  Before(u, n)'
  BY <1>1, <1>2, <1>3, <1>6 DEF Before
<1>7. TxOrder'
  <2>. SUFFICES ASSUME NEW u \in Senders
                PROVE  /\ tx'[u].at \in {"create", "destroy", "enqueue"} => Before(u, tx[u].id)' 
                       /\ tx'[u].at # "idle" => tx'[u].id <= asked
                       /\ Before(u, asked + 1)'
    BY <1>2 DEF TxOrder
  <2>1. Before(u, asked + 1)'
    BY <1>1, <1>2, <1>6 DEF Order, TxOrder
  <2>2. CASE u = t
    <3>1. tx'[u].at = "schedule" /\ tx'[u].id = tx[u].id
      BY <1>0, <1>1, <2>2 DEF Enqueue, TxTypes
    <3>. QED BY <1>1, <2>1, <2>2, <3>1
  <2>3. CASE u # t
    <3>1. tx'[u] = tx[u]
      BY <1>0, <2>3 DEF Enqueue, TxTypes
    <3>2. tx[u].at # "idle" => tx[u].id \in Nat
      BY <1>0, TxIsMessage DEF Messages
    <3>. QED BY <1>6, <2>1, <2>3, <3>1, <3>2 DEF Order, TxOrder
  <2>. QED BY <2>2, <2>3
<1>. QED BY <1>4, <1>5, <1>7 DEF Order

\* ... by the worker, ...
LEMMA OrderWorker ==
  ASSUME TypeInv, Order, Worker
  PROVE  Order'
<1>0. ResponseTypes /\ TxTypes
  BY DEF TypeInv
<1>1. UNCHANGED <<tx, asked>> /\ asked \in Nat
  BY <1>0, WorkerFrame DEF TxTypes
<1>2. CASE UNCHANGED <<queue, hold, answered>>
  BY <1>1, <1>2 DEF Order, QueueOrder, HoldOrder, TxOrder, Before
<1>3. CASE Pop /\ queue # <<>>
  <2>1. /\ hold = NoTx /\ hold' = queue[1] /\ UNCHANGED answered
        /\ Len(queue) \in Nat /\ 1 \in 1 .. Len(queue) /\ Len(queue') = Len(queue) - 1
        /\ \A i \in 1 .. Len(queue') : queue'[i] = queue[i + 1] /\ i + 1 \in 1 .. Len(queue)
    BY <1>0, <1>3 DEF Pop, ResponseTypes
  <2>2. QueueOrder'
    <3>. SUFFICES ASSUME NEW i \in 1 .. Len(queue')
                  PROVE  /\ answered[queue'[i].from] < queue'[i].id
                         /\ \A j \in 1 .. i - 1 : queue'[j].from = queue'[i].from
                                                  => queue'[j].id < queue'[i].id
      BY <2>1 DEF QueueOrder
    <3>1. \A j \in 1 .. i - 1 : queue'[j] = queue[j + 1] /\ j + 1 \in 1 .. (i + 1) - 1
      BY <2>1
    <3>. QED BY <2>1, <3>1 DEF Order, QueueOrder
  <2>3. HoldOrder'
    <3>1. \A i \in 1 .. Len(queue') : 1 \in 1 .. (i + 1) - 1
      BY <2>1
    <3>. QED BY <2>1, <3>1 DEF Order, QueueOrder, HoldOrder
  <2>4. TxOrder'
    BY <1>1, <2>1 DEF Order, TxOrder, Before
  <2>. QED BY <2>2, <2>3, <2>4 DEF Order
<1>4. CASE Check /\ cb = 0
  <2>1. hold' = NoTx /\ UNCHANGED <<queue, answered>>
    BY <1>4 DEF Check
  <2>. QED BY <1>1, <2>1 DEF Order, QueueOrder, HoldOrder, TxOrder, Before
<1>5. CASE Answer
  <2>1. /\ hold # NoTx /\ hold' = NoTx /\ UNCHANGED queue
        /\ answered' = [answered EXCEPT ![hold.from] = hold.id]
        /\ hold.from \in Senders /\ hold.id \in Nat /\ answered \in [Senders -> Nat]
    BY <1>0, <1>5, ResponseParts DEF Answer, ResponseTypes, TxTypes
  <2>2. answered'[hold.from] = hold.id
        /\ \A u \in Senders : u # hold.from => answered'[u] = answered[u]
    BY <2>1
  <2>3. QueueOrder'
    BY <1>0, <2>1, <2>2, ResponseParts DEF Order, QueueOrder, HoldOrder
  <2>4. TxOrder'
    BY <1>0, <1>1, <2>1, <2>2 DEF Order, TxOrder, Before
  <2>. QED BY <2>1, <2>3, <2>4 DEF Order, HoldOrder
<1>. QED BY <1>2, <1>3, <1>4, <1>5 DEF Worker, StartWork, Pop, Check

\* ... and by emptying the queue.
LEMMA OrderStep == TypeInv /\ Order /\ [Next]_vars => Order'
<1>. SUFFICES ASSUME TypeInv, Order, [Next]_vars  PROVE Order'
  OBVIOUS
<1>0. ResponseTypes /\ TxTypes /\ RegistrationTypes
  BY DEF TypeInv
<1>1. CASE UNCHANGED <<tx, asked, answered, hold, queue>>
  BY <1>1 DEF Order, QueueOrder, HoldOrder, TxOrder, Before
<1>2. CASE UNCHANGED <<tx, asked, answered, hold>> /\ queue' = <<>>
  <2>1. QueueOrder' /\ HoldOrder'
    BY <1>2 DEF Order, QueueOrder, HoldOrder
  <2>2. TxOrder'
    BY <1>2 DEF Order, TxOrder, Before
  <2>. QED BY <2>1, <2>2 DEF Order
<1>3. ASSUME NEW t \in Senders, Sends(t)  PROVE Order'
  <2>1. CASE Enqueue(t)
    BY <2>1, OrderEnqueue
  <2>2. CASE Schedule(t)
    <3>1. /\ tx' = [tx EXCEPT ![t] = NoTx] /\ NoTx \in Messages \cup {NoTx} /\ asked' = asked
          /\ UNCHANGED <<queue, hold, answered>>
      BY <2>2 DEF Schedule
    <3>. QED BY <3>1, OrderSending
  <2>3. CASE (\E c \in Conns : CreateRule(t, c)) \/ CreateFail(t) \/ DestroyRule(t)
    <3>1. tx[t] \in Messages /\ tx[t].at \in {"create", "destroy"}
      BY <1>0, <2>3, TxIsMessage DEF CreateRule, CreateFail, DestroyRule
    <3>2. UNCHANGED <<queue, hold, answered, asked>>
      BY <2>3 DEF CreateRule, CreateFail, DestroyRule, responses
    <3>. PICK m \in Messages : tx' = [tx EXCEPT ![t] = m] /\ m.id = tx[t].id
      <4>1. /\ [tx[t] EXCEPT !.at = "enqueue"] \in Messages
            /\ [tx[t] EXCEPT !.at = "enqueue"].id = tx[t].id
            /\ [tx[t] EXCEPT !.at = "enqueue", !.ok = FALSE] \in Messages
            /\ [tx[t] EXCEPT !.at = "enqueue", !.ok = FALSE].id = tx[t].id
        BY <3>1 DEF Messages
      <4>2. \/ tx' = [tx EXCEPT ![t] = [tx[t] EXCEPT !.at = "enqueue"]]
            \/ tx' = [tx EXCEPT ![t] = [tx[t] EXCEPT !.at = "enqueue", !.ok = FALSE]]
        BY <2>3, <3>1 DEF CreateRule, CreateFail, DestroyRule
      <4>. QED BY <4>1, <4>2
    <3>. QED BY <3>1, <3>2, OrderSending, NoMessage
  <2>4. ASSUME NEW f \in Flows, NEW kind \in {"create", "destroy"}, Send(t, f, kind)
        PROVE  Order'
    <3>. DEFINE m == [at |-> kind, flow |-> f, kind |-> kind, from |-> t,
                      id |-> asked + 1, gen |-> client.gen, ok |-> TRUE]
    <3>1. asked \in Nat /\ client.gen \in Nat
      BY <1>0 DEF TxTypes, RegistrationTypes
    <3>2. m \in Messages /\ m.id = asked + 1
      BY <3>1 DEF Messages
    <3>3. /\ tx' = [tx EXCEPT ![t] = m] /\ asked' = asked + 1
          /\ UNCHANGED <<queue, hold, answered>>
      BY <2>4 DEF Send, responses
    <3>. HIDE DEF m
    <3>. QED BY <3>2, <3>3, OrderSending, NoMessage
  <2>. QED BY <1>3, <2>1, <2>2, <2>3, <2>4 DEF Sends
<1>4. Registering => UNCHANGED queue \/ queue' = <<>>
  BY DEF Registering, Register, RegisterCb, RegisterData, Unregister, UnregisterCb,
         UnregisterData, CleanResponses, responses
<1>5. Exiting => UNCHANGED queue \/ queue' = <<>>
  BY DEF Exiting, Exit, ExitCancel, ExitFree, responses
<1>. QED BY <1>1, <1>2, <1>3, <1>4, <1>5, Groups, OrderWorker, EngineFrame, RegisteringFrame,
            ExitingFrame DEF vars, responses

-----------------------------------------------------------------------------
(* The registration                                                         *)

\* Every step but registering leaves the client alone.
LEMMA ClientFrame ==
  ASSUME [Next]_vars, ~Registering
  PROVE  UNCHANGED <<client, cb, data>>
  BY Groups, SendsFrame, WorkerFrame, EngineFrame, ExitingFrame DEF vars, registration

\* The registration goes round in its seven steps.
LEMMA RegisteringSteps ==
  ASSUME RegistrationTypes, Registering
  PROVE  /\ client.at # "out" => client'.gen = client.gen
         /\ client.at = "out" => /\ client'.at = "set cb" /\ module = "loaded" /\ ~InCallback
                                 /\ UNCHANGED <<cb, data, queue>>
         /\ client.at = "set cb" => /\ client'.at = "set data" /\ cb' = client.gen
                                    /\ UNCHANGED <<data, queue>>
         /\ client.at = "set data" => /\ client'.at = "in" /\ data' = client.gen
                                      /\ UNCHANGED <<cb, queue>>
         /\ client.at = "in" => /\ client'.at = "clear cb"
                                /\ \A t \in Senders : tx[t].at = "idle"
                                /\ UNCHANGED <<cb, data, queue>>
         /\ client.at = "clear cb" => /\ client'.at = "clear data" /\ cb' = 0
                                      /\ UNCHANGED <<data, queue>>
         /\ client.at = "clear data" => /\ client'.at = "clean" /\ data' = 0
                                        /\ UNCHANGED <<cb, queue>>
         /\ client.at = "clean" => /\ client'.at = "out" /\ queue' = <<>>
                                   /\ UNCHANGED <<cb, data>>
<1>1. CASE Register
  <2>1. client'.at = "set cb" /\ client.at = "out"
    BY <1>1 DEF Register
  <2>. QED BY <1>1, <2>1 DEF Register, responses
<1>2. ASSUME NEW at, client' = [client EXCEPT !.at = at]
      PROVE  client'.gen = client.gen /\ client'.at = at
  BY <1>2 DEF RegistrationTypes
<1>3. CASE RegisterCb
  BY <1>2, <1>3 DEF RegisterCb, responses
<1>4. CASE RegisterData
  BY <1>2, <1>4 DEF RegisterData, responses
<1>5. CASE Unregister
  BY <1>2, <1>5 DEF Unregister, responses
<1>6. CASE UnregisterCb
  BY <1>2, <1>6 DEF UnregisterCb, responses
<1>7. CASE UnregisterData
  BY <1>2, <1>7 DEF UnregisterData, responses
<1>8. CASE CleanResponses
  BY <1>2, <1>8 DEF CleanResponses
<1>. QED BY <1>1, <1>3, <1>4, <1>5, <1>6, <1>7, <1>8 DEF Registering

\* A client that registers gets the next number.
LEMMA NextClient ==
  ASSUME RegistrationTypes, Registering, client.at = "out"
  PROVE  client'.gen = client.gen + 1 /\ client'.gen > 0
<1>1. client'.gen = client.gen + 1
  <2>1. Register
    BY DEF Registering, RegisterCb, RegisterData, Unregister, UnregisterCb, UnregisterData,
           CleanResponses
  <2>. QED BY <2>1 DEF Register
<1>2. client.gen \in Nat
  BY DEF RegistrationTypes
<1>. QED BY <1>1, <1>2

\* Where the registration can be.
LEMMA ClientPlaces ==
  ASSUME RegistrationTypes
  PROVE  /\ client.gen \in Nat
         /\ client.at \in {"out", "set cb", "set data", "in", "clear cb", "clear data", "clean"}
  BY DEF RegistrationTypes

\* Registered is kept.
LEMMA RegisteredStep == TypeInv /\ Registered /\ [Next]_vars => Registered'
<1>. SUFFICES ASSUME RegistrationTypes, Registered, [Next]_vars  PROVE Registered'
  BY DEF TypeInv
<1>1. CASE Registering
  <2>1. client'.gen > 0
    BY <1>1, NextClient, RegisteringSteps, Zenon DEF Registered
  <2>2. /\ cb' = IF client'.at \in {"set data", "in", "clear cb"} THEN client'.gen ELSE 0
        /\ data' = IF client'.at \in {"in", "clear cb", "clear data"} THEN client'.gen ELSE 0
    <3>1. CASE client.at = "out"
      BY <1>1, <3>1, RegisteringSteps DEF Registered
    <3>2. CASE client.at = "set cb"
      BY <1>1, <3>2, RegisteringSteps DEF Registered
    <3>3. CASE client.at = "set data"
      BY <1>1, <3>3, RegisteringSteps DEF Registered
    <3>4. CASE client.at = "in"
      <4>1. client'.at = "clear cb" /\ client'.gen = client.gen /\ cb' = cb /\ data' = data
        BY <1>1, <3>4, RegisteringSteps, Zenon
      <4>. QED BY <3>4, <4>1 DEF Registered
    <3>5. CASE client.at = "clear cb"
      BY <1>1, <3>5, RegisteringSteps DEF Registered
    <3>6. CASE client.at \in {"clear data", "clean"}
      BY <1>1, <3>6, RegisteringSteps DEF Registered
    <3>. QED BY <3>1, <3>2, <3>3, <3>4, <3>5, <3>6, ClientPlaces
  <2>. QED BY <2>1, <2>2 DEF Registered
<1>. QED BY <1>1, ClientFrame DEF Registered

\* SendersRegistered is kept: a client that unregisters has no message on its way.
LEMMA SendersStep ==
  TypeInv /\ SendersRegistered /\ [Next]_vars => SendersRegistered'
<1>. SUFFICES ASSUME TypeInv, SendersRegistered, [Next]_vars  PROVE SendersRegistered'
  OBVIOUS
<1>0. TxTypes /\ RegistrationTypes
  BY DEF TypeInv
<1>1. CASE Registering
  <2>1. tx' = tx /\ \A t \in Senders : tx[t].at = "idle"
    BY <1>0, <1>1, RegisteringFrame, RegisteringSteps, ClientPlaces DEF SendersRegistered
  <2>. QED BY <2>1 DEF SendersRegistered
<1>2. ASSUME NEW t \in Senders, Sends(t)  PROVE SendersRegistered'
  <2>1. client' = client
    BY <1>2, SendsFrame
  <2>2. PICK m \in Messages \cup {NoTx} : tx' = [tx EXCEPT ![t] = m]
    BY <1>0, <1>2, SenderSteps
  <2>3. \A u \in Senders : u # t => tx'[u] = tx[u]
    BY <1>0, <2>2 DEF TxTypes
  <2>4. /\ tx'[t].at # "idle" => client.at = "in" /\ tx'[t].gen = client.gen
        /\ tx'[t].at = "create" => tx'[t].ok
    <3>1. CASE Schedule(t)
      BY <1>0, <3>1, NoMessage DEF Schedule, TxTypes
    <3>2. CASE (\E c \in Conns : CreateRule(t, c)) \/ CreateFail(t) \/ DestroyRule(t) \/ Enqueue(t)
      <4>1. tx[t] \in Messages /\ tx[t].at # "idle"
        BY <1>0, <3>2, TxIsMessage DEF CreateRule, CreateFail, DestroyRule, Enqueue
      <4>2. tx'[t].gen = tx[t].gen /\ tx'[t].at # "create"
        BY <1>0, <3>2, <4>1 DEF CreateRule, CreateFail, DestroyRule, Enqueue, TxTypes, Messages
      <4>. QED BY <4>1, <4>2 DEF SendersRegistered
    <3>3. ASSUME NEW f \in Flows, NEW kind \in {"create", "destroy"}, Send(t, f, kind)
          PROVE  client.at = "in" /\ tx'[t].gen = client.gen /\ tx'[t].ok
      BY <1>0, <3>3 DEF Send, TxTypes
    <3>. QED BY <1>2, <3>1, <3>2, <3>3 DEF Sends
  <2>. QED BY <2>1, <2>3, <2>4 DEF SendersRegistered
<1>3. CASE UNCHANGED <<tx, client>>
  BY <1>3 DEF SendersRegistered
<1>. QED BY <1>1, <1>2, <1>3, Groups, WorkerFrame, EngineFrame, ExitingFrame DEF vars, registration

\* SyncsRegistered is kept: while a sync is in the callback nobody registers.
LEMMA SyncsStep ==
  TypeInv /\ Registered /\ SyncsRegistered /\ [Next]_vars => SyncsRegistered'
<1>. SUFFICES ASSUME TypeInv, Registered, SyncsRegistered, [Next]_vars  PROVE SyncsRegistered'
  OBVIOUS
<1>0. SyncTypes /\ RegistrationTypes
  BY DEF TypeInv
<1>1. CASE Registering
  <2>1. sync' = sync
    BY <1>1, RegisteringFrame
  <2>2. CASE client.at = "out"
    <3>1. ~InCallback
      BY <1>0, <1>1, <2>2, RegisteringSteps
    <3>. QED BY <2>1, <3>1 DEF InCallback, SyncsRegistered
  <2>3. CASE client.at # "out"
    <3>1. client'.gen = client.gen
      BY <1>0, <1>1, <2>3, RegisteringSteps
    <3>. QED BY <2>1, <3>1 DEF SyncsRegistered
  <2>. QED BY <2>2, <2>3
<1>2. ASSUME NEW r \in Contexts, NEW s \in Syncs, sync' = [sync EXCEPT ![r] = s],
             client' = client,
             s.at = "read data" => s.cb = client.gen,
             s.at = "call" => s.data \in {s.cb, 0}
      PROVE  SyncsRegistered'
  <2>1. sync'[r] = s /\ \A q \in Contexts : q # r => sync'[q] = sync[q]
    BY <1>0, <1>2 DEF SyncTypes
  <2>. QED BY <1>2, <2>1 DEF SyncsRegistered
<1>3. CASE UNCHANGED <<sync, client>>
  BY <1>3 DEF SyncsRegistered
<1>4. ASSUME NEW t \in Senders, Sends(t)  PROVE SyncsRegistered'
  <2>1. client' = client /\ t \in Contexts
    BY <1>4, SendsFrame DEF Contexts
  <2>2. CASE DestroyRule(t) /\ ~UNCHANGED sync
    <3>. PICK c \in Conns : sync' = [sync EXCEPT ![t].at = "flush", ![t].conn = c]
      BY <1>0, <2>2, DestroyBegins
    <3>1. sync' = [sync EXCEPT ![t] = [sync[t] EXCEPT !.at = "flush", !.conn = c]]
      OBVIOUS
    <3>2. sync[t] \in Syncs
      BY <1>0, <2>1 DEF SyncTypes
    <3>3. /\ [sync[t] EXCEPT !.at = "flush", !.conn = c] \in Syncs
          /\ [sync[t] EXCEPT !.at = "flush", !.conn = c].at = "flush"
      BY <3>2 DEF Syncs
    <3>. QED BY <1>2, <2>1, <3>1, <3>3
  <2>3. DestroyRule(t) \/ UNCHANGED sync
    BY <1>4 DEF Sends, Send, CreateRule, CreateFail, Enqueue, Schedule
  <2>. QED BY <1>3, <2>1, <2>2, <2>3
<1>5. ASSUME NEW r \in Contexts, Syncing(r)  PROVE SyncsRegistered'
  <2>1. client' = client /\ cb \in Nat /\ data \in Nat
    BY <1>0, <1>5, EngineFrame DEF EngineSteps, RegistrationTypes
  <2>2. sync[r] \in Syncs
    BY <1>0 DEF SyncTypes
  <2>3. CASE sync' = [sync EXCEPT ![r] = NoSync]
    <3>1. NoSync \in Syncs /\ NoSync.at = "idle"
      BY DEF NoSync, Syncs
    <3>. QED BY <1>2, <2>1, <2>3, <3>1
  <2>4. CASE sync' = [sync EXCEPT ![r] = [sync[r] EXCEPT !.at = "read cb"]]
    <3>1. /\ [sync[r] EXCEPT !.at = "read cb"] \in Syncs
          /\ [sync[r] EXCEPT !.at = "read cb"].at = "read cb"
      BY <2>2 DEF Syncs
    <3>. QED BY <1>2, <2>1, <2>4, <3>1
  <2>5. CASE cb # 0 /\ sync' = [sync EXCEPT ![r] = [sync[r] EXCEPT !.at = "read data", !.cb = cb]]
    <3>1. /\ [sync[r] EXCEPT !.at = "read data", !.cb = cb] \in Syncs
          /\ [sync[r] EXCEPT !.at = "read data", !.cb = cb].at = "read data"
          /\ [sync[r] EXCEPT !.at = "read data", !.cb = cb].cb = cb
      BY <2>1, <2>2 DEF Syncs
    <3>2. cb = client.gen
      BY <2>5 DEF Registered
    <3>. QED BY <1>2, <2>1, <2>5, <3>1, <3>2
  <2>6. CASE /\ sync[r].at = "read data"
             /\ sync' = [sync EXCEPT ![r] = [sync[r] EXCEPT !.at = "call", !.data = data]]
    <3>1. /\ [sync[r] EXCEPT !.at = "call", !.data = data] \in Syncs
          /\ [sync[r] EXCEPT !.at = "call", !.data = data].at = "call"
          /\ [sync[r] EXCEPT !.at = "call", !.data = data].cb = sync[r].cb
          /\ [sync[r] EXCEPT !.at = "call", !.data = data].data = data
      BY <2>1, <2>2 DEF Syncs
    <3>2. data \in {sync[r].cb, 0}
      BY <2>6 DEF Registered, SyncsRegistered
    <3>. QED BY <1>2, <2>1, <2>6, <3>1, <3>2
  <2>. QED BY <1>5, <2>3, <2>4, <2>5, <2>6 DEF Syncing, Flush, SyncReadCb, SyncReadData, SyncCall
<1>6. ASSUME NEW c \in Conns \cup {None}, LeaveFastPath(c) \/ ExitDestroy(c) \/ TimerDeliver
      PROVE  SyncsRegistered'
  <2>1. client' = client
    BY <1>6 DEF LeaveFastPath, ExitDestroy, TimerDeliver, registration
  <2>2. {"timer", "packet", "exit"} \subseteq Contexts
    BY DEF Contexts
  <2>3. ASSUME NEW r \in Contexts
        PROVE  /\ [sync[r] EXCEPT !.at = "flush", !.conn = c] \in Syncs
               /\ [sync[r] EXCEPT !.at = "flush", !.conn = c].at = "flush"
               /\ [sync[r] EXCEPT !.at = "read cb"] \in Syncs
               /\ [sync[r] EXCEPT !.at = "read cb"].at = "read cb"
    <3>1. sync[r] \in Syncs
      BY <1>0 DEF SyncTypes
    <3>. QED BY <3>1 DEF Syncs
  <2>4. \E r \in Contexts :
          \/ sync' = [sync EXCEPT ![r] = [sync[r] EXCEPT !.at = "flush", !.conn = c]]
          \/ sync' = [sync EXCEPT ![r] = [sync[r] EXCEPT !.at = "read cb"]]
    <3>1. LeaveFastPath(c) => sync' = [sync EXCEPT !["packet"] =
                                         [sync["packet"] EXCEPT !.at = "flush", !.conn = c]]
      BY DEF LeaveFastPath
    <3>2. ExitDestroy(c) => sync' = [sync EXCEPT !["exit"] =
                                       [sync["exit"] EXCEPT !.at = "flush", !.conn = c]]
      BY DEF ExitDestroy
    <3>3. TimerDeliver => sync' = [sync EXCEPT !["timer"] = [sync["timer"] EXCEPT !.at = "read cb"]]
      BY DEF TimerDeliver
    <3>. QED BY <1>6, <2>2, <3>1, <3>2, <3>3
  <2>. QED BY <1>2, <2>1, <2>3, <2>4
<1>7. \A c \in Conns : TimerReport(c) \/ Release(c) => UNCHANGED <<sync, client>>
  BY DEF TimerReport, Release, registration
<1>8. EngineSteps => SyncsRegistered'
  <2>. SUFFICES ASSUME EngineSteps  PROVE SyncsRegistered'
    OBVIOUS
  <2>. QED BY <1>3, <1>5, <1>6, <1>7 DEF EngineSteps
<1>. QED BY <1>1, <1>3, <1>4, <1>8, Groups, WorkerFrame, ExitingFrame DEF vars, registration

\* QueueIsClients is kept: what is queued is the registered client's, and the
\* queue is empty when it has unregistered.
LEMMA QueueStep ==
  TypeInv /\ SendersRegistered /\ QueueIsClients /\ [Next]_vars => QueueIsClients'
<1>. SUFFICES ASSUME TypeInv, SendersRegistered, QueueIsClients, [Next]_vars
              PROVE  QueueIsClients'
  OBVIOUS
<1>0. TxTypes /\ ResponseTypes /\ RegistrationTypes /\ queue \in Seq(Messages)
  BY DEF TypeInv, ResponseTypes
<1>1. CASE UNCHANGED <<queue, client>>
  BY <1>1 DEF QueueIsClients
<1>2. CASE queue' = <<>>
  BY <1>2 DEF QueueIsClients
<1>3. CASE Registering /\ UNCHANGED queue
  <2>1. client.at = "out" => ~(\E i \in 1 .. Len(queue) : TRUE)
    BY DEF QueueIsClients
  <2>2. client.at \notin {"out", "clean"} => client'.gen = client.gen /\ client'.at # "out"
    BY <1>0, <1>3, RegisteringSteps, ClientPlaces
  <2>3. client.at = "clean" => queue' = <<>>
    BY <1>0, <1>3, RegisteringSteps
  <2>. QED BY <1>2, <1>3, <2>1, <2>2, <2>3 DEF QueueIsClients
<1>4. ASSUME NEW t \in Senders, Enqueue(t)  PROVE QueueIsClients'
  <2>1. tx[t] \in Messages /\ tx[t].gen = client.gen /\ client.at = "in" /\ client' = client
    BY <1>0, <1>4, TxIsMessage DEF Enqueue, SendersRegistered, registration
  <2>2. /\ Len(queue') = Len(queue) + 1 /\ Len(queue) \in Nat
        /\ \A i \in 1 .. Len(queue) : queue'[i] = queue[i]
        /\ queue'[Len(queue) + 1] = tx[t]
    BY <1>0, <1>4, <2>1 DEF Enqueue
  <2>. QED BY <2>1, <2>2 DEF QueueIsClients
<1>5. CASE queue # <<>> /\ queue' = Tail(queue) /\ client' = client
  <2>1. /\ Len(queue) \in Nat /\ Len(queue') = Len(queue) - 1
        /\ \A i \in 1 .. Len(queue') : queue'[i] = queue[i + 1] /\ i + 1 \in 1 .. Len(queue)
    BY <1>0, <1>5
  <2>. QED BY <1>5, <2>1 DEF QueueIsClients
<1>6. Worker => UNCHANGED queue \/ (queue # <<>> /\ queue' = Tail(queue))
  BY DEF Worker, StartWork, Pop, Check, Answer
<1>7. Registering => UNCHANGED queue \/ queue' = <<>>
  BY DEF Registering, Register, RegisterCb, RegisterData, Unregister, UnregisterCb,
         UnregisterData, CleanResponses, responses
<1>8. Exiting => UNCHANGED queue \/ queue' = <<>>
  BY DEF Exiting, Exit, ExitCancel, ExitFree, responses
<1>9. (\E t \in Senders : Sends(t)) => UNCHANGED queue \/ \E t \in Senders : Enqueue(t)
  BY DEF Sends, Send, CreateRule, CreateFail, DestroyRule, Schedule, responses
<1>10. ~Registering => client' = client
  BY ClientFrame
<1>11. UNCHANGED vars => UNCHANGED queue
  BY DEF vars, responses
<1>. QED BY <1>1, <1>2, <1>3, <1>4, <1>5, <1>6, <1>7, <1>8, <1>9, <1>10, <1>11,
            Groups, EngineFrame

\* No rule comes but by a sender that creates it.
LEMMA RulesGrow ==
  ASSUME TypeInv, [Next]_vars, ~(\E t \in Senders, c \in Conns : CreateRule(t, c))
  PROVE  Engine!Offloaded' \subseteq Engine!Offloaded
<1>0. RuleTypes
  BY DEF TypeInv
<1>1. CASE UNCHANGED state
  BY <1>1 DEF Engine!Offloaded
<1>2. ASSUME NEW c \in Conns, NEW s \in {"closing", "closed", "free"},
             state' = [state EXCEPT ![c] = s]
      PROVE  Engine!Offloaded' \subseteq Engine!Offloaded
  BY <1>0, <1>2 DEF Engine!Offloaded, RuleTypes
<1>3. \A c \in Conns : Release(c) => state' = [state EXCEPT ![c] = "free"]
  BY DEF Release, Engine!Release
<1>. QED BY <1>1, <1>2, <1>3, RuleSteps

\* Exited is kept: when nobody is registered nobody sends, so no rule is made and
\* no work is scheduled.
LEMMA ExitedStep ==
  TypeInv /\ SendersRegistered /\ QueueIsClients /\ Exited /\ [Next]_vars => Exited'
<1>. SUFFICES ASSUME TypeInv, SendersRegistered, QueueIsClients, Exited, [Next]_vars
              PROVE  Exited'
  OBVIOUS
<1>0. TxTypes /\ ResponseTypes /\ RegistrationTypes
  BY DEF TypeInv
<1>1. CASE Exit
  <2>1. module' = "exit" /\ client.at = "out" /\ client' = client
    BY <1>1 DEF Exit, registration
  <2>. QED BY <2>1 DEF Exited
<1>2. CASE ExitCancel
  <2>1. /\ module = "exit" /\ module' = "cancelled" /\ work' = FALSE /\ worker = "idle"
        /\ worker' = worker /\ client' = client
        /\ Engine!Offloaded = {} /\ state' = state
    BY <1>2 DEF ExitCancel, registration, engine
  <2>2. Engine!Offloaded' = {}
    BY <2>1 DEF Engine!Offloaded
  <2>. QED BY <2>1, <2>2 DEF Exited
<1>3. CASE ExitFree
  <2>1. /\ module = "cancelled" /\ module' = "gone" /\ queue' = <<>>
        /\ UNCHANGED <<work, worker, client, state>>
    BY <1>3 DEF ExitFree, registration, engine
  <2>2. Engine!Offloaded' = Engine!Offloaded
    BY <2>1 DEF Engine!Offloaded
  <2>. QED BY <2>1, <2>2 DEF Exited
<1>4. CASE module = "loaded" /\ UNCHANGED module
  BY <1>4 DEF Exited
<1>5. CASE module # "loaded" /\ UNCHANGED module
  <2>1. client.at = "out" /\ queue \in Seq(Messages)
    BY <1>0, <1>5 DEF Exited, ResponseTypes
  <2>2. ~Registering \/ client.at # "out" \/ module = "loaded"
    BY <1>0, RegisteringSteps
  <2>3. client' = client
    BY <1>5, <2>1, <2>2, ClientFrame
  <2>4. \A t \in Senders : ~Sends(t)
    <3>1. \A t \in Senders : tx[t].at = "idle"
      BY <2>1 DEF SendersRegistered
    <3>. QED BY <2>1, <3>1 DEF Sends, Send, CreateRule, CreateFail, DestroyRule, Enqueue, Schedule
  <2>5. Engine!Offloaded' \subseteq Engine!Offloaded
    BY <2>4, RulesGrow DEF Sends
  <2>6. ASSUME module \in {"cancelled", "gone"}
        PROVE  worker' = "idle" /\ ~work' /\ (queue = <<>> => queue' = <<>>)
    <3>1. worker = "idle" /\ ~work
      BY <2>6 DEF Exited
    <3>2. ~Worker
      BY <3>1 DEF Worker, StartWork, Pop, Check, Answer
    <3>3. UNCHANGED vars => UNCHANGED <<worker, work, queue>>
      BY DEF vars, responses
    <3>4. Exiting => UNCHANGED <<worker, work>> /\ queue' = <<>>
      BY <2>6, <1>5 DEF Exiting, Exit, ExitCancel, ExitFree
    <3>. QED BY <1>5, <2>1, <2>2, <2>4, <3>1, <3>2, <3>3, <3>4, Groups, EngineFrame
  <2>. QED BY <1>5, <2>1, <2>3, <2>5, <2>6 DEF Exited
<1>6. UNCHANGED module \/ Exiting
  BY Groups, SendsFrame, WorkerFrame, EngineFrame, RegisteringFrame DEF vars
<1>. QED BY <1>1, <1>2, <1>3, <1>4, <1>5, <1>6 DEF Exiting

-----------------------------------------------------------------------------
(* The rules and their answers                                              *)

\* An answer stays known: it moves from the sender to the queue, to the worker, to
\* the client; it is lost only when nobody is registered.
LEMMA KnownStays ==
  ASSUME TypeInv, Order, Registered, SendersRegistered, Exited, [Next]_vars,
         client.at = "in", client'.at = "in",
         NEW m \in Messages, Known(m)
  PROVE  Known(m)'
<1>0. /\ TxTypes /\ ResponseTypes /\ RegistrationTypes /\ queue \in Seq(Messages)
      /\ m.from \in Senders /\ m.id \in Nat
  BY DEF TypeInv, ResponseTypes, Messages
<1>1. CASE UNCHANGED <<answered, hold, queue, tx>>
  BY <1>1 DEF Known, Answers
<1>2. ASSUME NEW t \in Senders, Sends(t)  PROVE Known(m)'
  <2>0. answered' = answered /\ hold' = hold
    BY <1>2, SendsFrame
  <2>1. CASE Enqueue(t)
    <3>1. tx[t] \in Messages
      BY <1>0, <2>1, TxIsMessage DEF Enqueue
    <3>2. /\ Len(queue') = Len(queue) + 1 /\ Len(queue) \in Nat
          /\ \A i \in 1 .. Len(queue) : queue'[i] = queue[i] /\ i \in 1 .. Len(queue')
          /\ queue'[Len(queue) + 1] = tx[t] /\ Len(queue) + 1 \in 1 .. Len(queue')
      BY <1>0, <2>1, <3>1 DEF Enqueue
    <3>3. \A u \in Senders : u # t => tx'[u] = tx[u]
      BY <1>0, <2>1 DEF Enqueue, TxTypes
    <3>4. CASE tx[m.from].at = "enqueue" /\ Answers(tx[m.from], m)
      <4>1. CASE m.from = t
        BY <3>2, <3>4, <4>1 DEF Known, Answers
      <4>2. CASE m.from # t
        BY <1>0, <3>3, <3>4, <4>2 DEF Known, Answers
      <4>. QED BY <4>1, <4>2
    <3>. QED BY <2>0, <3>2, <3>4 DEF Known, Answers
  <2>2. CASE ~Enqueue(t)
    <3>1. queue' = queue
      BY <1>2, <2>2 DEF Sends, Send, CreateRule, CreateFail, DestroyRule, Schedule, responses
    <3>2. tx[t].at # "enqueue"
      BY <1>2, <2>2 DEF Sends, Send, CreateRule, CreateFail, DestroyRule, Schedule
    <3>3. \A u \in Senders : u # t => tx'[u] = tx[u]
      <4>. PICK n \in Messages \cup {NoTx} : tx' = [tx EXCEPT ![t] = n]
        BY <1>0, <1>2, SenderSteps
      <4>. QED BY <1>0 DEF TxTypes
    <3>. QED BY <1>0, <2>0, <3>1, <3>2, <3>3 DEF Known, Answers
  <2>. QED BY <2>1, <2>2
<1>3. CASE Worker
  <2>0. tx' = tx
    BY <1>3, WorkerFrame
  <2>1. CASE Pop /\ queue # <<>>
    <3>1. /\ hold = NoTx /\ hold' = queue[1] /\ UNCHANGED answered
          /\ Len(queue) \in Nat /\ 1 \in 1 .. Len(queue) /\ Len(queue') = Len(queue) - 1
          /\ \A i \in 1 .. Len(queue) :
               i # 1 => i - 1 \in 1 .. Len(queue') /\ queue'[i - 1] = queue[i]
      BY <1>0, <2>1 DEF Pop, ResponseTypes
    <3>2. queue[1] # NoTx
      BY <1>0, <3>1, NoMessage
    <3>3. CASE \E i \in 1 .. Len(queue) : Answers(queue[i], m)
      <4>. PICK i \in 1 .. Len(queue) : Answers(queue[i], m)
        BY <3>3
      <4>1. CASE i = 1
        BY <3>1, <3>2, <4>1 DEF Known, Answers
      <4>2. CASE i # 1
        BY <3>1, <4>2 DEF Known, Answers
      <4>. QED BY <4>1, <4>2
    <3>. QED BY <2>0, <3>1, <3>3 DEF Known, Answers
  <2>2. CASE Answer
    <3>1. /\ hold.from \in Senders /\ hold.id \in Nat /\ hold # NoTx
          /\ answered[hold.from] < hold.id /\ answered \in [Senders -> Nat]
      BY <1>0, <2>2, ResponseParts DEF Answer, Order, HoldOrder, ResponseTypes, TxTypes
    <3>2. answered' = [answered EXCEPT ![hold.from] = hold.id] /\ queue' = queue
      BY <2>2 DEF Answer
    <3>3. \A u \in Senders : answered[u] <= answered'[u] /\ answered[u] \in Nat /\ answered'[u] \in Nat
      BY <3>1, <3>2
    <3>4. CASE m.id <= answered[m.from]
      BY <1>0, <3>3, <3>4 DEF Known
    <3>5. CASE Answers(hold, m)
      BY <1>0, <3>1, <3>2, <3>5 DEF Known, Answers
    <3>. QED BY <2>0, <3>2, <3>4, <3>5 DEF Known, Answers
  <2>3. CASE UNCHANGED <<queue, hold, answered>>
    BY <1>1, <2>0, <2>3
  <2>4. cb # 0
    <3>1. cb = client.gen /\ client.gen > 0
      BY DEF Registered
    <3>2. client.gen \in Nat
      BY <1>0, ClientPlaces
    <3>. QED BY <3>1, <3>2
  <2>. QED BY <1>3, <2>1, <2>2, <2>3, <2>4 DEF Worker, StartWork, Pop, Check
<1>4. ~Registering
  BY <1>0, RegisteringSteps
<1>5. ~Exiting \/ UNCHANGED queue
  BY DEF Exited, Exiting, Exit, ExitCancel, ExitFree, responses
<1>. QED BY <1>1, <1>2, <1>3, <1>4, <1>5, Groups, EngineFrame, ExitingFrame DEF vars, responses

\* RulesKnown is kept.
LEMMA RulesKnownStep ==
  ASSUME TypeInv, Order, Registered, SendersRegistered, Exited, RulesKnown, [Next]_vars
  PROVE  RulesKnown'
<1>0. TxTypes /\ RegistrationTypes /\ RuleTypes /\ client.gen \in Nat
  BY ClientPlaces DEF TypeInv
<1>. SUFFICES ASSUME NEW c \in Engine!Offloaded'
              PROVE  RuleKnown(c)'
  BY DEF RulesKnown
<1>1. c \in Conns /\ state'[c] = "offloaded"
  BY DEF Engine!Offloaded
<1>2. CASE c \in Engine!Offloaded /\ made'[c] = made[c]
  <2>0. made[c] \in Messages /\ made[c].gen \in Nat
    BY <1>0, <1>2 DEF RuleTypes, Engine!Offloaded, Messages
  <2>00. RuleKnown(c)
    BY <1>2 DEF RulesKnown
  <2>1. CASE UNCHANGED client
    <3>1. client.at = "in" /\ made[c].gen = client.gen => Known(made[c])
      BY <2>00 DEF RuleKnown
    <3>2. ASSUME NEW m \in Messages, Known(m), client.at = "in", m = made'[c]
          PROVE  Known(made[c])'
      <4>1. Known(m)'
        BY <2>1, <3>2, KnownStays
      <4>. QED BY <3>2, <4>1 DEF Known, Answers
    <3>. QED BY <1>2, <2>0, <2>00, <2>1, <3>1, <3>2 DEF RuleKnown
  <2>2. CASE Registering
    <3>1. made[c].gen <= client.gen
      BY <2>00 DEF RuleKnown
    <3>2. CASE client.at = "out"
      <4>1. client'.gen = client.gen + 1
        BY <1>0, <2>2, <3>2, NextClient
      <4>2. made[c].gen < client'.gen /\ made[c].gen <= client'.gen /\ made[c].gen # client'.gen
        BY <1>0, <2>0, <3>1, <4>1
      <4>. QED BY <1>2, <4>2 DEF RuleKnown
    <3>3. CASE client.at # "out"
      <4>1. client'.gen = client.gen
        BY <1>0, <2>2, <3>3, RegisteringSteps
      <4>2. client'.at \in {"set cb", "set data"} => client.at = "set cb"
        BY <1>0, <2>2, <3>3, RegisteringSteps, ClientPlaces
      <4>3. client'.at = "in" => client.at = "set data"
        BY <1>0, <2>2, <3>3, RegisteringSteps, ClientPlaces
      <4>4. client.at \in {"set cb", "set data"} => made[c].gen < client.gen
        BY <2>00 DEF RuleKnown
      <4>5. made[c].gen < client.gen => made[c].gen # client.gen
        BY <1>0, <2>0
      <4>. QED BY <1>2, <3>1, <4>1, <4>2, <4>3, <4>4, <4>5 DEF RuleKnown
    <3>. QED BY <3>2, <3>3
  <2>. QED BY <2>1, <2>2, ClientFrame
<1>3. ASSUME NEW t \in Senders, CreateRule(t, c)
      PROVE  RuleKnown(c)'
  <2>1. /\ tx[t] \in Messages /\ tx[t].from = t /\ tx[t].ok
        /\ client.at = "in" /\ tx[t].gen = client.gen
    BY <1>0, <1>3, TxIsMessage DEF CreateRule, SendersRegistered
  <2>2. client' = client
    BY <1>3 DEF CreateRule, registration
  <2>3. made'[c] = tx[t]
    BY <1>0, <1>1, <1>3 DEF CreateRule, RuleTypes
  <2>4. tx'[t] = [tx[t] EXCEPT !.at = "enqueue"]
    BY <1>0, <1>3 DEF CreateRule, TxTypes
  <2>5. tx'[t].at = "enqueue" /\ tx'[t].id = tx[t].id /\ tx'[t].from = t /\ tx'[t].ok
    BY <2>1, <2>4 DEF Messages
  <2>6. Known(made[c])'
    BY <2>1, <2>3, <2>5 DEF Known, Answers
  <2>7. made'[c].gen <= client'.gen
    BY <1>0, <2>1, <2>2, <2>3
  <2>. QED BY <2>1, <2>2, <2>6, <2>7 DEF RuleKnown
<1>4. ASSUME NEW t \in Senders, NEW b \in Conns, CreateRule(t, b), b # c
      PROVE  c \in Engine!Offloaded /\ made'[c] = made[c]
  BY <1>0, <1>1, <1>4 DEF CreateRule, Engine!Offload, Engine!Offloaded, RuleTypes
<1>5. CASE ~(\E t \in Senders, b \in Conns : CreateRule(t, b))
  <2>1. c \in Engine!Offloaded
    BY <1>5, RulesGrow
  <2>2. made'[c] = made[c]
    <3>1. \A b \in Conns : Release(b) => made'[c] = made[c]
      BY <1>0, <1>1, <2>1 DEF Release, Engine!Release, Engine!Offloaded, RuleTypes
    <3>. QED BY <1>5, <3>1, RuleSteps
  <2>. QED BY <1>2, <2>1, <2>2
<1>. QED BY <1>2, <1>3, <1>4, <1>5

-----------------------------------------------------------------------------
(* The inductive invariant, and what follows from it                        *)

\* The invariant holds in the beginning: nobody is registered, and there are no
\* messages and no rules.
LEMMA DrvInvInit == Init => DrvInv
<1>. SUFFICES ASSUME Init  PROVE DrvInv
  OBVIOUS
<1>0. /\ queue = <<>> /\ hold = NoTx /\ work = FALSE /\ worker = "idle" /\ module = "loaded"
      /\ client.gen = 0 /\ client.at = "out" /\ cb = 0 /\ data = 0 /\ asked = 0
      /\ \A t \in Senders : tx[t] = NoTx /\ answered[t] = 0
      /\ \A r \in Contexts : sync[r].at = "idle"
  BY DEF Init, NoSync
<1>1. Order
  BY <1>0, NoMessage DEF Order, QueueOrder, HoldOrder, TxOrder, Before
<1>2. Registered /\ SyncsRegistered
  BY <1>0 DEF Registered, SyncsRegistered
<1>4. SendersRegistered /\ QueueIsClients /\ Exited
  BY <1>0, NoMessage DEF SendersRegistered, QueueIsClients, Exited
<1>3. RulesKnown
  BY DEF Init, RulesKnown, Engine!Init, Engine!Offloaded
<1>. QED BY <1>1, <1>2, <1>3, <1>4, TypeInit DEF DrvInv

\* Every step keeps the invariant.
LEMMA DrvInvStep == DrvInv /\ [Next]_vars => DrvInv'
  BY TypeStep, OrderStep, RegisteredStep, SendersStep, SyncsStep, QueueStep, ExitedStep,
     RulesKnownStep DEF DrvInv

\* DrvInv is an invariant of the driver.
LEMMA DrvInvariant == Spec => []DrvInv
  BY DrvInvInit, DrvInvStep, PTL DEF Spec

\* The line is the response that the worker holds, then the queue.
LEMMA LineParts ==
  ASSUME ResponseTypes
  PROVE  /\ hold = NoTx => Line = queue
         /\ hold # NoTx => /\ Len(Line) = Len(queue) + 1 /\ Line[1] = hold
                           /\ \A i \in 2 .. Len(Line) : Line[i] = queue[i - 1]
<1>1. queue \in Seq(Messages) /\ (hold # NoTx => hold \in Messages)
  BY DEF ResponseTypes
<1>2. <<>> \o queue = queue
  BY <1>1
<1>3. ASSUME hold # NoTx
      PROVE  /\ Len(Line) = Len(queue) + 1 /\ Line[1] = hold
             /\ \A i \in 2 .. Len(Line) : Line[i] = queue[i - 1]
  <2>1. <<hold>> \in Seq(Messages) /\ Line = <<hold>> \o queue
    BY <1>1, <1>3 DEF Line
  <2>. QED BY <1>1, <2>1
<1>. QED BY <1>2, <1>3 DEF Line

\* AnswersInOrder: for any senders, messages and registrations, a sender is
\* answered in the order of its messages, each at most once.
THEOREM DrvAnswersInOrder == Spec => []AnswersInOrder
<1>1. DrvInv => AnswersInOrder
  <2>. SUFFICES ASSUME DrvInv  PROVE AnswersInOrder
    OBVIOUS
  <2>0. ResponseTypes /\ QueueOrder /\ HoldOrder /\ Len(queue) \in Nat
    BY ResponseParts DEF DrvInv, TypeInv, Order
  <2>1. CASE hold = NoTx
    BY <2>0, <2>1, LineParts DEF AnswersInOrder, QueueOrder
  <2>2. CASE hold # NoTx
    <3>0. /\ Len(Line) = Len(queue) + 1 /\ Line[1] = hold
          /\ \A i \in 2 .. Len(Line) : Line[i] = queue[i - 1]
      BY <2>0, <2>2, LineParts
    <3>. SUFFICES ASSUME NEW i \in 1 .. Len(Line)
                  PROVE  /\ answered[Line[i].from] < Line[i].id
                         /\ \A j \in 1 .. i - 1 : Line[j].from = Line[i].from
                                                    => Line[j].id < Line[i].id
      BY DEF AnswersInOrder
    <3>1. CASE i = 1
      BY <2>0, <2>2, <3>0, <3>1 DEF HoldOrder
    <3>2. CASE i # 1
      <4>1. i \in 2 .. Len(Line) /\ i - 1 \in 1 .. Len(queue)
        BY <2>0, <3>0, <3>2
      <4>2. ASSUME NEW j \in 1 .. i - 1, j # 1
            PROVE  j \in 2 .. Len(Line) /\ j - 1 \in 1 .. (i - 1) - 1
        BY <2>0, <3>0, <4>1, <4>2
      <4>3. \A j \in 1 .. i - 1 : j # 1 => Line[j] = queue[j - 1]
        BY <3>0, <4>2
      <4>. QED BY <2>0, <2>2, <3>0, <4>1, <4>2, <4>3 DEF HoldOrder, QueueOrder
    <3>. QED BY <3>1, <3>2
  <2>. QED BY <2>1, <2>2
<1>. QED BY <1>1, DrvInvariant, PTL

\* RuleIsKnown: a rule of the registered client is never without an answer,
\* whatever senders, worker and registration are doing.
THEOREM DrvRuleIsKnown == Spec => []RuleIsKnown
<1>1. DrvInv => RuleIsKnown
  <2>. SUFFICES ASSUME DrvInv, NEW c \in Engine!Offloaded,
                       client.at = "in", made[c].gen = client.gen
                PROVE  \/ made[c].id <= answered[made[c].from]
                       \/ \E i \in 1 .. Len(Line) : Line[i].id = made[c].id /\ Line[i].ok
                       \/ tx[made[c].from].at = "enqueue" /\ tx[made[c].from].id = made[c].id
    BY DEF RuleIsKnown
  <2>0. ResponseTypes /\ Len(queue) \in Nat
    BY ResponseParts DEF DrvInv, TypeInv
  <2>1. Known(made[c])
    BY DEF DrvInv, RulesKnown, RuleKnown
  <2>2. CASE hold # NoTx /\ Answers(hold, made[c])
    <3>1. 1 \in 1 .. Len(Line) /\ Line[1] = hold
      BY <2>0, <2>2, LineParts
    <3>. QED BY <2>2, <3>1 DEF Answers
  <2>3. ASSUME NEW i \in 1 .. Len(queue), Answers(queue[i], made[c])
        PROVE  \E k \in 1 .. Len(Line) : Line[k].id = made[c].id /\ Line[k].ok
    <3>1. CASE hold = NoTx
      BY <2>0, <2>3, <3>1, LineParts DEF Answers
    <3>2. CASE hold # NoTx
      <4>1. i + 1 \in 2 .. Len(Line) /\ i + 1 \in 1 .. Len(Line) /\ (i + 1) - 1 = i
        BY <2>0, <3>2, LineParts
      <4>2. Line[i + 1] = queue[i]
        BY <2>0, <3>2, <4>1, LineParts
      <4>. QED BY <2>3, <4>1, <4>2 DEF Answers
    <3>. QED BY <3>1, <3>2
  <2>. QED BY <2>1, <2>2, <2>3 DEF Known, Answers
<1>. QED BY <1>1, DrvInvariant, PTL

\* NothingOutlives: what belongs to a registration goes when it ends, and what
\* belongs to the driver when it exits.
THEOREM DrvNothingOutlives == Spec => []NothingOutlives
<1>1. DrvInv => NothingOutlives
  BY DEF DrvInv, NothingOutlives, SyncsRegistered, DataIsClients, Exited, ExitLeavesNothing
<1>. QED BY <1>1, DrvInvariant, PTL
=============================================================================
