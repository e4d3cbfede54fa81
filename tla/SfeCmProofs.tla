---------------------------- MODULE SfeCmProofs ----------------------------
(***************************************************************************)
(* The two modules of sfe_cm.c.                                            *)
(*                                                                         *)
(* The connection manager (SfeCm), for every finite set of connection      *)
(* objects, every set of flows and every bound: nothing that was carried   *)
(* for a flow is neither on its conntrack entry's account nor still to be  *)
(* told, and a UDP entry with replies on its account is assured.           *)
(*                                                                         *)
(* The device references of sfe_cm_post_routing (SfePostRouting), for      *)
(* every finite set of devices and of calls, and every bound: what a call  *)
(* holds at each step is what its way out puts.                            *)
(***************************************************************************)
EXTENDS SfeCm, SfePostRouting, OperatorProofs

USE CmAssumption

Counts == [Dirs -> Nat]
States == {"free", "offloaded", "closing", "closed"}

-----------------------------------------------------------------------------
(* The inductive invariant                                                  *)

\* What the engine keeps of a connection, and its message, have their types.
EngineTypes ==
  /\ state \in [Conns -> States]
  /\ flow \in [Conns -> Flows \cup {None}]
  /\ untold \in [Conns -> Counts]
  /\ msg.conn \in Conns \cup {None} /\ msg.new \in Counts
  /\ msg.conn = None => msg = Engine!NoMsg

\* A connection object in use, and no other, serves a flow.
FlowWhileUsed == \A c \in Conns : flow[c] = None <=> state[c] = "free"

\* A connection that has sent its final message has nothing left to tell.
NothingUntold == \A c \in Conns : state[c] \in {"free", "closed"} => untold[c] = Zero

CmInv ==
  /\ TypeOK
  /\ EngineTypes
  /\ FlowWhileUsed
  /\ NothingUntold
  /\ NoPacketUnaccounted
  /\ AssuredOnceReplied

\* What the invariant says of the engine alone.
EngineInv == EngineTypes /\ FlowWhileUsed /\ NothingUntold

-----------------------------------------------------------------------------
(* What is still to be told                                                 *)

\* The engine's zero is conntrack's, and it is a count.
LEMMA SameZero ==
  /\ Zero \in Counts /\ \A d \in Dirs : Zero[d] = 0
  /\ Engine!Dirs = Dirs /\ Engine!Zero = Zero
  /\ Engine!NoMsg.conn = None /\ Engine!NoMsg.new = Zero
  BY DEF Zero, Dirs, Counts, Engine!Zero, Engine!Dirs, Engine!NoMsg

\* What a flow's connections have not told is a natural number.
LEMMA UntoldType ==
  ASSUME EngineTypes, NEW f, NEW d \in Dirs
  PROVE  UntoldOf(f, d) \in Nat
<1>. DEFINE g == [c \in Conns |-> untold[c][d]]
            S == {c \in Conns : flow[c] = f}
<1>1. IsFiniteSet(S)
  BY FS_Subset
<1>2. \A c \in S : g[c] \in Nat
  BY DEF EngineTypes, Counts
<1>3. UntoldOf(f, d) = SumFunctionOnSet(g, S)
  BY DEF UntoldOf
<1>. HIDE DEF g, S
<1>. QED BY <1>1, <1>2, <1>3, SumBounds

\* When one connection's count changes, its flow's does, by as much.
LEMMA UntoldChange ==
  ASSUME EngineTypes, EngineTypes', NEW f, NEW d \in Dirs, NEW c \in Conns,
         flow' = flow, \A b \in Conns \ {c} : untold'[b] = untold[b]
  PROVE  UntoldOf(f, d)' = UntoldOf(f, d) + (IF flow[c] = f THEN untold'[c][d] - untold[c][d]
                                                            ELSE 0)
<1>. DEFINE g == [b \in Conns |-> untold[b][d]]
            h == [b \in Conns |-> untold'[b][d]]
            S == {b \in Conns : flow[b] = f}
<1>1. IsFiniteSet(S)
  BY FS_Subset
<1>2. /\ \A b \in S : g[b] \in Int /\ h[b] \in Int
      /\ \A b \in S : b # c => g[b] = h[b]
  BY DEF EngineTypes, Counts
<1>3. UntoldOf(f, d) = SumFunctionOnSet(g, S) /\ UntoldOf(f, d)' = SumFunctionOnSet(h, S)
  BY DEF UntoldOf
<1>4. /\ g[c] = untold[c][d] /\ h[c] = untold'[c][d]
      /\ c \in S <=> flow[c] = f
  OBVIOUS
<1>. HIDE DEF g, h, S
<1>5. SumFunctionOnSet(h, S) = SumFunctionOnSet(g, S) + (IF c \in S THEN h[c] - g[c] ELSE 0)
  BY <1>1, <1>2, SumUpdate
<1>. QED BY <1>3, <1>4, <1>5

\* A connection that has nothing to tell does not count.
LEMMA NothingCounts ==
  ASSUME NEW u \in [Conns -> Counts], NEW c \in Conns, u[c] = Zero, NEW d \in Dirs,
         NEW S \in SUBSET Conns
  PROVE  SumFunctionOnSet([b \in Conns |-> u[b][d]], S)
           = SumFunctionOnSet([b \in Conns |-> u[b][d]], S \ {c})
<1>. DEFINE g == [b \in Conns |-> u[b][d]]
<1>1. IsFiniteSet(S) /\ IsFiniteSet(S \ {c})
  BY FS_Subset
<1>2. \A b \in S : g[b] \in Nat
  BY DEF Counts
<1>3. g[c] = 0
  BY SameZero
<1>. HIDE DEF g
<1>4. SumFunctionOnSet(g, S \ {c}) \in Nat
  BY <1>1, <1>2, SumBounds
<1>5. CASE c \in S
  <2>1. \A b \in S : g[b] \in Int
    BY <1>2
  <2>2. SumFunctionOnSet(g, S) = g[c] + SumFunctionOnSet(g, S \ {c})
    BY <1>1, <1>5, <2>1, SumRemove
  <2>. QED BY <1>3, <1>4, <2>2 DEF g
<1>6. CASE c \notin S
  <2>1. S \ {c} = S
    BY <1>6
  <2>. QED BY <2>1 DEF g
<1>. QED BY <1>5, <1>6

\* Nor does it matter which flow it serves.
LEMMA UntoldMove ==
  ASSUME EngineTypes, NEW f, NEW d \in Dirs, NEW c \in Conns,
         untold' = untold, untold[c] = Zero, \A b \in Conns \ {c} : flow'[b] = flow[b]
  PROVE  UntoldOf(f, d)' = UntoldOf(f, d)
<1>. DEFINE S == {b \in Conns : flow[b] = f}
            R == {b \in Conns : flow'[b] = f}
<1>1. S \in SUBSET Conns /\ R \in SUBSET Conns /\ S \ {c} = R \ {c}
  OBVIOUS
<1>2. /\ UntoldOf(f, d) = SumFunctionOnSet([b \in Conns |-> untold[b][d]], S)
      /\ UntoldOf(f, d)' = SumFunctionOnSet([b \in Conns |-> untold[b][d]], R)
  BY DEF UntoldOf
<1>3. untold \in [Conns -> Counts]
  BY DEF EngineTypes
<1>. DEFINE g == [b \in Conns |-> untold[b][d]]
<1>4. /\ SumFunctionOnSet(g, S) = SumFunctionOnSet(g, S \ {c})
      /\ SumFunctionOnSet(g, R) = SumFunctionOnSet(g, R \ {c})
  <2>. HIDE DEF S, R
  <2>. QED BY <1>1, <1>3, NothingCounts
<1>. HIDE DEF g, S, R
<1>5. SumFunctionOnSet(g, R) = SumFunctionOnSet(g, S)
  BY <1>1, <1>4
<1>. QED BY <1>2, <1>5 DEF g

-----------------------------------------------------------------------------
(* The engine's steps                                                       *)

\* The steps that change no connection preserve the engine's invariant.
LEMMA EngineIdle ==
  ASSUME EngineInv, UNCHANGED <<state, flow, untold>>, msg' = msg \/ msg' = Engine!NoMsg
  PROVE  EngineInv'
  BY SameZero DEF EngineInv, EngineTypes, FlowWhileUsed, NothingUntold

\* And so do the steps of a connection.
LEMMA EngineStep ==
  ASSUME EngineInv, NEW c \in Conns,
         \/ \E f \in Flows : Engine!Offload(c, f)
         \/ \E d \in Dirs : Engine!Forward(c, d)
         \/ Engine!Report(c, jiffies)
         \/ Engine!Close(c) \/ Engine!Final(c) \/ Engine!Drop(c) \/ Engine!Release(c)
  PROVE  EngineInv'
<1>. USE DEF EngineInv
<1>1. ASSUME NEW f \in Flows, Engine!Offload(c, f)  PROVE EngineInv'
  BY <1>1, SameZero DEF Engine!Offload, EngineTypes, FlowWhileUsed, NothingUntold, States
<1>2. ASSUME NEW d \in Dirs, Engine!Forward(c, d)  PROVE EngineInv'
  <2>1. /\ UNCHANGED <<state, flow, msg>> /\ state[c] = "offloaded"
        /\ untold' = [untold EXCEPT ![c][d] = @ + 1]
    BY <1>2 DEF Engine!Forward
  <2>2. untold[c] \in [Dirs -> Nat] /\ untold \in [Conns -> [Dirs -> Nat]]
    BY DEF EngineTypes, Counts
  <2>3. untold' \in [Conns -> [Dirs -> Nat]] /\ \A b \in Conns \ {c} : untold'[b] = untold[b]
    BY <2>1, <2>2
  <2>. QED BY <2>1, <2>3 DEF EngineTypes, FlowWhileUsed, NothingUntold, Counts
<1>3. CASE Engine!Report(c, jiffies)
  <2>1. /\ UNCHANGED <<state, flow>> /\ untold' = [untold EXCEPT ![c] = Zero]
        /\ msg'.conn = c /\ msg'.new = untold[c]
    BY <1>3, SameZero DEF Engine!Report, Engine!Message
  <2>. QED BY <2>1, SameZero DEF EngineTypes, FlowWhileUsed, NothingUntold
<1>5. CASE Engine!Close(c)
  BY <1>5 DEF Engine!Close, EngineTypes, FlowWhileUsed, NothingUntold, States
<1>6. CASE Engine!Final(c) \/ Engine!Drop(c)
  <2>1. /\ UNCHANGED <<flow, msg>> /\ state[c] = "closing"
        /\ state' = [state EXCEPT ![c] = "closed"] /\ untold' = [untold EXCEPT ![c] = Zero]
    BY <1>6, SameZero DEF Engine!Final, Engine!Drop
  <2>. QED BY <2>1, SameZero DEF EngineTypes, FlowWhileUsed, NothingUntold, States
<1>7. CASE Engine!Release(c)
  BY <1>7 DEF Engine!Release, EngineTypes, FlowWhileUsed, NothingUntold, States
<1>. QED BY <1>1, <1>2, <1>3, <1>5, <1>6, <1>7

-----------------------------------------------------------------------------
(* The steps, and what each can disturb                                     *)

\* What is pending is a natural number, and the same while no message moves.
LEMMA PendingType ==
  ASSUME CmInv, NEW f \in Flows, NEW d \in Dirs
  PROVE  Pending(f, d) \in Nat
<1>1. UntoldOf(f, d) \in Nat
  BY UntoldType DEF CmInv
<1>2. msg.new[d] \in Nat
  BY DEF CmInv, EngineTypes, Counts
<1>. QED BY <1>1, <1>2 DEF Pending

\* The entries and what was carried, at their types.
LEMMA AccountTypes ==
  ASSUME CmInv, NEW f \in Flows, NEW d \in Dirs
  PROVE  /\ carried[f][d] \in Int
         /\ ct[f] # None => ct[f].acct[d] \in Nat
  BY DEF CmInv, TypeOK, Entries

\* A step that moves no packet: the entries are the same, or gone.
LEMMA NothingMoved ==
  ASSUME CmInv, EngineInv', TypeOK', UNCHANGED <<protocol, flow, untold, msg, msgFlow, carried>>,
         \A f \in Flows : ct'[f] = ct[f] \/ ct'[f] = None
  PROVE  CmInv'
<1>1. \A f \in Flows, d \in Dirs : Pending(f, d)' = Pending(f, d)
  BY DEF Pending, UntoldOf
<1>2. NoPacketUnaccounted'
  <2>. SUFFICES ASSUME NEW f \in Flows, NEW d \in Dirs, ct'[f] # None
                PROVE  carried'[f][d] <= ct'[f].acct[d] + Pending(f, d)'
    BY DEF NoPacketUnaccounted
  <2>. QED BY <1>1 DEF CmInv, NoPacketUnaccounted
<1>3. AssuredOnceReplied'
  BY DEF CmInv, AssuredOnceReplied
<1>. QED BY <1>2, <1>3 DEF CmInv, EngineInv

\* An entry is made: nothing was carried yet.
LEMMA CtNewStep ==
  ASSUME CmInv, NEW f \in Flows, CtNew(f)
  PROVE  CmInv'
<1>1. /\ UNCHANGED <<offload, cm>> /\ ct' = [ct EXCEPT ![f] = NewEntry]
      /\ carried' = [carried EXCEPT ![f] = Zero]
  BY DEF CtNew
<1>2. NewEntry \in Entries /\ NewEntry.acct = Zero /\ Zero \in [Dirs -> Int]
  BY SameZero DEF NewEntry, Entries, Counts
<1>3. TypeOK'
  BY <1>1, <1>2 DEF CmInv, TypeOK, offload, cm
<1>4. EngineInv'
  BY <1>1, EngineIdle DEF CmInv, EngineInv, offload
<1>5. NoPacketUnaccounted'
  <2>. SUFFICES ASSUME NEW g \in Flows, NEW d \in Dirs, ct'[g] # None
                PROVE  carried'[g][d] <= ct'[g].acct[d] + Pending(g, d)'
    BY DEF NoPacketUnaccounted
  <2>1. Pending(g, d)' = Pending(g, d) /\ Pending(g, d) \in Nat
    BY <1>1, PendingType DEF Pending, UntoldOf, offload, cm
  <2>2. CASE g = f
    <3>1. carried'[g][d] = 0 /\ ct'[g].acct[d] = 0
      BY <1>1, <1>2, <2>2, SameZero DEF CmInv, TypeOK
    <3>. QED BY <2>1, <3>1
  <2>3. CASE g # f
    <3>1. carried'[g] = carried[g] /\ ct'[g] = ct[g]
      BY <1>1, <2>3
    <3>. QED BY <2>1, <3>1 DEF CmInv, NoPacketUnaccounted
  <2>. QED BY <2>2, <2>3
<1>6. AssuredOnceReplied'
  <2>. SUFFICES ASSUME NEW g \in Flows, protocol'[g] = "udp", ct'[g] # None, ct'[g].acct["reply"] # 0
                PROVE  ct'[g].assured
    BY DEF AssuredOnceReplied
  <2>1. g # f
    BY <1>1, <1>2, SameZero DEF CmInv, TypeOK, Dirs
  <2>2. ct'[g] = ct[g] /\ protocol' = protocol
    BY <1>1, <2>1 DEF cm
  <2>. QED BY <2>2 DEF CmInv, AssuredOnceReplied
<1>. QED BY <1>3, <1>4, <1>5, <1>6 DEF CmInv, EngineInv

\* A packet of the slow path: conntrack counts it itself.
LEMMA SlowPacketStep ==
  ASSUME CmInv, NEW f \in Flows, NEW d \in Dirs, SlowPacket(f, d)
  PROVE  CmInv'
<1>. DEFINE e == [ct[f] EXCEPT !.acct[d] = @ + 1,
                               !.assured = @ \/ d = "reply",
                               !.tcp = IF d = "reply" /\ @ = "opening" THEN "established" ELSE @]
<1>1. /\ UNCHANGED <<offload, cm>> /\ ct' = [ct EXCEPT ![f] = e]
      /\ carried' = [carried EXCEPT ![f][d] = @ + 1] /\ ct[f] # None
  BY DEF SlowPacket
<1>2. ct[f] \in Entries
  BY <1>1 DEF CmInv, TypeOK
<1>3. /\ e.acct = [ct[f].acct EXCEPT ![d] = @ + 1]
      /\ e.assured = (ct[f].assured \/ d = "reply")
      /\ e \in Entries
  <2>1. ct[f].acct \in [Dirs -> Nat]
    BY <1>2 DEF Entries
  <2>2. [ct[f].acct EXCEPT ![d] = @ + 1] \in [Dirs -> Nat]
    BY <2>1
  <2>. DEFINE r == [ct[f] EXCEPT !.acct = [ct[f].acct EXCEPT ![d] = @ + 1]]
              t == [r EXCEPT !.assured = @ \/ d = "reply"]
  <2>3. r \in Entries /\ r.acct = [ct[f].acct EXCEPT ![d] = @ + 1] /\ r.assured = ct[f].assured
    BY <1>2, <2>2 DEF Entries
  <2>4. e = [t EXCEPT !.tcp = IF d = "reply" /\ @ = "opening" THEN "established" ELSE @]
    OBVIOUS
  <2>. HIDE DEF e, r
  <2>5. t \in Entries /\ t.acct = r.acct /\ t.assured = (r.assured \/ d = "reply")
    BY <2>3 DEF Entries
  <2>. HIDE DEF t
  <2>6. e \in Entries /\ e.acct = t.acct /\ e.assured = t.assured
    BY <2>4, <2>5 DEF Entries
  <2>. QED BY <2>3, <2>5, <2>6
<1>. HIDE DEF e
<1>4. TypeOK'
  <2>1. carried[f] \in [Dirs -> Int]
    BY DEF CmInv, TypeOK
  <2>2. [carried[f] EXCEPT ![d] = @ + 1] \in [Dirs -> Int]
    BY <2>1
  <2>3. carried' = [carried EXCEPT ![f] = [carried[f] EXCEPT ![d] = @ + 1]]
    BY <1>1 DEF CmInv, TypeOK
  <2>4. carried' \in [Flows -> [Dirs -> Int]]
    BY <2>2, <2>3 DEF CmInv, TypeOK
  <2>. QED BY <1>1, <1>3, <2>4 DEF CmInv, TypeOK, offload, cm
<1>5. EngineInv'
  BY <1>1, EngineIdle DEF CmInv, EngineInv, offload
<1>6. NoPacketUnaccounted'
  <2>. SUFFICES ASSUME NEW g \in Flows, NEW b \in Dirs, ct'[g] # None
                PROVE  carried'[g][b] <= ct'[g].acct[b] + Pending(g, b)'
    BY DEF NoPacketUnaccounted
  <2>1. Pending(g, b)' = Pending(g, b) /\ Pending(g, b) \in Nat
    BY <1>1, PendingType DEF Pending, UntoldOf, offload, cm
  <2>2. ct[g] # None
    BY <1>1 DEF CmInv, TypeOK
  <2>3. \/ carried'[g][b] = carried[g][b] /\ ct'[g].acct[b] = ct[g].acct[b]
        \/ carried'[g][b] = carried[g][b] + 1 /\ ct'[g].acct[b] = ct[g].acct[b] + 1
    <3>1. CASE g = f /\ b = d
      <4>1. carried'[g][b] = carried[g][b] + 1
        BY <1>1, <3>1 DEF CmInv, TypeOK
      <4>2. ct'[g].acct[b] = ct[g].acct[b] + 1
        BY <1>1, <1>2, <1>3, <3>1 DEF CmInv, TypeOK, Entries
      <4>. QED BY <4>1, <4>2
    <3>2. CASE g = f /\ b # d
      BY <1>1, <1>2, <1>3, <3>2 DEF CmInv, TypeOK, Entries
    <3>3. CASE g # f
      BY <1>1, <3>3 DEF CmInv, TypeOK
    <3>. QED BY <3>1, <3>2, <3>3
  <2>4. carried[g][b] <= ct[g].acct[b] + Pending(g, b)
    BY <2>2 DEF CmInv, NoPacketUnaccounted
  <2>. QED BY <2>1, <2>2, <2>3, <2>4, AccountTypes
<1>7. AssuredOnceReplied'
  <2>. SUFFICES ASSUME NEW g \in Flows, protocol'[g] = "udp", ct'[g] # None, ct'[g].acct["reply"] # 0
                PROVE  ct'[g].assured
    BY DEF AssuredOnceReplied
  <2>1. protocol' = protocol /\ "reply" \in Dirs
    BY <1>1 DEF cm, Dirs
  <2>2. CASE g # f
    BY <1>1, <2>1, <2>2 DEF CmInv, TypeOK, AssuredOnceReplied
  <2>3. CASE g = f
    <3>1. ct'[g] = e
      BY <1>1, <2>3 DEF CmInv, TypeOK
    <3>2. CASE d = "reply"
      BY <1>3, <3>1, <3>2
    <3>3. CASE d # "reply"
      <4>1. ct[f].acct["reply"] # 0
        BY <1>2, <1>3, <2>1, <3>1, <3>3 DEF Entries
      <4>2. ct[f].assured
        BY <1>1, <2>1, <2>3, <4>1 DEF CmInv, AssuredOnceReplied
      <4>. QED BY <1>3, <3>1, <4>2
    <3>. QED BY <3>2, <3>3
  <2>. QED BY <2>2, <2>3
<1>. QED BY <1>4, <1>5, <1>6, <1>7 DEF CmInv, EngineInv

\* A connection that is seen closing keeps its account.
LEMMA SlowFinStep ==
  ASSUME CmInv, NEW f \in Flows, SlowFin(f)
  PROVE  CmInv'
<1>. DEFINE e == [ct[f] EXCEPT !.tcp = "closing"]
<1>1. /\ UNCHANGED <<offload, cm, carried>> /\ ct[f] # None /\ ct' = [ct EXCEPT ![f] = e]
  BY DEF SlowFin
<1>2. ct[f] \in Entries
  BY <1>1 DEF CmInv, TypeOK
<1>3. e \in Entries /\ e.acct = ct[f].acct /\ e.assured = ct[f].assured
  BY <1>2 DEF Entries
<1>. HIDE DEF e
<1>4. TypeOK'
  BY <1>1, <1>3 DEF CmInv, TypeOK, offload, cm
<1>5. EngineInv'
  BY <1>1, EngineIdle DEF CmInv, EngineInv, offload
<1>6. \A g \in Flows : ct'[g] # None => /\ ct[g] # None /\ ct'[g].acct = ct[g].acct
                                        /\ ct'[g].assured = ct[g].assured
  BY <1>1, <1>3 DEF CmInv, TypeOK
<1>7. NoPacketUnaccounted'
  <2>1. \A g \in Flows, d \in Dirs : Pending(g, d)' = Pending(g, d)
    BY <1>1 DEF Pending, UntoldOf, offload, cm
  <2>. QED BY <1>1, <1>6, <2>1 DEF CmInv, NoPacketUnaccounted
<1>8. AssuredOnceReplied'
  BY <1>1, <1>6 DEF CmInv, AssuredOnceReplied, cm
<1>. QED BY <1>4, <1>5, <1>7, <1>8 DEF CmInv, EngineInv

\* An entry goes: its rule is destroyed, if the manager listens and there is one.
LEMMA CtDestroyStep ==
  ASSUME CmInv, NEW f \in Flows, CtDestroy(f)
  PROVE  CmInv'
<1>1. /\ ct' = [ct EXCEPT ![f] = None] /\ UNCHANGED <<cm, carried>>
      /\ (\E c \in Conns : Engine!Close(c)) \/ UNCHANGED offload
  BY DEF CtDestroy, ConnOf, Engine!Offloaded
<1>2. UNCHANGED <<flow, untold, msg>> /\ EngineInv'
  <2>1. ASSUME NEW c \in Conns, Engine!Close(c)  PROVE UNCHANGED <<flow, untold, msg>> /\ EngineInv'
    BY <2>1, EngineStep DEF Engine!Close, CmInv, EngineInv
  <2>2. CASE UNCHANGED offload
    BY <2>2, EngineIdle DEF offload, CmInv, EngineInv
  <2>. QED BY <1>1, <2>1, <2>2
<1>3. TypeOK'
  BY <1>1, <1>2 DEF CmInv, TypeOK, cm
<1>4. \A g \in Flows : ct'[g] = ct[g] \/ ct'[g] = None
  BY <1>1 DEF CmInv, TypeOK
<1>. QED BY <1>1, <1>2, <1>3, <1>4, NothingMoved DEF cm

\* A flow leaves the fast path: what it did not tell stays to be told.
LEMMA CloseStep ==
  ASSUME CmInv, NEW c \in Conns, Engine!Close(c), UNCHANGED <<ct, cm, carried>>
  PROVE  CmInv'
<1>1. UNCHANGED <<flow, untold, msg>> /\ EngineInv'
  BY EngineStep DEF Engine!Close, CmInv, EngineInv
<1>2. TypeOK'
  BY <1>1 DEF CmInv, TypeOK, cm
<1>. QED BY <1>1, <1>2, NothingMoved DEF cm

\* What the manager decides between conntrack and the engine moves no packet.
LEMMA QuietStep ==
  ASSUME CmInv, UNCHANGED <<protocol, state, flow, untold, msg, ct, msgFlow, carried>>,
         creating' \subseteq Flows, hooks' \subseteq {"routing", "events", "receive"},
         module' \in {"unloaded", "routed", "evented", "received", "loaded", "silent",
                      "deaf", "destroyed", "eventless"}
  PROVE  CmInv'
<1>1. EngineInv'
  BY EngineIdle DEF CmInv, EngineInv
<1>2. TypeOK'
  BY DEF CmInv, TypeOK
<1>. QED BY <1>1, <1>2, NothingMoved

\* Post routing looks at an entry, or gives up on the flow.
LEMMA CreateStep ==
  ASSUME CmInv, NEW f \in Flows, CreateFail(f) \/ \E d \in Dirs : PostRouting(f, d)
  PROVE  CmInv'
<1>1. /\ UNCHANGED <<protocol, offload, ct, msgFlow, hooks, module, carried>>
      /\ creating' \subseteq creating \cup {f}
  BY DEF CreateFail, PostRouting
<1>2. /\ creating \subseteq Flows
      /\ hooks \subseteq {"routing", "events", "receive"}
      /\ module \in {"unloaded", "routed", "evented", "received", "loaded", "silent",
                     "deaf", "destroyed", "eventless"}
  BY DEF CmInv, TypeOK
<1>. QED BY <1>1, <1>2, QuietStep DEF offload

\* The steps of loading and unloading.
LEMMA ModuleQuiet ==
  ASSUME CmInv, \/ ModuleInit \/ ExitCallback \/ ExitDestroyed \/ ExitRouting
                \/ ExitHook("silent", "receive", "deaf")
                \/ ExitHook("destroyed", "events", "eventless")
  PROVE  CmInv'
<1>1. /\ creating \subseteq Flows
      /\ hooks \subseteq {"routing", "events", "receive"}
  BY DEF CmInv, TypeOK
<1>2. /\ UNCHANGED <<protocol, state, flow, untold, msg, ct, msgFlow, creating, carried>>
      /\ hooks' \subseteq {"routing", "events", "receive"}
      /\ module' \in {"unloaded", "routed", "evented", "received", "loaded", "silent",
                      "deaf", "destroyed", "eventless"}
  <2>1. CASE ModuleInit
    BY <1>1, <2>1 DEF ModuleInit, InitHook, InitCallback, InitFail, ModuleStep, offload,
                      Engine!Register
  <2>2. CASE ExitCallback \/ ExitDestroyed \/ ExitRouting
    BY <1>1, <2>2 DEF ExitCallback, ExitDestroyed, ExitRouting, ModuleStep, offload,
                      Engine!Register
  <2>3. CASE \/ ExitHook("silent", "receive", "deaf")
             \/ ExitHook("destroyed", "events", "eventless")
    BY <1>1, <2>3 DEF ExitHook, ModuleStep, offload
  <2>. QED BY <2>1, <2>2, <2>3
<1>. QED BY <1>1, <1>2, QuietStep

\* The engine takes or gives back a connection object: nobody's packets move with it.
LEMMA ObjectStep ==
  ASSUME CmInv, NEW c \in Conns,
         Engine!Release(c) \/ \E f \in Flows : Engine!Offload(c, f),
         UNCHANGED <<protocol, ct, msgFlow, hooks, module, carried>>, creating' \subseteq creating
  PROVE  CmInv'
<1>1. EngineInv'
  BY EngineStep DEF CmInv, EngineInv
<1>2. untold[c] = Zero
  BY DEF Engine!Release, Engine!Offload, CmInv, NothingUntold
<1>3. /\ untold' = untold /\ msg' = msg
      /\ \A b \in Conns \ {c} : flow'[b] = flow[b]
  BY <1>2, SameZero DEF Engine!Release, Engine!Offload, CmInv, EngineTypes
<1>4. \A f \in Flows, d \in Dirs : Pending(f, d)' = Pending(f, d)
  <2>. SUFFICES ASSUME NEW f \in Flows, NEW d \in Dirs
                PROVE  Pending(f, d)' = Pending(f, d)
    OBVIOUS
  <2>1. UntoldOf(f, d)' = UntoldOf(f, d)
    BY <1>2, <1>3, UntoldMove DEF CmInv
  <2>. QED BY <1>3, <2>1 DEF Pending
<1>5. TypeOK'
  BY <1>3 DEF CmInv, TypeOK
<1>6. NoPacketUnaccounted' /\ AssuredOnceReplied'
  BY <1>4 DEF CmInv, NoPacketUnaccounted, AssuredOnceReplied
<1>. QED BY <1>1, <1>5, <1>6 DEF CmInv, EngineInv

\* The engine forwards a packet: it is carried, and untold.
LEMMA FastPacketStep ==
  ASSUME CmInv, NEW c \in Conns, NEW d \in Dirs, FastPacket(c, d)
  PROVE  CmInv'
<1>1. /\ Engine!Forward(c, d) /\ UNCHANGED <<ct, cm>>
      /\ carried' = [carried EXCEPT ![flow[c]][d] = @ + 1]
  BY DEF FastPacket
<1>2. /\ UNCHANGED <<state, flow, msg>> /\ state[c] = "offloaded"
      /\ untold' = [untold EXCEPT ![c][d] = @ + 1]
  BY <1>1 DEF Engine!Forward
<1>3. EngineInv'
  BY <1>1, EngineStep DEF CmInv, EngineInv
<1>4. flow[c] \in Flows
  BY <1>2 DEF CmInv, EngineTypes, FlowWhileUsed
<1>5. TypeOK'
  <2>1. carried[flow[c]] \in [Dirs -> Int]
    BY <1>4 DEF CmInv, TypeOK
  <2>2. [carried[flow[c]] EXCEPT ![d] = @ + 1] \in [Dirs -> Int]
    BY <2>1
  <2>3. carried' = [carried EXCEPT ![flow[c]] = [carried[flow[c]] EXCEPT ![d] = @ + 1]]
    BY <1>1, <1>4 DEF CmInv, TypeOK
  <2>4. carried' \in [Flows -> [Dirs -> Int]]
    BY <2>2, <2>3 DEF CmInv, TypeOK
  <2>. QED BY <1>1, <1>2, <2>4 DEF CmInv, TypeOK, cm
<1>6. NoPacketUnaccounted'
  <2>. SUFFICES ASSUME NEW g \in Flows, NEW b \in Dirs, ct'[g] # None
                PROVE  carried'[g][b] <= ct'[g].acct[b] + Pending(g, b)'
    BY DEF NoPacketUnaccounted
  <2>1. carried[g][b] <= ct[g].acct[b] + Pending(g, b)
    BY <1>1 DEF CmInv, NoPacketUnaccounted
  <2>2. UntoldOf(g, b)' = UntoldOf(g, b) + (IF flow[c] = g THEN untold'[c][b] - untold[c][b] ELSE 0)
    <3>1. \A a \in Conns \ {c} : untold'[a] = untold[a]
      BY <1>2 DEF CmInv, EngineTypes
    <3>. QED BY <1>2, <1>3, <3>1, UntoldChange DEF CmInv, EngineInv
  <2>3. UntoldOf(g, b) \in Nat /\ Pending(g, b) \in Nat
    BY UntoldType, PendingType DEF CmInv
  <2>4. CASE flow[c] = g /\ b = d
    <3>1. carried'[g][b] = carried[g][b] + 1
      BY <1>1, <2>4 DEF CmInv, TypeOK
    <3>2. untold'[c][b] - untold[c][b] = 1
      BY <1>2, <2>4 DEF CmInv, EngineTypes, Counts
    <3>3. Pending(g, b)' = Pending(g, b) + 1
      <4>1. msg.new[b] \in Nat
        BY DEF CmInv, EngineTypes, Counts
      <4>2. UntoldOf(g, b)' = UntoldOf(g, b) + 1
        BY <2>2, <2>4, <3>2
      <4>. QED BY <1>1, <1>2, <2>3, <4>1, <4>2 DEF Pending, cm
    <3>. QED BY <1>1, <2>1, <2>3, <3>1, <3>3, AccountTypes
  <2>5. CASE ~(flow[c] = g /\ b = d)
    <3>1. carried'[g][b] = carried[g][b]
      BY <1>1, <1>4, <2>5 DEF CmInv, TypeOK
    <3>2. UntoldOf(g, b)' = UntoldOf(g, b)
      <4>1. flow[c] = g => untold'[c][b] - untold[c][b] = 0
        BY <1>2, <2>5 DEF CmInv, EngineTypes, Counts
      <4>. QED BY <2>2, <2>3, <4>1
    <3>3. Pending(g, b)' = Pending(g, b)
      BY <1>1, <1>2, <3>2 DEF Pending, cm
    <3>. QED BY <1>1, <2>1, <3>1, <3>3
  <2>. QED BY <2>4, <2>5
<1>7. AssuredOnceReplied'
  BY <1>1 DEF CmInv, AssuredOnceReplied, cm
<1>. QED BY <1>3, <1>5, <1>6, <1>7 DEF CmInv, EngineInv

\* The timer takes a connection's count into its message.
LEMMA TimerReportStep ==
  ASSUME CmInv, NEW c \in Conns, TimerReport(c)
  PROVE  CmInv'
<1>1. /\ Engine!Report(c, jiffies) /\ msgFlow' = flow[c]
      /\ UNCHANGED <<protocol, ct, creating, hooks, module, carried>>
  BY DEF TimerReport
<1>2. /\ UNCHANGED <<state, flow>> /\ untold' = [untold EXCEPT ![c] = Zero]
      /\ state[c] = "offloaded" /\ msg.conn = None
      /\ msg'.conn = c /\ msg'.new = untold[c]
  BY <1>1, SameZero DEF Engine!Report, Engine!Message
<1>3. EngineInv'
  BY <1>1, EngineStep DEF CmInv, EngineInv
<1>4. flow[c] \in Flows /\ msgFlow = None
  BY <1>2 DEF CmInv, EngineTypes, FlowWhileUsed, TypeOK
<1>5. TypeOK'
  BY <1>1, <1>2, <1>4 DEF CmInv, TypeOK
<1>6. \A f \in Flows, d \in Dirs : Pending(f, d)' = Pending(f, d)
  <2>. SUFFICES ASSUME NEW f \in Flows, NEW d \in Dirs
                PROVE  Pending(f, d)' = Pending(f, d)
    OBVIOUS
  <2>1. UntoldOf(f, d)' = UntoldOf(f, d) + (IF flow[c] = f THEN untold'[c][d] - untold[c][d] ELSE 0)
    <3>1. \A a \in Conns \ {c} : untold'[a] = untold[a]
      BY <1>2 DEF CmInv, EngineTypes
    <3>. QED BY <1>2, <1>3, <3>1, UntoldChange DEF CmInv, EngineInv
  <2>2. UntoldOf(f, d) \in Nat /\ untold[c][d] \in Nat
    BY UntoldType DEF CmInv, EngineTypes, Counts
  <2>3. untold'[c][d] = 0
    BY <1>2, SameZero DEF CmInv, EngineTypes
  <2>4. Pending(f, d) = UntoldOf(f, d)
    BY <1>4, <2>2 DEF Pending
  <2>5. Pending(f, d)' = UntoldOf(f, d)' + (IF flow[c] = f THEN untold[c][d] ELSE 0)
    BY <1>1, <1>2 DEF Pending
  <2>. QED BY <2>1, <2>2, <2>3, <2>4, <2>5
<1>7. NoPacketUnaccounted' /\ AssuredOnceReplied'
  BY <1>1, <1>6 DEF CmInv, NoPacketUnaccounted, AssuredOnceReplied
<1>. QED BY <1>3, <1>5, <1>7 DEF CmInv, EngineInv

\* What sync_rule does to the entry of a flow: it adds the message, makes a UDP
\* entry with replies assured, and leaves the other flows alone.
LEMMA SyncRuleEffect ==
  ASSUME CmInv, NEW f \in Flows, NEW new \in Counts, SyncRule(f, new), protocol' = protocol
  PROVE  /\ ct' \in [Flows -> Entries \cup {None}]
         /\ \A g \in Flows, d \in Dirs :
              ct'[g] # None =>
                /\ ct[g] # None
                /\ ct'[g].acct[d] = ct[g].acct[d] + (IF g = f THEN new[d] ELSE 0)
         /\ AssuredOnceReplied'
<1>1. CASE ct[f] = None
  <2>1. ct' = ct
    BY <1>1 DEF SyncRule
  <2>2. \A g \in Flows, d \in Dirs :
          ct'[g] # None =>
            /\ ct[g] # None
            /\ ct'[g].acct[d] = ct[g].acct[d] + (IF g = f THEN new[d] ELSE 0)
    BY <1>1, <2>1, AccountTypes
  <2>3. AssuredOnceReplied'
    BY <2>1 DEF CmInv, AssuredOnceReplied
  <2>. QED BY <2>1, <2>2, <2>3 DEF CmInv, TypeOK
<1>2. CASE ct[f] # None
  <2>. DEFINE e == SyncEntry(ct[f], f, new)
  <2>1. ct[f] \in Entries /\ ct' = [ct EXCEPT ![f] = e]
    BY <1>2 DEF CmInv, TypeOK, SyncRule
  <2>. DEFINE r == [ct[f] EXCEPT !.acct = Plus(ct[f].acct, new)]
  <2>2. /\ Plus(ct[f].acct, new) \in [Dirs -> Nat]
        /\ \A d \in Dirs : Plus(ct[f].acct, new)[d] = ct[f].acct[d] + new[d]
    BY <2>1 DEF Entries, Plus, Counts
  <2>3. r \in Entries /\ r.acct = Plus(ct[f].acct, new) /\ r.assured = ct[f].assured
    BY <2>1, <2>2 DEF Entries
  <2>4. e = [r EXCEPT !.assured = @ \/ (protocol[f] = "udp" /\ Plus(ct[f].acct, new)["reply"] # 0)]
    BY DEF SyncEntry
  <2>. HIDE DEF e, r
  <2>5. /\ e \in Entries /\ e.acct = r.acct
        /\ protocol[f] = "udp" /\ Plus(ct[f].acct, new)["reply"] # 0 => e.assured
    BY <2>3, <2>4 DEF Entries
  <2>6. ct' \in [Flows -> Entries \cup {None}]
    BY <2>1, <2>5 DEF CmInv, TypeOK
  <2>7. ct'[f] = e /\ \A g \in Flows \ {f} : ct'[g] = ct[g]
    BY <2>1 DEF CmInv, TypeOK
  <2>8. \A g \in Flows, d \in Dirs :
          ct'[g] # None =>
            /\ ct[g] # None
            /\ ct'[g].acct[d] = ct[g].acct[d] + (IF g = f THEN new[d] ELSE 0)
    <3>. SUFFICES ASSUME NEW g \in Flows, NEW d \in Dirs, ct'[g] # None
                  PROVE  /\ ct[g] # None
                         /\ ct'[g].acct[d] = ct[g].acct[d] + (IF g = f THEN new[d] ELSE 0)
      OBVIOUS
    <3>1. CASE g = f
      BY <1>2, <2>2, <2>3, <2>5, <2>7, <3>1
    <3>2. CASE g # f
      BY <2>7, <3>2, AccountTypes
    <3>. QED BY <3>1, <3>2
  <2>9. AssuredOnceReplied'
    <3>. SUFFICES ASSUME NEW g \in Flows, protocol[g] = "udp", ct'[g] # None,
                         ct'[g].acct["reply"] # 0
                  PROVE  ct'[g].assured
      BY DEF AssuredOnceReplied
    <3>1. CASE g = f
      BY <2>3, <2>5, <2>7, <3>1
    <3>2. CASE g # f
      BY <2>7, <3>2 DEF CmInv, AssuredOnceReplied
    <3>. QED BY <3>1, <3>2
  <2>. QED BY <2>6, <2>8, <2>9
<1>. QED BY <1>1, <1>2

\* The message arrives: what was pending in it is on the account.
LEMMA TimerDeliverStep ==
  ASSUME CmInv, TimerDeliver
  PROVE  CmInv'
<1>1. /\ SyncRule(msgFlow, msg.new) /\ msgFlow' = None /\ msg # Engine!NoMsg
      /\ msg' = Engine!NoMsg /\ UNCHANGED <<state, flow, untold, protocol, carried>>
      /\ UNCHANGED <<creating, hooks, module>>
  BY DEF TimerDeliver, Engine!Deliver
<1>2. msgFlow \in Flows /\ msg.new \in Counts
  BY <1>1 DEF CmInv, TypeOK, EngineTypes
<1>3. EngineInv'
  BY <1>1, EngineIdle DEF CmInv, EngineInv
<1>4. /\ ct' \in [Flows -> Entries \cup {None}]
      /\ \A g \in Flows, d \in Dirs :
           ct'[g] # None =>
             /\ ct[g] # None
             /\ ct'[g].acct[d] = ct[g].acct[d] + (IF g = msgFlow THEN msg.new[d] ELSE 0)
      /\ AssuredOnceReplied'
  BY <1>1, <1>2, SyncRuleEffect
<1>5. TypeOK'
  BY <1>1, <1>4, SameZero DEF CmInv, TypeOK
<1>6. NoPacketUnaccounted'
  <2>. SUFFICES ASSUME NEW g \in Flows, NEW d \in Dirs, ct'[g] # None
                PROVE  carried'[g][d] <= ct'[g].acct[d] + Pending(g, d)'
    BY DEF NoPacketUnaccounted
  <2>1. UntoldOf(g, d)' = UntoldOf(g, d) /\ UntoldOf(g, d) \in Nat
    BY <1>1, UntoldType DEF CmInv, UntoldOf
  <2>2. Pending(g, d)' = UntoldOf(g, d)
    BY <1>1, <1>2, <2>1 DEF Pending
  <2>3. msg.new[d] \in Nat
    BY <1>2 DEF Counts
  <2>4. Pending(g, d) = UntoldOf(g, d) + (IF g = msgFlow THEN msg.new[d] ELSE 0)
    BY DEF Pending
  <2>5. carried[g][d] <= ct[g].acct[d] + Pending(g, d) /\ ct[g] # None
    BY <1>4 DEF CmInv, NoPacketUnaccounted
  <2>6. ct'[g].acct[d] = ct[g].acct[d] + (IF g = msgFlow THEN msg.new[d] ELSE 0)
    BY <1>4
  <2>7. carried[g][d] \in Int /\ ct[g].acct[d] \in Nat
    BY <2>5, AccountTypes
  <2>. QED BY <1>1, <2>1, <2>2, <2>3, <2>4, <2>5, <2>6, <2>7
<1>. QED BY <1>3, <1>4, <1>5, <1>6 DEF CmInv, EngineInv

\* What a connection had not told is not pending any more once it is closed.
LEMMA ClosedTellsNothing ==
  ASSUME CmInv, EngineInv', NEW c \in Conns, untold' = [untold EXCEPT ![c] = Zero],
         UNCHANGED <<flow, msg, msgFlow>>, NEW f \in Flows, NEW d \in Dirs
  PROVE  /\ Pending(f, d)' = Pending(f, d) - (IF flow[c] = f THEN untold[c][d] ELSE 0)
         /\ Pending(f, d) \in Nat /\ untold[c][d] \in Nat
<1>1. UntoldOf(f, d)' = UntoldOf(f, d) + (IF flow[c] = f THEN untold'[c][d] - untold[c][d] ELSE 0)
  <2>1. \A a \in Conns \ {c} : untold'[a] = untold[a]
    BY DEF CmInv, EngineTypes
  <2>. QED BY <2>1, UntoldChange DEF CmInv, EngineInv
<1>2. UntoldOf(f, d) \in Nat /\ untold[c][d] \in Nat /\ Pending(f, d) \in Nat
  BY UntoldType, PendingType DEF CmInv, EngineTypes, Counts
<1>3. untold'[c][d] = 0
  BY SameZero DEF CmInv, EngineTypes
<1>4. msg.new[d] \in Nat
  BY DEF CmInv, EngineTypes, Counts
<1>5. Pending(f, d)' = UntoldOf(f, d)' + (IF msgFlow = f THEN msg.new[d] ELSE 0)
  BY DEF Pending
<1>6. Pending(f, d) = UntoldOf(f, d) + (IF msgFlow = f THEN msg.new[d] ELSE 0)
  BY DEF Pending
<1>. QED BY <1>1, <1>2, <1>3, <1>4, <1>5, <1>6

\* The final message: all that was untold is on the account.
LEMMA FinalSyncStep ==
  ASSUME CmInv, NEW c \in Conns, FinalSync(c)
  PROVE  CmInv'
<1>1. /\ Engine!Final(c) /\ SyncRule(flow[c], untold[c]) /\ UNCHANGED <<cm, carried>>
      /\ state[c] = "closing" /\ UNCHANGED <<flow, msg>>
      /\ untold' = [untold EXCEPT ![c] = Zero]
  BY SameZero DEF FinalSync, Engine!Final
<1>2. flow[c] \in Flows /\ untold[c] \in Counts
  BY <1>1 DEF CmInv, EngineTypes, FlowWhileUsed
<1>3. EngineInv'
  BY <1>1, EngineStep DEF CmInv, EngineInv
<1>4. /\ ct' \in [Flows -> Entries \cup {None}]
      /\ \A g \in Flows, d \in Dirs :
           ct'[g] # None =>
             /\ ct[g] # None
             /\ ct'[g].acct[d] = ct[g].acct[d] + (IF g = flow[c] THEN untold[c][d] ELSE 0)
      /\ AssuredOnceReplied'
  <2>1. protocol' = protocol
    BY <1>1 DEF cm
  <2>. QED BY <1>1, <1>2, <2>1, SyncRuleEffect
<1>5. TypeOK'
  BY <1>1, <1>4 DEF CmInv, TypeOK, cm
<1>6. NoPacketUnaccounted'
  <2>. SUFFICES ASSUME NEW g \in Flows, NEW d \in Dirs, ct'[g] # None
                PROVE  carried'[g][d] <= ct'[g].acct[d] + Pending(g, d)'
    BY DEF NoPacketUnaccounted
  <2>1. /\ Pending(g, d)' = Pending(g, d) - (IF flow[c] = g THEN untold[c][d] ELSE 0)
        /\ Pending(g, d) \in Nat /\ untold[c][d] \in Nat
    BY <1>1, <1>3, ClosedTellsNothing DEF cm
  <2>2. carried[g][d] <= ct[g].acct[d] + Pending(g, d) /\ ct[g] # None
    BY <1>4 DEF CmInv, NoPacketUnaccounted
  <2>3. ct'[g].acct[d] = ct[g].acct[d] + (IF g = flow[c] THEN untold[c][d] ELSE 0)
    BY <1>4
  <2>4. carried[g][d] \in Int /\ ct[g].acct[d] \in Nat
    BY <2>2, AccountTypes
  <2>. QED BY <1>1, <2>1, <2>2, <2>3, <2>4
<1>. QED BY <1>3, <1>4, <1>5, <1>6 DEF CmInv, EngineInv

\* No callback: what the engine drops counts as carried no longer.
LEMMA FinalDropStep ==
  ASSUME CmInv, NEW c \in Conns, FinalDrop(c)
  PROVE  CmInv'
<1>. DEFINE left == [d \in Dirs |-> carried[flow[c]][d] - untold[c][d]]
<1>1. /\ Engine!Drop(c) /\ UNCHANGED <<ct, cm>>
      /\ carried' = [carried EXCEPT ![flow[c]] = left]
      /\ state[c] = "closing" /\ UNCHANGED <<flow, msg>>
      /\ untold' = [untold EXCEPT ![c] = Zero]
  <2>1. FinalDrop(c)
    OBVIOUS
  <2>2. carried' = [carried EXCEPT ![flow[c]] = left]
    BY <2>1, Zenon DEF FinalDrop
  <2>. QED BY <2>1, <2>2, SameZero DEF FinalDrop, Engine!Drop
<1>2. flow[c] \in Flows /\ untold[c] \in Counts /\ carried[flow[c]] \in [Dirs -> Int]
  BY <1>1 DEF CmInv, EngineTypes, FlowWhileUsed, TypeOK
<1>3. EngineInv'
  BY <1>1, EngineStep DEF CmInv, EngineInv
<1>4. left \in [Dirs -> Int] /\ \A d \in Dirs : left[d] = carried[flow[c]][d] - untold[c][d]
  BY <1>2 DEF Counts
<1>. HIDE DEF left
<1>5. TypeOK'
  BY <1>1, <1>4 DEF CmInv, TypeOK, cm
<1>6. NoPacketUnaccounted'
  <2>. SUFFICES ASSUME NEW g \in Flows, NEW d \in Dirs, ct'[g] # None
                PROVE  carried'[g][d] <= ct'[g].acct[d] + Pending(g, d)'
    BY DEF NoPacketUnaccounted
  <2>1. /\ Pending(g, d)' = Pending(g, d) - (IF flow[c] = g THEN untold[c][d] ELSE 0)
        /\ Pending(g, d) \in Nat /\ untold[c][d] \in Nat
    BY <1>1, <1>3, ClosedTellsNothing DEF cm
  <2>2. carried[g][d] <= ct[g].acct[d] + Pending(g, d) /\ ct[g] # None
    BY <1>1 DEF CmInv, NoPacketUnaccounted
  <2>3. carried'[g][d] = carried[g][d] - (IF flow[c] = g THEN untold[c][d] ELSE 0)
    <3>1. carried[g][d] \in Int
      BY AccountTypes
    <3>2. CASE flow[c] = g
      BY <1>1, <1>4, <3>2 DEF CmInv, TypeOK
    <3>3. CASE flow[c] # g
      BY <1>1, <3>1, <3>3 DEF CmInv, TypeOK
    <3>. QED BY <3>2, <3>3
  <2>4. carried[g][d] \in Int /\ ct[g].acct[d] \in Nat
    BY <2>2, AccountTypes
  <2>. QED BY <1>1, <2>1, <2>2, <2>3, <2>4
<1>7. AssuredOnceReplied'
  BY <1>1 DEF CmInv, AssuredOnceReplied, cm
<1>. QED BY <1>3, <1>5, <1>6, <1>7 DEF CmInv, EngineInv

-----------------------------------------------------------------------------
(* The theorems of the connection manager                                   *)

\* At first nothing is carried, and nothing is to be told.
LEMMA CmInit == Init => CmInv
<1>. SUFFICES ASSUME Init  PROVE CmInv
  OBVIOUS
<1>1. Zero \in [Dirs -> Int]
  BY DEF Zero
<1>2. TypeOK
  BY <1>1, SameZero DEF Init, TypeOK, Engine!Init
<1>3. EngineInv
  BY SameZero DEF Init, Engine!Init, EngineInv, EngineTypes, FlowWhileUsed, NothingUntold, States
<1>4. NoPacketUnaccounted /\ AssuredOnceReplied
  BY DEF Init, NoPacketUnaccounted, AssuredOnceReplied
<1>. QED BY <1>2, <1>3, <1>4 DEF CmInv, EngineInv

\* No step breaks the invariant.
LEMMA CmNext == CmInv /\ [Next]_vars => CmInv'
<1>. SUFFICES ASSUME CmInv, [Next]_vars  PROVE CmInv'
  OBVIOUS
<1>1. CASE ModuleInit
  BY <1>1, ModuleQuiet
<1>2. CASE ModuleExit
  <2>1. ASSUME NEW c \in Conns, ExitDestroy(c)  PROVE CmInv'
    BY <2>1, CloseStep DEF ExitDestroy
  <2>. QED BY <1>2, <2>1, ModuleQuiet DEF ModuleExit
<1>3. ASSUME NEW f \in Flows, Conntrack(f)  PROVE CmInv'
  BY <1>3, CtNewStep, SlowFinStep, CtDestroyStep, SlowPacketStep DEF Conntrack
<1>4. ASSUME NEW f \in Flows, Create(f)  PROVE CmInv'
  <2>1. ASSUME NEW c \in Conns, CreateRule(f, c)  PROVE CmInv'
    <3>1. creating' \subseteq creating
      BY <2>1 DEF CreateRule
    <3>. QED BY <2>1, <3>1, ObjectStep DEF CreateRule
  <2>. QED BY <1>4, <2>1, CreateStep DEF Create
<1>5. ASSUME NEW c \in Conns, FastPath(c)  PROVE CmInv'
  <2>1. CASE LeaveFastPath(c)
    BY <2>1, CloseStep DEF LeaveFastPath
  <2>. QED BY <1>5, <2>1, FastPacketStep DEF FastPath
<1>6. ASSUME NEW c \in Conns, Sync(c)  PROVE CmInv'
  <2>1. CASE Release(c)
    BY <2>1, ObjectStep DEF Release, cm
  <2>. QED BY <1>6, <2>1, FinalSyncStep, FinalDropStep, TimerReportStep DEF Sync
<1>7. CASE UNCHANGED vars
  <2>1. UNCHANGED <<protocol, state, flow, untold, msg, ct, msgFlow, carried, creating, hooks, module>>
    BY <1>7 DEF vars, offload, cm
  <2>. QED BY <2>1, QuietStep DEF CmInv, TypeOK
<1>. QED BY <1>1, <1>2, <1>3, <1>4, <1>5, <1>6, <1>7, TimerDeliverStep DEF Next

\* The invariant holds for ever.
LEMMA CmInvariant == Spec => []CmInv
<1>1. Init => CmInv
  BY CmInit
<1>2. CmInv /\ [Next]_vars => CmInv'
  BY CmNext
<1>. QED BY <1>1, <1>2, PTL DEF Spec

\* Every variable stays in its type, and a message under way names a flow.
THEOREM CmTypeCorrect == Spec => []TypeOK
<1>1. CmInv => TypeOK
  BY DEF CmInv
<1>. QED BY <1>1, CmInvariant, PTL

\* Whoever carried the packets of a flow since its entry was made, conntrack or the
\* engine, they are on the entry's account or still to be told (sfe_cm_sync_rule),
\* unless the engine dropped them after sfe_cm_exit unregistered the callback.
THEOREM CmNoPacketUnaccounted == Spec => []NoPacketUnaccounted
<1>1. CmInv => NoPacketUnaccounted
  BY DEF CmInv
<1>. QED BY <1>1, CmInvariant, PTL

\* A UDP entry with replies on its account is assured, whoever carried them.
THEOREM CmAssuredOnceReplied == Spec => []AssuredOnceReplied
<1>1. CmInv => AssuredOnceReplied
  BY DEF CmInv
<1>. QED BY <1>1, CmInvariant, PTL

-----------------------------------------------------------------------------
HIDE CmAssumption
USE PostRoutingAssumption


-----------------------------------------------------------------------------
(* Device references of post routing: the inductive invariant               *)

Held == Devices \cup {NoDevice}
WithSource == {"srcXlate", "putSrcXlate", "findDest", "putDest", "destXlate", "srcPort",
               "srcMaster", "destPort", "destMaster", "create", "release",
               "done3", "done2", "done1"}
WithDev == {"putSrcXlate", "putDest"}
WithDest == {"srcPort", "srcMaster", "destPort", "destMaster", "create", "release",
             "done3", "done2"}
WithSrcBr == {"destPort", "destMaster", "create", "release", "done3"}
WithDestBr == {"create", "release"}

Records == [at : WithSource \cup {"idle"}, src : Held, dev : Held, dest : Held,
            srcBr : Held, destBr : Held]

Types ==
  /\ refs \in [Devices -> Int]
  /\ master \in [Ports -> Bridges \cup {NoDevice}]
  /\ rules \in [Devices \X Devices -> Nat]
  /\ call \in [Calls -> Records]

\* A call has the devices that its step needs; only ports are asked for a bridge, and
\* only a bridge is put as one.
Holds(k) ==
  /\ k.at \in WithSource => k.src \in Devices
  /\ k.at \in WithDev => k.dev \in Devices
  /\ k.at \in WithDest => k.dest \in Devices
  /\ k.at = "srcMaster" => k.src \in Ports
  /\ k.at = "destMaster" => k.dest \in Ports
  /\ k.srcBr \in Bridges \cup {NoDevice} /\ k.destBr \in Bridges \cup {NoDevice}
  /\ k.at \notin WithSrcBr \cup {"done2", "done1"} => k.srcBr = NoDevice
  /\ k.at \notin WithDestBr \cup {"done3", "done2", "done1"} => k.destBr = NoDevice

CallsHold == \A t \in Calls : Holds(call[t])

One(b) == IF b THEN 1 ELSE 0

\* The references that call k puts on its way out: of one device, and of all.
PutsOf(k, d) ==
  One(k.at \in WithSource /\ k.src = d) + One(k.at \in WithDev /\ k.dev = d)
  + One(k.at \in WithDest /\ k.dest = d) + One(k.at \in WithSrcBr /\ k.srcBr = d)
  + One(k.at \in WithDestBr /\ k.destBr = d)
Puts(k) ==
  One(k.at \in WithSource) + One(k.at \in WithDev) + One(k.at \in WithDest)
  + One(k.at \in WithSrcBr /\ k.srcBr # NoDevice) + One(k.at \in WithDestBr /\ k.destBr # NoDevice)

AllPutsOf(d) == SumFunctionOnSet([t \in Calls |-> PutsOf(call[t], d)], Calls)
AllPuts == SumFunctionOnSet([t \in Calls |-> Puts(call[t])], Calls)

\* All references are those of the rules and those that calls are still to put; of a
\* device that has nothing to do with bridges, each of its own.
TotalBalance == SumFunction(refs) = 2 * SumFunction(rules) + AllPuts
PlainBalance == \A d \in Plain : refs[d] = Uses(d) + AllPutsOf(d)

RefInv == Types /\ CallsHold /\ TotalBalance /\ PlainBalance

-----------------------------------------------------------------------------
(* The sums                                                                 *)

\* The counts q are those of r, but of device x it is n more.
Shifted(q, r, x, n) == \A d \in Devices : q[d] = r[d] + (IF d = x THEN n ELSE 0)

\* The numbers of rules q are those of r, but from s to x they are n more.
RulesShifted(q, r, s, x, n) ==
  \A sd \in Devices \X Devices : q[sd] = r[sd] + (IF sd = <<s, x>> THEN n ELSE 0)

\* Call k is to put what call l is to put, but of a plain device x it is n more.
PutsShifted(k, l, x, n) ==
  /\ Puts(k) = Puts(l) + n
  /\ \A d \in Plain : PutsOf(k, d) = PutsOf(l, d) + (IF d = x THEN n ELSE 0)

\* What a call puts is a number.
LEMMA PutsType ==
  ASSUME NEW k, NEW d
  PROVE  PutsOf(k, d) \in Nat /\ Puts(k) \in Nat
<1>1. \A b : One(b) \in Nat
  BY DEF One
<1>. QED BY <1>1 DEF PutsOf, Puts

\* And so is what all calls put.
LEMMA AllPutsType == AllPuts \in Int /\ \A d : AllPutsOf(d) \in Int
<1>1. AllPuts \in Int
  <2>. DEFINE f == [t \in Calls |-> Puts(call[t])]
  <2>1. \A t \in Calls : f[t] \in Int
    BY PutsType
  <2>. HIDE DEF f
  <2>2. SumFunctionOnSet(f, Calls) \in Int
    BY <2>1, SumType
  <2>. QED BY <2>2 DEF AllPuts, f
<1>2. ASSUME NEW d  PROVE AllPutsOf(d) \in Int
  <2>. DEFINE f == [t \in Calls |-> PutsOf(call[t], d)]
  <2>1. \A t \in Calls : f[t] \in Int
    BY PutsType
  <2>. HIDE DEF f
  <2>2. SumFunctionOnSet(f, Calls) \in Int
    BY <2>1, SumType
  <2>. QED BY <2>2 DEF AllPutsOf, f
<1>. QED BY <1>1, <1>2

\* Idle calls put nothing.
LEMMA QuietPuts ==
  ASSUME Quiet
  PROVE  AllPuts = 0 /\ \A d : AllPutsOf(d) = 0
<1>. USE DEF Quiet, Puts, PutsOf, One, WithSource, WithDev, WithDest, WithSrcBr, WithDestBr
<1>1. AllPuts = 0
  <2>. DEFINE f == [t \in Calls |-> Puts(call[t])]
  <2>1. \A t \in Calls : f[t] = 0
    OBVIOUS
  <2>. HIDE DEF f
  <2>2. SumFunctionOnSet(f, Calls) = 0
    BY <2>1, SumZero
  <2>. QED BY <2>2 DEF AllPuts, f
<1>2. ASSUME NEW d  PROVE AllPutsOf(d) = 0
  <2>. DEFINE f == [t \in Calls |-> PutsOf(call[t], d)]
  <2>1. \A t \in Calls : f[t] = 0
    OBVIOUS
  <2>. HIDE DEF f
  <2>2. SumFunctionOnSet(f, Calls) = 0
    BY <2>1, SumZero
  <2>. QED BY <2>2 DEF AllPutsOf, f
<1>. QED BY <1>1, <1>2

\* When one call moves, the sums change by what it puts less or more.
LEMMA PutsChange ==
  ASSUME Types, NEW t \in Calls, NEW k, call' = [call EXCEPT ![t] = k]
  PROVE  /\ AllPuts \in Int /\ AllPuts' = AllPuts + (Puts(k) - Puts(call[t]))
         /\ \A d : /\ AllPutsOf(d) \in Int
                   /\ AllPutsOf(d)' = AllPutsOf(d) + (PutsOf(k, d) - PutsOf(call[t], d))
<1>1. call'[t] = k /\ \A u \in Calls \ {t} : call'[u] = call[u]
  BY DEF Types
<1>2. AllPuts \in Int /\ AllPuts' = AllPuts + (Puts(k) - Puts(call[t]))
  <2>. DEFINE f == [u \in Calls |-> Puts(call[u])]
              g == [u \in Calls |-> Puts(call'[u])]
  <2>1. \A u \in Calls : f[u] \in Int /\ g[u] \in Int
    BY PutsType
  <2>2. \A u \in Calls : u # t => f[u] = g[u]
    BY <1>1
  <2>3. f[t] = Puts(call[t]) /\ g[t] = Puts(k)
    BY <1>1
  <2>4. AllPuts = SumFunctionOnSet(f, Calls) /\ AllPuts' = SumFunctionOnSet(g, Calls)
    BY DEF AllPuts
  <2>. HIDE DEF f, g
  <2>5. SumFunctionOnSet(f, Calls) \in Int
    BY <2>1, SumType
  <2>6. SumFunctionOnSet(g, Calls)
          = SumFunctionOnSet(f, Calls) + (IF t \in Calls THEN g[t] - f[t] ELSE 0)
    BY <2>1, <2>2, SumUpdate
  <2>. QED BY <2>3, <2>4, <2>5, <2>6
<1>3. ASSUME NEW d
      PROVE  /\ AllPutsOf(d) \in Int
             /\ AllPutsOf(d)' = AllPutsOf(d) + (PutsOf(k, d) - PutsOf(call[t], d))
  <2>. DEFINE f == [u \in Calls |-> PutsOf(call[u], d)]
              g == [u \in Calls |-> PutsOf(call'[u], d)]
  <2>1. \A u \in Calls : f[u] \in Int /\ g[u] \in Int
    BY PutsType
  <2>2. \A u \in Calls : u # t => f[u] = g[u]
    BY <1>1
  <2>3. f[t] = PutsOf(call[t], d) /\ g[t] = PutsOf(k, d)
    BY <1>1
  <2>4. AllPutsOf(d) = SumFunctionOnSet(f, Calls) /\ AllPutsOf(d)' = SumFunctionOnSet(g, Calls)
    BY DEF AllPutsOf
  <2>. HIDE DEF f, g
  <2>5. SumFunctionOnSet(f, Calls) \in Int
    BY <2>1, SumType
  <2>6. SumFunctionOnSet(g, Calls)
          = SumFunctionOnSet(f, Calls) + (IF t \in Calls THEN g[t] - f[t] ELSE 0)
    BY <2>1, <2>2, SumUpdate
  <2>. QED BY <2>3, <2>4, <2>5, <2>6
<1>. QED BY <1>2, <1>3

\* A change of one device's count changes the sum of all by as much.
LEMMA RefsChange ==
  ASSUME NEW r \in [Devices -> Int], NEW q \in [Devices -> Int], NEW x, NEW n \in Int,
         x \in Devices \/ n = 0, Shifted(q, r, x, n)
  PROVE  SumFunction(r) \in Int /\ SumFunction(q) = SumFunction(r) + n
<1>1. SumFunction(r) = SumFunctionOnSet(r, Devices) /\ SumFunction(q) = SumFunctionOnSet(q, Devices)
  BY DEF SumFunction
<1>2. SumFunctionOnSet(r, Devices) \in Int
  BY SumType
<1>3. \A d \in Devices : r[d] \in Int /\ q[d] \in Int
  OBVIOUS
<1>4. \A d \in Devices : d # x => r[d] = q[d]
  BY <1>3 DEF Shifted
<1>5. SumFunctionOnSet(q, Devices)
        = SumFunctionOnSet(r, Devices) + (IF x \in Devices THEN q[x] - r[x] ELSE 0)
  BY <1>3, <1>4, SumUpdate
<1>6. x \in Devices => q[x] - r[x] = n
  BY <1>3 DEF Shifted
<1>. QED BY <1>1, <1>2, <1>5, <1>6

\* The numbers of rules are numbers.
LEMMA RulesType ==
  ASSUME Types
  PROVE  SumFunction(rules) \in Int /\ \A d : Uses(d) \in Int
<1>. DEFINE Pairs == Devices \X Devices
<1>1. \A S \in SUBSET Pairs : SumFunctionOnSet(rules, S) \in Int
  <2>. SUFFICES ASSUME NEW S \in SUBSET Pairs  PROVE SumFunctionOnSet(rules, S) \in Int
    OBVIOUS
  <2>1. IsFiniteSet(S)
    BY FS_Product, FS_Subset
  <2>2. \A p \in S : rules[p] \in Int
    BY DEF Types
  <2>. QED BY <2>1, <2>2, SumType
<1>2. SumFunction(rules) = SumFunctionOnSet(rules, Pairs)
  BY DEF SumFunction, Types
<1>3. \A d : Uses(d) \in Int
  BY <1>1 DEF Uses
<1>. QED BY <1>1, <1>2, <1>3

\* A rule more, or less, from one device to another.
LEMMA RulesChange ==
  ASSUME Types, Types', NEW s \in Devices, NEW x \in Devices, NEW n \in Int,
         RulesShifted(rules', rules, s, x, n)
  PROVE  /\ SumFunction(rules) \in Int /\ SumFunction(rules') = SumFunction(rules) + n
         /\ \A d \in Devices : /\ Uses(d) \in Int
                               /\ Uses(d)' = Uses(d) + (IF d = s THEN n ELSE 0)
                                                     + (IF d = x THEN n ELSE 0)
<1>. DEFINE Pairs == Devices \X Devices
<1>1. IsFiniteSet(Pairs)
  BY FS_Product
<1>2. \A S \in SUBSET Pairs :
        /\ SumFunctionOnSet(rules, S) \in Int
        /\ SumFunctionOnSet(rules', S)
             = SumFunctionOnSet(rules, S) + (IF <<s, x>> \in S THEN n ELSE 0)
  <2>. SUFFICES ASSUME NEW S \in SUBSET Pairs
                PROVE  /\ SumFunctionOnSet(rules, S) \in Int
                       /\ SumFunctionOnSet(rules', S)
                            = SumFunctionOnSet(rules, S) + (IF <<s, x>> \in S THEN n ELSE 0)
    OBVIOUS
  <2>1. IsFiniteSet(S)
    BY <1>1, FS_Subset
  <2>2. \A p \in S : rules[p] \in Int /\ rules'[p] \in Int
    BY DEF Types
  <2>3. \A p \in S : rules'[p] = rules[p] + (IF p = <<s, x>> THEN n ELSE 0)
    BY DEF RulesShifted
  <2>. HIDE DEF Pairs
  <2>4. \A p \in S : p # <<s, x>> => rules[p] = rules'[p]
    BY <2>2, <2>3
  <2>5. SumFunctionOnSet(rules, S) \in Int
    BY <2>1, <2>2, SumType
  <2>6. SumFunctionOnSet(rules', S)
          = SumFunctionOnSet(rules, S)
            + (IF <<s, x>> \in S THEN rules'[<<s, x>>] - rules[<<s, x>>] ELSE 0)
    BY <2>1, <2>2, <2>4, SumUpdate
  <2>7. <<s, x>> \in S => rules'[<<s, x>>] - rules[<<s, x>>] = n
    BY <2>2, <2>3
  <2>. QED BY <2>5, <2>6, <2>7
<1>3. /\ SumFunction(rules) = SumFunctionOnSet(rules, Pairs)
      /\ SumFunction(rules') = SumFunctionOnSet(rules', Pairs)
  BY DEF SumFunction, Types
<1>4. SumFunction(rules) \in Int /\ SumFunction(rules') = SumFunction(rules) + n
  BY <1>2, <1>3
<1>5. ASSUME NEW d \in Devices
      PROVE  /\ Uses(d) \in Int
             /\ Uses(d)' = Uses(d) + (IF d = s THEN n ELSE 0) + (IF d = x THEN n ELSE 0)
  <2>. DEFINE From == {sd \in Pairs : sd[1] = d}
              To == {sd \in Pairs : sd[2] = d}
  <2>1. From \in SUBSET Pairs /\ To \in SUBSET Pairs
    OBVIOUS
  <2>2. (<<s, x>> \in From <=> d = s) /\ (<<s, x>> \in To <=> d = x)
    OBVIOUS
  <2>3. /\ Uses(d) = SumFunctionOnSet(rules, From) + SumFunctionOnSet(rules, To)
        /\ Uses(d)' = SumFunctionOnSet(rules', From) + SumFunctionOnSet(rules', To)
    BY DEF Uses
  <2>. HIDE DEF From, To, Pairs
  <2>4. /\ SumFunctionOnSet(rules, From) \in Int /\ SumFunctionOnSet(rules, To) \in Int
        /\ SumFunctionOnSet(rules', From) = SumFunctionOnSet(rules, From) + (IF d = s THEN n ELSE 0)
        /\ SumFunctionOnSet(rules', To) = SumFunctionOnSet(rules, To) + (IF d = x THEN n ELSE 0)
    BY <1>2, <2>1, <2>2
  <2>. QED BY <2>3, <2>4
<1>. QED BY <1>4, <1>5

-----------------------------------------------------------------------------
(* The steps                                                                *)

\* A call moves on, and takes or puts n references of device x (none when n is zero):
\* what it is still to put changes by as much.
LEMMA CallMoves ==
  ASSUME RefInv, NEW t \in Calls, NEW k \in Records, Holds(k), call' = [call EXCEPT ![t] = k],
         UNCHANGED <<master, rules>>, refs' \in [Devices -> Int],
         NEW x, NEW n \in Int, x \in Devices \/ n = 0,
         Shifted(refs', refs, x, n), PutsShifted(k, call[t], x, n)
  PROVE  RefInv'
<1>1. Types'
  BY DEF RefInv, Types
<1>2. CallsHold'
  BY DEF RefInv, Types, CallsHold
<1>3. TotalBalance'
  <2>1. SumFunction(refs) \in Int /\ SumFunction(refs') = SumFunction(refs) + n
    <3>1. refs \in [Devices -> Int]
      BY DEF RefInv, Types
    <3>. QED BY <3>1, RefsChange
  <2>2. AllPuts \in Int /\ AllPuts' = AllPuts + (Puts(k) - Puts(call[t]))
    BY PutsChange DEF RefInv
  <2>3. Puts(k) \in Nat /\ Puts(call[t]) \in Nat
    BY PutsType
  <2>4. AllPuts' = AllPuts + n
    BY <2>2, <2>3 DEF PutsShifted
  <2>5. SumFunction(refs) = 2 * SumFunction(rules) + AllPuts /\ rules' = rules
    BY DEF RefInv, TotalBalance
  <2>6. SumFunction(rules) \in Int
    BY RulesType DEF RefInv
  <2>. QED BY <2>1, <2>2, <2>4, <2>5, <2>6 DEF TotalBalance
<1>4. PlainBalance'
  <2>. SUFFICES ASSUME NEW d \in Plain  PROVE refs'[d] = Uses(d)' + AllPutsOf(d)'
    BY DEF PlainBalance
  <2>1. Uses(d)' = Uses(d) /\ refs[d] = Uses(d) + AllPutsOf(d) /\ d \in Devices
    BY DEF Uses, RefInv, PlainBalance, Devices
  <2>2. AllPutsOf(d) \in Int /\ AllPutsOf(d)' = AllPutsOf(d) + (PutsOf(k, d) - PutsOf(call[t], d))
    BY PutsChange DEF RefInv
  <2>3. PutsOf(k, d) \in Nat /\ PutsOf(call[t], d) \in Nat
    BY PutsType
  <2>4. AllPutsOf(d)' = AllPutsOf(d) + (IF d = x THEN n ELSE 0)
    BY <2>2, <2>3 DEF PutsShifted
  <2>5. Uses(d) \in Int
    BY RulesType DEF RefInv
  <2>6. refs'[d] = refs[d] + (IF d = x THEN n ELSE 0)
    BY <2>1 DEF Shifted
  <2>. QED BY <2>1, <2>2, <2>4, <2>5, <2>6
<1>. QED BY <1>1, <1>2, <1>3, <1>4 DEF RefInv

\* A call that moves on without taking or putting any reference.
LEMMA CallOnly ==
  ASSUME RefInv, NEW t \in Calls, NEW k \in Records, Holds(k), call' = [call EXCEPT ![t] = k],
         UNCHANGED <<refs, master, rules>>, PutsShifted(k, call[t], NoDevice, 0)
  PROVE  RefInv'
<1>1. ASSUME NEW n \in Int, n = 0  PROVE RefInv'
  <2>1. refs' \in [Devices -> Int] /\ Shifted(refs', refs, NoDevice, n)
    BY <1>1 DEF RefInv, Types, Shifted
  <2>2. PutsShifted(k, call[t], NoDevice, n) /\ (NoDevice \in Devices \/ n = 0)
    BY <1>1
  <2>. QED BY <2>1, <2>2, CallMoves
<1>. QED BY <1>1

\* A call that takes a reference, which it will put.
LEMMA CallTakes ==
  ASSUME RefInv, NEW t \in Calls, NEW k \in Records, Holds(k), call' = [call EXCEPT ![t] = k],
         UNCHANGED <<master, rules>>, NEW x \in Devices, refs' = Hold(refs, x),
         PutsShifted(k, call[t], x, 1)
  PROVE  RefInv'
<1>1. ASSUME NEW n \in Int, n = 1  PROVE RefInv'
  <2>1. refs' \in [Devices -> Int] /\ Shifted(refs', refs, x, n)
    BY <1>1 DEF RefInv, Types, Shifted, Hold
  <2>2. PutsShifted(k, call[t], x, n) /\ (x \in Devices \/ n = 0)
    BY <1>1
  <2>. QED BY <2>1, <2>2, CallMoves
<1>. QED BY <1>1

\* A call that puts one.
LEMMA CallPuts ==
  ASSUME RefInv, NEW t \in Calls, NEW k \in Records, Holds(k), call' = [call EXCEPT ![t] = k],
         UNCHANGED <<master, rules>>, NEW x \in Devices, refs' = Put(refs, x),
         PutsShifted(k, call[t], x, -1)
  PROVE  RefInv'
<1>1. ASSUME NEW n \in Int, n = -1  PROVE RefInv'
  <2>1. refs' \in [Devices -> Int] /\ Shifted(refs', refs, x, n)
    BY <1>1 DEF RefInv, Types, Shifted, Put
  <2>2. PutsShifted(k, call[t], x, n) /\ (x \in Devices \/ n = 0)
    BY <1>1
  <2>. QED BY <2>1, <2>2, CallMoves
<1>. QED BY <1>1

\* The calls find the devices of a flow's addresses, and put two of them at once.
LEMMA FindStep ==
  ASSUME RefInv, NEW t \in Calls, FindDevices(t)
  PROVE  RefInv'
<1>. DEFINE k == call[t]
<1>1. k \in Records /\ Holds(k) /\ call \in [Calls -> Records]
  BY DEF RefInv, Types, CallsHold
<1>. USE DEF Records, Holds, PutsShifted, PutsOf, Puts, One, Held, WithSource, WithDev, WithDest,
             WithSrcBr, WithDestBr
<1>2. ASSUME NEW d \in Devices, Find(t, "idle", "src", d, "srcXlate")  PROVE RefInv'
  <2>. DEFINE l == [k EXCEPT !.src = d, !.at = "srcXlate"]
  <2>1. /\ k.at = "idle" /\ refs' = Hold(refs, d)
        /\ UNCHANGED <<master, rules>>
        /\ call' = [call EXCEPT ![t] = l]
    BY <1>1, <1>2 DEF Find
  <2>2. l \in Records /\ Holds(l)
    BY <1>1, <2>1 DEF Devices
  <2>3. PutsShifted(l, k, d, 1)
    BY <1>1, <2>1 DEF Devices
  <2>4. d \in Devices
    BY <1>1, <2>1 DEF Devices
  <2>. HIDE DEF l, Records, Holds, PutsShifted
  <2>. QED BY <2>1, <2>2, <2>3, <2>4, CallTakes
<1>3. ASSUME NEW d \in Devices, Find(t, "srcXlate", "dev", d, "putSrcXlate")  PROVE RefInv'
  <2>. DEFINE l == [k EXCEPT !.dev = d, !.at = "putSrcXlate"]
  <2>1. /\ k.at = "srcXlate" /\ refs' = Hold(refs, d)
        /\ UNCHANGED <<master, rules>>
        /\ call' = [call EXCEPT ![t] = l]
    BY <1>1, <1>3 DEF Find
  <2>2. l \in Records /\ Holds(l)
    BY <1>1, <2>1 DEF Devices
  <2>3. PutsShifted(l, k, d, 1)
    BY <1>1, <2>1 DEF Devices
  <2>4. d \in Devices
    BY <1>1, <2>1 DEF Devices
  <2>. HIDE DEF l, Records, Holds, PutsShifted
  <2>. QED BY <2>1, <2>2, <2>3, <2>4, CallTakes
<1>4. ASSUME NEW d \in Devices, Find(t, "findDest", "dev", d, "putDest")  PROVE RefInv'
  <2>. DEFINE l == [k EXCEPT !.dev = d, !.at = "putDest"]
  <2>1. /\ k.at = "findDest" /\ refs' = Hold(refs, d)
        /\ UNCHANGED <<master, rules>>
        /\ call' = [call EXCEPT ![t] = l]
    BY <1>1, <1>4 DEF Find
  <2>2. l \in Records /\ Holds(l)
    BY <1>1, <2>1 DEF Devices
  <2>3. PutsShifted(l, k, d, 1)
    BY <1>1, <2>1 DEF Devices
  <2>4. d \in Devices
    BY <1>1, <2>1 DEF Devices
  <2>. HIDE DEF l, Records, Holds, PutsShifted
  <2>. QED BY <2>1, <2>2, <2>3, <2>4, CallTakes
<1>5. ASSUME NEW d \in Devices, Find(t, "destXlate", "dest", d, "srcPort")  PROVE RefInv'
  <2>. DEFINE l == [k EXCEPT !.dest = d, !.at = "srcPort"]
  <2>1. /\ k.at = "destXlate" /\ refs' = Hold(refs, d)
        /\ UNCHANGED <<master, rules>>
        /\ call' = [call EXCEPT ![t] = l]
    BY <1>1, <1>5 DEF Find
  <2>2. l \in Records /\ Holds(l)
    <3>1. l \in Records
      BY <1>1, <2>1 DEF Devices
    <3>2. Holds(l)
      BY <1>1, <2>1 DEF Devices
    <3>. QED BY <3>1, <3>2
  <2>3. PutsShifted(l, k, d, 1)
    BY <1>1, <2>1 DEF Devices
  <2>4. d \in Devices
    BY <1>1, <2>1 DEF Devices
  <2>. HIDE DEF l, Records, Holds, PutsShifted
  <2>. QED BY <2>1, <2>2, <2>3, <2>4, CallTakes
<1>6. ASSUME PutDev(t, "putSrcXlate", "findDest")  PROVE RefInv'
  <2>. DEFINE l == [k EXCEPT !.dev = NoDevice, !.at = "findDest"]
  <2>1. /\ k.at = "putSrcXlate" /\ refs' = Put(refs, k.dev)
        /\ UNCHANGED <<master, rules>>
        /\ call' = [call EXCEPT ![t] = l]
    BY <1>1, <1>6 DEF PutDev
  <2>2. l \in Records /\ Holds(l)
    BY <1>1, <2>1 DEF Devices
  <2>3. PutsShifted(l, k, k.dev, -1)
    BY <1>1, <2>1 DEF Devices
  <2>4. k.dev \in Devices
    BY <1>1, <2>1 DEF Devices
  <2>. HIDE DEF l, Records, Holds, PutsShifted
  <2>. QED BY <2>1, <2>2, <2>3, <2>4, CallPuts
<1>7. ASSUME PutDev(t, "putDest", "destXlate")  PROVE RefInv'
  <2>. DEFINE l == [k EXCEPT !.dev = NoDevice, !.at = "destXlate"]
  <2>1. /\ k.at = "putDest" /\ refs' = Put(refs, k.dev)
        /\ UNCHANGED <<master, rules>>
        /\ call' = [call EXCEPT ![t] = l]
    BY <1>1, <1>7 DEF PutDev
  <2>2. l \in Records /\ Holds(l)
    BY <1>1, <2>1 DEF Devices
  <2>3. PutsShifted(l, k, k.dev, -1)
    BY <1>1, <2>1 DEF Devices
  <2>4. k.dev \in Devices
    BY <1>1, <2>1 DEF Devices
  <2>. HIDE DEF l, Records, Holds, PutsShifted
  <2>. QED BY <2>1, <2>2, <2>3, <2>4, CallPuts
<1>8. ASSUME NEW at \in {"srcXlate", "findDest", "destXlate"}, FindFails(t, at, "done1")
       PROVE RefInv'
  <2>. DEFINE l == [k EXCEPT !.at = "done1"]
  <2>1. /\ k.at = at /\ refs' = refs
        /\ UNCHANGED <<master, rules>>
        /\ call' = [call EXCEPT ![t] = l]
    BY <1>1, <1>8 DEF FindFails
  <2>2. l \in Records /\ Holds(l)
    BY <1>1, <2>1 DEF Devices
  <2>3. PutsShifted(l, k, NoDevice, 0)
    BY <1>1, <2>1 DEF Devices
  <2>. HIDE DEF l, Records, Holds, PutsShifted
  <2>. QED BY <2>1, <2>2, <2>3, CallOnly
<1>. QED BY <1>2, <1>3, <1>4, <1>5, <1>6, <1>7, <1>8 DEF FindDevices, FindSource

\* They look whether a device is a bridge port, and take the bridge in its place.
LEMMA BridgeStep ==
  ASSUME RefInv, NEW t \in Calls, FindBridges(t)
  PROVE  RefInv'
<1>. DEFINE k == call[t]
<1>1. k \in Records /\ Holds(k) /\ call \in [Calls -> Records]
  BY DEF RefInv, Types, CallsHold
<1>. USE DEF Records, Holds, PutsShifted, PutsOf, Puts, One, Held, WithSource, WithDev, WithDest,
             WithSrcBr, WithDestBr
<1>2. ASSUME PortCheck(t, "srcPort", "src", "srcMaster", "destPort"), IsPort(k.src)
       PROVE RefInv'
  <2>. DEFINE l == [k EXCEPT !.at = "srcMaster"]
  <2>1. /\ k.at = "srcPort" /\ refs' = refs
        /\ UNCHANGED <<master, rules>>
        /\ call' = [call EXCEPT ![t] = l]
    BY <1>1, <1>2 DEF PortCheck
  <2>2. l \in Records /\ Holds(l)
    BY <1>1, <1>2, <2>1 DEF Devices, IsPort
  <2>3. PutsShifted(l, k, NoDevice, 0)
    BY <1>1, <1>2, <2>1 DEF Devices, IsPort
  <2>. HIDE DEF l, Records, Holds, PutsShifted
  <2>. QED BY <2>1, <2>2, <2>3, CallOnly
<1>3. ASSUME PortCheck(t, "srcPort", "src", "srcMaster", "destPort"), ~IsPort(k.src)
       PROVE RefInv'
  <2>. DEFINE l == [k EXCEPT !.at = "destPort"]
  <2>1. /\ k.at = "srcPort" /\ refs' = refs
        /\ UNCHANGED <<master, rules>>
        /\ call' = [call EXCEPT ![t] = l]
    BY <1>1, <1>3 DEF PortCheck
  <2>2. l \in Records /\ Holds(l)
    BY <1>1, <1>3, <2>1 DEF Devices, IsPort
  <2>3. PutsShifted(l, k, NoDevice, 0)
    BY <1>1, <1>3, <2>1 DEF Devices, IsPort
  <2>. HIDE DEF l, Records, Holds, PutsShifted
  <2>. QED BY <2>1, <2>2, <2>3, CallOnly
<1>4. ASSUME PortCheck(t, "destPort", "dest", "destMaster", "create"), IsPort(k.dest)
       PROVE RefInv'
  <2>. DEFINE l == [k EXCEPT !.at = "destMaster"]
  <2>1. /\ k.at = "destPort" /\ refs' = refs
        /\ UNCHANGED <<master, rules>>
        /\ call' = [call EXCEPT ![t] = l]
    BY <1>1, <1>4 DEF PortCheck
  <2>2. l \in Records /\ Holds(l)
    BY <1>1, <1>4, <2>1 DEF Devices, IsPort
  <2>3. PutsShifted(l, k, NoDevice, 0)
    BY <1>1, <1>4, <2>1 DEF Devices, IsPort
  <2>. HIDE DEF l, Records, Holds, PutsShifted
  <2>. QED BY <2>1, <2>2, <2>3, CallOnly
<1>5. ASSUME PortCheck(t, "destPort", "dest", "destMaster", "create"), ~IsPort(k.dest)
       PROVE RefInv'
  <2>. DEFINE l == [k EXCEPT !.at = "create"]
  <2>1. /\ k.at = "destPort" /\ refs' = refs
        /\ UNCHANGED <<master, rules>>
        /\ call' = [call EXCEPT ![t] = l]
    BY <1>1, <1>5 DEF PortCheck
  <2>2. l \in Records /\ Holds(l)
    BY <1>1, <1>5, <2>1 DEF Devices, IsPort
  <2>3. PutsShifted(l, k, NoDevice, 0)
    BY <1>1, <1>5, <2>1 DEF Devices, IsPort
  <2>. HIDE DEF l, Records, Holds, PutsShifted
  <2>. QED BY <2>1, <2>2, <2>3, CallOnly
<1>6. ASSUME GetMaster(t, "srcMaster", "src", "srcBr", "destPort", "done2"), master[k.src] = NoDevice
       PROVE RefInv'
  <2>. DEFINE l == [k EXCEPT !.at = "done2"]
  <2>1. /\ k.at = "srcMaster" /\ refs' = refs
        /\ UNCHANGED <<master, rules>>
        /\ call' = [call EXCEPT ![t] = l]
    BY <1>1, <1>6 DEF GetMaster
  <2>2. l \in Records /\ Holds(l)
    BY <1>1, <2>1 DEF Devices
  <2>3. PutsShifted(l, k, NoDevice, 0)
    BY <1>1, <2>1 DEF Devices
  <2>. HIDE DEF l, Records, Holds, PutsShifted
  <2>. QED BY <2>1, <2>2, <2>3, CallOnly
<1>7. ASSUME GetMaster(t, "destMaster", "dest", "destBr", "create", "done3"), master[k.dest] = NoDevice
       PROVE RefInv'
  <2>. DEFINE l == [k EXCEPT !.at = "done3"]
  <2>1. /\ k.at = "destMaster" /\ refs' = refs
        /\ UNCHANGED <<master, rules>>
        /\ call' = [call EXCEPT ![t] = l]
    BY <1>1, <1>7 DEF GetMaster
  <2>2. l \in Records /\ Holds(l)
    BY <1>1, <2>1 DEF Devices
  <2>3. PutsShifted(l, k, NoDevice, 0)
    BY <1>1, <2>1 DEF Devices
  <2>. HIDE DEF l, Records, Holds, PutsShifted
  <2>. QED BY <2>1, <2>2, <2>3, CallOnly
<1>8. ASSUME GetMaster(t, "srcMaster", "src", "srcBr", "destPort", "done2"),
            NEW b \in Bridges, master[k.src] = b
       PROVE RefInv'
  <2>. DEFINE l == [k EXCEPT !.src = b, !.srcBr = b, !.at = "destPort"]
  <2>1. /\ k.at = "srcMaster" /\ refs' = Hold(refs, b)
        /\ UNCHANGED <<master, rules>>
        /\ call' = [call EXCEPT ![t] = l]
    BY <1>1, <1>8 DEF GetMaster, Devices
  <2>2. l \in Records /\ Holds(l)
    BY <1>1, <2>1 DEF Devices
  <2>3. PutsShifted(l, k, b, 1)
    BY <1>1, <2>1 DEF Devices
  <2>4. b \in Devices
    BY <1>1, <2>1 DEF Devices
  <2>. HIDE DEF l, Records, Holds, PutsShifted
  <2>. QED BY <2>1, <2>2, <2>3, <2>4, CallTakes
<1>9. ASSUME GetMaster(t, "destMaster", "dest", "destBr", "create", "done3"),
            NEW b \in Bridges, master[k.dest] = b
       PROVE RefInv'
  <2>. DEFINE l == [k EXCEPT !.dest = b, !.destBr = b, !.at = "create"]
  <2>1. /\ k.at = "destMaster" /\ refs' = Hold(refs, b)
        /\ UNCHANGED <<master, rules>>
        /\ call' = [call EXCEPT ![t] = l]
    BY <1>1, <1>9 DEF GetMaster, Devices
  <2>2. l \in Records /\ Holds(l)
    BY <1>1, <2>1 DEF Devices
  <2>3. PutsShifted(l, k, b, 1)
    BY <1>1, <2>1 DEF Devices
  <2>4. b \in Devices
    BY <1>1, <2>1 DEF Devices
  <2>. HIDE DEF l, Records, Holds, PutsShifted
  <2>. QED BY <2>1, <2>2, <2>3, <2>4, CallTakes
<1>10. /\ k.at = "srcMaster" => master[k.src] \in Bridges \cup {NoDevice}
       /\ k.at = "destMaster" => master[k.dest] \in Bridges \cup {NoDevice}
  <2>1. (k.at = "srcMaster" => k.src \in Ports) /\ (k.at = "destMaster" => k.dest \in Ports)
    BY <1>1
  <2>2. master \in [Ports -> Bridges \cup {NoDevice}]
    BY DEF RefInv, Types
  <2>. HIDE DEF k
  <2>. QED BY <2>1, <2>2
<1>11. CASE GetMaster(t, "srcMaster", "src", "srcBr", "destPort", "done2")
  <2>1. k.at = "srcMaster"
    BY <1>11 DEF GetMaster
  <2>. QED BY <1>6, <1>8, <1>10, <1>11, <2>1
<1>12. CASE GetMaster(t, "destMaster", "dest", "destBr", "create", "done3")
  <2>1. k.at = "destMaster"
    BY <1>12 DEF GetMaster
  <2>. QED BY <1>7, <1>9, <1>10, <1>12, <2>1
<1>. QED BY <1>2, <1>3, <1>4, <1>5, <1>11, <1>12 DEF FindBridges

\* They put what they hold on their way out.
LEMMA FinishStep ==
  ASSUME RefInv, NEW t \in Calls, CallCreateFails(t) \/ Finish(t)
  PROVE  RefInv'
<1>. DEFINE k == call[t]
<1>1. k \in Records /\ Holds(k) /\ call \in [Calls -> Records]
  BY DEF RefInv, Types, CallsHold
<1>. USE DEF Records, Holds, PutsShifted, PutsOf, Puts, One, Held, WithSource, WithDev, WithDest,
             WithSrcBr, WithDestBr
<1>2. ASSUME CallCreateFails(t)  PROVE RefInv'
  <2>. DEFINE l == [k EXCEPT !.at = "release"]
  <2>1. /\ k.at = "create" /\ refs' = refs
        /\ UNCHANGED <<master, rules>>
        /\ call' = [call EXCEPT ![t] = l]
    BY <1>1, <1>2 DEF CallCreateFails
  <2>2. l \in Records /\ Holds(l)
    BY <1>1, <2>1 DEF Devices
  <2>3. PutsShifted(l, k, NoDevice, 0)
    BY <1>1, <2>1 DEF Devices
  <2>. HIDE DEF l, Records, Holds, PutsShifted
  <2>. QED BY <2>1, <2>2, <2>3, CallOnly
<1>3. ASSUME PutBridge(t, "release", "destBr", "done3"), k.destBr = NoDevice  PROVE RefInv'
  <2>. DEFINE l == [k EXCEPT !.at = "done3"]
  <2>1. /\ k.at = "release" /\ k.destBr = NoDevice /\ refs' = refs
        /\ UNCHANGED <<master, rules>>
        /\ call' = [call EXCEPT ![t] = l]
    BY <1>1, <1>3 DEF PutBridge
  <2>2. l \in Records /\ Holds(l)
    BY <1>1, <2>1 DEF Devices
  <2>3. PutsShifted(l, k, NoDevice, 0)
    BY <1>1, <2>1 DEF Devices
  <2>. HIDE DEF l, Records, Holds, PutsShifted
  <2>. QED BY <2>1, <2>2, <2>3, CallOnly
<1>4. ASSUME PutBridge(t, "release", "destBr", "done3"), k.destBr # NoDevice  PROVE RefInv'
  <2>. DEFINE l == [k EXCEPT !.at = "done3"]
  <2>1. /\ k.at = "release" /\ k.destBr # NoDevice /\ refs' = Put(refs, k.destBr)
        /\ UNCHANGED <<master, rules>>
        /\ call' = [call EXCEPT ![t] = l]
    BY <1>1, <1>4 DEF PutBridge
  <2>2. l \in Records /\ Holds(l)
    BY <1>1, <2>1 DEF Devices
  <2>3. PutsShifted(l, k, k.destBr, -1)
    BY <1>1, <2>1 DEF Devices
  <2>4. k.destBr \in Devices
    BY <1>1, <2>1 DEF Devices
  <2>. HIDE DEF l, Records, Holds, PutsShifted
  <2>. QED BY <2>1, <2>2, <2>3, <2>4, CallPuts
<1>5. ASSUME PutBridge(t, "done3", "srcBr", "done2"), k.srcBr = NoDevice  PROVE RefInv'
  <2>. DEFINE l == [k EXCEPT !.at = "done2"]
  <2>1. /\ k.at = "done3" /\ k.srcBr = NoDevice /\ refs' = refs
        /\ UNCHANGED <<master, rules>>
        /\ call' = [call EXCEPT ![t] = l]
    BY <1>1, <1>5 DEF PutBridge
  <2>2. l \in Records /\ Holds(l)
    BY <1>1, <2>1 DEF Devices
  <2>3. PutsShifted(l, k, NoDevice, 0)
    BY <1>1, <2>1 DEF Devices
  <2>. HIDE DEF l, Records, Holds, PutsShifted
  <2>. QED BY <2>1, <2>2, <2>3, CallOnly
<1>6. ASSUME PutBridge(t, "done3", "srcBr", "done2"), k.srcBr # NoDevice  PROVE RefInv'
  <2>. DEFINE l == [k EXCEPT !.at = "done2"]
  <2>1. /\ k.at = "done3" /\ k.srcBr # NoDevice /\ refs' = Put(refs, k.srcBr)
        /\ UNCHANGED <<master, rules>>
        /\ call' = [call EXCEPT ![t] = l]
    BY <1>1, <1>6 DEF PutBridge
  <2>2. l \in Records /\ Holds(l)
    BY <1>1, <2>1 DEF Devices
  <2>3. PutsShifted(l, k, k.srcBr, -1)
    BY <1>1, <2>1 DEF Devices
  <2>4. k.srcBr \in Devices
    BY <1>1, <2>1 DEF Devices
  <2>. HIDE DEF l, Records, Holds, PutsShifted
  <2>. QED BY <2>1, <2>2, <2>3, <2>4, CallPuts
<1>7. ASSUME PutDestination(t)  PROVE RefInv'
  <2>. DEFINE l == [k EXCEPT !.at = "done1"]
  <2>1. /\ k.at = "done2" /\ refs' = Put(refs, k.dest)
        /\ UNCHANGED <<master, rules>>
        /\ call' = [call EXCEPT ![t] = l]
    BY <1>1, <1>7 DEF PutDestination
  <2>2. l \in Records /\ Holds(l)
    BY <1>1, <2>1 DEF Devices
  <2>3. PutsShifted(l, k, k.dest, -1)
    BY <1>1, <2>1 DEF Devices
  <2>4. k.dest \in Devices
    BY <1>1, <2>1 DEF Devices
  <2>. HIDE DEF l, Records, Holds, PutsShifted
  <2>. QED BY <2>1, <2>2, <2>3, <2>4, CallPuts
<1>8. ASSUME PutSource(t)  PROVE RefInv'
  <2>. DEFINE l == Idle
  <2>1. /\ k.at = "done1" /\ refs' = Put(refs, k.src)
        /\ UNCHANGED <<master, rules>>
        /\ call' = [call EXCEPT ![t] = l]
    BY <1>1, <1>8 DEF PutSource
  <2>2. l \in Records /\ Holds(l)
    BY <1>1, <2>1 DEF Devices, Idle
  <2>3. PutsShifted(l, k, k.src, -1)
    BY <1>1, <2>1 DEF Devices, Idle
  <2>4. k.src \in Devices
    BY <1>1, <2>1 DEF Devices, Idle
  <2>. HIDE DEF l, Records, Holds, PutsShifted
  <2>. QED BY <2>1, <2>2, <2>3, <2>4, CallPuts
<1>. QED BY <1>2, <1>3, <1>4, <1>5, <1>6, <1>7, <1>8 DEF Finish

\* With a rule more, or less, the engine holds as much more of its two devices.
LEMMA RuleBalance ==
  ASSUME RefInv, Types', NEW s \in Devices, NEW x \in Devices, NEW n \in Int,
         RulesShifted(rules', rules, s, x, n),
         NEW r \in [Devices -> Int], Shifted(r, refs, s, n), Shifted(refs', r, x, n),
         AllPuts' = AllPuts, \A d \in Plain : AllPutsOf(d)' = AllPutsOf(d)
  PROVE  TotalBalance' /\ PlainBalance'
<1>1. /\ SumFunction(rules) \in Int /\ SumFunction(rules') = SumFunction(rules) + n
      /\ \A d \in Devices : /\ Uses(d) \in Int
                            /\ Uses(d)' = Uses(d) + (IF d = s THEN n ELSE 0)
                                                  + (IF d = x THEN n ELSE 0)
  BY RulesChange DEF RefInv
<1>2. /\ AllPuts \in Int
      /\ \A d : AllPutsOf(d) \in Int
  BY AllPutsType
<1>3. TotalBalance'
  <2>1. refs \in [Devices -> Int] /\ refs' \in [Devices -> Int]
    BY DEF RefInv, Types
  <2>3. /\ SumFunction(refs) \in Int /\ SumFunction(r) = SumFunction(refs) + n
        /\ SumFunction(refs') = SumFunction(r) + n
    BY <2>1, RefsChange
  <2>4. SumFunction(refs) = 2 * SumFunction(rules) + AllPuts
    BY DEF RefInv, TotalBalance
  <2>. QED BY <1>1, <1>2, <2>3, <2>4 DEF TotalBalance
<1>4. PlainBalance'
  <2>. SUFFICES ASSUME NEW d \in Plain  PROVE refs'[d] = Uses(d)' + AllPutsOf(d)'
    BY DEF PlainBalance
  <2>1. d \in Devices /\ refs[d] = Uses(d) + AllPutsOf(d)
    BY DEF RefInv, PlainBalance, Devices
  <2>2. refs[d] \in Int /\ refs'[d] = refs[d] + (IF d = s THEN n ELSE 0) + (IF d = x THEN n ELSE 0)
    BY <2>1 DEF Shifted, RefInv, Types
  <2>. QED BY <1>1, <1>2, <2>1, <2>2
<1>. QED BY <1>3, <1>4

\* One more in a table of numbers.
LEMMA OneMore ==
  ASSUME NEW P, NEW r \in [P -> Nat], NEW p \in P, NEW q, q = [r EXCEPT ![p] = @ + 1]
  PROVE  q \in [P -> Nat] /\ \A o \in P : q[o] = r[o] + (IF o = p THEN 1 ELSE 0)
  OBVIOUS

\* One less in a table of numbers.
LEMMA OneLess ==
  ASSUME NEW P, NEW r \in [P -> Nat], NEW p \in P, r[p] > 0, NEW q,
         q = [r EXCEPT ![p] = @ - 1]
  PROVE  q \in [P -> Nat] /\ \A o \in P : q[o] = r[o] + (IF o = p THEN -1 ELSE 0)
  OBVIOUS

\* The engine inserts a rule, and holds its devices; the call holds what it held.
LEMMA CallCreatesStep ==
  ASSUME RefInv, NEW t \in Calls, CallCreates(t)
  PROVE  RefInv'
<1>. DEFINE k == call[t]
            l == [k EXCEPT !.at = "release"]
<1>1. k \in Records /\ Holds(k) /\ call \in [Calls -> Records]
  BY DEF RefInv, Types, CallsHold
<1>2. /\ k.at = "create" /\ call' = [call EXCEPT ![t] = l] /\ master' = master
      /\ rules' = [rules EXCEPT ![<<k.src, k.dest>>] = @ + 1]
      /\ refs' = Hold(Hold(refs, k.src), k.dest)
  BY <1>1 DEF CallCreates
<1>3. k.src \in Devices /\ k.dest \in Devices
  BY <1>1, <1>2 DEF Holds, WithSource, WithDest
<1>4. /\ refs \in [Devices -> Int] /\ rules \in [Devices \X Devices -> Nat]
      /\ master \in [Ports -> Bridges \cup {NoDevice}]
  BY DEF RefInv, Types
<1>5. l \in Records /\ Holds(l)
  BY <1>1, <1>2 DEF Records, Holds, WithSource, WithDev, WithDest, WithSrcBr, WithDestBr
<1>6. Puts(l) = Puts(k) /\ \A d : PutsOf(l, d) = PutsOf(k, d)
  BY <1>1, <1>2 DEF Records, Puts, PutsOf, WithSource, WithDev, WithDest, WithSrcBr, WithDestBr
<1>. HIDE DEF l, k
<1>7. /\ Hold(refs, k.src) \in [Devices -> Int] /\ refs' \in [Devices -> Int]
      /\ Shifted(Hold(refs, k.src), refs, k.src, 1) /\ Shifted(refs', Hold(refs, k.src), k.dest, 1)
  BY <1>2, <1>3, <1>4 DEF Hold, Shifted
<1>8. rules' \in [Devices \X Devices -> Nat] /\ RulesShifted(rules', rules, k.src, k.dest, 1)
  <2>1. <<k.src, k.dest>> \in Devices \X Devices
    BY <1>3
  <2>. DEFINE P == Devices \X Devices
              p == <<k.src, k.dest>>
              q == [rules EXCEPT ![p] = @ + 1]
  <2>2. rules' = q /\ q = [rules EXCEPT ![p] = @ + 1] /\ rules \in [P -> Nat] /\ p \in P
    BY <1>2, <1>4, <2>1
  <2>. HIDE DEF P, p, q
  <2>3. q \in [P -> Nat] /\ \A o \in P : q[o] = rules[o] + (IF o = p THEN 1 ELSE 0)
    BY <2>2, OneMore
  <2>. QED BY <2>2, <2>3 DEF RulesShifted, P, p
<1>10. Types' /\ CallsHold'
  BY <1>1, <1>2, <1>4, <1>5, <1>7, <1>8 DEF RefInv, Types, CallsHold
<1>11. AllPuts' = AllPuts /\ \A d : AllPutsOf(d)' = AllPutsOf(d)
  <2>1. /\ AllPuts \in Int /\ AllPuts' = AllPuts + (Puts(l) - Puts(k))
        /\ \A d : /\ AllPutsOf(d) \in Int
                  /\ AllPutsOf(d)' = AllPutsOf(d) + (PutsOf(l, d) - PutsOf(k, d))
    BY <1>2, PutsChange DEF RefInv, k
  <2>2. Puts(k) \in Nat /\ \A d : PutsOf(k, d) \in Nat
    BY PutsType
  <2>. QED BY <1>6, <2>1, <2>2
<1>12. TotalBalance' /\ PlainBalance'
  <2>1. ASSUME NEW n \in Int, n = 1  PROVE TotalBalance' /\ PlainBalance'
    <3>1. /\ Shifted(Hold(refs, k.src), refs, k.src, n)
          /\ Shifted(refs', Hold(refs, k.src), k.dest, n)
          /\ RulesShifted(rules', rules, k.src, k.dest, n)
      BY <1>7, <1>8, <2>1
    <3>. QED BY <1>3, <1>7, <1>10, <1>11, <3>1, RuleBalance
  <2>. QED BY <2>1
<1>. QED BY <1>10, <1>12 DEF RefInv

\* The engine flushes a connection, and puts its devices.
LEMMA RuleEndsStep ==
  ASSUME RefInv, NEW s \in Devices, NEW x \in Devices, RuleEnds(s, x)
  PROVE  RefInv'
<1>1. /\ rules[<<s, x>>] > 0 /\ UNCHANGED <<master, call>>
      /\ rules' = [rules EXCEPT ![<<s, x>>] = @ - 1]
      /\ refs' = Put(Put(refs, s), x)
  BY DEF RuleEnds
<1>2. /\ refs \in [Devices -> Int] /\ rules \in [Devices \X Devices -> Nat]
      /\ <<s, x>> \in Devices \X Devices
  BY DEF RefInv, Types
<1>3. /\ Put(refs, s) \in [Devices -> Int] /\ refs' \in [Devices -> Int]
      /\ Shifted(Put(refs, s), refs, s, -1) /\ Shifted(refs', Put(refs, s), x, -1)
  BY <1>1, <1>2 DEF Put, Shifted
<1>4. rules' \in [Devices \X Devices -> Nat] /\ RulesShifted(rules', rules, s, x, -1)
  <2>. DEFINE P == Devices \X Devices
              p == <<s, x>>
              q == [rules EXCEPT ![p] = @ - 1]
  <2>1. /\ rules' = q /\ q = [rules EXCEPT ![p] = @ - 1] /\ rules \in [P -> Nat] /\ p \in P
        /\ rules[p] > 0
    BY <1>1, <1>2
  <2>. HIDE DEF P, p, q
  <2>2. q \in [P -> Nat] /\ \A o \in P : q[o] = rules[o] + (IF o = p THEN -1 ELSE 0)
    BY <2>1, OneLess
  <2>. QED BY <2>1, <2>2 DEF RulesShifted, P, p
<1>5. Types' /\ CallsHold'
  BY <1>1, <1>3, <1>4 DEF RefInv, Types, CallsHold
<1>6. AllPuts' = AllPuts /\ \A d : AllPutsOf(d)' = AllPutsOf(d)
  BY <1>1 DEF AllPuts, AllPutsOf
<1>7. TotalBalance' /\ PlainBalance'
  <2>1. ASSUME NEW n \in Int, n = -1  PROVE TotalBalance' /\ PlainBalance'
    <3>1. /\ Shifted(Put(refs, s), refs, s, n) /\ Shifted(refs', Put(refs, s), x, n)
          /\ RulesShifted(rules', rules, s, x, n)
      BY <1>3, <1>4, <2>1
    <3>. QED BY <1>3, <1>5, <1>6, <3>1, RuleBalance
  <2>. QED BY <2>1
<1>. QED BY <1>5, <1>7 DEF RefInv

\* Ports that join and leave bridges take no references here.
LEMMA EnslaveStep ==
  ASSUME RefInv, UNCHANGED <<refs, rules, call>>, master' \in [Ports -> Bridges \cup {NoDevice}]
  PROVE  RefInv'
<1>1. Types' /\ CallsHold'
  BY DEF RefInv, Types, CallsHold
<1>2. TotalBalance'
  BY DEF RefInv, TotalBalance, AllPuts
<1>3. PlainBalance'
  BY DEF RefInv, PlainBalance, Uses, AllPutsOf
<1>. QED BY <1>1, <1>2, <1>3 DEF RefInv

-----------------------------------------------------------------------------
(* The theorem of the device references                                     *)

\* Nothing is held at first.
LEMMA RefInit == PostInit => RefInv
<1>. SUFFICES ASSUME PostInit  PROVE RefInv
  OBVIOUS
<1>1. /\ refs = [d \in Devices |-> 0] /\ rules = [sd \in Devices \X Devices |-> 0]
      /\ call = [t \in Calls |-> Idle] /\ master \in [Ports -> Bridges \cup {NoDevice}]
  BY DEF PostInit
<1>2. Idle \in Records /\ Holds(Idle) /\ Idle.at = "idle"
  BY DEF Idle, Records, Holds, Held, WithSource, WithDev, WithDest, WithSrcBr, WithDestBr
<1>3. Types /\ CallsHold
  BY <1>1, <1>2 DEF Types, CallsHold
<1>4. Quiet
  BY <1>1, <1>2 DEF Quiet
<1>5. AllPuts = 0 /\ \A d : AllPutsOf(d) = 0
  BY <1>4, QuietPuts
<1>6. SumFunction(refs) = 0 /\ SumFunction(rules) = 0
  <2>1. IsFiniteSet(Devices \X Devices)
    BY FS_Product
  <2>2. /\ SumFunction(refs) = SumFunctionOnSet(refs, Devices)
        /\ SumFunction(rules) = SumFunctionOnSet(rules, Devices \X Devices)
    BY <1>1 DEF SumFunction
  <2>3. (\A d \in Devices : refs[d] = 0) /\ \A sd \in Devices \X Devices : rules[sd] = 0
    BY <1>1
  <2>. QED BY <2>1, <2>2, <2>3, SumZero
<1>7. \A d : Uses(d) = 0
  <2>1. \A S \in SUBSET (Devices \X Devices) : IsFiniteSet(S)
    BY FS_Product, FS_Subset
  <2>2. \A sd \in Devices \X Devices : rules[sd] = 0
    BY <1>1
  <2>3. \A S \in SUBSET (Devices \X Devices) : SumFunctionOnSet(rules, S) = 0
    BY <2>1, <2>2, SumZero
  <2>. QED BY <2>3 DEF Uses
<1>8. TotalBalance /\ PlainBalance
  BY <1>1, <1>5, <1>6, <1>7 DEF TotalBalance, PlainBalance, Devices
<1>. QED BY <1>3, <1>8 DEF RefInv

\* No step breaks the invariant.
LEMMA RefNext == RefInv /\ [PostNext]_postVars => RefInv'
<1>. SUFFICES ASSUME RefInv, [PostNext]_postVars  PROVE RefInv'
  OBVIOUS
<1>1. ASSUME NEW t \in Calls,
             FindDevices(t) \/ FindBridges(t) \/ CallCreates(t) \/ CallCreateFails(t) \/ Finish(t)
      PROVE  RefInv'
  BY <1>1, FindStep, BridgeStep, CallCreatesStep, FinishStep
<1>2. ASSUME NEW s \in Devices, NEW d \in Devices, RuleEnds(s, d)  PROVE RefInv'
  BY <1>2, RuleEndsStep
<1>3. ASSUME NEW p \in Ports, NEW b \in Bridges \cup {NoDevice}, Enslave(p, b)  PROVE RefInv'
  BY <1>3, EnslaveStep DEF Enslave, RefInv, Types
<1>4. CASE UNCHANGED postVars
  BY <1>4, EnslaveStep DEF postVars, RefInv, Types
<1>. QED BY <1>1, <1>2, <1>3, <1>4 DEF PostNext

\* The invariant holds for ever.
LEMMA RefInvariant == PostSpec => []RefInv
<1>1. PostInit => RefInv
  BY RefInit
<1>2. RefInv /\ [PostNext]_postVars => RefInv'
  BY RefNext
<1>. QED BY <1>1, <1>2, PTL DEF PostSpec

\* Whichever way the calls of sfe_cm_post_routing went, also through done1, done2 and
\* done3, they put as many references as they took: what is left are the rules', and
\* exactly so on every device that has nothing to do with bridges.
THEOREM ReferencesBalanced == PostSpec => []ReferencesBalance
<1>1. RefInv => ReferencesBalance
  <2>. SUFFICES ASSUME RefInv, Quiet
                PROVE  /\ SumFunction(refs) = 2 * SumFunction(rules)
                       /\ \A d \in Plain : refs[d] = Uses(d)
    BY DEF ReferencesBalance, PutsBalance, PlainDevicesExact
  <2>1. AllPuts = 0 /\ \A d : AllPutsOf(d) = 0
    BY QuietPuts
  <2>2. SumFunction(rules) \in Int /\ \A d : Uses(d) \in Int
    BY RulesType DEF RefInv
  <2>. QED BY <2>1, <2>2 DEF RefInv, TotalBalance, PlainBalance
<1>. QED BY <1>1, RefInvariant, PTL
=============================================================================
