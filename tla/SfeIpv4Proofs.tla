--------------------------- MODULE SfeIpv4Proofs ---------------------------
(***************************************************************************)
(* The safety properties of SfeIpv4, and that it implements SfeOffload     *)
(* while nobody reads the debug device, for every set of connections,      *)
(* devices and rules, and every bound.                                     *)
(***************************************************************************)
EXTENDS SfeIpv4Refines, OperatorProofs

USE ConstantsAssumption DEF RuleType, ResetCounts

\* A remainder is smaller than its divisor.
LEMMA RemainderInRange ==
  ASSUME NEW a \in Int, NEW b \in Nat, b > 0
  PROVE  a % b \in 0 .. b - 1
  OBVIOUS

\* A timer turn syncs some connection when there is one.
LEMMA SyncQuotaType == all \in Seq(Conns) => SyncQuota \in Nat
<1>. SUFFICES ASSUME all \in Seq(Conns)  PROVE SyncQuota \in Nat
  OBVIOUS
<1>1. Len(all) \in Nat /\ SyncShare \in Nat \ {0}
  BY LenProperties
<1>. QED BY <1>1 DEF SyncQuota

\* The values of the idle timer have their types.
LEMMA IdleType ==
  /\ Zero \in Counts
  /\ NoMsg \in Msgs /\ NoMsg.conn = None
  /\ IdleTimer \in Timers /\ IdleTimer.pc = "idle" /\ IdleTimer.msg = NoMsg
<1>1. Zero \in Counts
  BY DEF Zero, Counts
<1>2. NoMsg \in Msgs /\ NoMsg.conn = None
  BY <1>1 DEF NoMsg, Msgs
<1>. QED BY <1>1, <1>2 DEF IdleTimer, Timers

\* Adding to one counter of one connection.
LEMMA CountOneMore ==
  ASSUME NEW S, NEW f \in [Conns -> [Dirs -> S]], NEW c \in Conns, NEW d \in Dirs,
         f[c][d] + 1 \in S
  PROVE  [f EXCEPT ![c][d] = @ + 1] \in [Conns -> [Dirs -> S]]
<1>1. [f[c] EXCEPT ![d] = @ + 1] \in [Dirs -> S]
  OBVIOUS
<1>. QED BY <1>1

\* Taking counts from what is owed.
LEMMA LessType ==
  ASSUME NEW f \in [Dirs -> Int], NEW g \in Counts
  PROVE  Less(f, g) \in [Dirs -> Int] /\ \A d \in Dirs : Less(f, g)[d] = f[d] - g[d]
  BY DEF Counts, Less

\* A message about a connection has its type.
LEMMA MessageType ==
  ASSUME TypeOK, NEW c \in Conns, NEW now \in 0 .. MaxJiffies
  PROVE  /\ SyncMessage(c, now) \in Msgs
         /\ SyncMessage(c, now).conn = c /\ SyncMessage(c, now).new = count[c]
         /\ Credit(SyncMessage(c, now)) \in [Conns -> 0 .. JiffiesRange - 1]
<1>1. lastSync[c] \in Int /\ now \in Int /\ count[c] \in Counts /\ credited[c] \in Int
  BY DEF TypeOK
<1>2. (now - lastSync[c]) % JiffiesRange \in 0 .. JiffiesRange - 1
  BY <1>1, RemainderInRange
<1>3. \A d \in 0 .. JiffiesRange - 1 : (credited[c] + d) % JiffiesRange \in 0 .. JiffiesRange - 1
  BY <1>1, RemainderInRange
<1>. QED BY <1>1, <1>2, <1>3 DEF SyncMessage, Msgs, Credit, TypeOK

-----------------------------------------------------------------------------
(* Type correctness *)

\* RemoveConnection changes three variables, within their types.
LEMMA RemoveType ==
  ASSUME TypeOK, NEW c \in Conns, RemoveConnection(c), phase[c] = "linked"
  PROVE  /\ phase' \in [Conns -> Phases] /\ Live' = Live
         /\ all' \in Seq(Conns) /\ active' \in Seq(Matches)
<1>1. Unlink(active, <<c, "reply">>) \in Seq(Matches)
  BY UnlinkList DEF TypeOK
<1>. QED BY <1>1, UnlinkList DEF TypeOK, RemoveConnection, Phases, Live

\* A turn of the timer keeps the types of what it changes.
LEMMA SyncTurnType ==
  ASSUME TypeOK, NEW q \in Nat, SyncTurn(q), timer.msg.conn = None
  PROVE  /\ active' \in Seq(Matches)
         /\ count' \in [Conns -> Counts]
         /\ lastSync' \in [Conns -> 0 .. MaxJiffies]
         /\ credited' \in [Conns -> 0 .. JiffiesRange - 1]
         /\ timer' \in Timers
         /\ timer'.pc = "deliver" <=> timer'.msg.conn # None
         /\ UNCHANGED <<phase, rule, all>>
<1>1. CASE timer' = IdleTimer /\ UNCHANGED engine
  <2>. QED BY <1>1, IdleType DEF TypeOK, engine
<1>2. CASE timer' # IdleTimer \/ ~UNCHANGED engine
  <2>. DEFINE m == Head(active)
              c == m[1]
              msg == SyncMessage(c, timer.now)
  <2>1. /\ q # 0 /\ active # <<>>
        /\ active' = Unlink(Tail(active), Counter(m))
        /\ timer' = [timer EXCEPT !.pc = "deliver", !.quota = q - 1, !.msg = msg]
        /\ credited' = Credit(msg)
        /\ count' = [count EXCEPT ![c] = Zero]
        /\ lastSync' = [lastSync EXCEPT ![c] = timer.now]
        /\ UNCHANGED <<phase, rule, all>>
    BY <1>2 DEF SyncTurn
  <2>2. m \in Matches /\ Tail(active) \in Seq(Matches)
    BY <2>1, TailList DEF TypeOK
  <2>3. c \in Conns /\ timer.now \in 0 .. MaxJiffies
    BY <2>2 DEF Matches, TypeOK, Timers
  <2>4. msg \in Msgs /\ msg.conn = c /\ Credit(msg) \in [Conns -> 0 .. JiffiesRange - 1]
    BY <2>3, MessageType
  <2>5. Unlink(Tail(active), Counter(m)) \in Seq(Matches)
    BY <2>2, UnlinkList
  <2>6. Zero \in Counts
    BY IdleType
  <2>. HIDE DEF m, c, msg
  <2>7. timer' \in Timers /\ timer'.pc = "deliver" /\ timer'.msg = msg
    <3>1. timer \in Timers /\ q - 1 \in Nat
      BY <2>1 DEF TypeOK
    <3>. QED BY <3>1, <2>1, <2>4 DEF Timers
  <2>. QED BY <2>1, <2>3, <2>4, <2>5, <2>6, <2>7 DEF TypeOK
<1>. QED BY <1>1, <1>2

\* Taking and dropping references keeps the counts integers.
LEMMA RefsType ==
  ASSUME TypeOK, NEW r
  PROVE  Hold(refs, r) \in [Devs -> Int] /\ Put(refs, r) \in [Devs -> Int]
         /\ Put(Hold(refs, r), r) = refs
  BY DEF TypeOK, Hold, Put

\* Every variable keeps its type in every step.
LEMMA TypeStep == TypeOK /\ TablesAgree /\ [Next]_vars => TypeOK'
<1>. SUFFICES ASSUME TypeOK, TablesAgree, [Next]_vars  PROVE TypeOK'
  OBVIOUS
<1>1. ASSUME NEW m \in Matches, RecvForward(m)  PROVE TypeOK'
  <2>1. m[1] \in Conns /\ m[2] \in Dirs
    BY DEF Matches
  <2>2. count' \in [Conns -> Counts]
    <3>1. count \in [Conns -> [Dirs -> 0 .. MaxCount]] /\ count[m[1]][m[2]] + 1 \in 0 .. MaxCount
      <4>1. count \in [Conns -> [Dirs -> 0 .. MaxCount]]
        BY DEF TypeOK, Counts
      <4>2. count[m[1]][m[2]] \in 0 .. MaxCount
        BY <4>1, <2>1
      <4>3. count[m[1]][m[2]] < MaxCount
        BY <1>1 DEF RecvForward, Queue
      <4>. QED BY <4>1, <4>2, <4>3
    <3>. QED
      <4>1. count' = [count EXCEPT ![m[1]][m[2]] = @ + 1]
        BY <1>1 DEF RecvForward, Queue
      <4>. QED BY <3>1, <2>1, <4>1, CountOneMore DEF Counts
  <2>3. active' \in Seq(Matches)
    BY <1>1, AppendList DEF RecvForward, Queue, TypeOK
  <2>4. owed' \in [Conns -> [Dirs -> Int]]
    <3>1. owed \in [Conns -> [Dirs -> Int]] /\ owed[m[1]][m[2]] + 1 \in Int
      BY <2>1 DEF TypeOK
    <3>. QED BY <3>1, <2>1, <1>1, CountOneMore DEF RecvForward, Queue
  <2>. QED BY <1>1, <2>2, <2>3, <2>4 DEF RecvForward, Queue, TypeOK, Live
<1>2. ASSUME NEW m \in Matches, RecvException(m)  PROVE TypeOK'
  <2>1. m[1] \in Conns /\ phase[m[1]] = "linked"
    BY <1>2 DEF RecvException, FoundBy, Linked, Matches
  <2>. QED BY <1>2, <2>1, RemoveType DEF RecvException, RemoveConnection, TypeOK
<1>3. ASSUME NEW c \in Conns, FlushBegin(c)  PROVE TypeOK'
  <2>1. phase' \in [Conns -> Phases] /\ Live' = Live
    BY <1>3 DEF FlushBegin, TypeOK, Phases, Live
  <2>2. CASE callback
    <3>1. UNCHANGED <<rule, all, active, lastSync, credited, callback, jiffies, timer,
                      creating, teardown, reg, refs, count, owed>>
      BY <1>3, <2>2 DEF FlushBegin
    <3>. QED BY <2>1, <3>1 DEF TypeOK
  <2>3. CASE ~callback
    <3>1. count' \in [Conns -> Counts]
      BY <1>3, <2>3, IdleType DEF FlushBegin, TypeOK
    <3>2. owed' \in [Conns -> [Dirs -> Int]]
      <4>1. owed' = [owed EXCEPT ![c] = Less(@, count[c])]
        BY <1>3, <2>3 DEF FlushBegin
      <4>. QED BY <4>1, LessType DEF TypeOK
    <3>. QED BY <1>3, <2>1, <3>1, <3>2 DEF FlushBegin, TypeOK
  <2>. QED BY <2>2, <2>3
<1>4. ASSUME NEW c \in Conns, FlushSync(c)  PROVE TypeOK'
  <2>1. jiffies \in 0 .. MaxJiffies
    BY DEF TypeOK
  <2>2. /\ Credit(SyncMessage(c, jiffies)) \in [Conns -> 0 .. JiffiesRange - 1]
        /\ SyncMessage(c, jiffies).new = count[c]
    BY <2>1, MessageType
  <2>3. owed' \in [Conns -> [Dirs -> Int]]
    BY <1>4, <2>2, LessType DEF FlushSync, TypeOK
  <2>4. phase' \in [Conns -> Phases] /\ Live' = Live
    BY <1>4 DEF FlushSync, TypeOK, Phases, Live
  <2>5. count' \in [Conns -> Counts] /\ lastSync' \in [Conns -> 0 .. MaxJiffies]
    BY <1>4, <2>1, IdleType DEF FlushSync, TypeOK
  <2>. QED BY <1>4, <2>2, <2>3, <2>4, <2>5 DEF FlushSync, TypeOK
<1>5. ASSUME NEW c \in Conns, FlushRelease(c)  PROVE TypeOK'
  <2>1. phase' \in [Conns -> Phases] /\ Live' = Live \ {c}
    BY <1>5 DEF FlushRelease, TypeOK, Phases, Live
  <2>2. refs' \in [Devs -> Int]
    BY <1>5, RefsType DEF FlushRelease
  <2>3. rule' \in [Conns -> Rules \cup {None}] /\ \A b \in Live' : rule'[b] \in Rules
    BY <1>5, <2>1 DEF FlushRelease, TypeOK, Live
  <2>4. /\ lastSync' \in [Conns -> 0 .. MaxJiffies]
        /\ credited' \in [Conns -> 0 .. JiffiesRange - 1]
    BY <1>5 DEF FlushRelease, TypeOK
  <2>5. teardown' \in [dev : Devs \cup {AllDevs, None}, conn : Conns \cup {None},
                       unregister : BOOLEAN]
    BY <1>5 DEF FlushRelease, TypeOK
  <2>. QED BY <1>5, <2>1, <2>2, <2>3, <2>4, <2>5 DEF FlushRelease, TypeOK
<1>6. ASSUME NEW r \in Rules, CreateCheck(r)  PROVE TypeOK'
  BY <1>6, RefsType DEF CreateCheck, TypeOK, Live, engine
<1>7. ASSUME NEW r \in Rules, CreateFail(r)  PROVE TypeOK'
  BY <1>7, RefsType DEF CreateFail, TypeOK, Live, engine
<1>8. ASSUME NEW r \in Rules, NEW c \in Conns, CreateRule(r, c)  PROVE TypeOK'
  <2>1. all' \in Seq(Conns)
    BY <1>8, AppendList DEF CreateRule, InsertConnection, TypeOK
  <2>2. refs' \in [Devs -> Int]
    BY <1>8, RefsType DEF CreateRule, TypeOK
  <2>3. /\ phase' \in [Conns -> Phases] /\ rule' \in [Conns -> Rules \cup {None}]
        /\ \A b \in Live' : rule'[b] \in Rules
    BY <1>8 DEF CreateRule, InsertConnection, TypeOK, Phases, Live
  <2>4. count' \in [Conns -> Counts]
    BY <1>8, IdleType DEF CreateRule, InsertConnection, TypeOK
  <2>5. lastSync' \in [Conns -> 0 .. MaxJiffies] /\ credited' \in [Conns -> 0 .. JiffiesRange - 1]
    BY <1>8 DEF CreateRule, InsertConnection, TypeOK
  <2>. QED BY <1>8, <2>1, <2>2, <2>3, <2>4, <2>5 DEF CreateRule, InsertConnection, TypeOK
<1>9. ASSUME NEW c \in Conns, DestroyRule(c)  PROVE TypeOK'
  BY <1>9, RemoveType DEF DestroyRule, RemoveConnection, TypeOK
<1>10. ASSUME NEW c \in Conns, DebugRead(c)  PROVE TypeOK'
  BY <1>10, IdleType DEF DebugRead, TypeOK, Live
<1>11. ASSUME NEW on \in BOOLEAN, RegisterCallback(on)  PROVE TypeOK'
  BY <1>11 DEF RegisterCallback, TypeOK, Live, engine
<1>12. ASSUME NEW d \in Devs \cup {AllDevs}, NEW u \in BOOLEAN, TeardownBegin(d, u)
       PROVE TypeOK'
  BY <1>12 DEF TeardownBegin, TypeOK, Live, engine
<1>13. ASSUME NEW c \in Conns, TeardownRound(c)  PROVE TypeOK'
  <2>1. phase[c] = "linked"
    BY <1>13 DEF TeardownRound, TablesAgree, Elems, Linked
  <2>. QED BY <1>13, <2>1, RemoveType DEF TeardownRound, RemoveConnection, TypeOK
<1>14. CASE TeardownEnd
  BY <1>14 DEF TeardownEnd, TypeOK, Live, engine, IdleTeardown
<1>15. ASSUME NEW d \in Devs, DeviceFree(d)  PROVE TypeOK'
  BY <1>15 DEF DeviceFree, TypeOK, Live, engine
<1>16. CASE TimerStart
  <2>1. timer' \in Timers /\ timer'.pc = "begin" /\ timer'.msg.conn = None
    BY <1>16, IdleType DEF TimerStart, Timers, TypeOK
  <2>. QED BY <1>16, <2>1 DEF TimerStart, TypeOK, Live, engine
<1>17. CASE SyncBegin
  <2>1. SyncQuota \in Nat /\ timer.msg.conn = None /\ SyncTurn(SyncQuota)
    BY <1>17, SyncQuotaType DEF SyncBegin, TypeOK
  <2>. QED BY <1>17, <2>1, SyncTurnType DEF SyncBegin, TypeOK, Live
<1>18. CASE SyncRelock
  <2>1. timer.quota \in Nat /\ timer.msg.conn = None /\ SyncTurn(timer.quota)
    BY <1>18 DEF SyncRelock, TypeOK, Timers
  <2>. QED BY <1>18, <2>1, SyncTurnType DEF SyncRelock, TypeOK, Live
<1>19. CASE SyncDeliver
  <2>1. timer \in Timers /\ timer.msg \in Msgs /\ timer.msg.conn \in Conns
    BY <1>19 DEF SyncDeliver, TypeOK, Timers, Msgs
  <2>2. timer' \in Timers /\ timer'.pc = "relock" /\ timer'.msg.conn = None
    BY <1>19, <2>1, IdleType DEF SyncDeliver, Timers
  <2>3. timer.msg.new \in Counts
    BY <2>1 DEF Msgs
  <2>4. owed' \in [Conns -> [Dirs -> Int]]
    BY <1>19, <2>1, <2>3, LessType DEF SyncDeliver, TypeOK
  <2>. QED BY <1>19, <2>2, <2>4 DEF SyncDeliver, TypeOK, Live, engine
<1>20. CASE Tick
  BY <1>20 DEF Tick, TypeOK, Live, engine
<1>21. CASE UNCHANGED vars
  BY <1>21 DEF vars, engine, TypeOK, Live
<1>. QED
  BY <1>1, <1>2, <1>3, <1>4, <1>5, <1>6, <1>7, <1>8, <1>9, <1>10, <1>11, <1>12, <1>13,
     <1>14, <1>15, <1>16, <1>17, <1>18, <1>19, <1>20, <1>21
     DEF Next, Flush, Timer, Teardown

-----------------------------------------------------------------------------
(* Tables *)

\* Unlinking a connection and its two matches.
LEMMA RemoveTables ==
  ASSUME TypeOK, TablesAgree, NEW c \in Conns, RemoveConnection(c), phase[c] = "linked"
  PROVE  /\ TablesAgree'
         /\ Linked' = Linked \ {c}
         /\ Elems(active') = Elems(active) \ {<<c, "reply">>, <<c, "original">>}
<1>. DEFINE s == Unlink(active, <<c, "reply">>)
<1>1. Linked' = Linked \ {c}
  BY DEF TypeOK, RemoveConnection, Linked
<1>2. Distinct(all') /\ Elems(all') = Elems(all) \ {c}
  BY UnlinkList DEF TypeOK, TablesAgree, RemoveConnection
<1>3. s \in Seq(Matches) /\ Distinct(s) /\ Elems(s) = Elems(active) \ {<<c, "reply">>}
  BY UnlinkList DEF TypeOK, TablesAgree
<1>. HIDE DEF s
<1>4. active' = Unlink(s, <<c, "original">>)
  BY DEF RemoveConnection, s
<1>5. Distinct(active') /\ Elems(active') = Elems(s) \ {<<c, "original">>}
  BY <1>3, <1>4, UnlinkList
<1>6. Elems(active') \subseteq Linked' \X Dirs
  <2>1. Elems(active) \subseteq Linked \X Dirs
    BY DEF TablesAgree
  <2>. QED BY <1>1, <1>3, <1>5, <2>1 DEF Dirs
<1>. QED BY <1>1, <1>2, <1>3, <1>5, <1>6 DEF TablesAgree

\* A turn of the timer only shortens the active list: by the first match and
\* its counter match, which are those of one linked connection.
LEMMA SyncTurnTables ==
  ASSUME TypeOK, TablesAgree, NEW q \in Nat, SyncTurn(q)
  PROVE  /\ TablesAgree' /\ UNCHANGED <<phase, rule, all>>
         /\ \/ timer' = IdleTimer /\ UNCHANGED engine
            \/ \E c \in Linked :
                 /\ Elems(active') = Elems(active) \ ({c} \X Dirs)
                 /\ count' = [count EXCEPT ![c] = Zero]
                 /\ lastSync' = [lastSync EXCEPT ![c] = timer.now]
                 /\ credited' = Credit(SyncMessage(c, timer.now))
                 /\ timer'.msg = SyncMessage(c, timer.now)
<1>1. CASE timer' = IdleTimer /\ UNCHANGED engine
  BY <1>1 DEF engine, TablesAgree, Linked
<1>2. CASE ~(timer' = IdleTimer /\ UNCHANGED engine)
  <2>. DEFINE m == Head(active)
              c == m[1]
  <2>1. /\ active # <<>>
        /\ active' = Unlink(Tail(active), Counter(m))
        /\ timer' = [timer EXCEPT !.pc = "deliver", !.quota = q - 1,
                                  !.msg = SyncMessage(c, timer.now)]
        /\ credited' = Credit(SyncMessage(c, timer.now))
        /\ count' = [count EXCEPT ![c] = Zero]
        /\ lastSync' = [lastSync EXCEPT ![c] = timer.now]
        /\ UNCHANGED <<phase, rule, all>>
    BY <1>2 DEF SyncTurn
  <2>2. /\ m \in Matches /\ m \in Elems(active) /\ Tail(active) \in Seq(Matches)
        /\ Elems(active) = Elems(Tail(active)) \cup {m}
        /\ Distinct(Tail(active)) /\ m \notin Elems(Tail(active))
    BY <2>1, TailList DEF TypeOK, TablesAgree
  <2>3. c \in Linked /\ m \in Linked \X Dirs
    BY <2>2 DEF TablesAgree
  <2>4. {m, Counter(m)} = {c} \X Dirs
    <3>1. m = <<m[1], m[2]>> /\ m[2] \in {"original", "reply"}
      BY <2>2 DEF Matches, Dirs
    <3>. QED BY <3>1 DEF Counter, Dirs
  <2>. HIDE DEF m, c
  <2>5. /\ Distinct(active')
        /\ Elems(active') = Elems(Tail(active)) \ {Counter(m)}
    BY <2>1, <2>2, UnlinkList
  <2>6. Elems(active') = Elems(active) \ ({c} \X Dirs)
    BY <2>2, <2>4, <2>5
  <2>7. timer'.msg = SyncMessage(c, timer.now)
    BY <2>1 DEF TypeOK, Timers
  <2>8. TablesAgree'
    <3>1. Distinct(all') /\ Elems(all') = Linked'
      BY <2>1 DEF TablesAgree, Linked
    <3>2. Elems(active') \subseteq Linked' \X Dirs
      <4>1. Linked' = Linked
        BY <2>1 DEF Linked
      <4>. QED BY <4>1, <2>6 DEF TablesAgree
    <3>. QED BY <2>5, <3>1, <3>2 DEF TablesAgree
  <2>. QED BY <2>1, <2>3, <2>6, <2>7, <2>8
<1>. QED BY <1>1, <1>2

\* The lists hold each linked connection once, and nothing else, in every step.
LEMMA TablesStep == TypeOK /\ TablesAgree /\ [Next]_vars => TablesAgree'
<1>. SUFFICES ASSUME TypeOK, TablesAgree, [Next]_vars  PROVE TablesAgree'
  OBVIOUS
<1>1. ASSUME NEW m \in Matches, RecvForward(m)  PROVE TablesAgree'
  <2>1. m \in Linked \X Dirs
    BY <1>1 DEF RecvForward, Queue, FoundBy
  <2>2. Distinct(active') /\ Elems(active') \subseteq Elems(active) \cup {m}
    BY <1>1, AppendList DEF RecvForward, Queue, TypeOK, TablesAgree
  <2>. QED BY <1>1, <2>1, <2>2 DEF RecvForward, Queue, TablesAgree, Linked
<1>2. ASSUME NEW m \in Matches, RecvException(m)  PROVE TablesAgree'
  <2>1. m[1] \in Conns /\ phase[m[1]] = "linked"
    BY <1>2 DEF RecvException, FoundBy, Linked, Matches
  <2>. QED BY <1>2, <2>1, RemoveTables DEF RecvException
<1>3. ASSUME NEW c \in Conns, Flush(c)  PROVE TablesAgree'
  <2>1. Linked' = Linked /\ UNCHANGED <<all, active>>
    BY <1>3 DEF Flush, FlushBegin, FlushSync, FlushRelease, Linked, TypeOK
  <2>. QED BY <2>1 DEF TablesAgree
<1>4. ASSUME NEW r \in Rules, CreateCheck(r) \/ CreateFail(r)  PROVE TablesAgree'
  BY <1>4 DEF CreateCheck, CreateFail, engine, TablesAgree, Linked
<1>5. ASSUME NEW r \in Rules, NEW c \in Conns, CreateRule(r, c)  PROVE TablesAgree'
  <2>1. Linked' = Linked \cup {c} /\ c \notin Linked
    BY <1>5 DEF CreateRule, InsertConnection, Linked, TypeOK
  <2>2. Distinct(all') /\ Elems(all') = Elems(all) \cup {c}
    BY <1>5, <2>1, AppendList DEF CreateRule, InsertConnection, TypeOK, TablesAgree
  <2>3. active' = active
    BY <1>5 DEF CreateRule, InsertConnection
  <2>. QED BY <2>1, <2>2, <2>3 DEF TablesAgree
<1>6. ASSUME NEW c \in Conns, DestroyRule(c)  PROVE TablesAgree'
  BY <1>6, RemoveTables DEF DestroyRule
<1>7. ASSUME NEW c \in Conns, TeardownRound(c)  PROVE TablesAgree'
  <2>1. phase[c] = "linked"
    BY <1>7 DEF TeardownRound, TablesAgree, Elems, Linked
  <2>. QED BY <1>7, <2>1, RemoveTables DEF TeardownRound
<1>8. CASE SyncBegin \/ SyncRelock
  <2>1. \E q \in Nat : SyncTurn(q)
    BY <1>8, SyncQuotaType DEF SyncBegin, SyncRelock, TypeOK, Timers
  <2>. QED BY <2>1, SyncTurnTables
<1>9. ASSUME \/ \E c \in Conns : DebugRead(c)
             \/ \E on \in BOOLEAN : RegisterCallback(on)
             \/ \E d \in Devs \cup {AllDevs}, u \in BOOLEAN : TeardownBegin(d, u)
             \/ TeardownEnd
             \/ \E d \in Devs : DeviceFree(d)
             \/ TimerStart \/ SyncDeliver \/ Tick \/ UNCHANGED vars
      PROVE  TablesAgree'
  <2>1. UNCHANGED <<phase, all, active>>
    BY <1>9 DEF DebugRead, RegisterCallback, TeardownBegin, TeardownEnd, DeviceFree,
                TimerStart, SyncDeliver, Tick, vars, engine
  <2>. QED BY <2>1 DEF TablesAgree, Linked
<1>. QED
  BY <1>1, <1>2, <1>3, <1>4, <1>5, <1>6, <1>7, <1>8, <1>9 DEF Next, Timer, Teardown

\* The initial state has empty tables of the right types.
LEMMA InitTables == Init => TypeOK /\ TablesAgree
<1>. SUFFICES ASSUME Init  PROVE TypeOK /\ TablesAgree
  OBVIOUS
<1>1. all = <<>> /\ active = <<>> /\ Live = {} /\ Linked = {}
  BY DEF Init, Live, Linked
<1>2. TypeOK
  <2>1. Zero \in [Dirs -> Int] /\ IdleTimer \in Timers /\ Zero \in Counts
    BY IdleType DEF Zero
  <2>2. timer.pc = "idle" /\ timer.msg.conn = None
    BY IdleType DEF Init
  <2>3. IdleTeardown \in [dev : Devs \cup {AllDevs, None}, conn : Conns \cup {None},
                          unregister : BOOLEAN]
    BY DEF IdleTeardown
  <2>4. all \in Seq(Conns) /\ active \in Seq(Matches)
    BY <1>1, EmptySeq
  <2>5. 0 \in 0 .. MaxJiffies /\ 0 \in 0 .. JiffiesRange - 1
    OBVIOUS
  <2>6. /\ phase \in [Conns -> Phases] /\ rule \in [Conns -> Rules \cup {None}]
        /\ \A c \in Live : rule[c] \in Rules
    BY <1>1 DEF Init, Phases
  <2>7. /\ count \in [Conns -> Counts] /\ owed \in [Conns -> [Dirs -> Int]]
        /\ lastSync \in [Conns -> 0 .. MaxJiffies]
        /\ credited \in [Conns -> 0 .. JiffiesRange - 1]
    BY <2>1, <2>5 DEF Init
  <2>8. /\ reg \in [Devs -> {"registered", "unregistering", "freed"}]
        /\ refs \in [Devs -> Int]
        /\ teardown = IdleTeardown /\ timer = IdleTimer
        /\ jiffies \in 0 .. MaxJiffies /\ creating = {}
    BY <2>5 DEF Init
  <2>13. callback \in BOOLEAN
    BY DEF Init
  <2>9. timer \in Timers
    BY <2>1, <2>8
  <2>10. timer.pc = "deliver" <=> timer.msg.conn # None
    BY <2>2
  <2>11. creating \in SUBSET Rules
    BY <2>8
  <2>12. teardown \in [dev : Devs \cup {AllDevs, None}, conn : Conns \cup {None},
                        unregister : BOOLEAN]
    BY <2>3, <2>8
  <2>. QED BY <2>4, <2>6, <2>7, <2>8, <2>9, <2>10, <2>11, <2>12, <2>13 DEF TypeOK
<1>3. TablesAgree
  BY <1>1, EmptyList DEF TablesAgree
<1>. QED BY <1>2, <1>3

\* Every variable stays in its type, for all constants.
THEOREM TypeCorrect == Spec => []TypeOK
<1>1. Init => TypeOK /\ TablesAgree
  BY InitTables
<1>2. TypeOK /\ TablesAgree /\ [Next]_vars => (TypeOK /\ TablesAgree)'
  BY TypeStep, TablesStep
<1>. QED BY <1>1, <1>2, PTL DEF Spec

\* The table of connections and the list of matches with traffic lead to
\* linked connections only, to each once: no packet, timer turn or walk can
\* reach an object that is being flushed or is freed.
THEOREM TablesAlwaysAgree == Spec => []TablesAgree
<1>1. Init => TypeOK /\ TablesAgree
  BY InitTables
<1>2. TypeOK /\ TablesAgree /\ [Next]_vars => (TypeOK /\ TablesAgree)'
  BY TypeStep, TablesStep
<1>. QED BY <1>1, <1>2, PTL DEF Spec

-----------------------------------------------------------------------------
(* The pointwise properties: tuples, counts, time *)

\* What every step does to the connections that stay linked: only create_rule
\* links one, and no step changes the rule of a linked connection.
LEMMA LinkedStep ==
  ASSUME TypeOK, TablesAgree, [Next]_vars
  PROVE  \/ /\ Linked' \subseteq Linked
            /\ \A c \in Linked' : rule'[c] = rule[c]
         \/ \E r \in Rules, c \in Conns : CreateRule(r, c)
<1>1. ASSUME NEW c \in Conns, RemoveConnection(c)
      PROVE  Linked' \subseteq Linked /\ \A b \in Linked' : rule'[b] = rule[b]
  BY <1>1 DEF RemoveConnection, Linked, TypeOK
<1>2. ASSUME NEW c \in Conns, Flush(c)
      PROVE  Linked' \subseteq Linked /\ \A b \in Linked' : rule'[b] = rule[b]
  BY <1>2 DEF Flush, FlushBegin, FlushSync, FlushRelease, Linked, TypeOK
<1>3. ASSUME SyncBegin \/ SyncRelock
      PROVE  Linked' \subseteq Linked /\ \A b \in Linked' : rule'[b] = rule[b]
  <2>1. UNCHANGED <<phase, rule>>
    BY <1>3 DEF SyncBegin, SyncRelock, SyncTurn, engine
  <2>. QED BY <2>1 DEF Linked
<1>4. ASSUME \/ \E m \in Matches : RecvForward(m)
             \/ \E r \in Rules : CreateCheck(r) \/ CreateFail(r)
             \/ \E c \in Conns : DebugRead(c)
             \/ \E on \in BOOLEAN : RegisterCallback(on)
             \/ \E d \in Devs \cup {AllDevs}, u \in BOOLEAN : TeardownBegin(d, u)
             \/ TeardownEnd
             \/ \E d \in Devs : DeviceFree(d)
             \/ TimerStart \/ SyncDeliver \/ Tick \/ UNCHANGED vars
      PROVE  Linked' \subseteq Linked /\ \A b \in Linked' : rule'[b] = rule[b]
  <2>1. UNCHANGED <<phase, rule>>
    BY <1>4 DEF RecvForward, Queue, CreateCheck, CreateFail, DebugRead, RegisterCallback,
                TeardownBegin, TeardownEnd, DeviceFree, TimerStart, SyncDeliver, Tick,
                vars, engine
  <2>. QED BY <2>1 DEF Linked
<1>. QED
  BY <1>1, <1>2, <1>3, <1>4
     DEF Next, Timer, Teardown, RecvException, DestroyRule, TeardownRound, Matches

\* Only the rule that create_rule has just looked for, and not found, is new.
LEMMA TupleStep ==
  TypeOK /\ TablesAgree /\ OneConnectionPerTuple /\ [Next]_vars => OneConnectionPerTuple'
<1>. SUFFICES ASSUME TypeOK, TablesAgree, OneConnectionPerTuple, [Next]_vars
              PROVE  OneConnectionPerTuple'
  OBVIOUS
<1>1. CASE Linked' \subseteq Linked /\ \A c \in Linked' : rule'[c] = rule[c]
  BY <1>1 DEF OneConnectionPerTuple
<1>2. ASSUME NEW r \in Rules, NEW c \in Conns, CreateRule(r, c)
      PROVE  OneConnectionPerTuple'
  <2>1. /\ Linked' = Linked \cup {c} /\ c \notin Linked
        /\ rule'[c] = r /\ \A b \in Linked : rule'[b] = rule[b] /\ rule[b].orig # r.orig
    BY <1>2 DEF CreateRule, InsertConnection, Known, Linked, TypeOK
  <2>. QED BY <2>1 DEF OneConnectionPerTuple
<1>. QED BY <1>1, <1>2, LinkedStep

\* create_rule never installs a second connection for a tuple.
THEOREM TuplesStayUnique == Spec => []OneConnectionPerTuple
<1>1. Init => TypeOK /\ TablesAgree /\ OneConnectionPerTuple
  <2>1. Init => OneConnectionPerTuple
    BY DEF Init, OneConnectionPerTuple, Linked
  <2>. QED BY <2>1, InitTables
<1>2. TypeOK /\ TablesAgree /\ OneConnectionPerTuple /\ [Next]_vars
      => (TypeOK /\ TablesAgree /\ OneConnectionPerTuple)'
  BY TypeStep, TablesStep, TupleStep
<1>. QED BY <1>1, <1>2, PTL DEF Spec

\* The counters of a match only ever grow when the match is queued.
LEMMA CountedStep ==
  TypeOK /\ TablesAgree /\ CountedIsQueued /\ [Next]_vars => CountedIsQueued'
<1>. SUFFICES ASSUME TypeOK, TablesAgree, CountedIsQueued, [Next]_vars,
                     NEW b \in Linked', NEW d \in Dirs, count'[b][d] > 0
              PROVE  <<b, d>> \in Elems(active')
  BY DEF CountedIsQueued
<1>1. ASSUME b \in Linked, count'[b] = count[b], Elems(active) \subseteq Elems(active')
      PROVE  <<b, d>> \in Elems(active')
  BY <1>1 DEF CountedIsQueued
<1>2. ASSUME NEW c \in Conns, RemoveConnection(c), phase[c] = "linked"
      PROVE  <<b, d>> \in Elems(active')
  <2>1. /\ Linked' = Linked \ {c} /\ UNCHANGED count
        /\ Elems(active') = Elems(active) \ {<<c, "reply">>, <<c, "original">>}
    BY <1>2, RemoveTables DEF RemoveConnection
  <2>2. <<b, d>> \in Elems(active)
    BY <2>1 DEF CountedIsQueued
  <2>. QED BY <2>1, <2>2
<1>3. ASSUME NEW m \in Matches, RecvForward(m)  PROVE <<b, d>> \in Elems(active')
  <2>1. /\ Elems(active') = Elems(active) \cup {m} /\ m[1] \in Conns /\ m[2] \in Dirs
        /\ m = <<m[1], m[2]>>
    <3>1. active \in Seq(Matches)
      BY DEF TypeOK
    <3>2. Elems(Append(active, m)) = Elems(active) \cup {m}
      BY <3>1, AppendList
    <3>3. active' = IF m \in Elems(active) THEN active ELSE Append(active, m)
      BY <1>3 DEF RecvForward, Queue
    <3>. QED BY <3>2, <3>3 DEF Matches
  <2>2. b \in Linked /\ count' = [count EXCEPT ![m[1]][m[2]] = @ + 1]
    BY <1>3 DEF RecvForward, Queue, Linked
  <2>3. CASE b = m[1] /\ d = m[2]
    BY <2>1, <2>3
  <2>4. CASE ~(b = m[1] /\ d = m[2])
    <3>1. b \in Conns /\ count \in [Conns -> [Dirs -> 0 .. MaxCount]]
      BY <2>2 DEF Linked, TypeOK, Counts
    <3>2. count'[b][d] = count[b][d]
      BY <2>1, <2>2, <2>4, <3>1
    <3>. QED BY <2>1, <2>2, <3>2 DEF CountedIsQueued
  <2>. QED BY <2>3, <2>4
<1>4. ASSUME NEW m \in Matches, RecvException(m)  PROVE <<b, d>> \in Elems(active')
  BY <1>4, <1>2 DEF RecvException, FoundBy, Linked, Matches
<1>5. ASSUME NEW c \in Conns, Flush(c)  PROVE <<b, d>> \in Elems(active')
  <2>1. b \in Linked /\ b # c /\ UNCHANGED active
    BY <1>5 DEF Flush, FlushBegin, FlushSync, FlushRelease, Linked, TypeOK
  <2>2. count'[b] = count[b]
    BY <1>5, <2>1 DEF Flush, FlushBegin, FlushSync, FlushRelease, Linked, TypeOK
  <2>. QED BY <1>1, <2>1, <2>2
<1>6. ASSUME NEW r \in Rules, NEW c \in Conns, CreateRule(r, c)
      PROVE  <<b, d>> \in Elems(active')
  <2>1. UNCHANGED active /\ count' = [count EXCEPT ![c] = Zero] /\ phase' = [phase EXCEPT ![c] = "linked"]
    BY <1>6 DEF CreateRule, InsertConnection
  <2>2. b # c
    BY <2>1 DEF Linked, TypeOK, Zero
  <2>. QED BY <2>1, <2>2, <1>1 DEF Linked, TypeOK
<1>7. ASSUME NEW c \in Conns, DestroyRule(c)  PROVE <<b, d>> \in Elems(active')
  BY <1>7, <1>2 DEF DestroyRule
<1>8. ASSUME NEW c \in Conns, TeardownRound(c)  PROVE <<b, d>> \in Elems(active')
  BY <1>8, <1>2 DEF TeardownRound, TablesAgree, Elems, Linked
<1>9. ASSUME NEW c \in Conns, DebugRead(c)  PROVE <<b, d>> \in Elems(active')
  <2>1. UNCHANGED <<phase, active>> /\ count' = [count EXCEPT ![c] = Zero]
    BY <1>9 DEF DebugRead
  <2>2. b # c
    BY <2>1 DEF Linked, TypeOK, Zero
  <2>. QED BY <2>1, <2>2, <1>1 DEF Linked, TypeOK
<1>10. ASSUME SyncBegin \/ SyncRelock  PROVE <<b, d>> \in Elems(active')
  <2>1. PICK q \in Nat : SyncTurn(q)
    BY <1>10, SyncQuotaType DEF SyncBegin, SyncRelock, TypeOK, Timers
  <2>2. b \in Linked
    BY <2>1, SyncTurnTables DEF Linked
  <2>3. CASE UNCHANGED engine
    BY <2>2, <2>3, <1>1 DEF engine
  <2>4. ASSUME NEW c \in Linked, Elems(active') = Elems(active) \ ({c} \X Dirs),
               count' = [count EXCEPT ![c] = Zero]
        PROVE  <<b, d>> \in Elems(active')
    <3>1. b # c
      BY <2>4 DEF Linked, TypeOK, Zero
    <3>2. count'[b] = count[b]
      BY <2>2, <2>4, <3>1 DEF Linked, TypeOK
    <3>3. <<b, d>> \in Elems(active)
      BY <2>2, <3>2 DEF CountedIsQueued
    <3>. QED BY <2>4, <3>1, <3>3
  <2>. QED BY <2>1, <2>3, <2>4, SyncTurnTables
<1>11. ASSUME \/ \E r \in Rules : CreateCheck(r) \/ CreateFail(r)
              \/ \E on \in BOOLEAN : RegisterCallback(on)
              \/ \E e \in Devs \cup {AllDevs}, u \in BOOLEAN : TeardownBegin(e, u)
              \/ TeardownEnd
              \/ \E e \in Devs : DeviceFree(e)
              \/ TimerStart \/ SyncDeliver \/ Tick \/ UNCHANGED vars
       PROVE  <<b, d>> \in Elems(active')
  <2>1. UNCHANGED <<phase, count, active>>
    BY <1>11 DEF CreateCheck, CreateFail, RegisterCallback, TeardownBegin, TeardownEnd,
                 DeviceFree, TimerStart, SyncDeliver, Tick, vars, engine
  <2>. QED BY <2>1, <1>1 DEF Linked
<1>. QED
  BY <1>3, <1>4, <1>5, <1>6, <1>7, <1>8, <1>9, <1>10, <1>11 DEF Next, Timer, Teardown

\* Counted packets are always queued for the timer to report.
THEOREM CountedStaysQueued == Spec => []CountedIsQueued
<1>1. Init => TypeOK /\ TablesAgree /\ CountedIsQueued
  <2>1. Init => CountedIsQueued
    BY DEF Init, CountedIsQueued, Linked
  <2>. QED BY <2>1, InitTables
<1>2. TypeOK /\ TablesAgree /\ CountedIsQueued /\ [Next]_vars
      => (TypeOK /\ TablesAgree /\ CountedIsQueued)'
  BY TypeStep, TablesStep, CountedStep
<1>. QED BY <1>1, <1>2, PTL DEF Spec

-----------------------------------------------------------------------------
(* What is owed *)

\* A connection whose flush has told its counts, and a free slot, count nothing.
Settled == \A c \in Conns : phase[c] \in {"free", "releasing"} => count[c] = Zero

\* What the message of the timer carries for a slot.
InFlight(t, c) == IF t.msg.conn = c THEN t.msg.new ELSE Zero

\* What a slot owes, in terms of functions of counts.
LEMMA ToldOnceBy ==
  ToldOnce <=> \A c \in Conns, d \in Dirs : owed[c][d] = count[c][d] + InFlight(timer, c)[d]
<1>1. \A c \in Conns, d \in Dirs :
        InFlight(timer, c)[d] = IF timer.msg.conn = c THEN timer.msg.new[d] ELSE 0
  BY DEF InFlight, Zero
<1>. QED BY <1>1 DEF ToldOnce

\* Only live connections count.
LEMMA SettledStep == TypeOK /\ TablesAgree /\ Settled /\ [Next]_vars => Settled'
<1>. SUFFICES ASSUME TypeOK, TablesAgree, Settled, [Next]_vars,
                     NEW b \in Conns, phase'[b] \in {"free", "releasing"}
              PROVE  count'[b] = Zero
  BY DEF Settled
<1>1. ASSUME phase[b] = phase'[b], count'[b] = count[b]  PROVE count'[b] = Zero
  BY <1>1 DEF Settled
<1>2. ASSUME NEW c \in Conns, RemoveConnection(c)  PROVE count'[b] = Zero
  BY <1>2, <1>1 DEF RemoveConnection, TypeOK
<1>3. ASSUME NEW m \in Matches, RecvForward(m)  PROVE count'[b] = Zero
  <2>1. phase' = phase /\ m[1] \in Conns /\ phase[m[1]] = "linked"
    BY <1>3 DEF RecvForward, Queue, FoundBy, Linked, Matches
  <2>2. count'[b] = count[b]
    BY <1>3, <2>1 DEF RecvForward, Queue, TypeOK
  <2>. QED BY <2>1, <2>2, <1>1
<1>4. ASSUME NEW c \in Conns, Flush(c)  PROVE count'[b] = Zero
  <2>1. CASE b # c
    <3>1. phase'[b] = phase[b] /\ count'[b] = count[b]
      BY <1>4, <2>1 DEF Flush, FlushBegin, FlushSync, FlushRelease, TypeOK
    <3>. QED BY <3>1, <1>1
  <2>2. CASE b = c
    <3>1. CASE FlushBegin(c)
      BY <2>2, <3>1 DEF FlushBegin, TypeOK
    <3>2. CASE FlushSync(c)
      BY <2>2, <3>2 DEF FlushSync, TypeOK
    <3>3. CASE FlushRelease(c)
      BY <2>2, <3>3 DEF FlushRelease, TypeOK, Settled
    <3>. QED BY <1>4, <3>1, <3>2, <3>3 DEF Flush
  <2>. QED BY <2>1, <2>2
<1>5. ASSUME NEW r \in Rules, NEW c \in Conns, CreateRule(r, c)  PROVE count'[b] = Zero
  <2>1. b # c /\ phase'[b] = phase[b] /\ count'[b] = count[b]
    BY <1>5 DEF CreateRule, InsertConnection, TypeOK
  <2>. QED BY <2>1, <1>1
<1>6. ASSUME NEW c \in Conns, DebugRead(c)  PROVE count'[b] = Zero
  <2>1. phase'[b] = phase[b] /\ (count'[b] = count[b] \/ count'[b] = Zero)
    BY <1>6 DEF DebugRead, TypeOK
  <2>. QED BY <2>1, <1>1
<1>7. ASSUME SyncBegin \/ SyncRelock  PROVE count'[b] = Zero
  <2>1. phase' = phase /\ (count'[b] = count[b] \/ count'[b] = Zero)
    BY <1>7 DEF SyncBegin, SyncRelock, SyncTurn, engine, TypeOK
  <2>. QED BY <2>1, <1>1
<1>8. ASSUME \/ \E r \in Rules : CreateCheck(r) \/ CreateFail(r)
             \/ \E on \in BOOLEAN : RegisterCallback(on)
             \/ \E e \in Devs \cup {AllDevs}, u \in BOOLEAN : TeardownBegin(e, u)
             \/ TeardownEnd
             \/ \E e \in Devs : DeviceFree(e)
             \/ TimerStart \/ SyncDeliver \/ Tick \/ UNCHANGED vars
      PROVE  count'[b] = Zero
  <2>1. UNCHANGED <<phase, count>>
    BY <1>8 DEF CreateCheck, CreateFail, RegisterCallback, TeardownBegin, TeardownEnd,
                DeviceFree, TimerStart, SyncDeliver, Tick, vars, engine
  <2>. QED BY <2>1, <1>1
<1>. QED
  BY <1>2, <1>3, <1>4, <1>5, <1>6, <1>7, <1>8
     DEF Next, Timer, Teardown, RecvException, DestroyRule, TeardownRound, Matches

\* A message moves counts from a slot to the timer, its delivery settles them;
\* the reuse of a slot finds nothing counted, and changes nothing in flight.
LEMMA ToldStep ==
  ASSUME DebugReads = FALSE
  PROVE  TypeOK /\ TablesAgree /\ Settled /\ ToldOnce /\ [Next]_vars => ToldOnce'
<1>. SUFFICES ASSUME TypeOK, TablesAgree, Settled, ToldOnce, [Next]_vars,
                     NEW b \in Conns, NEW d \in Dirs
              PROVE  owed'[b][d] = count'[b][d] + InFlight(timer', b)[d]
  BY ToldOnceBy DEF ToldOnce, InFlight, Zero
<1>. DEFINE Goal == owed'[b][d] = count'[b][d] + InFlight(timer', b)[d]
<1>0. /\ owed[b][d] = count[b][d] + InFlight(timer, b)[d]
      /\ owed[b][d] \in Int /\ count[b][d] \in Nat /\ InFlight(timer, b)[d] \in Nat
      /\ Zero[d] = 0
  <2>1. InFlight(timer, b) \in Counts
    BY IdleType DEF TypeOK, Timers, Msgs, InFlight
  <2>. QED BY <2>1, ToldOnceBy DEF TypeOK, Counts, Zero
<1>1. ASSUME owed'[b] = owed[b], count'[b] = count[b], timer'.msg = timer.msg  PROVE Goal
  BY <1>0, <1>1 DEF InFlight
<1>2. ASSUME NEW m \in Matches, RecvForward(m)  PROVE Goal
  <2>1. /\ m[1] \in Conns /\ m[2] \in Dirs
        /\ count' = [count EXCEPT ![m[1]][m[2]] = @ + 1]
        /\ owed' = [owed EXCEPT ![m[1]][m[2]] = @ + 1] /\ timer' = timer
    BY <1>2 DEF RecvForward, Queue, Matches
  <2>2. CASE b = m[1] /\ d = m[2]
    <3>1. count'[b][d] = count[b][d] + 1
      BY <2>1, <2>2 DEF TypeOK, Counts
    <3>2. owed'[b][d] = owed[b][d] + 1
      BY <2>1, <2>2 DEF TypeOK
    <3>. QED BY <3>1, <3>2, <2>1, <1>0
  <2>3. CASE ~(b = m[1] /\ d = m[2])
    <3>1. count'[b][d] = count[b][d]
      BY <2>1, <2>3 DEF TypeOK, Counts
    <3>2. owed'[b][d] = owed[b][d]
      BY <2>1, <2>3 DEF TypeOK
    <3>. QED BY <3>1, <3>2, <2>1, <1>0
  <2>. QED BY <2>2, <2>3
<1>3. ASSUME NEW c \in Conns, RemoveConnection(c), UNCHANGED <<owed, timer>>  PROVE Goal
  BY <1>3, <1>1 DEF RemoveConnection
<1>4. ASSUME NEW c \in Conns, FlushBegin(c)  PROVE Goal
  <2>1. CASE callback \/ b # c
    <3>1. owed'[b] = owed[b] /\ count'[b] = count[b] /\ timer' = timer
      BY <1>4, <2>1 DEF FlushBegin, TypeOK
    <3>. QED BY <3>1, <1>1
  <2>2. CASE ~callback /\ b = c
    <3>1. /\ owed' = [owed EXCEPT ![b] = Less(@, count[b])]
          /\ count' = [count EXCEPT ![b] = Zero] /\ timer' = timer
      BY <1>4, <2>2 DEF FlushBegin
    <3>2. count'[b] = Zero /\ owed'[b] = Less(owed[b], count[b])
      BY <3>1 DEF TypeOK
    <3>3. owed'[b][d] = owed[b][d] - count[b][d]
      BY <3>2 DEF Less
    <3>. QED BY <3>1, <3>2, <3>3, <1>0
  <2>. QED BY <2>1, <2>2
<1>5. ASSUME NEW c \in Conns, FlushSync(c)  PROVE Goal
  <2>1. /\ owed' = [owed EXCEPT ![c] = Less(@, count[c])]
        /\ count' = [count EXCEPT ![c] = Zero] /\ timer' = timer
    BY <1>5 DEF FlushSync, SyncMessage
  <2>2. CASE b = c
    <3>1. count'[b] = Zero /\ owed'[b] = Less(owed[b], count[b])
      BY <2>1, <2>2 DEF TypeOK
    <3>2. owed'[b][d] = owed[b][d] - count[b][d]
      BY <3>1 DEF Less
    <3>. QED BY <3>1, <3>2, <2>1, <1>0
  <2>3. CASE b # c
    BY <2>1, <2>3, <1>1 DEF TypeOK
  <2>. QED BY <2>2, <2>3
<1>6. ASSUME NEW c \in Conns, FlushRelease(c)  PROVE Goal
  BY <1>6, <1>1 DEF FlushRelease
<1>7. ASSUME NEW r \in Rules, NEW c \in Conns, CreateRule(r, c)  PROVE Goal
  <2>1. /\ count' = [count EXCEPT ![c] = Zero] /\ phase[c] = "free"
        /\ UNCHANGED <<owed, timer>>
    BY <1>7 DEF CreateRule, InsertConnection
  <2>2. count'[b] = count[b]
    BY <2>1 DEF Settled, TypeOK
  <2>. QED BY <2>1, <2>2, <1>1
<1>8. ASSUME SyncBegin \/ SyncRelock  PROVE Goal
  <2>1. PICK q \in Nat : SyncTurn(q)
    BY <1>8, SyncQuotaType DEF SyncBegin, SyncRelock, TypeOK, Timers
  <2>2. timer.msg.conn = None /\ owed' = owed
    BY <1>8 DEF SyncBegin, SyncRelock, TypeOK
  <2>3. InFlight(timer, b)[d] = 0
    BY <2>2, <1>0 DEF InFlight
  <2>4. CASE timer' = IdleTimer /\ UNCHANGED engine
    <3>1. InFlight(timer', b)[d] = 0 /\ count' = count
      BY <2>4, <1>0, IdleType DEF InFlight, engine
    <3>. QED BY <3>1, <2>2, <2>3, <1>0
  <2>5. ASSUME NEW c \in Linked, count' = [count EXCEPT ![c] = Zero],
               timer'.msg = SyncMessage(c, timer.now)
        PROVE  Goal
    <3>1. timer'.msg.conn = c /\ timer'.msg.new = count[c] /\ c \in Conns
      BY <2>5 DEF SyncMessage, Linked
    <3>2. CASE b = c
      <4>1. InFlight(timer', b)[d] = count[b][d] /\ count'[b][d] = 0
        BY <2>5, <3>1, <3>2, <1>0 DEF InFlight, TypeOK
      <4>. QED BY <4>1, <2>2, <2>3, <1>0
    <3>3. CASE b # c
      <4>1. InFlight(timer', b)[d] = 0 /\ count'[b][d] = count[b][d]
        BY <2>5, <3>1, <3>3, <1>0 DEF InFlight, TypeOK
      <4>. QED BY <4>1, <2>2, <2>3, <1>0
    <3>. QED BY <3>2, <3>3
  <2>. QED BY <2>1, <2>4, <2>5, SyncTurnTables
<1>9. CASE SyncDeliver
  <2>. DEFINE c == timer.msg.conn
  <2>1. /\ timer.msg \in Msgs /\ c \in Conns /\ count' = count
        /\ owed' = [owed EXCEPT ![c] = Less(@, timer.msg.new)]
    BY <1>9 DEF SyncDeliver, TypeOK, Timers, Msgs, engine
  <2>2. InFlight(timer', b)[d] = 0
    <3>1. timer'.msg = NoMsg
      BY <1>9 DEF SyncDeliver, TypeOK, Timers
    <3>. QED BY <3>1, <1>0, IdleType DEF InFlight
  <2>. HIDE DEF c
  <2>3. CASE b = c
    <3>1. owed'[b] = Less(owed[b], timer.msg.new)
      BY <2>1, <2>3 DEF TypeOK
    <3>2. owed'[b][d] = owed[b][d] - timer.msg.new[d]
      BY <3>1 DEF Less
    <3>3. InFlight(timer, b)[d] = timer.msg.new[d]
      BY <2>3 DEF InFlight, c
    <3>. QED BY <3>2, <3>3, <2>1, <2>2, <1>0
  <2>4. CASE b # c
    <3>1. InFlight(timer, b)[d] = 0
      BY <2>4, <1>0 DEF InFlight, c
    <3>2. owed'[b] = owed[b]
      BY <2>1, <2>4 DEF TypeOK
    <3>. QED BY <3>1, <3>2, <2>1, <2>2, <1>0
  <2>. QED BY <2>3, <2>4
<1>10. CASE TimerStart
  <2>1. timer.msg.conn = None /\ timer'.msg = NoMsg /\ UNCHANGED <<owed, count>>
    BY <1>10, IdleType DEF TimerStart, TypeOK, engine, IdleTimer
  <2>2. InFlight(timer, b)[d] = 0 /\ InFlight(timer', b)[d] = 0
    BY <2>1, <1>0, IdleType DEF InFlight
  <2>. QED BY <2>1, <2>2, <1>0
<1>11. ASSUME \/ \E r \in Rules : CreateCheck(r) \/ CreateFail(r)
              \/ \E on \in BOOLEAN : RegisterCallback(on)
              \/ \E e \in Devs \cup {AllDevs}, u \in BOOLEAN : TeardownBegin(e, u)
              \/ TeardownEnd
              \/ \E e \in Devs : DeviceFree(e)
              \/ Tick \/ UNCHANGED vars
       PROVE  Goal
  <2>1. UNCHANGED <<owed, count, timer>>
    BY <1>11 DEF CreateCheck, CreateFail, RegisterCallback, TeardownBegin, TeardownEnd,
                 DeviceFree, Tick, vars, engine
  <2>. QED BY <2>1, <1>1
<1>12. ASSUME NEW c \in Conns, DebugRead(c)  PROVE FALSE
  BY <1>12 DEF DebugRead
<1>. QED
  BY <1>2, <1>3, <1>4, <1>5, <1>6, <1>7, <1>8, <1>9, <1>10, <1>11, <1>12
     DEF Next, Flush, Timer, Teardown, RecvException, DestroyRule, TeardownRound, Matches

\* While nobody reads the debug device, every forwarded packet is told exactly
\* once, whatever the timer, flushes, callbacks and slot reuse do in between.
THEOREM EveryPacketToldOnce ==
  ASSUME DebugReads = FALSE
  PROVE  Spec => []ToldOnce
<1>1. Init => TypeOK /\ TablesAgree /\ Settled /\ ToldOnce
  <2>1. Init => Settled /\ ToldOnce
    BY IdleType DEF Init, Settled, ToldOnce, Zero
  <2>. QED BY <2>1, InitTables
<1>2. TypeOK /\ TablesAgree /\ Settled /\ ToldOnce /\ [Next]_vars
      => (TypeOK /\ TablesAgree /\ Settled /\ ToldOnce)'
  BY TypeStep, TablesStep, SettledStep, ToldStep
<1>. QED BY <1>1, <1>2, PTL DEF Spec

-----------------------------------------------------------------------------
(* References *)

\* The users of a device are finitely many.
LEMMA UsersFinite ==
  ASSUME TypeOK, NEW d
  PROVE  /\ IsFiniteSet(ConnsFrom(d)) /\ IsFiniteSet(ConnsTo(d))
         /\ IsFiniteSet(CallersFrom(d)) /\ IsFiniteSet(CallersTo(d))
         /\ Cardinality(ConnsFrom(d)) \in Nat /\ Cardinality(ConnsTo(d)) \in Nat
         /\ Cardinality(CallersFrom(d)) \in Nat /\ Cardinality(CallersTo(d)) \in Nat
<1>1. /\ ConnsFrom(d) \in SUBSET Conns /\ ConnsTo(d) \in SUBSET Conns
      /\ CallersFrom(d) \in SUBSET Rules /\ CallersTo(d) \in SUBSET Rules
  BY DEF ConnsFrom, ConnsTo, CallersFrom, CallersTo, Live, TypeOK
<1>. QED BY <1>1, FiniteAssumption, FS_Subset, FS_CardinalityType

\* Adding a user adds one to the number of users.
LEMMA UserAdded ==
  ASSUME NEW S, IsFiniteSet(S), NEW x, x \notin S, NEW P \in BOOLEAN
  PROVE  Cardinality(IF P THEN S \cup {x} ELSE S) = Cardinality(S) + (IF P THEN 1 ELSE 0)
<1>1. Cardinality(S) \in Nat /\ Cardinality(S \cup {x}) = Cardinality(S) + 1
  BY FS_AddElement, FS_CardinalityType
<1>. QED BY <1>1

\* Removing a user subtracts one, and removing another thing nothing.
LEMMA UserRemoved ==
  ASSUME NEW S, IsFiniteSet(S), NEW x, NEW P \in BOOLEAN, P <=> x \in S
  PROVE  Cardinality(S \ {x}) = Cardinality(S) - (IF P THEN 1 ELSE 0)
<1>1. /\ Cardinality(S) \in Nat
      /\ Cardinality(S \ {x}) = IF x \in S THEN Cardinality(S) - 1 ELSE Cardinality(S)
  BY FS_RemoveElement, FS_CardinalityType
<1>. QED BY <1>1

\* What the actions that neither take nor drop references leave alone.
LEMMA RefsFrame ==
  ASSUME TypeOK, TablesAgree, [Next]_vars
  PROVE  \/ UNCHANGED <<refs, creating>> /\ Live' = Live /\ \A c \in Live : rule'[c] = rule[c]
         \/ \E c \in Conns : FlushRelease(c)
         \/ \E r \in Rules : CreateCheck(r) \/ CreateFail(r)
         \/ \E r \in Rules, c \in Conns : CreateRule(r, c)
<1>. DEFINE Frame == UNCHANGED <<refs, creating>> /\ Live' = Live /\ \A c \in Live : rule'[c] = rule[c]
<1>1. ASSUME NEW c \in Conns, RemoveConnection(c), UNCHANGED <<refs, creating>>, phase[c] = "linked"
      PROVE  Frame
  BY <1>1 DEF RemoveConnection, Live, TypeOK
<1>2. ASSUME NEW m \in Matches, RecvException(m)  PROVE Frame
  BY <1>1, <1>2 DEF RecvException, FoundBy, Linked, Matches
<1>3. ASSUME NEW c \in Conns, TeardownRound(c)  PROVE Frame
  BY <1>1, <1>3 DEF TeardownRound, TablesAgree, Elems, Linked
<1>4. ASSUME NEW c \in Conns, DestroyRule(c)  PROVE Frame
  BY <1>1, <1>4 DEF DestroyRule
<1>5. ASSUME NEW c \in Conns, FlushBegin(c) \/ FlushSync(c)  PROVE Frame
  BY <1>5 DEF FlushBegin, FlushSync, Live, TypeOK
<1>6. ASSUME \/ \E m \in Matches : RecvForward(m)
             \/ \E c \in Conns : DebugRead(c)
             \/ \E on \in BOOLEAN : RegisterCallback(on)
             \/ \E e \in Devs \cup {AllDevs}, u \in BOOLEAN : TeardownBegin(e, u)
             \/ TeardownEnd
             \/ \E e \in Devs : DeviceFree(e)
             \/ Timer \/ Tick \/ UNCHANGED vars
      PROVE  Frame
  <2>1. UNCHANGED <<refs, creating, phase, rule>>
    BY <1>6 DEF RecvForward, DebugRead, RegisterCallback, TeardownBegin, TeardownEnd, DeviceFree,
                Timer, TimerStart, SyncBegin, SyncTurn, SyncDeliver, SyncRelock, Tick, vars, engine
  <2>. QED BY <2>1 DEF Live
<1>. QED
  BY <1>2, <1>3, <1>4, <1>5, <1>6 DEF Next, Flush, Teardown

\* Every step takes and drops references with the users they are for.
LEMMA RefsStep == TypeOK /\ TablesAgree /\ RefsExact /\ [Next]_vars => RefsExact'
<1>. SUFFICES ASSUME TypeOK, TablesAgree, RefsExact, [Next]_vars, NEW d \in Devs
              PROVE  refs'[d] = Cardinality(ConnsFrom(d)') + Cardinality(ConnsTo(d)')
                                + Cardinality(CallersFrom(d)') + Cardinality(CallersTo(d)')
  BY DEF RefsExact
<1>. DEFINE One(P) == IF P THEN 1 ELSE 0
<1>0. /\ refs[d] = Cardinality(ConnsFrom(d)) + Cardinality(ConnsTo(d))
                   + Cardinality(CallersFrom(d)) + Cardinality(CallersTo(d))
      /\ refs[d] \in Int
  BY DEF RefsExact, TypeOK
<1>1. CASE UNCHANGED <<refs, creating>> /\ Live' = Live /\ \A c \in Live : rule'[c] = rule[c]
  <2>1. /\ ConnsFrom(d)' = ConnsFrom(d) /\ ConnsTo(d)' = ConnsTo(d)
        /\ CallersFrom(d)' = CallersFrom(d) /\ CallersTo(d)' = CallersTo(d)
    BY <1>1 DEF ConnsFrom, ConnsTo, CallersFrom, CallersTo
  <2>. QED BY <1>0, <1>1, <2>1
<1>2. ASSUME NEW c \in Conns, FlushRelease(c)
      PROVE  refs'[d] = Cardinality(ConnsFrom(d)') + Cardinality(ConnsTo(d)')
                        + Cardinality(CallersFrom(d)') + Cardinality(CallersTo(d)')
  <2>1. Live' = Live \ {c} /\ c \in Live /\ \A b \in Live' : rule'[b] = rule[b]
    BY <1>2 DEF FlushRelease, Live, TypeOK
  <2>2. /\ ConnsFrom(d)' = ConnsFrom(d) \ {c} /\ ConnsTo(d)' = ConnsTo(d) \ {c}
        /\ CallersFrom(d)' = CallersFrom(d) /\ CallersTo(d)' = CallersTo(d)
    BY <1>2, <2>1 DEF FlushRelease, ConnsFrom, ConnsTo, CallersFrom, CallersTo
  <2>3. /\ Cardinality(ConnsFrom(d)') = Cardinality(ConnsFrom(d)) - One(rule[c].src = d)
        /\ Cardinality(ConnsTo(d)') = Cardinality(ConnsTo(d)) - One(rule[c].dest = d)
    <3>1. (rule[c].src = d <=> c \in ConnsFrom(d)) /\ (rule[c].dest = d <=> c \in ConnsTo(d))
      BY <2>1 DEF ConnsFrom, ConnsTo
    <3>. QED BY <2>2, <3>1, UsersFinite, UserRemoved
  <2>4. refs'[d] = refs[d] - One(rule[c].src = d) - One(rule[c].dest = d)
    BY <1>2 DEF FlushRelease, Put
  <2>. QED BY <1>0, <2>2, <2>3, <2>4, UsersFinite
<1>3. ASSUME NEW r \in Rules, CreateCheck(r)
      PROVE  refs'[d] = Cardinality(ConnsFrom(d)') + Cardinality(ConnsTo(d)')
                        + Cardinality(CallersFrom(d)') + Cardinality(CallersTo(d)')
  <2>1. /\ ConnsFrom(d)' = ConnsFrom(d) /\ ConnsTo(d)' = ConnsTo(d)
        /\ CallersFrom(d)' = IF r.src = d THEN CallersFrom(d) \cup {r} ELSE CallersFrom(d)
        /\ CallersTo(d)' = IF r.dest = d THEN CallersTo(d) \cup {r} ELSE CallersTo(d)
        /\ r \notin CallersFrom(d) /\ r \notin CallersTo(d)
    BY <1>3 DEF CreateCheck, ConnsFrom, ConnsTo, CallersFrom, CallersTo, Live, engine
  <2>2. /\ Cardinality(CallersFrom(d)') = Cardinality(CallersFrom(d)) + One(r.src = d)
        /\ Cardinality(CallersTo(d)') = Cardinality(CallersTo(d)) + One(r.dest = d)
    BY <2>1, UsersFinite, UserAdded
  <2>3. refs'[d] = refs[d] + One(r.src = d) + One(r.dest = d)
    BY <1>3 DEF CreateCheck, Hold
  <2>. QED BY <1>0, <2>1, <2>2, <2>3, UsersFinite
<1>4. ASSUME NEW r \in Rules, CreateFail(r)
      PROVE  refs'[d] = Cardinality(ConnsFrom(d)') + Cardinality(ConnsTo(d)')
                        + Cardinality(CallersFrom(d)') + Cardinality(CallersTo(d)')
  <2>1. /\ ConnsFrom(d)' = ConnsFrom(d) /\ ConnsTo(d)' = ConnsTo(d)
        /\ CallersFrom(d)' = CallersFrom(d) \ {r} /\ CallersTo(d)' = CallersTo(d) \ {r}
        /\ r.src = d <=> r \in CallersFrom(d)
        /\ r.dest = d <=> r \in CallersTo(d)
    BY <1>4 DEF CreateFail, ConnsFrom, ConnsTo, CallersFrom, CallersTo, Live, engine
  <2>2. /\ Cardinality(CallersFrom(d)') = Cardinality(CallersFrom(d)) - One(r.src = d)
        /\ Cardinality(CallersTo(d)') = Cardinality(CallersTo(d)) - One(r.dest = d)
    BY <2>1, UsersFinite, UserRemoved
  <2>3. refs'[d] = refs[d] - One(r.src = d) - One(r.dest = d)
    BY <1>4 DEF CreateFail, Put
  <2>. QED BY <1>0, <2>1, <2>2, <2>3, UsersFinite
<1>5. ASSUME NEW r \in Rules, NEW c \in Conns, CreateRule(r, c)
      PROVE  refs'[d] = Cardinality(ConnsFrom(d)') + Cardinality(ConnsTo(d)')
                        + Cardinality(CallersFrom(d)') + Cardinality(CallersTo(d)')
  <2>1. /\ Live' = Live \cup {c} /\ c \notin Live /\ rule'[c] = r
        /\ \A b \in Live : rule'[b] = rule[b]
    BY <1>5 DEF CreateRule, InsertConnection, Live, TypeOK
  <2>2. /\ ConnsFrom(d)' = IF r.src = d THEN ConnsFrom(d) \cup {c} ELSE ConnsFrom(d)
        /\ ConnsTo(d)' = IF r.dest = d THEN ConnsTo(d) \cup {c} ELSE ConnsTo(d)
        /\ c \notin ConnsFrom(d) /\ c \notin ConnsTo(d)
    BY <2>1 DEF ConnsFrom, ConnsTo
  <2>3. /\ CallersFrom(d)' = CallersFrom(d) \ {r} /\ CallersTo(d)' = CallersTo(d) \ {r}
        /\ r.src = d <=> r \in CallersFrom(d)
        /\ r.dest = d <=> r \in CallersTo(d)
    BY <1>5 DEF CreateRule, CallersFrom, CallersTo
  <2>4. /\ Cardinality(ConnsFrom(d)') = Cardinality(ConnsFrom(d)) + One(r.src = d)
        /\ Cardinality(ConnsTo(d)') = Cardinality(ConnsTo(d)) + One(r.dest = d)
    BY <2>2, UsersFinite, UserAdded
  <2>5. /\ Cardinality(CallersFrom(d)') = Cardinality(CallersFrom(d)) - One(r.src = d)
        /\ Cardinality(CallersTo(d)') = Cardinality(CallersTo(d)) - One(r.dest = d)
    BY <2>3, UsersFinite, UserRemoved
  <2>6. refs' = refs
    BY <1>5, RefsType DEF CreateRule
  <2>. QED BY <1>0, <2>4, <2>5, <2>6, UsersFinite
<1>. QED BY <1>1, <1>2, <1>3, <1>4, <1>5, RefsFrame

\* A device without references has no user left.
LEMMA NoRefsNoUser ==
  ASSUME TypeOK, RefsExact, NEW d \in Devs, refs[d] = 0
  PROVE  /\ \A c \in Live : rule[c].src # d /\ rule[c].dest # d
         /\ \A r \in creating : r.src # d /\ r.dest # d
<1>1. /\ Cardinality(ConnsFrom(d)) = 0 /\ Cardinality(ConnsTo(d)) = 0
      /\ Cardinality(CallersFrom(d)) = 0 /\ Cardinality(CallersTo(d)) = 0
  BY UsersFinite DEF RefsExact
<1>2. /\ ConnsFrom(d) = {} /\ ConnsTo(d) = {}
      /\ CallersFrom(d) = {} /\ CallersTo(d) = {}
  BY <1>1, UsersFinite, FS_EmptySet
<1>. QED BY <1>2 DEF ConnsFrom, ConnsTo, CallersFrom, CallersTo

\* Only a device without users is freed, and no freed device gets a user.
LEMMA OutliveStep ==
  TypeOK /\ TablesAgree /\ RefsExact /\ DevicesOutliveUse /\ [Next]_vars => DevicesOutliveUse'
<1>. SUFFICES ASSUME TypeOK, TablesAgree, RefsExact, DevicesOutliveUse, [Next]_vars
              PROVE  DevicesOutliveUse'
  OBVIOUS
<1>1. ASSUME NEW d \in Devs, DeviceFree(d)  PROVE DevicesOutliveUse'
  <2>1. /\ UNCHANGED <<phase, rule, creating>> /\ refs[d] = 0
        /\ \A e \in Devs : e # d => reg'[e] = reg[e]
    BY <1>1 DEF DeviceFree, engine, TypeOK
  <2>2. \A c \in Live : rule[c].src \in Devs /\ rule[c].dest \in Devs
    BY DEF TypeOK
  <2>3. \A r \in creating : r.src \in Devs /\ r.dest \in Devs
    BY DEF TypeOK
  <2>. QED BY <2>1, <2>2, <2>3, NoRefsNoUser DEF DevicesOutliveUse, Live
<1>2. CASE TeardownEnd
  <2>1. /\ UNCHANGED <<phase, rule, creating>>
        /\ \A e \in Devs : reg'[e] = "freed" => reg[e] = "freed"
    BY <1>2 DEF TeardownEnd, engine, TypeOK
  <2>2. \A c \in Live : rule[c].src \in Devs /\ rule[c].dest \in Devs
    BY DEF TypeOK
  <2>3. \A r \in creating : r.src \in Devs /\ r.dest \in Devs
    BY DEF TypeOK
  <2>. QED BY <2>1, <2>2, <2>3 DEF DevicesOutliveUse, Live
<1>3. ASSUME UNCHANGED <<reg, creating>>, Live' = Live, \A c \in Live : rule'[c] = rule[c]
      PROVE  DevicesOutliveUse'
  BY <1>3 DEF DevicesOutliveUse
<1>4. ASSUME NEW c \in Conns, FlushRelease(c)  PROVE DevicesOutliveUse'
  <2>1. /\ UNCHANGED <<reg, creating>> /\ Live' = Live \ {c}
        /\ \A b \in Live' : rule'[b] = rule[b]
    BY <1>4 DEF FlushRelease, Live, TypeOK
  <2>. QED BY <2>1 DEF DevicesOutliveUse
<1>5. ASSUME NEW r \in Rules, CreateCheck(r)  PROVE DevicesOutliveUse'
  <2>1. /\ UNCHANGED <<reg, phase, rule>> /\ creating' = creating \cup {r}
        /\ reg[r.src] = "registered" /\ reg[r.dest] = "registered"
    BY <1>5 DEF CreateCheck, engine
  <2>. QED BY <2>1 DEF DevicesOutliveUse, Live
<1>6. ASSUME NEW r \in Rules, CreateFail(r)  PROVE DevicesOutliveUse'
  BY <1>6 DEF CreateFail, engine, DevicesOutliveUse, Live
<1>7. ASSUME NEW r \in Rules, NEW c \in Conns, CreateRule(r, c)  PROVE DevicesOutliveUse'
  <2>1. /\ UNCHANGED reg /\ r \in creating /\ creating' = creating \ {r} /\ phase[c] = "free"
    BY <1>7 DEF CreateRule
  <2>2. /\ phase' = [phase EXCEPT ![c] = "linked"]
        /\ rule' = [rule EXCEPT ![c] = r]
    BY <1>7 DEF CreateRule, InsertConnection
  <2>3. DOMAIN phase = Conns /\ DOMAIN rule = Conns
    BY DEF TypeOK
  <2>4. Live' = Live \cup {c} /\ c \notin Live
    BY <2>1, <2>2, <2>3 DEF Live
  <2>5. rule'[c] = r /\ \A b \in Live : rule'[b] = rule[b]
    BY <2>2, <2>3, <2>4 DEF Live
  <2>. QED BY <2>1, <2>4, <2>5 DEF DevicesOutliveUse
<1>8. ASSUME ~(\E d \in Devs : DeviceFree(d)), ~TeardownEnd
      PROVE  \/ UNCHANGED reg
             \/ \E r \in Rules, c \in Conns : CreateRule(r, c)
  BY <1>8 DEF Next, Flush, Timer, Teardown, RecvForward, RecvException, FlushBegin, FlushSync,
              FlushRelease, CreateCheck, CreateFail, DestroyRule, DebugRead, RegisterCallback,
              TeardownBegin, TeardownRound, TimerStart, SyncBegin, SyncDeliver, SyncRelock, Tick,
              vars
<1>. QED BY <1>1, <1>2, <1>3, <1>4, <1>5, <1>6, <1>7, <1>8, RefsFrame

\* References are never leaked nor dropped twice, and so a device, which the
\* kernel frees when it has none, outlives every connection that points to it.
THEOREM ReferencesProtect == Spec => [](RefsExact /\ DevicesOutliveUse)
<1>. DEFINE Inv == TypeOK /\ TablesAgree /\ RefsExact /\ DevicesOutliveUse
<1>1. Init => Inv
  <2>. SUFFICES ASSUME Init  PROVE RefsExact /\ DevicesOutliveUse
    BY InitTables
  <2>1. Live = {} /\ creating = {} /\ \A d \in Devs : refs[d] = 0
    BY DEF Init, Live
  <2>2. \A d \in Devs : /\ ConnsFrom(d) = {} /\ ConnsTo(d) = {}
                        /\ CallersFrom(d) = {} /\ CallersTo(d) = {}
    BY <2>1 DEF ConnsFrom, ConnsTo, CallersFrom, CallersTo
  <2>3. ASSUME NEW d \in Devs
        PROVE  refs[d] = Cardinality(ConnsFrom(d)) + Cardinality(ConnsTo(d))
                         + Cardinality(CallersFrom(d)) + Cardinality(CallersTo(d))
    <3>1. /\ Cardinality(ConnsFrom(d)) = 0 /\ Cardinality(ConnsTo(d)) = 0
          /\ Cardinality(CallersFrom(d)) = 0 /\ Cardinality(CallersTo(d)) = 0
      BY <2>2, FS_EmptySet
    <3>. QED BY <2>1, <3>1
  <2>4. RefsExact
    BY <2>3 DEF RefsExact
  <2>. QED BY <2>1, <2>4 DEF DevicesOutliveUse
<1>2. Inv /\ [Next]_vars => Inv'
  BY TypeStep, TablesStep, RefsStep, OutliveStep
<1>. QED BY <1>1, <1>2, PTL DEF Spec

-----------------------------------------------------------------------------
(* Time *)

\* Credit of a message whose increment is taken modulo the range of the clock
\* brings a connection exactly to the time of the message.
LEMMA CreditCatchesUp ==
  ASSUME NEW now \in 0 .. MaxJiffies, NEW last \in 0 .. MaxJiffies
  PROVE  (last + ((now - last) % JiffiesRange)) % JiffiesRange = now
<1>1. JiffiesRange \in Nat /\ JiffiesRange > 0 /\ now < JiffiesRange /\ last < JiffiesRange
  OBVIOUS
<1>2. CASE now >= last
  <2>1. (now - last) % JiffiesRange = now - last
    BY <1>1, <1>2
  <2>. QED BY <1>1, <1>2, <2>1
<1>3. CASE now < last
  <2>1. (now - last) % JiffiesRange = now - last + JiffiesRange
    BY <1>1, <1>3
  <2>2. (now + JiffiesRange) % JiffiesRange = now
    BY <1>1
  <2>. QED BY <1>1, <1>3, <2>1, <2>2
<1>. QED BY <1>1, <1>2, <1>3

\* Each message credits a connection with the time since its last one.
LEMMA IncrementsStep == TypeOK /\ TablesAgree /\ IncrementsAddUp /\ [Next]_vars => IncrementsAddUp'
<1>. SUFFICES ASSUME TypeOK, TablesAgree, IncrementsAddUp, [Next]_vars, NEW b \in Conns
              PROVE  credited'[b] = lastSync'[b]
  BY DEF IncrementsAddUp
<1>0. credited[b] = lastSync[b]
  BY DEF IncrementsAddUp
<1>1. ASSUME NEW c \in Conns, NEW now \in 0 .. MaxJiffies,
             credited' = Credit(SyncMessage(c, now)), lastSync' = [lastSync EXCEPT ![c] = now]
      PROVE  credited'[b] = lastSync'[b]
  <2>1. credited' = [credited EXCEPT ![c] = (@ + ((now - lastSync[c]) % JiffiesRange)) % JiffiesRange]
    <3>. DEFINE msg == SyncMessage(c, now)
    <3>1. msg.conn = c /\ msg.delta = (now - lastSync[c]) % JiffiesRange
      BY DEF SyncMessage
    <3>. HIDE DEF msg
    <3>2. credited' = Credit(msg)
      BY <1>1 DEF msg
    <3>. QED BY <3>1, <3>2 DEF Credit
  <2>2. CASE b = c
    <3>1. lastSync[c] \in 0 .. MaxJiffies /\ lastSync'[b] = now
      BY <1>1, <2>2 DEF TypeOK
    <3>2. credited'[b] = (lastSync[c] + ((now - lastSync[c]) % JiffiesRange)) % JiffiesRange
      BY <2>1, <2>2, <1>0 DEF TypeOK
    <3>. QED BY <3>1, <3>2, CreditCatchesUp
  <2>3. CASE b # c
    BY <1>0, <1>1, <2>1, <2>3 DEF TypeOK
  <2>. QED BY <2>2, <2>3
<1>2. ASSUME NEW c \in Conns, FlushSync(c)  PROVE credited'[b] = lastSync'[b]
  <2>1. /\ jiffies \in 0 .. MaxJiffies
        /\ credited' = Credit(SyncMessage(c, jiffies)) /\ lastSync' = [lastSync EXCEPT ![c] = jiffies]
    BY <1>2 DEF FlushSync, TypeOK
  <2>. QED BY <2>1, <1>1
<1>3. ASSUME SyncBegin \/ SyncRelock  PROVE credited'[b] = lastSync'[b]
  <2>1. PICK q \in Nat : SyncTurn(q)
    BY <1>3, SyncQuotaType DEF SyncBegin, SyncRelock, TypeOK, Timers
  <2>2. CASE UNCHANGED engine
    BY <2>2, <1>0 DEF engine
  <2>3. ASSUME NEW c \in Linked, lastSync' = [lastSync EXCEPT ![c] = timer.now],
               credited' = Credit(SyncMessage(c, timer.now))
        PROVE  credited'[b] = lastSync'[b]
    <3>1. c \in Conns /\ timer.now \in 0 .. MaxJiffies
      BY DEF Linked, TypeOK, Timers
    <3>. QED BY <3>1, <2>3, <1>1
  <2>. QED BY <2>1, <2>2, <2>3, SyncTurnTables
<1>4. ASSUME NEW c \in Conns, FlushRelease(c)  PROVE credited'[b] = lastSync'[b]
  BY <1>0, <1>4 DEF FlushRelease, TypeOK
<1>5. ASSUME NEW r \in Rules, NEW c \in Conns, CreateRule(r, c)  PROVE credited'[b] = lastSync'[b]
  BY <1>0, <1>5 DEF CreateRule, InsertConnection, TypeOK
<1>6. ASSUME \/ \E m \in Matches : RecvForward(m) \/ RecvException(m)
             \/ \E c \in Conns : FlushBegin(c) \/ DestroyRule(c) \/ DebugRead(c) \/ TeardownRound(c)
             \/ \E r \in Rules : CreateCheck(r) \/ CreateFail(r)
             \/ \E on \in BOOLEAN : RegisterCallback(on)
             \/ \E e \in Devs \cup {AllDevs}, u \in BOOLEAN : TeardownBegin(e, u)
             \/ TeardownEnd
             \/ \E e \in Devs : DeviceFree(e)
             \/ TimerStart \/ SyncDeliver \/ Tick \/ UNCHANGED vars
      PROVE  credited'[b] = lastSync'[b]
  <2>1. UNCHANGED <<credited, lastSync>>
    BY <1>6 DEF RecvForward, Queue, RecvException, FlushBegin, DestroyRule, DebugRead, TeardownRound,
                RemoveConnection, CreateCheck, CreateFail, RegisterCallback, TeardownBegin,
                TeardownEnd, DeviceFree, TimerStart, SyncDeliver, Tick, vars, engine
  <2>. QED BY <2>1, <1>0
<1>. QED BY <1>2, <1>3, <1>4, <1>5, <1>6 DEF Next, Flush, Timer, Teardown

\* The increments of a connection's messages add up to the time that passed.
THEOREM IncrementsAlwaysAddUp == Spec => []IncrementsAddUp
<1>1. Init => TypeOK /\ TablesAgree /\ IncrementsAddUp
  <2>1. Init => IncrementsAddUp
    BY DEF Init, IncrementsAddUp
  <2>. QED BY <2>1, InitTables
<1>2. TypeOK /\ TablesAgree /\ IncrementsAddUp /\ [Next]_vars
      => (TypeOK /\ TablesAgree /\ IncrementsAddUp)'
  BY TypeStep, TablesStep, IncrementsStep
<1>. QED BY <1>1, <1>2, PTL DEF Spec

-----------------------------------------------------------------------------
(* The promise to the connection manager                                    *)

\* The timer holds a message only between making and delivering it, and the
\* time that it read is not in the future.
TimerInv ==
  /\ timer.pc # "deliver" => timer.msg = NoMsg
  /\ timer.now <= jiffies

\* The engine's idle values are those of the promise.
LEMMA SameIdle == Promise!Zero = Zero /\ Promise!NoMsg = NoMsg /\ Promise!Dirs = Dirs
  BY DEF Promise!Zero, Promise!NoMsg, Promise!Dirs, Zero, NoMsg, Dirs

\* The offloaded connections are the linked ones.
LEMMA SameOffloaded == TypeOK => Promise!Offloaded = Linked
  BY DEF Promise!Offloaded, Linked, State, StateOf, TypeOK, Phases

\* A connection that changes its phase changes its state.
LEMMA StateStep ==
  ASSUME TypeOK, NEW c \in Conns, NEW p, phase' = [phase EXCEPT ![c] = p]
  PROVE  State' = [State EXCEPT ![c] = StateOf(p)]
  BY DEF State, TypeOK

\* The steps that change nothing of what is promised.
LEMMA Stutter ==
  ASSUME State' = State, UNCHANGED <<rule, count, lastSync, timer, callback, jiffies>>
  PROVE  UNCHANGED Promise!offload
  BY DEF Promise!offload

\* TimerInv is inductive.
LEMMA TimerStep == TypeOK /\ TimerInv /\ [Next]_vars => TimerInv'
<1>. SUFFICES ASSUME TypeOK, TimerInv, [Next]_vars  PROVE TimerInv'
  OBVIOUS
<1>0. timer \in Timers /\ jiffies \in 0 .. MaxJiffies
  BY DEF TypeOK
<1>1. ASSUME timer' = timer, jiffies' = jiffies \/ jiffies' = jiffies + 1  PROVE TimerInv'
  BY <1>0, <1>1 DEF TimerInv, Timers
<1>2. CASE TimerStart
  BY <1>0, <1>2 DEF TimerStart, TimerInv, IdleTimer
<1>3. CASE SyncDeliver
  <2>1. timer'.msg = NoMsg /\ timer'.now = timer.now /\ jiffies' = jiffies
    BY <1>0, <1>3 DEF SyncDeliver, Timers, engine
  <2>. QED BY <2>1 DEF TimerInv
<1>4. CASE SyncBegin \/ SyncRelock
  <2>1. jiffies' = jiffies /\ \E q : SyncTurn(q)
    BY <1>4 DEF SyncBegin, SyncRelock
  <2>2. timer' = IdleTimer \/ (timer'.pc = "deliver" /\ timer'.now = timer.now)
    BY <1>0, <2>1 DEF SyncTurn, Timers
  <2>. QED BY <1>0, <2>1, <2>2 DEF TimerInv, IdleTimer
<1>5. ASSUME \/ \E m \in Matches : RecvForward(m) \/ RecvException(m)
             \/ \E c \in Conns : Flush(c) \/ DestroyRule(c) \/ DebugRead(c) \/ TeardownRound(c)
             \/ \E r \in Rules : CreateCheck(r) \/ CreateFail(r)
             \/ \E r \in Rules, c \in Conns : CreateRule(r, c)
             \/ \E on \in BOOLEAN : RegisterCallback(on)
             \/ \E d \in Devs \cup {AllDevs}, u \in BOOLEAN : TeardownBegin(d, u)
             \/ TeardownEnd \/ \E d \in Devs : DeviceFree(d)
             \/ Tick \/ UNCHANGED vars
      PROVE  TimerInv'
  <2>1. timer' = timer /\ (jiffies' = jiffies \/ jiffies' = jiffies + 1)
    BY <1>5 DEF RecvForward, RecvException, Flush, FlushBegin, FlushSync, FlushRelease,
                DestroyRule, DebugRead, TeardownRound, CreateCheck, CreateFail, CreateRule,
                RegisterCallback, TeardownBegin, TeardownEnd, DeviceFree, Tick, vars, engine
  <2>. QED BY <2>1, <1>1
<1>. QED BY <1>2, <1>3, <1>4, <1>5 DEF Next, Timer, Teardown

\* Whoever removes a linked connection closes it.
LEMMA RemoveCloses ==
  ASSUME TypeOK, NEW c \in Conns, phase[c] = "linked", RemoveConnection(c),
         UNCHANGED <<timer, callback, jiffies>>
  PROVE  Promise!Close(c)
<1>1. State' = [State EXCEPT ![c] = "closing"]
  BY StateStep DEF RemoveConnection, StateOf
<1>2. State[c] = "offloaded"
  BY DEF State, StateOf
<1>. QED BY <1>1, <1>2 DEF Promise!Close, RemoveConnection

\* The steps of a flush are the final message, or its loss, and the release.
LEMMA FlushImplements ==
  ASSUME TypeOK, NEW c \in Conns, Flush(c)
  PROVE  \/ Promise!Final(c) \/ Promise!Drop(c) \/ Promise!Release(c)
         \/ UNCHANGED Promise!offload
<1>1. CASE FlushBegin(c) /\ callback
  <2>1. State' = [State EXCEPT ![c] = "closing"] /\ State[c] = "closing"
    BY <1>1, StateStep DEF FlushBegin, State, StateOf
  <2>2. State' = State
    BY <2>1 DEF State
  <2>. QED BY <1>1, <2>2, Stutter DEF FlushBegin
<1>2. CASE FlushBegin(c) /\ ~callback
  <2>1. State' = [State EXCEPT ![c] = "closed"] /\ State[c] = "closing"
    BY <1>2, StateStep DEF FlushBegin, State, StateOf
  <2>. QED BY <1>2, <2>1, SameIdle DEF FlushBegin, Promise!Drop
<1>3. CASE FlushSync(c)
  <2>1. State' = [State EXCEPT ![c] = "closed"] /\ State[c] = "closing"
    BY <1>3, StateStep DEF FlushSync, State, StateOf
  <2>. QED BY <1>3, <2>1, SameIdle DEF FlushSync, ResetCounts, Promise!Final
<1>4. CASE FlushRelease(c)
  <2>1. State' = [State EXCEPT ![c] = "free"] /\ State[c] = "closed"
    BY <1>4, StateStep DEF FlushRelease, State, StateOf
  <2>. QED BY <1>4, <2>1 DEF FlushRelease, Promise!Release
<1>. QED BY <1>1, <1>2, <1>3, <1>4 DEF Flush

\* A turn of the timer reports a connection, or nothing.
LEMMA SyncTurnImplements ==
  ASSUME TypeOK, TablesAgree, TimerInv, NEW q \in Nat, SyncTurn(q),
         timer.pc # "deliver", UNCHANGED <<callback, jiffies>>
  PROVE  (\E c \in Conns, now \in 0 .. jiffies : Promise!Report(c, now))
         \/ UNCHANGED Promise!offload
<1>1. timer.msg = NoMsg /\ timer.now \in 0 .. jiffies /\ timer \in Timers
  BY DEF TimerInv, TypeOK, Timers
<1>2. UNCHANGED <<phase, rule, all>> /\ State' = State
  BY DEF SyncTurn, engine, State
<1>3. CASE timer' = IdleTimer /\ UNCHANGED engine
  <2>1. timer'.msg = timer.msg
    BY <1>1, <1>3 DEF IdleTimer
  <2>. QED BY <1>2, <1>3, <2>1 DEF Promise!offload, engine
<1>4. CASE ~(timer' = IdleTimer /\ UNCHANGED engine)
  <2>. DEFINE c == Head(active)[1]
  <2>1. /\ active # <<>>
        /\ timer' = [timer EXCEPT !.pc = "deliver", !.quota = q - 1,
                                  !.msg = SyncMessage(c, timer.now)]
        /\ count' = [count EXCEPT ![c] = Zero]
        /\ lastSync' = [lastSync EXCEPT ![c] = timer.now]
    BY <1>4 DEF SyncTurn, ResetCounts
  <2>2. c \in Linked
    <3>1. Head(active) \in Elems(active)
      BY <2>1 DEF Elems, TypeOK
    <3>. QED BY <3>1 DEF TablesAgree
  <2>. HIDE DEF c
  <2>3. timer'.msg = Promise!Message(c, timer.now)
    BY <1>1, <2>1 DEF Timers, SyncMessage, Promise!Message
  <2>4. c \in Conns /\ State[c] = "offloaded"
    BY <2>2 DEF Linked, State, StateOf
  <2>5. Promise!Report(c, timer.now)
    BY <1>1, <1>2, <2>1, <2>3, <2>4, SameIdle DEF Promise!Report
  <2>. QED BY <1>1, <2>4, <2>5
<1>. QED BY <1>3, <1>4

\* A packet that is forwarded is one that the engine promised to tell.
LEMMA ForwardImplements ==
  ASSUME TypeOK, NEW m \in Matches, RecvForward(m)
  PROVE  \E c \in Conns, d \in Dirs : Promise!Forward(c, d)
<1>1. m[1] \in Conns /\ m[2] \in Dirs /\ phase[m[1]] = "linked"
  BY DEF RecvForward, FoundBy, Linked, Matches
<1>2. State[m[1]] = "offloaded" /\ State' = State
  BY <1>1 DEF RecvForward, State, StateOf
<1>3. Promise!Forward(m[1], m[2])
  BY <1>2 DEF RecvForward, Promise!Forward
<1>. QED BY <1>1, <1>3

\* A rule that is created is a flow offloaded.
LEMMA CreateImplements ==
  ASSUME TypeOK, NEW r \in Rules, NEW c \in Conns, CreateRule(r, c)
  PROVE  Promise!Offload(c, r)
<1>1. State' = [State EXCEPT ![c] = "offloaded"] /\ State[c] = "free"
  BY StateStep DEF CreateRule, InsertConnection, State, StateOf
<1>2. \A b \in Promise!Offloaded : TupleOf[rule[b]] # TupleOf[r]
  BY SameOffloaded DEF CreateRule, Known, TupleOf, Linked, Live, TypeOK
<1>. QED BY <1>1, <1>2, SameIdle DEF CreateRule, InsertConnection, Promise!Offload

\* Every step of the engine is a step of the promise, or a stutter.
LEMMA StepImplements ==
  ASSUME DebugReads = FALSE
  PROVE  TypeOK /\ TablesAgree /\ TimerInv /\ [Next]_vars => [Promise!Next]_(Promise!offload)
<1>. SUFFICES ASSUME TypeOK, TablesAgree, TimerInv, [Next]_vars
              PROVE  Promise!Next \/ UNCHANGED Promise!offload
  OBVIOUS
<1>1. ASSUME NEW m \in Matches, RecvForward(m)  PROVE Promise!Next
  BY <1>1, ForwardImplements, SameIdle DEF Promise!Next
<1>2. ASSUME NEW c \in Conns, phase[c] = "linked", RemoveConnection(c),
             UNCHANGED <<timer, callback, jiffies>>
      PROVE  Promise!Next
  BY <1>2, RemoveCloses DEF Promise!Next
<1>3. ASSUME NEW m \in Matches, RecvException(m)  PROVE Promise!Next
  BY <1>2, <1>3 DEF RecvException, FoundBy, Linked, Matches
<1>4. ASSUME NEW c \in Conns, DestroyRule(c)  PROVE Promise!Next
  BY <1>2, <1>4 DEF DestroyRule
<1>5. ASSUME NEW c \in Conns, TeardownRound(c)  PROVE Promise!Next
  BY <1>2, <1>5 DEF TeardownRound, TablesAgree, Elems, Linked
<1>6. ASSUME NEW c \in Conns, Flush(c)  PROVE Promise!Next \/ UNCHANGED Promise!offload
  BY <1>6, FlushImplements DEF Promise!Next
<1>7. ASSUME NEW r \in Rules, NEW c \in Conns, CreateRule(r, c)  PROVE Promise!Next
  BY <1>7, CreateImplements DEF Promise!Next
<1>8. ASSUME SyncBegin \/ SyncRelock  PROVE Promise!Next \/ UNCHANGED Promise!offload
  <2>1. PICK q \in Nat : SyncTurn(q)
    BY <1>8, SyncQuotaType DEF SyncBegin, SyncRelock, TypeOK, Timers
  <2>2. timer.pc # "deliver" /\ UNCHANGED <<callback, jiffies>>
    BY <1>8 DEF SyncBegin, SyncRelock
  <2>. QED BY <2>1, <2>2, SyncTurnImplements DEF Promise!Next
<1>9. CASE SyncDeliver
  <2>1. State' = State /\ timer.msg # NoMsg /\ timer'.msg = NoMsg
    BY <1>9, IdleType DEF SyncDeliver, TypeOK, Timers, State, engine
  <2>2. Promise!Deliver
    BY <1>9, <2>1, SameIdle DEF SyncDeliver, Promise!Deliver, engine
  <2>. QED BY <2>2 DEF Promise!Next
<1>10. CASE TimerStart
  <2>1. State' = State /\ timer.msg = NoMsg /\ timer'.msg = NoMsg
    BY <1>10 DEF TimerStart, TimerInv, IdleTimer, State, engine
  <2>. QED BY <1>10, <2>1 DEF TimerStart, Promise!offload, engine
<1>11. ASSUME NEW on \in BOOLEAN, RegisterCallback(on)  PROVE Promise!Next
  <2>1. Promise!Register(on)
    BY <1>11 DEF RegisterCallback, Promise!Register, State, engine
  <2>. QED BY <2>1 DEF Promise!Next
<1>12. CASE Tick
  <2>1. Promise!Tick
    BY <1>12 DEF Tick, Promise!Tick, State, engine
  <2>. QED BY <2>1 DEF Promise!Next
<1>13. ASSUME \/ \E r \in Rules : CreateCheck(r) \/ CreateFail(r)
              \/ \E d \in Devs \cup {AllDevs}, u \in BOOLEAN : TeardownBegin(d, u)
              \/ TeardownEnd \/ \E d \in Devs : DeviceFree(d)
              \/ UNCHANGED vars
       PROVE  UNCHANGED Promise!offload
  <2>1. UNCHANGED <<phase, rule, count, lastSync, timer, callback, jiffies>>
    BY <1>13 DEF CreateCheck, CreateFail, TeardownBegin, TeardownEnd, DeviceFree, vars, engine
  <2>2. State' = State
    BY <2>1 DEF State
  <2>. QED BY <2>1, <2>2, Stutter
<1>14. ASSUME NEW c \in Conns, DebugRead(c)  PROVE FALSE
  BY <1>14 DEF DebugRead
<1>. QED
  BY <1>1, <1>3, <1>4, <1>5, <1>6, <1>7, <1>8, <1>9, <1>10, <1>11, <1>12, <1>13, <1>14
     DEF Next, Timer, Teardown

\* While nobody reads the debug device, the engine keeps the promise that the
\* connection manager builds on.
THEOREM EngineImplements ==
  ASSUME DebugReads = FALSE
  PROVE  Spec => Implements
<1>1. Init => TypeOK /\ TablesAgree /\ TimerInv
  <2>1. Init => TimerInv
    BY DEF Init, TimerInv, IdleTimer
  <2>. QED BY <2>1, InitTables
<1>2. TypeOK /\ TablesAgree /\ TimerInv /\ [Next]_vars => (TypeOK /\ TablesAgree /\ TimerInv)'
  BY TypeStep, TablesStep, TimerStep
<1>3. Init => Promise!Init
  BY SameIdle DEF Init, Promise!Init, State, StateOf, IdleTimer
<1>. QED BY <1>1, <1>2, <1>3, StepImplements, PTL DEF Spec, Implements, Promise!Spec
=============================================================================
