---------------------------- MODULE SfeTcpWindow ----------------------------
(***************************************************************************)
(* TCP window tracking of the IPv4 engine, sfe_ipv4.c, and what the        *)
(* connection manager does with it, sfe_cm.c.  One established connection  *)
(* crosses the box.  The engine keeps for each direction the greatest      *)
(* window its sender advertised (maxWin), the end of what it sent (end)    *)
(* and the end of what it may send (maxEnd), in numbers that wrap; a       *)
(* packet outside takes the rule away.  conntrack keeps the same three:    *)
(* the rule starts from its values, and synchronisation brings them back.  *)
(*                                                                         *)
(* Both ends follow TCP: they send what was granted, retransmit, probe     *)
(* with una - 1, acknowledge selectively and never take a grant back.      *)
(* Their own numbers do not wrap here; "% M" is the header's.  The box     *)
(* reads each direction in order, on a processor of its own; a packet may  *)
(* be lost behind it.  Window scaling is done: a window is in bytes.       *)
(***************************************************************************)
EXTENDS Integers, Sequences, FiniteSetsExt

CONSTANTS
  None,
  M,          \* 2^32
  AckWindow,  \* SFE_IPV4_TCP_MAX_ACK_WINDOW
  First,      \* the first byte of either direction
  Bytes,      \* bound: how many bytes each direction carries
  MaxWin,     \* the greatest window an end advertises
  MaxLen,     \* the longest segment
  Slots,      \* bound: packets of a direction on their way to the box
  Dsack,      \* do the ends report duplicates in a SACK option (RFC 2883)?
  Padding     \* are short frames padded?  recv_tcp takes len from skb->len

Dirs == {"orig", "reply"}
Other(d) == IF d = "orig" THEN "reply" ELSE "orig"

ASSUME WindowAssumption ==
  /\ M \in Nat \ {0} /\ M % 2 = 0 /\ AckWindow \in Nat /\ First \in Nat
  /\ Bytes \in [Dirs -> Nat] /\ MaxWin \in Nat \ {0}
  /\ MaxLen \in Nat \ {0} /\ Slots \in Nat \ {0} /\ Dsack \in BOOLEAN /\ Padding \in BOOLEAN
  /\ None \notin Int \cup [Dirs -> [maxWin : Int, end : Int, maxEnd : Int]]

VARIABLES
  snd,      \* the sender of a direction: nxt, una and lim, how far it may send
  rcv,      \* its receiver: bytes got, edge granted, dup to report
  up,       \* its packets on their way to the box
  ct,       \* conntrack's window of each direction
  win,      \* the engine's, or None when it has no rule
  cpu       \* what the processor of a direction does after it read a packet

vars == <<snd, rcv, up, ct, win, cpu>>

(* ---- numbers that wrap --------------------------------------------------- *)
Signed(x) == LET y == x % M IN IF y >= M \div 2 THEN y - M ELSE y   \* (s32)
Later(x, y) == IF Signed(y - x) > 0 THEN y ELSE x
Greater(x, y) == IF x < y THEN y ELSE x
\* the number nearest to ref that the header shows as x
Lift(x, ref) == ref + Signed(x - ref)

(* ---- sfe_ipv4_process_tcp_option_sack ------------------------------------ *)
SackOf(ack, edges) == Max({ack} \cup edges)

(* ---- the window check and update of sfe_ipv4_recv_tcp -------------------- *)
SackIn(p) == SackOf(p.ack % M, {e % M : e \in p.edges})
\* end = seq + len - data_offs
SegEnd(p) == p.seq + p.len + (IF Padding /\ p.len = 0 THEN 1 ELSE 0)

InWindow_NoProbe(w, d, p) ==
  LET mine == w[d]  other == w[Other(d)]
      leftEdge == other.end - mine.maxWin - AckWindow
  IN /\ Signed(p.seq - mine.maxEnd) <= 0
     /\ Signed(SegEnd(p) - (mine.end - other.maxWin)) >= 0
     /\ Signed(SackIn(p) - other.end) <= 0
     /\ Signed(SackIn(p) - leftEdge) >= 0

InWindow(w, d, p) ==
  LET mine == w[d]  other == w[Other(d)]
      leftEdge == other.end - mine.maxWin - AckWindow - 1
  IN /\ Signed(p.seq - (mine.maxEnd + 1)) <= 0
     /\ Signed(SegEnd(p) - (mine.end - other.maxWin - 1)) >= 0
     /\ Signed(SackIn(p) - (other.end + 1)) <= 0
     /\ Signed(SackIn(p) - leftEdge) >= 0

Track_ScaledAgain(w, d, p) ==
  LET scaledWin == (2 * p.win + SackIn(p) - p.ack) % M
  IN [w EXCEPT ![d].maxWin = Greater(@, scaledWin),
               ![d].end = Later(@, SegEnd(p) % M),
               ![Other(d)].maxEnd = Later(@, (SackIn(p) + scaledWin) % M)]
Track_Swapped(w, d, p) ==
  LET scaledWin == (p.win + SackIn(p) - p.ack) % M
  IN [w EXCEPT ![d].maxWin = Greater(@, scaledWin),
               ![Other(d)].end = Later(@, SegEnd(p) % M),
               ![d].maxEnd = Later(@, (SackIn(p) + scaledWin) % M)]
Track(w, d, p) ==
  LET scaledWin == (p.win + SackIn(p) - p.ack) % M
  IN [w EXCEPT ![d].maxWin = Greater(@, scaledWin),
               ![d].end = Later(@, SegEnd(p) % M),
               ![Other(d)].maxEnd = Later(@, (SackIn(p) + scaledWin) % M)]

(* ---- sfe_ipv4_update_tcp_state and the TCP part of sfe_cm_sync_rule ------- *)
Merge(to, from) ==
  [d \in Dirs |-> [maxWin |-> Greater(to[d].maxWin, from[d].maxWin),
                   end |-> Later(to[d].end, from[d].end),
                   maxEnd |-> Later(to[d].maxEnd, from[d].maxEnd)]]

UpdateTcpState(w, sic) == Merge(w, sic)
SyncRule(c, sis) == Merge(c, sis)

NewWindow(sic) ==
  [d \in Dirs |-> [sic[d] EXCEPT !.maxWin = IF @ = 0 THEN 1 ELSE @]]

(* ---- external: conntrack, as the box relies on its td_* values ------------ *)
Conntrack(w, d, p) ==
  LET sack == IF p.edges = {} THEN p.ack ELSE Max(p.edges \cup {p.ack})
  IN [w EXCEPT ![d].maxWin = Greater(@, p.win + sack - p.ack),
               ![d].end = Later(@, (p.seq + p.len) % M),
               ![Other(d)].maxEnd = Later(@, (sack + p.win) % M)]

(* ---- external: the two ends ------------------------------------------------ *)
RcvNxt(d) == Min({n \in First .. First + Bytes[d] : n \notin rcv[d].got})
Islands(d) == {n + 1 : n \in {m \in rcv[d].got : m > RcvNxt(d) /\ m + 1 \notin rcv[d].got}}
Edges(d) == Islands(d) \cup (IF rcv[d].dup = None THEN {} ELSE {rcv[d].dup})

Payload(p) == p.seq .. p.seq + p.len - 1

Send(d) ==
  LET o == Other(d) IN
  /\ Len(up[d]) < Slots
  /\ \E seq \in snd[d].una - 1 .. snd[d].nxt, len \in 0 .. MaxLen, w \in 0 .. MaxWin :
       /\ \/ len > 0 /\ seq >= snd[d].una
          \/ len = 0 /\ seq \in {snd[d].nxt, snd[d].una - 1}
       /\ len > 0 => seq + len <= Min({snd[d].lim, First + Bytes[d]})
       /\ RcvNxt(o) + w >= rcv[o].edge
       /\ up' = [up EXCEPT ![d] = Append(@,
                   [seq |-> seq, len |-> len, ack |-> RcvNxt(o), win |-> w,
                    edges |-> Edges(o)])]
       /\ snd' = [snd EXCEPT ![d].nxt = Max({@, seq + len})]
       /\ rcv' = [rcv EXCEPT ![o].edge = RcvNxt(o) + w, ![o].dup = None]
  /\ UNCHANGED <<ct, win, cpu>>

\* Packet p of direction d reaches the other end.
Reach(d, p) ==
  LET o == Other(d)  new == {n \in Payload(p) : n < rcv[d].edge}
  IN /\ rcv' = [rcv EXCEPT ![d].got = @ \cup new,
                           ![d].dup = IF Dsack /\ p.len > 0 /\ Payload(p) \subseteq rcv[d].got
                                      THEN p.seq + p.len ELSE @]
     /\ snd' = [snd EXCEPT ![o].una = Max({@, p.ack}), ![o].lim = Max({@, p.ack + p.win})]

Deliver(d, p) == Reach(d, p) \/ UNCHANGED <<snd, rcv>>

(* ---- the box ---------------------------------------------------------------- *)
Idle == [at |-> "idle"]
Head1(d) == Head(up[d])
Ready(d) == cpu[d] = Idle /\ up[d] # <<>>

\* recv_tcp forwards the packet.
Forward(d) ==
  /\ Ready(d) /\ win # None /\ InWindow(win, d, Head1(d))
  /\ win' = Track(win, d, Head1(d))
  /\ up' = [up EXCEPT ![d] = Tail(@)]
  /\ Deliver(d, Head1(d))
  /\ UNCHANGED <<ct, cpu>>

\* recv_tcp takes the rule away and flushes it on this processor before the
\* packet goes on: it is outside its window, or its TTL, flags, length or
\* options do not let it pass.
RemoveRule(d) ==
  /\ Ready(d) /\ win # None
  /\ win' = None
  /\ cpu' = [cpu EXCEPT ![d] = [at |-> "sync", sis |-> win]]
  /\ UNCHANGED <<snd, rcv, up, ct>>

OutOfWindow(d) == RemoveRule(d) /\ ~InWindow(win, d, Head1(d))
NotFast(d) == RemoveRule(d)

Sync_Lost(d) ==
  /\ cpu[d].at = "sync"
  /\ cpu' = [cpu EXCEPT ![d] = Idle]
  /\ UNCHANGED <<snd, rcv, up, ct, win>>

Sync(d) ==
  /\ cpu[d].at = "sync"
  /\ ct' = SyncRule(ct, cpu[d].sis)
  /\ cpu' = [cpu EXCEPT ![d] = Idle]
  /\ UNCHANGED <<snd, rcv, up, win>>

\* No rule: the packet takes the slow path ...
Miss(d) ==
  /\ Ready(d) /\ win = None
  /\ cpu' = [cpu EXCEPT ![d] = [at |-> "slow", p |-> Head1(d)]]
  /\ up' = [up EXCEPT ![d] = Tail(@)]
  /\ UNCHANGED <<snd, rcv, ct, win>>

\* ... where conntrack sees it, and the post routing hook may read conntrack's
\* values for a rule.
SlowPath(d) ==
  LET new == Conntrack(ct, d, cpu[d].p) IN
  /\ cpu[d].at = "slow"
  /\ ct' = new
  /\ cpu' \in {[cpu EXCEPT ![d] = Idle], [cpu EXCEPT ![d] = [at |-> "create", sic |-> new]]}
  /\ Deliver(d, cpu[d].p)
  /\ UNCHANGED <<up, win>>

CreateRule_Overwrites(d) ==
  /\ cpu[d].at = "create"
  /\ win' = NewWindow(cpu[d].sic)
  /\ cpu' = [cpu EXCEPT ![d] = Idle]
  /\ UNCHANGED <<snd, rcv, up, ct>>

CreateRule(d) ==
  /\ cpu[d].at = "create"
  /\ win' = IF win = None THEN NewWindow(cpu[d].sic) ELSE UpdateTcpState(win, cpu[d].sic)
  /\ cpu' = [cpu EXCEPT ![d] = Idle]
  /\ UNCHANGED <<snd, rcv, up, ct>>

\* The sync timer, on the processor of direction d.
TimerSync(d) ==
  /\ cpu[d] = Idle /\ win # None
  /\ cpu' = [cpu EXCEPT ![d] = [at |-> "sync", sis |-> win]]
  /\ UNCHANGED <<snd, rcv, up, ct, win>>

Init ==
  /\ snd = [d \in Dirs |-> [nxt |-> First, una |-> First, lim |-> First + MaxWin]]
  /\ rcv = [d \in Dirs |-> [got |-> {}, edge |-> First + MaxWin, dup |-> None]]
  /\ up = [d \in Dirs |-> <<>>]
  /\ ct = [d \in Dirs |-> [maxWin |-> MaxWin, end |-> First % M,
                           maxEnd |-> (First + MaxWin) % M]]
  /\ win = None
  /\ cpu = [d \in Dirs |-> Idle]

Next ==
  \/ \E d \in Dirs : \/ Send(d) \/ Forward(d) \/ Sync(d) \/ Miss(d)
                     \/ SlowPath(d) \/ CreateRule(d) \/ TimerSync(d)
                     \/ OutOfWindow(d) \/ NotFast(d)

Spec == Init /\ [][Next]_vars

-----------------------------------------------------------------------------
Numbers == 0 .. M - 1
Windows == [Dirs -> [maxWin : Numbers, end : Numbers, maxEnd : Numbers]]

\* TypeOK, for the reader of the types: every number that the box keeps fits the field it
\* is kept in, and a processor that holds a packet, a message or a request is at its step.
TypeOK ==
  /\ ct \in Windows /\ (win # None => win \in Windows)
  /\ \A d \in Dirs :
       /\ snd[d].una <= snd[d].nxt /\ snd[d].nxt <= First + Bytes[d]
       /\ rcv[d].got \subseteq First .. snd[d].nxt - 1
       /\ \/ cpu[d] = Idle
          \/ cpu[d].at = "sync" /\ cpu[d].sis \in Windows
          \/ cpu[d].at = "create" /\ cpu[d].sic \in Windows
          \/ cpu[d].at = "slow"

\* v is at least as far as w.
Forwards(w, v) ==
  \A d \in Dirs : /\ w[d].maxWin <= v[d].maxWin
                  /\ Signed(v[d].end - w[d].end) >= 0
                  /\ Signed(v[d].maxEnd - w[d].maxEnd) >= 0

\* Does the engine's rule know all that conntrack and the messages to it know?
UpToDate ==
  /\ Forwards(ct, win)
  /\ \A d \in Dirs : cpu[d].at = "sync" => Forwards(cpu[d].sis, win)

\* A packet of an end that follows TCP passes the window check of recv_tcp,
\* whatever was lost, retransmitted or acknowledged selectively, and wherever
\* the numbers wrap, unless the rule was made from values of conntrack that
\* had been overtaken when it was made.
HonestPass ==
  win # None /\ UpToDate =>
    \A d \in Dirs : Ready(d) => InWindow(win, d, Head1(d))

\* The engine and conntrack never take a direction to be further than its
\* sender is: end is not beyond what was sent.
EndWasSent ==
  \A d \in Dirs : /\ Lift(ct[d].end, snd[d].nxt) <= snd[d].nxt
                  /\ win # None => Lift(win[d].end, snd[d].nxt) <= snd[d].nxt

\* The engine never lets a sender run ahead of its receiver: maxEnd is at most
\* twice a selectively acknowledged stretch beyond the edge that was granted
\* (recv_tcp adds that stretch to the ack and to the window), and maxWin is a
\* window that was advertised, with such a stretch.
GrantBounded ==
  win # None =>
    \A d \in Dirs :
      /\ Lift(win[d].maxEnd, snd[d].nxt) <= rcv[d].edge + 2 * MaxWin
      /\ win[d].maxWin <= 2 * MaxWin

\* When the rule is gone and its message has been delivered, conntrack's window
\* reaches over everything that the receiver got by the fast path, so that the
\* next packets of the connection are inside it.
ConntrackCaughtUp ==
  win = None /\ (\A d \in Dirs : cpu[d].at # "sync") =>
    \A d \in Dirs : \A n \in rcv[d].got : Lift(ct[d].end, snd[d].nxt) > n

\* Messages and rules that come late, from either side and in any order, never
\* take a window back: neither conntrack's nor that of a rule.
WindowsMoveForwards ==
  [][Forwards(ct, ct') /\ (win # None /\ win' # None => Forwards(win, win'))]_vars
=============================================================================
