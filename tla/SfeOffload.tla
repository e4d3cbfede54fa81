----------------------------- MODULE SfeOffload -----------------------------
(***************************************************************************)
(* What the engine promises to the connection manager that offloads flows  *)
(* to it: every connection goes from offloaded to closed exactly once, and *)
(* the packets that it forwards are told in messages, of the sync timer    *)
(* while it is offloaded and a final one when it closes.  The timer's      *)
(* message takes time: it can arrive after the final one, and even after   *)
(* the connection object serves another flow.  SfeIpv4 implements this     *)
(* module (theorem EngineImplements); SfeCm builds on it.                  *)
(***************************************************************************)
EXTENDS Integers

CONSTANTS
  Conns,       \* connection objects
  Flows,       \* what is offloaded
  Tuple,       \* the original 5-tuple of each flow
  MaxCount,    \* bound: packets counted between two messages
  MaxJiffies,  \* bound: ticks of the clock
  JiffiesRange,\* the clock's counters wrap at this value
  None

VARIABLES
  state,       \* free, offloaded, closing, or closed (the final message sent)
  flow,        \* the flow of each connection
  untold,      \* packets forwarded in each direction since the last message
  lastSync,    \* time of the last message
  msg,         \* the timer's message, until it is delivered
  callback,    \* is a sync callback registered?
  jiffies

offload == <<state, flow, untold, lastSync, msg, callback, jiffies>>

Dirs == {"original", "reply"}
Zero == [d \in Dirs |-> 0]
NoMsg == [conn |-> None, new |-> Zero, delta |-> 0]
Offloaded == {c \in Conns : state[c] = "offloaded"}

Message(c, now) ==
  [conn |-> c, new |-> untold[c], delta |-> (now - lastSync[c]) % JiffiesRange]

Offload(c, f) ==
  /\ state[c] = "free"
  /\ \A b \in Offloaded : Tuple[flow[b]] # Tuple[f]
  /\ state' = [state EXCEPT ![c] = "offloaded"]
  /\ flow' = [flow EXCEPT ![c] = f]
  /\ untold' = [untold EXCEPT ![c] = Zero]
  /\ lastSync' = [lastSync EXCEPT ![c] = jiffies]
  /\ UNCHANGED <<msg, callback, jiffies>>

Forward(c, d) ==
  /\ state[c] = "offloaded"
  /\ untold[c][d] < MaxCount
  /\ untold' = [untold EXCEPT ![c][d] = @ + 1]
  /\ UNCHANGED <<state, flow, lastSync, msg, callback, jiffies>>

\* the timer reports the connection, as of some moment of its run
Report(c, now) ==
  /\ state[c] = "offloaded"
  /\ msg = NoMsg
  /\ msg' = Message(c, now)
  /\ untold' = [untold EXCEPT ![c] = Zero]
  /\ lastSync' = [lastSync EXCEPT ![c] = now]
  /\ UNCHANGED <<state, flow, callback, jiffies>>

\* the callback gets the timer's message
Deliver ==
  /\ msg # NoMsg
  /\ msg' = NoMsg
  /\ UNCHANGED <<state, flow, untold, lastSync, callback, jiffies>>

\* The flow is destroyed, or leaves the fast path.
Close(c) ==
  /\ state[c] = "offloaded"
  /\ state' = [state EXCEPT ![c] = "closing"]
  /\ UNCHANGED <<flow, untold, lastSync, msg, callback, jiffies>>

\* the callback gets the final message
Final(c) ==
  /\ state[c] = "closing"
  /\ state' = [state EXCEPT ![c] = "closed"]
  /\ untold' = [untold EXCEPT ![c] = Zero]
  /\ lastSync' = [lastSync EXCEPT ![c] = jiffies]
  /\ UNCHANGED <<flow, msg, callback, jiffies>>

\* nobody is registered to get it
Drop(c) ==
  /\ state[c] = "closing" /\ ~callback
  /\ state' = [state EXCEPT ![c] = "closed"]
  /\ untold' = [untold EXCEPT ![c] = Zero]
  /\ UNCHANGED <<flow, lastSync, msg, callback, jiffies>>

Release(c) ==
  /\ state[c] = "closed"
  /\ state' = [state EXCEPT ![c] = "free"]
  /\ flow' = [flow EXCEPT ![c] = None]
  /\ lastSync' = [lastSync EXCEPT ![c] = 0]
  /\ UNCHANGED <<untold, msg, callback, jiffies>>

Register(on) ==
  /\ callback # on
  /\ callback' = on
  /\ UNCHANGED <<state, flow, untold, lastSync, msg, jiffies>>

Tick ==
  /\ jiffies < MaxJiffies
  /\ jiffies' = jiffies + 1
  /\ UNCHANGED <<state, flow, untold, lastSync, msg, callback>>

Init ==
  /\ state = [c \in Conns |-> "free"]
  /\ flow = [c \in Conns |-> None]
  /\ untold = [c \in Conns |-> Zero]
  /\ lastSync = [c \in Conns |-> 0]
  /\ msg = NoMsg
  /\ callback = FALSE
  /\ jiffies = 0

Next ==
  \/ \E c \in Conns :
       \/ \E f \in Flows : Offload(c, f)
       \/ \E d \in Dirs : Forward(c, d)
       \/ \E now \in 0 .. jiffies : Report(c, now)
       \/ Close(c) \/ Final(c) \/ Drop(c) \/ Release(c)
  \/ Deliver
  \/ \E on \in BOOLEAN : Register(on)
  \/ Tick

Spec == Init /\ [][Next]_offload
=============================================================================
