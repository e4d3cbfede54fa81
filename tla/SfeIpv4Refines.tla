--------------------------- MODULE SfeIpv4Refines ---------------------------
(***************************************************************************)
(* The engine implements what it promises to the connection manager: the   *)
(* state of a connection in SfeOffload is where its flush is, its untold   *)
(* packets are the counters of its matches, and the message under way is   *)
(* the local variable of the sync timer.                                   *)
(***************************************************************************)
EXTENDS SfeIpv4

StateOf(p) ==
  CASE p = "linked" -> "offloaded"
    [] p \in {"removed", "syncing"} -> "closing"
    [] p = "releasing" -> "closed"
    [] OTHER -> "free"

State == [c \in Conns |-> StateOf(phase[c])]
TupleOf == [r \in Rules |-> r.orig]

Promise == INSTANCE SfeOffload WITH
  Flows <- Rules,
  Tuple <- TupleOf,
  state <- State,
  flow <- rule,
  untold <- count,
  msg <- timer.msg

\* While nobody reads the debug device, every step of the engine is one that
\* it promised, or none: the timer reports only offloaded connections, only
\* what they counted, and one at a time; a connection is closed once, whoever
\* closes it; and its final message comes before its object is used again.
Implements == Promise!Spec
=============================================================================
