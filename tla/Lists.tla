-------------------------------- MODULE Lists --------------------------------
(***************************************************************************)
(* Doubly linked lists as sequences: what the engine's lists of            *)
(* connections and of active matches are before one looks at the pointers. *)
(***************************************************************************)
EXTENDS Integers, Sequences

Elems(s) == {s[i] : i \in DOMAIN s}

Distinct(s) == \A i, j \in DOMAIN s : s[i] = s[j] => i = j

\* s without its element x, the others in the order they had
Unlink(s, x) ==
  IF x \in Elems(s)
  THEN LET p == CHOOSE i \in DOMAIN s : s[i] = x
       IN [i \in 1 .. Len(s) - 1 |-> IF i < p THEN s[i] ELSE s[i + 1]]
  ELSE s
=============================================================================
