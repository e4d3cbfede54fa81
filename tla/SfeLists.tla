------------------------------ MODULE SfeLists -------------------------------
(***************************************************************************)
(* The lists of sfe_ipv4.c as the code keeps them: next and prev pointers, *)
(* heads, tails and the active flag.  The sequences that the pointers lead *)
(* through are those of SfeTables (property Refines).                      *)
(*                                                                         *)
(* A pointer field of an object that is not in the tables is Junk: kfree   *)
(* gave the object away, or kmalloc returned it with the old content.      *)
(***************************************************************************)
EXTENDS Integers, Sequences, FiniteSets

CONSTANTS Conns, Keys, Buckets, Hash, Pairs, None,   \* see SfeTables
          Junk                                       \* the content of no pointer

Dirs == {"original", "reply"}
Matches == Conns \X Dirs

ASSUME ListsAssumption ==
  /\ IsFiniteSet(Conns)
  /\ Hash \in [Keys -> Buckets]
  /\ Pairs \subseteq [original: Keys, reply: Keys]
  /\ None \notin Keys \cup Conns \cup Matches
  /\ Junk \notin Conns \cup Matches \cup {None}

VARIABLES
  key,      \* the keys of the matches in the tables
  hash,     \* conn_match_hash, and next and prev of the matches
  chash,    \* conn_hash, and next and prev of the connections
  conns,    \* all_connections_head and _tail, and the connections' pointers
  act       \* active_head and _tail, and active_next, active_prev, active

vars == <<key, hash, chash, conns, act>>

Counter(m) == <<m[1], IF m[2] = "original" THEN "reply" ELSE "original">>
Orig(c) == <<c, "original">>
Reply(c) == <<c, "reply">>
InTables == {c \in Conns : key[Orig(c)] # None}

-----------------------------------------------------------------------------
(* Hash chains: l has the heads of all buckets *)

\* if (x) x->field = value
Set(f, x, v) == IF x = None THEN f ELSE [f EXCEPT ![x] = v]

\* an insertion behind the front, which then stays
PushFront_Second(l, b, x) ==
  LET h == l.head[b]
  IN IF h = None
     THEN [head |-> [l.head EXCEPT ![b] = x], next |-> [l.next EXCEPT ![x] = None],
           prev |-> [l.prev EXCEPT ![x] = None]]
     ELSE [head |-> l.head, next |-> [l.next EXCEPT ![x] = l.next[h], ![h] = x],
           prev |-> [Set(l.prev, l.next[h], x) EXCEPT ![x] = h]]

PushFront(l, b, x) ==
  [head |-> [l.head EXCEPT ![b] = x],
   next |-> [l.next EXCEPT ![x] = l.head[b]],
   prev |-> [Set(l.prev, l.head[b], x) EXCEPT ![x] = None]]

\* out of the chain
Drop(l, b, x) ==
  [head |-> IF l.prev[x] = None THEN [l.head EXCEPT ![b] = l.next[x]] ELSE l.head,
   next |-> [Set(l.next, l.prev[x], l.next[x]) EXCEPT ![x] = Junk],
   prev |-> [Set(l.prev, l.next[x], l.prev[x]) EXCEPT ![x] = Junk]]

\* the old front keeps its prev, which says that it is the front
MoveToFront_OldFrontKept(l, b, x) ==
  IF l.head[b] = x THEN l
  ELSE [head |-> [l.head EXCEPT ![b] = x],
        next |-> [l.next EXCEPT ![l.prev[x]] = l.next[x], ![x] = l.head[b]],
        prev |-> [Set(l.prev, l.next[x], l.prev[x]) EXCEPT ![x] = None]]

\* the lookup's reordering, in the order of its assignments
MoveToFront(l, b, x) ==
  IF l.head[b] = x THEN l
  ELSE [head |-> [l.head EXCEPT ![b] = x],
        next |-> [l.next EXCEPT ![l.prev[x]] = l.next[x], ![x] = l.head[b]],
        prev |-> [Set(l.prev, l.next[x], l.prev[x])
                    EXCEPT ![x] = None, ![l.head[b]] = x]]

-----------------------------------------------------------------------------
(* The list of all connections, and the active list *)

AppendConn(l, c) ==
  [head |-> IF l.tail = None THEN c ELSE l.head,
   tail |-> c,
   next |-> [Set(l.next, l.tail, c) EXCEPT ![c] = None],
   prev |-> [l.prev EXCEPT ![c] = l.tail]]

DropConn(l, c) ==
  [head |-> IF l.prev[c] = None THEN l.next[c] ELSE l.head,
   tail |-> IF l.next[c] = None THEN l.prev[c] ELSE l.tail,
   next |-> [Set(l.next, l.prev[c], l.next[c]) EXCEPT ![c] = Junk],
   prev |-> [Set(l.prev, l.next[c], l.prev[c]) EXCEPT ![c] = Junk]]

\* create_rule initialises the active fields of both matches
Fresh(l, c) ==
  LET new == {Orig(c), Reply(c)}
  IN [l EXCEPT !.next = [m \in Matches |-> IF m \in new THEN None ELSE @[m]],
               !.prev = [m \in Matches |-> IF m \in new THEN None ELSE @[m]],
               !.on   = [m \in Matches |-> m \notin new /\ @[m]]]

\* A forwarded packet's match joins the end.  Its active_next is not assigned:
\* whoever took it off the list before must have cleared it.
Activate(l, m) ==
  IF l.on[m] THEN l
  ELSE [head |-> IF l.tail = None THEN m ELSE l.head,
        tail |-> m,
        next |-> Set(l.next, l.tail, m),
        prev |-> [l.prev EXCEPT ![m] = l.tail],
        on   |-> [l.on EXCEPT ![m] = TRUE]]

\* remove_sfe_ipv4_connection_match, for the active list
Deactivate(l, m) ==
  IF l.on[m]
  THEN [head |-> IF l.prev[m] = None THEN l.next[m] ELSE l.head,
        tail |-> IF l.next[m] = None THEN l.prev[m] ELSE l.tail,
        next |-> [Set(l.next, l.prev[m], l.next[m]) EXCEPT ![m] = Junk],
        prev |-> [Set(l.prev, l.next[m], l.prev[m]) EXCEPT ![m] = Junk],
        on   |-> [l.on EXCEPT ![m] = FALSE]]
  ELSE [l EXCEPT !.next[m] = Junk, !.prev[m] = Junk]

\* periodic_sync takes the counter match out; it relies on the head of the
\* list being another match, so it assigns to active_prev unchecked
TakeCounter(l, m) ==
  IF l.on[m]
  THEN [head |-> l.head,
        tail |-> IF l.next[m] = None THEN l.prev[m] ELSE l.tail,
        next |-> [l.next EXCEPT ![l.prev[m]] = l.next[m], ![m] = None],
        prev |-> [Set(l.prev, l.next[m], l.prev[m]) EXCEPT ![m] = None],
        on   |-> [l.on EXCEPT ![m] = FALSE]]
  ELSE l

\* active_next of the old head is left as it was
TakeHead_KeepsNext(l) ==
  LET m == l.head
  IN [l EXCEPT !.head = l.next[m],
               !.tail = IF l.next[m] = None THEN None ELSE @,
               !.prev = Set(@, l.next[m], None),
               !.on[m] = FALSE]

\* ... and then the head
TakeHead(l) ==
  LET m == l.head
  IN [l EXCEPT !.head = l.next[m],
               !.tail = IF l.next[m] = None THEN None ELSE @,
               !.next[m] = None,
               !.prev = Set(@, l.next[m], None),
               !.on[m] = FALSE]

-----------------------------------------------------------------------------
\* the entries of a chain, or of a list, in the order the pointers give; a
\* cycle shows as a sequence longer than there are objects
Follow(head, next) ==
  LET objects == DOMAIN next
      walk[n \in 0 .. Cardinality(objects) + 1] ==
        [x \in objects \cup {None, Junk} |->
           IF x \in objects /\ n > 0 THEN <<x>> \o walk[n - 1][next[x]] ELSE <<>>]
  IN walk[Cardinality(objects) + 1][head]

Known(p) == \E c \in InTables : key[Orig(c)] = p.original

Found(m) ==
  LET b == Hash[key[m]]
      s == Follow(hash.head[b], hash.next)
  IN \E i \in DOMAIN s : s[i] = m /\ \A j \in 1 .. i - 1 : key[s[j]] # key[m]

Insert(c, p) ==
  /\ c \notin InTables /\ ~Known(p)
  /\ key' = [key EXCEPT ![Orig(c)] = p.original, ![Reply(c)] = p.reply]
  /\ chash' = PushFront(chash, Hash[p.original], c)
  /\ conns' = AppendConn(conns, c)
  /\ hash' = PushFront(PushFront(hash, Hash[p.original], Orig(c)),
                       Hash[p.reply], Reply(c))
  /\ act' = Fresh(act, c)

\* the reply match stays in its chain
Remove_OriginalOnly(c) ==
  /\ c \in InTables
  /\ hash' = Drop(hash, Hash[key[Orig(c)]], Orig(c))
  /\ act' = Deactivate(Deactivate(act, Reply(c)), Orig(c))
  /\ chash' = Drop(chash, Hash[key[Orig(c)]], c)
  /\ conns' = DropConn(conns, c)
  /\ key' = [key EXCEPT ![Orig(c)] = None, ![Reply(c)] = None]

Remove(c) ==
  /\ c \in InTables
  /\ hash' = Drop(Drop(hash, Hash[key[Reply(c)]], Reply(c)),
                  Hash[key[Orig(c)]], Orig(c))
  /\ act' = Deactivate(Deactivate(act, Reply(c)), Orig(c))
  /\ chash' = Drop(chash, Hash[key[Orig(c)]], c)
  /\ conns' = DropConn(conns, c)
  /\ key' = [key EXCEPT ![Orig(c)] = None, ![Reply(c)] = None]

Receive(m, forward) ==
  /\ m[1] \in InTables
  /\ Found(m)
  /\ hash' = MoveToFront(hash, Hash[key[m]], m)
  /\ act' = IF forward THEN Activate(act, m) ELSE act
  /\ UNCHANGED <<key, chash, conns>>

SyncHead ==
  /\ act.head # None
  /\ act' = TakeHead(TakeCounter(act, Counter(act.head)))
  /\ UNCHANGED <<key, hash, chash, conns>>

Init ==
  /\ key = [m \in Matches |-> None]
  /\ hash = [head |-> [b \in Buckets |-> None],
             next |-> [m \in Matches |-> Junk], prev |-> [m \in Matches |-> Junk]]
  /\ chash = [head |-> [b \in Buckets |-> None],
              next |-> [c \in Conns |-> Junk], prev |-> [c \in Conns |-> Junk]]
  /\ conns = [head |-> None, tail |-> None,
              next |-> [c \in Conns |-> Junk], prev |-> [c \in Conns |-> Junk]]
  /\ act = [head |-> None, tail |-> None,
            next |-> [m \in Matches |-> Junk], prev |-> [m \in Matches |-> Junk],
            on |-> [m \in Matches |-> FALSE]]

Next ==
  \/ \E c \in Conns : Remove(c) \/ \E p \in Pairs : Insert(c, p)
  \/ \E m \in Matches, forward \in BOOLEAN : Receive(m, forward)
  \/ SyncHead

Spec == Init /\ [][Next]_vars

-----------------------------------------------------------------------------
Tables == INSTANCE SfeTables WITH
  all <- Follow(conns.head, conns.next),
  active <- Follow(act.head, act.next),
  chain <- [b \in Buckets |-> Follow(hash.head[b], hash.next)]

\* Every assignment to a pointer keeps the sequences that SfeTables promises:
\* a lookup's reordering, the removal from the middle of three lists, and the
\* timer's removal of two neighbours of the active list lose and revive nothing.
Refines == Tables!Spec

\* the chain of a connection's tuple, where create_rule and destroy_rule look for
\* it, has the connection
TupleIsFound ==
  \A c \in InTables :
    LET s == Follow(chash.head[Hash[key[Orig(c)]]], chash.next)
    IN \E i \in DOMAIN s : s[i] = c

\* Every match of a connection in the tables is in the chain of its key, once,
\* however lookups have reordered it, no chain leads to a removed match, and
\* the connection is in the chain of its tuple.
ChainsAgree == Tables!ChainsAgree /\ TupleIsFound

\* Two connections can have one reply key; whatever lookups have reordered, the
\* packet goes to the connection that create_rule inserted last.
LookupFindsYoungest == Tables!LookupFindsYoungest

\* the entries of members are linked both ways, and lead to members only
Linked(next, prev, members) ==
  \A x \in members :
    /\ next[x] \in members \cup {None} /\ prev[x] \in members \cup {None}
    /\ next[x] # None => prev[next[x]] = x
    /\ prev[x] # None => next[prev[x]] = x

\* No pointer that the code may follow leads to freed memory, both directions
\* of every list agree, the flag says who is on the active list, and a match
\* that is not has the empty pointers that Activate relies on.
NoDanglingPointer ==
  LET listed == {m \in Matches : act.on[m]}
  IN /\ Linked(hash.next, hash.prev, InTables \X Dirs)
     /\ Linked(chash.next, chash.prev, InTables)
     /\ Linked(conns.next, conns.prev, InTables)
     /\ conns.tail = None \/ (conns.tail \in InTables /\ conns.next[conns.tail] = None)
     /\ listed \subseteq InTables \X Dirs
     /\ Linked(act.next, act.prev, listed)
     /\ act.tail = None \/ (act.tail \in listed /\ act.next[act.tail] = None)
     /\ \A m \in (InTables \X Dirs) \ listed : act.next[m] = None
=============================================================================
