------------------------------ MODULE SfeTables ------------------------------
(***************************************************************************)
(* What the lists of sfe_ipv4.c promise, as sequences: the list of all     *)
(* connections, the list of active matches, and the hash chains of the     *)
(* matches, which a lookup reorders.  An action is what one critical       *)
(* section does to them.                                                   *)
(***************************************************************************)
EXTENDS Integers, Sequences, Lists

CONSTANTS
  Conns,    \* connection objects
  Keys,     \* receive keys: device, protocol, addresses and ports
  Buckets,  \* entries of the hash table
  Hash,     \* the bucket of each key
  Pairs,    \* the keys of a connection's two directions, as rules give them
  None      \* the key of an object that is not in the tables

VARIABLES
  key,      \* key of each match in the tables
  all,      \* all connections, oldest first
  active,   \* matches with traffic to sync
  chain     \* the matches of each bucket, first looked at first

tables == <<key, all, active, chain>>

Dirs == {"original", "reply"}
Matches == Conns \X Dirs
Counter(m) == <<m[1], IF m[2] = "original" THEN "reply" ELSE "original">>
Orig(c) == <<c, "original">>
Reply(c) == <<c, "reply">>

\* create_rule inserts no second connection for a tuple
Free(p) == \A c \in Elems(all) : key[Orig(c)] # p.original

\* the first match of the chain that has key k
Found(m, k) ==
  \E i \in DOMAIN chain[Hash[k]] :
    /\ m = chain[Hash[k]][i] /\ key[m] = k
    /\ \A j \in 1 .. i - 1 : key[chain[Hash[k]][j]] # k

PushAt(ch, b, m) == [ch EXCEPT ![b] = <<m>> \o @]

Insert(c, p) ==
  /\ c \notin Elems(all) /\ Free(p)
  /\ key' = [key EXCEPT ![Orig(c)] = p.original, ![Reply(c)] = p.reply]
  /\ all' = Append(all, c)
  /\ chain' = PushAt(PushAt(chain, Hash[p.original], Orig(c)), Hash[p.reply], Reply(c))
  /\ UNCHANGED active

TakeFrom(ch, c) == [b \in Buckets |-> Unlink(Unlink(ch[b], Reply(c)), Orig(c))]

Remove(c) ==
  /\ c \in Elems(all)
  /\ key' = [key EXCEPT ![Orig(c)] = None, ![Reply(c)] = None]
  /\ all' = Unlink(all, c)
  /\ active' = Unlink(Unlink(active, Reply(c)), Orig(c))
  /\ chain' = TakeFrom(chain, c)

\* A packet finds its match, which moves to the front of its chain; when the
\* packet is forwarded, its match is active from then on.
Receive(m, forward) ==
  /\ m[1] \in Elems(all)
  /\ Found(m, key[m])
  /\ chain' = [chain EXCEPT ![Hash[key[m]]] = <<m>> \o Unlink(@, m)]
  /\ active' = IF forward /\ m \notin Elems(active) THEN Append(active, m) ELSE active
  /\ UNCHANGED <<key, all>>

\* periodic_sync takes the first active match, and its counter match
SyncHead ==
  /\ active # <<>>
  /\ active' = Unlink(Tail(active), Counter(Head(active)))
  /\ UNCHANGED <<key, all, chain>>

Init ==
  /\ key = [m \in Matches |-> None]
  /\ all = <<>> /\ active = <<>>
  /\ chain = [b \in Buckets |-> <<>>]

Next ==
  \/ \E c \in Conns : Remove(c) \/ \E p \in Pairs : Insert(c, p)
  \/ \E m \in Matches, forward \in BOOLEAN : Receive(m, forward)
  \/ SyncHead

Spec == Init /\ [][Next]_tables

-----------------------------------------------------------------------------
\* Every match of a connection in the tables can be found: it is in the chain
\* of its key, once, and no chain leads to an object that was removed.
ChainsAgree ==
  \A b \in Buckets :
    /\ Distinct(chain[b])
    /\ Elems(chain[b]) = {m \in Elems(all) \X Dirs : Hash[key[m]] = b}

\* m was inserted after n
Younger(m, n) ==
  \/ \E i, j \in DOMAIN all : i > j /\ all[i] = m[1] /\ all[j] = n[1]
  \/ m[1] = n[1] /\ m[2] = "reply" /\ n[2] = "original"

\* Two connections can have one reply key (NAT gave a port to a second flow
\* before the first was destroyed).  Whatever lookups have reordered, the
\* packet goes to the connection that was created last, whose flow is the one
\* alive; SfeIpv4 relies on it (FoundBy).
LookupFindsYoungest ==
  \A m \in Elems(all) \X Dirs :
    Found(m, key[m]) =>
      \A n \in Elems(all) \X Dirs : key[n] = key[m] => m = n \/ Younger(m, n)
=============================================================================
