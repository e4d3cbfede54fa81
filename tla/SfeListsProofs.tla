--------------------------- MODULE SfeListsProofs ---------------------------
(***************************************************************************)
(* The pointers of the lists, for every finite set of connections, any     *)
(* keys, any buckets and any hash function: what the pointers of a list    *)
(* lead through is a sequence (Chained), each assignment of the code does  *)
(* to it what SfeTables says, the lookup finds the youngest of its key,    *)
(* and no pointer leads to a freed object.                                 *)
(***************************************************************************)
EXTENDS SfeLists, OperatorProofs

-----------------------------------------------------------------------------
(* Follow                                                                   *)

Targets(next) == DOMAIN next \cup {None, Junk}

\* Round n of Follow's walk: behind each object, what the round before found
\* behind the object that it points to.
Round(next, n, row) ==
  [x \in Targets(next) |->
     IF x \in DOMAIN next /\ n > 0 THEN <<x>> \o row[next[x]] ELSE <<>>]

\* w is the walk up to round N.
IsWalk(w, next, N) == w = [n \in 0 .. N |-> Round(next, n, w[n - 1])]

\* The recursive function has a value: otherwise there is a first round without one.
LEMMA WalkExists ==
  ASSUME NEW next, NEW N \in Nat
  PROVE  \E w : IsWalk(w, next, N)
<1>. DEFINE T == {n \in Nat : ~ \E w : IsWalk(w, next, n)}
<1>1. SUFFICES ASSUME N \in T  PROVE FALSE
  OBVIOUS
<1>2. PICK m \in T : \A n \in T : m <= n
  <2>1. T \in SUBSET Nat /\ T # {}
    BY <1>1
  <2>. HIDE DEF T
  <2>. QED BY <2>1, LeastNumber
<1>3. CASE m = 0
  <2>. DEFINE w == [n \in 0 .. 0 |-> Round(next, 0, <<>>)]
  <2>1. \A row : Round(next, 0, row) = Round(next, 0, <<>>)
    BY DEF Round
  <2>2. ASSUME NEW n \in 0 .. 0  PROVE w[n] = Round(next, n, w[n - 1])
    <3>1. n = 0 /\ w[n] = Round(next, 0, <<>>)
      OBVIOUS
    <3>. HIDE DEF w
    <3>. QED BY <2>1, <3>1
  <2>3. w = [n \in 0 .. 0 |-> w[n]]
    OBVIOUS
  <2>4. w = [n \in 0 .. 0 |-> Round(next, n, w[n - 1])]
    <3>. HIDE DEF w
    <3>. QED BY <2>2, <2>3
  <2>5. IsWalk(w, next, m)
    BY <1>3, <2>4 DEF IsWalk
  <2>. QED BY <2>5
<1>4. CASE m # 0
  <2>1. m \in Nat /\ m - 1 \in Nat /\ m - 1 \notin T
    BY <1>2, <1>4
  <2>2. PICK w : IsWalk(w, next, m - 1)
    BY <2>1
  <2>. DEFINE v == [n \in 0 .. m |-> IF n = m THEN Round(next, m, w[m - 1]) ELSE w[n]]
  <2>3. ASSUME NEW n \in 0 .. m  PROVE v[n] = Round(next, n, v[n - 1])
    <3>1. \A k \in 0 .. m - 1 : w[k] = Round(next, k, w[k - 1])
      BY <2>2, Zenon DEF IsWalk
    <3>2. CASE n = m
      BY <3>2, <2>1, <1>4
    <3>3. CASE n # m /\ n # 0
      BY <3>1, <3>3, <2>1, <1>4
    <3>4. CASE n # m /\ n = 0
      <4>1. v[0] = w[0] /\ w[0] = Round(next, 0, w[0 - 1])
        BY <3>1, <3>4, <2>1
      <4>2. Round(next, 0, w[0 - 1]) = Round(next, 0, v[0 - 1])
        BY DEF Round
      <4>. QED BY <3>4, <4>1, <4>2
    <3>. QED BY <3>2, <3>3, <3>4
  <2>4. v = [n \in 0 .. m |-> v[n]]
    OBVIOUS
  <2>5. v = [n \in 0 .. m |-> Round(next, n, v[n - 1])]
    <3>. HIDE DEF v
    <3>. QED BY <2>3, <2>4
  <2>6. IsWalk(v, next, m)
    BY <2>5 DEF IsWalk
  <2>. QED BY <2>1, <2>6, <1>2
<1>. QED BY <1>3, <1>4

\* A list without repetitions is no longer than its set.
LEMMA DistinctLength ==
  ASSUME NEW S, IsFiniteSet(S), NEW s \in Seq(S), Distinct(s)
  PROVE  Len(s) \in Nat /\ Cardinality(S) \in Nat /\ Len(s) <= Cardinality(S)
<1>1. Len(s) \in Nat /\ s \in [1 .. Len(s) -> S]
  BY LenProperties
<1>2. s \in Injection(1 .. Len(s), S)
  <2>1. \A i, j \in 1 .. Len(s) : s[i] = s[j] => i = j
    BY <1>1 DEF Distinct
  <2>. QED BY <1>1, <2>1 DEF Injection, IsInjective
<1>3. Cardinality(1 .. Len(s)) = Len(s)
  BY <1>1, FS_Interval
<1>4. Cardinality(1 .. Len(s)) <= Cardinality(S)
  BY <1>2, FS_Injection, Zenon
<1>. QED BY <1>1, <1>3, <1>4, FS_CardinalityType

\* What is left of a list from one of its positions on begins with the element there.
LEMMA Suffixes ==
  ASSUME NEW S, NEW s \in Seq(S)
  PROVE  /\ SubSeq(s, 1, Len(s)) = s
         /\ SubSeq(s, Len(s) + 1, Len(s)) = <<>>
         /\ \A i \in 1 .. Len(s) : <<s[i]>> \o SubSeq(s, i + 1, Len(s)) = SubSeq(s, i, Len(s))
<1>1. Len(s) \in Nat /\ s \in [1 .. Len(s) -> S]
  BY LenProperties
<1>2. SubSeq(s, 1, Len(s)) = s
  BY <1>1, SubSeqFull
<1>3. SubSeq(s, Len(s) + 1, Len(s)) = <<>>
  BY <1>1, SubSeqEmpty
<1>4. ASSUME NEW i \in 1 .. Len(s)
      PROVE  <<s[i]>> \o SubSeq(s, i + 1, Len(s)) = SubSeq(s, i, Len(s))
  <2>. DEFINE r == SubSeq(s, i + 1, Len(s))
              q == SubSeq(s, i, Len(s))
              p == <<s[i]>> \o r
  <2>1. \A j \in i .. Len(s) : s[j] \in S
    BY <1>1
  <2>2. /\ r \in Seq(S) /\ Len(r) = Len(s) - i
        /\ \A j \in 1 .. Len(s) - i : r[j] = s[i + j]
    <3>1. Len(s) \in Int /\ i + 1 \in Int /\ \A j \in i + 1 .. Len(s) : s[j] \in S
      BY <1>1, <2>1
    <3>2. /\ r \in Seq(S)
          /\ Len(r) = IF i + 1 <= Len(s) THEN Len(s) - (i + 1) + 1 ELSE 0
          /\ \A j \in 1 .. Len(s) - (i + 1) + 1 : r[j] = s[i + 1 + j - 1]
      BY <3>1, SubSeqProperties
    <3>. HIDE DEF r
    <3>3. Len(s) - (i + 1) + 1 = Len(s) - i /\ Len(r) = Len(s) - i
      <4>1. ASSUME NEW n \in Nat, i \in 1 .. n
            PROVE  /\ n - (i + 1) + 1 = n - i
                   /\ i + 1 <= n \/ n - i = 0
        BY <4>1
      <4>2. Len(s) - (i + 1) + 1 = Len(s) - i /\ (i + 1 <= Len(s) \/ Len(s) - i = 0)
        BY <4>1, <1>1
      <4>. QED BY <4>2, <3>2
    <3>4. ASSUME NEW j \in 1 .. Len(s) - i  PROVE r[j] = s[i + j]
      <4>1. i + 1 + j - 1 = i + j /\ j \in 1 .. Len(s) - (i + 1) + 1
        BY <3>3
      <4>2. r[j] = s[i + 1 + j - 1]
        BY <3>2, <4>1
      <4>. QED BY <4>1, <4>2
    <3>. QED BY <3>2, <3>3, <3>4
  <2>3. /\ q \in Seq(S) /\ Len(q) = Len(s) - i + 1
        /\ \A j \in 1 .. Len(s) - i + 1 : q[j] = s[i + j - 1]
    BY <1>1, <2>1, SubSeqProperties
  <2>4. <<s[i]>> \in Seq(S) /\ Len(<<s[i]>>) = 1 /\ <<s[i]>>[1] = s[i]
    BY <1>1
  <2>5. /\ p \in Seq(S) /\ Len(p) = 1 + Len(r)
        /\ \A j \in 1 .. 1 + Len(r) : p[j] = IF j <= 1 THEN <<s[i]>>[j] ELSE r[j - 1]
    <3>. HIDE DEF r
    <3>. QED BY <2>2, <2>4, ConcatProperties
  <2>. HIDE DEF p, q, r
  <2>6. Len(p) = Len(q) /\ \A j \in 1 .. Len(p) : p[j] = q[j]
    <3>1. Len(p) = Len(q) /\ Len(p) = Len(s) - i + 1 /\ Len(s) - i \in Nat
      BY <1>1, <2>2, <2>3, <2>5
    <3>2. ASSUME NEW j \in 1 .. Len(p)  PROVE p[j] = q[j]
      <4>1. CASE j = 1
        BY <4>1, <3>1, <1>1, <2>2, <2>3, <2>4, <2>5
      <4>2. CASE j # 1
        <5>1. j - 1 \in 1 .. Len(s) - i /\ j \in 1 .. Len(s) - i + 1 /\ j \in 1 .. 1 + Len(r)
          BY <3>1, <4>2, <2>2, <1>1
        <5>2. r[j - 1] = s[i + (j - 1)] /\ q[j] = s[i + j - 1]
          BY <5>1, <2>2, <2>3
        <5>4. ~(j <= 1)
          BY <5>1, <4>2
        <5>5. p[j] = r[j - 1]
          BY <5>1, <5>4, <2>5
        <5>3. i + (j - 1) = i + j - 1
          BY <5>1
        <5>. QED BY <5>2, <5>3, <5>5
      <4>. QED BY <4>1, <4>2
    <3>. QED BY <3>1, <3>2
  <2>7. p = q
    BY <2>3, <2>5, <2>6, SeqEqual
  <2>. QED BY <2>7 DEF p, q, r
<1>. QED BY <1>2, <1>3, <1>4

\* Follow gives the sequence whose elements point each to the next one.
LEMMA FollowIs ==
  ASSUME NEW S, IsFiniteSet(S), None \notin S, NEW next, DOMAIN next = S,
         NEW s \in Seq(S), Distinct(s),
         NEW head, head = IF s = <<>> THEN None ELSE s[1],
         \A i \in 1 .. Len(s) : next[s[i]] = IF i = Len(s) THEN None ELSE s[i + 1]
  PROVE  Follow(head, next) = s
<1>. DEFINE N == Cardinality(S) + 1
            w == CHOOSE v : IsWalk(v, next, N)
            L == Len(s)
            Node(i) == IF i = L + 1 THEN None ELSE s[i]
            Rest(i) == SubSeq(s, i, L)
<1>1. L \in Nat /\ N \in Nat /\ L <= N
  BY DistinctLength
<1>2. Follow(head, next) = w[N][head]
  BY DEF Follow, IsWalk, Round, Targets
<1>3. IsWalk(w, next, N)
  BY <1>1, WalkExists, Zenon
<1>. HIDE DEF w, L, N
<1>4. \A n \in 0 .. N : w[n] = Round(next, n, w[n - 1])
  BY <1>3, Zenon DEF IsWalk
<1>5. \A i \in 1 .. L : s[i] \in S
  BY ElementOfSeq DEF L
<1>6. /\ Rest(1) = s /\ Rest(L + 1) = <<>>
      /\ \A i \in 1 .. L : <<s[i]>> \o Rest(i + 1) = Rest(i)
  BY Suffixes DEF L
<1>. DEFINE Wrong == {n \in 0 .. N : \E i \in 1 .. L + 1 : L + 1 - i <= n /\ w[n][Node(i)] # Rest(i)}
<1>. HIDE DEF Rest
<1>7. Wrong = {}
  <2>. SUFFICES ASSUME Wrong # {}  PROVE FALSE
    OBVIOUS
  <2>1. Wrong \in SUBSET Nat
    BY <1>1
  <2>2. PICK m \in Wrong : \A n \in Wrong : m <= n
    <3>. HIDE DEF Wrong
    <3>. QED BY <2>1, LeastNumber
  <2>3. m \in 0 .. N /\ m - 1 \notin Wrong
    <3>1. m \in Wrong /\ m \in 0 .. N
      OBVIOUS
    <3>. HIDE DEF Wrong
    <3>. QED BY <2>1, <2>2, <3>1
  <2>4. PICK i \in 1 .. L + 1 : L + 1 - i <= m /\ w[m][Node(i)] # Rest(i)
    OBVIOUS
  <2>5. None \in Targets(next) /\ \A x \in S : x \in Targets(next)
    BY DEF Targets
  <2>6. CASE i = L + 1
    <3>1. Node(i) = None /\ Rest(i) = <<>>
      BY <2>6, <1>6
    <3>2. Round(next, m, w[m - 1])[None] = <<>>
      BY <2>5 DEF Round
    <3>. QED BY <2>3, <2>4, <3>1, <3>2, <1>4
  <2>7. CASE i # L + 1
    <3>1. i \in 1 .. L /\ m # 0 /\ m - 1 \in 0 .. N
      <4>1. L + 1 - i <= m /\ i \in 1 .. L + 1 /\ m \in 0 .. N
        BY <2>3, <2>4
      <4>. HIDE DEF Wrong, Node
      <4>. QED BY <4>1, <2>7, <1>1
    <3>2. Node(i) = s[i] /\ s[i] \in S /\ next[s[i]] = Node(i + 1)
      BY <3>1, <1>5, <1>1 DEF L
    <3>3. i + 1 \in 1 .. L + 1 /\ L + 1 - (i + 1) <= m - 1
      BY <3>1, <2>3, <2>4, <1>1
    <3>4. w[m - 1][Node(i + 1)] = Rest(i + 1)
      BY <2>3, <3>1, <3>3
    <3>5. w[m] = Round(next, m, w[m - 1]) /\ m > 0
      BY <2>3, <3>1, <1>4
    <3>6. w[m][s[i]] = <<s[i]>> \o w[m - 1][Node(i + 1)]
      BY <3>5, <3>2, <2>5 DEF Round
    <3>. QED BY <3>1, <3>2, <3>4, <3>6, <2>4, <1>6
  <2>. QED BY <2>6, <2>7
<1>8. Node(1) = head /\ 1 \in 1 .. L + 1 /\ L + 1 - 1 <= N /\ N \in 0 .. N
  <2>1. s = <<>> <=> L = 0
    BY EmptySeq DEF L
  <2>. QED BY <1>1, <2>1
<1>9. w[N][Node(1)] = Rest(1)
  BY <1>7, <1>8
<1>. QED BY <1>2, <1>6, <1>8, <1>9

-----------------------------------------------------------------------------
(* Doubly linked lists that pointers represent                              *)

\* The last entry of a list: what a tail pointer has.
Final(s) == IF s = <<>> THEN None ELSE s[Len(s)]

\* The pointers link the entries of s, and no others, from head on.
Chained(s, head, next, prev) ==
  /\ head = IF s = <<>> THEN None ELSE s[1]
  /\ \A i \in 1 .. Len(s) : /\ next[s[i]] = IF i = Len(s) THEN None ELSE s[i + 1]
                            /\ prev[s[i]] = IF i = 1 THEN None ELSE s[i - 1]

\* The positions next to one of n.
LEMMA Positions ==
  ASSUME NEW n \in Nat, NEW i \in 1 .. n
  PROVE  /\ i # n => i + 1 \in 1 .. n /\ i + 1 # 1 /\ i + 1 - 1 = i
         /\ i # 1 => i - 1 \in 1 .. n /\ i - 1 # n /\ i - 1 + 1 = i
         /\ i + 1 # i /\ i - 1 # i /\ i + 1 # i - 1
         /\ 1 \in 1 .. n /\ n \in 1 .. n /\ n # 0
  OBVIOUS

\* A new first entry.
LEMMA PushList ==
  ASSUME NEW S, NEW s \in Seq(S), NEW x \in S
  PROVE  /\ <<x>> \o s \in Seq(S)
         /\ Len(<<x>> \o s) = Len(s) + 1
         /\ (<<x>> \o s)[1] = x
         /\ \A i \in 1 .. Len(s) : (<<x>> \o s)[i + 1] = s[i]
         /\ Elems(<<x>> \o s) = Elems(s) \cup {x}
         /\ Distinct(s) /\ x \notin Elems(s) => Distinct(<<x>> \o s)
<1>. DEFINE o == <<x>>
            t == o \o s
<1>1. o \in Seq(S) /\ Len(o) = 1 /\ o[1] = x
  OBVIOUS
<1>. HIDE DEF o
<1>2. /\ t \in Seq(S) /\ Len(t) = Len(o) + Len(s)
      /\ \A i \in 1 .. Len(o) + Len(s) : t[i] = IF i <= Len(o) THEN o[i] ELSE s[i - Len(o)]
  BY <1>1, ConcatProperties
<1>3. Len(s) \in Nat /\ DOMAIN s = 1 .. Len(s)
  BY LenProperties
<1>. HIDE DEF t
<1>4. Len(t) = Len(s) + 1 /\ DOMAIN t = 1 .. Len(s) + 1
  BY <1>1, <1>2, <1>3, LenProperties
<1>5. t[1] = x
  BY <1>1, <1>2, <1>3
<1>6. ASSUME NEW i \in 1 .. Len(s)  PROVE t[i + 1] = s[i]
  <2>1. i + 1 \in 1 .. 1 + Len(s) /\ ~(i + 1 <= 1) /\ i + 1 - 1 = i
    BY <1>3
  <2>. QED BY <2>1, <1>1, <1>2
<1>7. \A i \in 1 .. Len(s) + 1 : i = 1 \/ (i - 1 \in 1 .. Len(s) /\ t[i] = s[i - 1])
  <2>. TAKE i \in 1 .. Len(s) + 1
  <2>1. CASE i # 1
    <3>1. i - 1 \in 1 .. Len(s) /\ i - 1 + 1 = i
      BY <2>1, <1>3
    <3>2. t[i - 1 + 1] = s[i - 1]
      BY <3>1, <1>6
    <3>. QED BY <3>1, <3>2
  <2>. QED BY <2>1
<1>8. Elems(t) = Elems(s) \cup {x}
  <2>1. ASSUME NEW y \in Elems(t)  PROVE y \in Elems(s) \cup {x}
    BY <1>3, <1>4, <1>5, <1>7 DEF Elems
  <2>2. ASSUME NEW y \in Elems(s)  PROVE y \in Elems(t)
    <3>1. PICK i \in 1 .. Len(s) : y = s[i]
      BY <1>3 DEF Elems
    <3>2. i + 1 \in DOMAIN t /\ t[i + 1] = y
      BY <3>1, <1>3, <1>4, <1>6
    <3>. QED BY <3>2 DEF Elems
  <2>3. x \in Elems(t)
    BY <1>3, <1>4, <1>5 DEF Elems
  <2>. QED BY <2>1, <2>2, <2>3
<1>9. ASSUME Distinct(s), x \notin Elems(s)  PROVE Distinct(t)
  <2>. SUFFICES ASSUME NEW i \in 1 .. Len(s) + 1, NEW j \in 1 .. Len(s) + 1, t[i] = t[j]
                PROVE  i = j
    BY <1>4 DEF Distinct
  <2>1. \A k \in 1 .. Len(s) : s[k] # x
    BY <1>9, <1>3 DEF Elems
  <2>2. CASE i = 1
    BY <2>1, <2>2, <1>5, <1>7
  <2>3. CASE j = 1
    BY <2>1, <2>3, <1>5, <1>7
  <2>4. CASE i # 1 /\ j # 1
    <3>1. i - 1 = j - 1
      BY <2>4, <1>3, <1>7, <1>9 DEF Distinct
    <3>. QED BY <3>1
  <2>. QED BY <2>2, <2>3, <2>4
<1>. QED BY <1>2, <1>4, <1>5, <1>6, <1>8, <1>9 DEF t, o

\* What Unlink leaves: the entries before the one at p, and those after it, one
\* position earlier.
LEMMA UnlinkAt ==
  ASSUME NEW S, NEW s \in Seq(S), Distinct(s), NEW p \in 1 .. Len(s)
  PROVE  /\ Len(s) \in Nat /\ Len(Unlink(s, s[p])) = Len(s) - 1
         /\ \A i \in 1 .. Len(s) - 1 :
              Unlink(s, s[p])[i] = IF i < p THEN s[i] ELSE s[i + 1]
<1>1. Len(s) \in Nat /\ DOMAIN s = 1 .. Len(s)
  BY LenProperties
<1>2. s[p] \in Elems(s) /\ (CHOOSE i \in DOMAIN s : s[i] = s[p]) = p
  BY <1>1 DEF Elems, Distinct
<1>3. Unlink(s, s[p]) = [i \in 1 .. Len(s) - 1 |-> IF i < p THEN s[i] ELSE s[i + 1]]
  BY <1>2 DEF Unlink
<1>4. Unlink(s, s[p]) \in Seq(S)
  BY UnlinkList
<1>5. DOMAIN Unlink(s, s[p]) = 1 .. Len(Unlink(s, s[p])) /\ Len(Unlink(s, s[p])) \in Nat
  BY <1>4, LenProperties
<1>6. 1 .. Len(Unlink(s, s[p])) = 1 .. Len(s) - 1 /\ Len(s) - 1 \in Nat
  BY <1>1, <1>3, <1>5
<1>7. ASSUME NEW m \in Nat, NEW n \in Nat, 1 .. m = 1 .. n  PROVE m = n
  <2>1. m \in 1 .. n \/ m = 0
    BY <1>7
  <2>2. n \in 1 .. m \/ n = 0
    BY <1>7
  <2>. QED BY <2>1, <2>2
<1>8. Len(Unlink(s, s[p])) = Len(s) - 1
  BY <1>5, <1>6, <1>7
<1>. QED BY <1>1, <1>3, <1>8

\* What links tell of an entry: its neighbours are entries, they point back, and
\* the ends of the list are where the pointers end.
LEMMA ChainedLinks ==
  ASSUME NEW S, None \notin S, NEW s \in Seq(S), Distinct(s),
         NEW head, NEW next, NEW prev, Chained(s, head, next, prev)
  PROVE  /\ head \in Elems(s) \cup {None} /\ Final(s) \in Elems(s) \cup {None}
         /\ Elems(s) \subseteq S /\ (head = None <=> s = <<>>) /\ (Final(s) = None <=> s = <<>>)
         /\ \A y \in Elems(s) :
              /\ next[y] \in Elems(s) \cup {None} /\ prev[y] \in Elems(s) \cup {None}
              /\ next[y] # None => prev[next[y]] = y
              /\ prev[y] # None => next[prev[y]] = y
              /\ prev[y] = None <=> y = head
              /\ next[y] = None <=> y = Final(s)
              /\ next[y] # y /\ prev[y] # y
              /\ next[y] # None => next[y] # prev[y]
<1>1. /\ Len(s) \in Nat /\ DOMAIN s = 1 .. Len(s) /\ \A i \in 1 .. Len(s) : s[i] \in S
      /\ s = <<>> <=> Len(s) = 0
  BY LenProperties, ElementOfSeq, EmptySeq
<1>2. \A i \in 1 .. Len(s) : s[i] \in Elems(s) /\ s[i] # None
  BY <1>1 DEF Elems
<1>3. \A i, j \in 1 .. Len(s) : s[i] = s[j] => i = j
  BY <1>1 DEF Distinct
<1>4. /\ head \in Elems(s) \cup {None} /\ Final(s) \in Elems(s) \cup {None}
      /\ (head = None <=> s = <<>>) /\ (Final(s) = None <=> s = <<>>)
  <2>1. CASE s = <<>>
    BY <2>1 DEF Chained, Final
  <2>2. CASE s # <<>>
    <3>1. 1 \in 1 .. Len(s) /\ Len(s) \in 1 .. Len(s)
      BY <2>2, <1>1
    <3>2. head = s[1] /\ Final(s) = s[Len(s)]
      BY <2>2 DEF Chained, Final
    <3>. QED BY <2>2, <3>1, <3>2, <1>2
  <2>. QED BY <2>1, <2>2
<1>5. Elems(s) \subseteq S
  BY ElemsInSet
<1>6. ASSUME NEW i \in 1 .. Len(s)
      PROVE  LET y == s[i] IN
              /\ next[y] \in Elems(s) \cup {None} /\ prev[y] \in Elems(s) \cup {None}
              /\ next[y] # None => prev[next[y]] = y
              /\ prev[y] # None => next[prev[y]] = y
              /\ prev[y] = None <=> y = head
              /\ next[y] = None <=> y = Final(s)
              /\ next[y] # y /\ prev[y] # y
              /\ next[y] # None => next[y] # prev[y]
  <2>. DEFINE L == Len(s)
  <2>0. L \in Nat /\ i \in 1 .. L
    BY <1>1
  <2>9. /\ i # L => i + 1 \in 1 .. L /\ i + 1 # 1 /\ i + 1 - 1 = i
        /\ i # 1 => i - 1 \in 1 .. L /\ i - 1 # L /\ i - 1 + 1 = i
        /\ i + 1 # i /\ i - 1 # i /\ i + 1 # i - 1
        /\ 1 \in 1 .. L /\ L \in 1 .. L /\ L # 0
    <3>. HIDE DEF L
    <3>. QED BY <2>0, Positions
  <2>1. /\ next[s[i]] = IF i = Len(s) THEN None ELSE s[i + 1]
        /\ prev[s[i]] = IF i = 1 THEN None ELSE s[i - 1]
    BY DEF Chained
  <2>2. i # Len(s) => i + 1 \in 1 .. Len(s) /\ i + 1 # 1 /\ i + 1 - 1 = i /\ i + 1 # i
    BY <2>9, <1>1
  <2>3. i # 1 => i - 1 \in 1 .. Len(s) /\ i - 1 # Len(s) /\ i - 1 + 1 = i /\ i - 1 # i
    BY <2>9, <1>1
  <2>4. i # Len(s) => prev[s[i + 1]] = s[i]
    BY <2>2 DEF Chained
  <2>5. i # 1 => next[s[i - 1]] = s[i]
    BY <2>3 DEF Chained
  <2>6. 1 \in 1 .. Len(s) /\ Len(s) \in 1 .. Len(s) /\ s # <<>> /\ i + 1 # i - 1
    BY <2>9, <1>1
  <2>7. head = s[1] /\ Final(s) = s[Len(s)]
    BY <2>6 DEF Chained, Final
  <2>8. i # Len(s) /\ i # 1 => s[i + 1] # s[i - 1]
    BY <2>2, <2>3, <2>6, <1>3
  <2>. QED BY <2>1, <2>2, <2>3, <2>4, <2>5, <2>6, <2>7, <2>8, <1>2, <1>3
<1>7. \A y \in Elems(s) : \E i \in 1 .. Len(s) : y = s[i]
  BY <1>1 DEF Elems
<1>. QED BY <1>4, <1>5, <1>6, <1>7

\* What is linked stays linked when no entry's pointers change.
LEMMA ChainedFrame ==
  ASSUME NEW S, NEW s \in Seq(S), NEW head, NEW next, NEW prev, NEW next2, NEW prev2,
         Chained(s, head, next, prev),
         \A y \in Elems(s) : next2[y] = next[y] /\ prev2[y] = prev[y]
  PROVE  Chained(s, head, next2, prev2)
<1>1. \A i \in 1 .. Len(s) : s[i] \in Elems(s)
  BY LenProperties DEF Elems
<1>. QED BY <1>1 DEF Chained

\* A new head, linked with the old one.
LEMMA PushChained ==
  ASSUME NEW S, None \notin S, NEW s \in Seq(S), Distinct(s), NEW x \in S, x \notin Elems(s),
         NEW head, NEW next, NEW prev, NEW next2, NEW prev2, Chained(s, head, next, prev),
         next2[x] = head, prev2[x] = None,
         \A y \in Elems(s) : /\ next2[y] = next[y]
                             /\ prev2[y] = IF y = head THEN x ELSE prev[y]
  PROVE  Chained(<<x>> \o s, x, next2, prev2)
<1>. DEFINE t == <<x>> \o s
            L == Len(s)
<1>1. /\ t \in Seq(S) /\ Len(t) = L + 1 /\ t[1] = x
      /\ \A i \in 1 .. L : t[i + 1] = s[i]
  BY PushList
<1>2. L \in Nat /\ DOMAIN s = 1 .. L /\ (s = <<>> <=> L = 0) /\ (t = <<>> <=> L + 1 = 0)
  BY <1>1, LenProperties, EmptySeq
<1>3. \A i \in 1 .. L : s[i] \in Elems(s)
  BY <1>2 DEF Elems
<1>4. \A i, j \in 1 .. L : s[i] = s[j] => i = j
  BY <1>2 DEF Distinct
<1>5. /\ head = IF L = 0 THEN None ELSE s[1]
      /\ \A i \in 1 .. L : /\ next[s[i]] = IF i = L THEN None ELSE s[i + 1]
                           /\ prev[s[i]] = IF i = 1 THEN None ELSE s[i - 1]
  BY <1>2 DEF Chained
<1>. HIDE DEF t, L
<1>6. ASSUME NEW i \in 1 .. L + 1
      PROVE  /\ next2[t[i]] = IF i = L + 1 THEN None ELSE t[i + 1]
             /\ prev2[t[i]] = IF i = 1 THEN None ELSE t[i - 1]
  <2>1. CASE i = 1
    <3>1. CASE L = 0
      BY <2>1, <3>1, <1>1, <1>5
    <3>2. CASE L # 0
      <4>1. 1 \in 1 .. L /\ i # L + 1
        BY <3>2, <2>1, <1>2
      <4>. QED BY <4>1, <2>1, <3>2, <1>1, <1>5
    <3>. QED BY <3>1, <3>2
  <2>2. CASE i # 1
    <3>. DEFINE k == i - 1
    <3>1. k \in 1 .. L /\ k + 1 = i /\ (i = L + 1 <=> k = L) /\ L \in Nat
      BY <2>2, <1>2
    <3>. HIDE DEF k
    <3>2. t[i] = s[k]
      BY <3>1, <1>1
    <3>3. next2[t[i]] = IF k = L THEN None ELSE s[k + 1]
      BY <3>1, <3>2, <1>3, <1>5
    <3>4. k # L => k + 1 \in 1 .. L
      BY <3>1
    <3>5. k # L => t[i + 1] = s[k + 1]
      BY <3>1, <3>4, <1>1
    <3>6. prev2[t[i]] = IF k = 1 THEN x ELSE s[k - 1]
      <4>1. 1 \in 1 .. L /\ L # 0
        BY <3>1
      <4>2. s[k] = head <=> k = 1
        BY <4>1, <3>1, <1>4, <1>5
      <4>. QED BY <4>2, <3>1, <3>2, <1>3, <1>5
    <3>7. k # 1 => k - 1 \in 1 .. L /\ k - 1 + 1 = k
      BY <3>1
    <3>8. t[k] = IF k = 1 THEN x ELSE s[k - 1]
      BY <3>7, <1>1
    <3>. QED BY <3>1, <3>3, <3>5, <3>6, <3>8, <2>2 DEF k
  <2>. QED BY <2>1, <2>2
<1>7. t # <<>> /\ Len(t) = L + 1
  BY <1>1, <1>2
<1>. QED BY <1>1, <1>6, <1>7 DEF Chained, t

\* A new last entry, linked with the old one.
LEMMA AppendChained ==
  ASSUME NEW S, None \notin S, NEW s \in Seq(S), Distinct(s), NEW x \in S, x \notin Elems(s),
         NEW head, NEW next, NEW prev, NEW next2, NEW prev2, Chained(s, head, next, prev),
         next2[x] = None, prev2[x] = Final(s),
         \A y \in Elems(s) : /\ next2[y] = IF y = Final(s) THEN x ELSE next[y]
                             /\ prev2[y] = prev[y],
         NEW h, h = IF Final(s) = None THEN x ELSE head
  PROVE  /\ Chained(Append(s, x), h, next2, prev2)
         /\ Final(Append(s, x)) = x
<1>. DEFINE t == Append(s, x)
            L == Len(s)
<1>1. /\ t \in Seq(S) /\ Len(t) = L + 1 /\ t[L + 1] = x /\ t # <<>>
      /\ \A i \in 1 .. L : t[i] = s[i]
  BY AppendProperties
<1>2. L \in Nat /\ DOMAIN s = 1 .. L /\ (s = <<>> <=> L = 0)
  BY LenProperties, EmptySeq
<1>3. \A i \in 1 .. L : s[i] \in Elems(s)
  BY <1>2 DEF Elems
<1>4. \A i, j \in 1 .. L : s[i] = s[j] => i = j
  BY <1>2 DEF Distinct
<1>5. /\ head = IF L = 0 THEN None ELSE s[1]
      /\ \A i \in 1 .. L : /\ next[s[i]] = IF i = L THEN None ELSE s[i + 1]
                           /\ prev[s[i]] = IF i = 1 THEN None ELSE s[i - 1]
  BY <1>2 DEF Chained
<1>6. Final(s) = IF L = 0 THEN None ELSE s[L]
  BY <1>2 DEF Final
<1>7. \A i \in 1 .. L : s[i] # None
  BY ElementOfSeq DEF L
<1>. HIDE DEF t, L
<1>8. h = t[1]
  <2>1. CASE L = 0
    BY <2>1, <1>1, <1>6
  <2>2. CASE L # 0
    <3>1. L \in 1 .. L /\ 1 \in 1 .. L
      BY <2>2, <1>2
    <3>. QED BY <2>2, <3>1, <1>1, <1>5, <1>6, <1>7
  <2>. QED BY <2>1, <2>2
<1>9. ASSUME NEW i \in 1 .. L + 1
      PROVE  /\ next2[t[i]] = IF i = L + 1 THEN None ELSE t[i + 1]
             /\ prev2[t[i]] = IF i = 1 THEN None ELSE t[i - 1]
  <2>1. CASE i = L + 1
    <3>1. next2[t[i]] = None /\ prev2[t[i]] = Final(s)
      BY <2>1, <1>1
    <3>2. CASE L = 0
      BY <2>1, <3>1, <3>2, <1>6
    <3>3. CASE L # 0
      <4>1. L \in 1 .. L /\ i # 1 /\ i - 1 = L
        BY <2>1, <3>3, <1>2
      <4>. QED BY <4>1, <3>1, <3>3, <2>1, <1>1, <1>6
    <3>. QED BY <3>2, <3>3
  <2>2. CASE i # L + 1
    <3>1. i \in 1 .. L /\ L \in 1 .. L /\ L # 0
      BY <2>2, <1>2
    <3>2. t[i] = s[i] /\ (s[i] = Final(s) <=> i = L)
      BY <3>1, <1>1, <1>4, <1>6
    <3>3. next2[t[i]] = IF i = L THEN x ELSE s[i + 1]
      BY <3>1, <3>2, <1>3, <1>5
    <3>4. i # L => i + 1 \in 1 .. L
      BY <3>1, <1>2
    <3>5. t[i + 1] = IF i = L THEN x ELSE s[i + 1]
      BY <3>1, <3>4, <1>1
    <3>6. i # 1 => i - 1 \in 1 .. L
      BY <3>1, <1>2
    <3>7. prev2[t[i]] = IF i = 1 THEN None ELSE t[i - 1]
      BY <3>1, <3>2, <3>6, <1>1, <1>3, <1>5
    <3>. QED BY <2>2, <3>3, <3>5, <3>7
  <2>. QED BY <2>1, <2>2
<1>10. Chained(t, h, next2, prev2)
  BY <1>1, <1>8, <1>9 DEF Chained
<1>. QED BY <1>1, <1>10 DEF t, Final

\* The pointers next2 and prev2 link the neighbours of x with each other.
Bypass(s, x, next, prev, next2, prev2) ==
  \A y \in Elems(s) \ {x} :
    /\ next2[y] = IF y = prev[x] THEN next[x] ELSE next[y]
    /\ prev2[y] = IF y = next[x] THEN prev[x] ELSE prev[y]

\* Then x is out of the list.
LEMMA UnlinkChained ==
  ASSUME NEW S, None \notin S, NEW s \in Seq(S), Distinct(s), NEW x \in Elems(s),
         NEW head, NEW next, NEW prev, NEW next2, NEW prev2, Chained(s, head, next, prev),
         Bypass(s, x, next, prev, next2, prev2),
         NEW h, h = IF prev[x] = None THEN next[x] ELSE head
  PROVE  /\ Chained(Unlink(s, x), h, next2, prev2)
         /\ Final(Unlink(s, x)) = IF next[x] = None THEN prev[x] ELSE Final(s)
<1>. DEFINE t == Unlink(s, x)
            L == Len(s)
<1>1. /\ L \in Nat /\ DOMAIN s = 1 .. L /\ (s = <<>> <=> L = 0)
      /\ \A i \in 1 .. L : s[i] \in Elems(s) /\ s[i] # None
  BY LenProperties, EmptySeq, ElementOfSeq DEF Elems
<1>2. PICK p \in 1 .. L : x = s[p]
  BY <1>1 DEF Elems
<1>3. /\ t \in Seq(S) /\ Len(t) = L - 1
      /\ \A i \in 1 .. L - 1 : t[i] = IF i < p THEN s[i] ELSE s[i + 1]
  <2>1. t \in Seq(S)
    BY UnlinkList
  <2>. QED BY <1>2, <2>1, UnlinkAt
<1>4. \A i, j \in 1 .. L : s[i] = s[j] => i = j
  BY <1>1 DEF Distinct
<1>5. /\ head = IF L = 0 THEN None ELSE s[1]
      /\ \A i \in 1 .. L : /\ next[s[i]] = IF i = L THEN None ELSE s[i + 1]
                           /\ prev[s[i]] = IF i = 1 THEN None ELSE s[i - 1]
  BY <1>1 DEF Chained
<1>6. Final(s) = s[L]
  BY <1>1, <1>2 DEF Final
<1>7. t = <<>> <=> L = 1
  <2>1. t = <<>> <=> Len(t) = 0
    BY <1>3, LenProperties, EmptySeq
  <2>. HIDE DEF t, L
  <2>. QED BY <2>1, <1>1, <1>2, <1>3
<1>. HIDE DEF t, L
<1>8. /\ next[x] = IF p = L THEN None ELSE s[p + 1]
      /\ prev[x] = IF p = 1 THEN None ELSE s[p - 1]
      /\ p # L => p + 1 \in 1 .. L /\ s[p + 1] # None
      /\ p # 1 => p - 1 \in 1 .. L /\ s[p - 1] # None
      /\ next[x] = None <=> p = L
      /\ prev[x] = None <=> p = 1
  <2>1. /\ next[x] = IF p = L THEN None ELSE s[p + 1]
        /\ prev[x] = IF p = 1 THEN None ELSE s[p - 1]
    BY <1>2, <1>5
  <2>2. p # L => p + 1 \in 1 .. L
    BY <1>1, <1>2
  <2>3. p # 1 => p - 1 \in 1 .. L
    BY <1>1, <1>2
  <2>. QED BY <2>1, <2>2, <2>3, <1>1
<1>9. \A k \in 1 .. L : k # p => /\ next2[s[k]] = IF k + 1 = p THEN next[x] ELSE next[s[k]]
                                 /\ prev2[s[k]] = IF k = p + 1 THEN prev[x] ELSE prev[s[k]]
  <2>. SUFFICES ASSUME NEW k \in 1 .. L, k # p
                PROVE  /\ next2[s[k]] = IF k + 1 = p THEN next[x] ELSE next[s[k]]
                       /\ prev2[s[k]] = IF k = p + 1 THEN prev[x] ELSE prev[s[k]]
    OBVIOUS
  <2>1. s[k] \in Elems(s) \ {x}
    BY <1>1, <1>2, <1>4
  <2>2. s[k] = prev[x] <=> k + 1 = p
    <3>1. CASE p = 1
      BY <3>1, <1>1, <1>8
    <3>2. CASE p # 1
      <4>1. s[k] = s[p - 1] <=> k = p - 1
        BY <3>2, <1>4, <1>8
      <4>. QED BY <4>1, <3>2, <1>2, <1>8
    <3>. QED BY <3>1, <3>2
  <2>3. s[k] = next[x] <=> k = p + 1
    <3>1. CASE p = L
      BY <3>1, <1>1, <1>8
    <3>2. CASE p # L
      BY <3>2, <1>4, <1>8
    <3>. QED BY <3>1, <3>2
  <2>. QED BY <2>1, <2>2, <2>3 DEF Bypass
<1>10. ASSUME NEW i \in 1 .. L - 1
       PROVE  /\ next2[t[i]] = IF i = L - 1 THEN None ELSE t[i + 1]
              /\ prev2[t[i]] = IF i = 1 THEN None ELSE t[i - 1]
  <2>. DEFINE k == IF i < p THEN i ELSE i + 1
  <2>1. k \in 1 .. L /\ k # p /\ t[i] = s[k]
    BY <1>1, <1>2, <1>3
  <2>2. next2[t[i]] = IF i = L - 1 THEN None ELSE t[i + 1]
    <3>1. i # L - 1 => i + 1 \in 1 .. L - 1
      BY <1>1
    <3>2. i # L - 1 => t[i + 1] = IF i + 1 < p THEN s[i + 1] ELSE s[i + 1 + 1]
      BY <3>1, <1>3
    <3>3. CASE i + 1 = p
      <4>1. k = i /\ (i = L - 1 <=> p = L) /\ ~(i + 1 < p)
        BY <3>3, <1>1, <1>2
      <4>2. next2[t[i]] = IF p = L THEN None ELSE s[p + 1]
        BY <4>1, <3>3, <2>1, <1>8, <1>9
      <4>. QED BY <4>1, <4>2, <3>2, <3>3
    <3>4. CASE i + 1 < p
      <4>1. k = i /\ i # L /\ i # L - 1 /\ k + 1 # p
        BY <3>4, <1>1, <1>2
      <4>. QED BY <4>1, <3>2, <3>4, <2>1, <1>5, <1>9
    <3>5. CASE ~(i < p)
      <4>1. k = i + 1 /\ k + 1 # p /\ (k = L <=> i = L - 1) /\ ~(i + 1 < p)
        BY <3>5, <1>1, <1>2
      <4>2. next2[t[i]] = IF k = L THEN None ELSE s[k + 1]
        BY <4>1, <2>1, <1>5, <1>9
      <4>. QED BY <4>1, <4>2, <3>2
    <3>. QED BY <3>3, <3>4, <3>5, <1>2
  <2>3. prev2[t[i]] = IF i = 1 THEN None ELSE t[i - 1]
    <3>1. i # 1 => i - 1 \in 1 .. L - 1
      BY <1>1
    <3>2. i # 1 => t[i - 1] = IF i - 1 < p THEN s[i - 1] ELSE s[i - 1 + 1]
      BY <3>1, <1>3
    <3>3. CASE i = p
      <4>1. k = p + 1 /\ i - 1 < p
        BY <3>3, <1>2
      <4>2. prev2[t[i]] = IF p = 1 THEN None ELSE s[p - 1]
        BY <4>1, <2>1, <1>8, <1>9
      <4>. QED BY <4>1, <4>2, <3>2, <3>3
    <3>4. CASE i < p
      <4>1. k = i /\ k # p + 1 /\ i - 1 < p
        BY <3>4, <1>2
      <4>2. prev2[t[i]] = IF i = 1 THEN None ELSE s[i - 1]
        BY <4>1, <2>1, <1>5, <1>9
      <4>. QED BY <4>1, <4>2, <3>2
    <3>5. CASE i > p
      <4>1. k = i + 1 /\ k # p + 1 /\ ~(i - 1 < p) /\ k # 1 /\ i # 1 /\ k - 1 = i /\ i - 1 + 1 = i
        BY <3>5, <1>1, <1>2
      <4>2. prev2[t[i]] = s[k - 1]
        BY <4>1, <2>1, <1>5, <1>9
      <4>. QED BY <4>1, <4>2, <3>2
    <3>. QED BY <3>3, <3>4, <3>5, <1>2
  <2>. QED BY <2>2, <2>3
<1>11. h = IF L = 1 THEN None ELSE t[1]
  <2>1. CASE p = 1
    <3>1. L # 1 => 1 \in 1 .. L - 1
      BY <1>1, <1>2
    <3>2. L # 1 => t[1] = s[2]
      BY <3>1, <2>1, <1>3
    <3>. QED BY <3>2, <2>1, <1>8
  <2>2. CASE p # 1
    <3>1. L # 1 /\ L # 0 /\ 1 \in 1 .. L - 1 /\ 1 < p
      BY <2>2, <1>1, <1>2
    <3>. QED BY <3>1, <2>2, <1>3, <1>5, <1>8
  <2>. QED BY <2>1, <2>2
<1>12. Chained(t, h, next2, prev2)
  BY <1>3, <1>7, <1>10, <1>11 DEF Chained
<1>13. Final(t) = IF next[x] = None THEN prev[x] ELSE Final(s)
  <2>1. Final(t) = IF L = 1 THEN None ELSE t[L - 1]
    BY <1>3, <1>7 DEF Final
  <2>2. CASE L = 1
    BY <2>1, <2>2, <1>2, <1>8
  <2>3. CASE L # 1
    <3>1. L - 1 \in 1 .. L - 1 /\ L - 1 + 1 = L /\ (L - 1 < p <=> p = L)
      BY <2>3, <1>1, <1>2
    <3>2. t[L - 1] = IF p = L THEN s[L - 1] ELSE s[L]
      BY <3>1, <1>3
    <3>. QED BY <3>2, <2>1, <2>3, <1>6, <1>8
  <2>. QED BY <2>2, <2>3
<1>. QED BY <1>12, <1>13 DEF t

-----------------------------------------------------------------------------
(* Hash chains                                                              *)

Pointers(S) == [S -> S \cup {None, Junk}]

\* l has the chains ch of the buckets: no object is in two of them.
HashChains(l, ch, S) ==
  /\ l \in [head: [Buckets -> S \cup {None}], next: Pointers(S), prev: Pointers(S)]
  /\ ch \in [Buckets -> Seq(S)]
  /\ \A b \in Buckets : Distinct(ch[b]) /\ Chained(ch[b], l.head[b], l.next, l.prev)
  /\ \A b, d \in Buckets : b # d => Elems(ch[b]) \cap Elems(ch[d]) = {}

\* An assignment behind a check for NULL.
LEMMA SetType ==
  ASSUME NEW S, None \notin S, NEW f \in Pointers(S), NEW x \in S \cup {None}, NEW v \in S \cup {None, Junk}
  PROVE  /\ Set(f, x, v) \in Pointers(S)
         /\ \A y \in S : Set(f, x, v)[y] = IF y = x THEN v ELSE f[y]
  BY DEF Set, Pointers

\* The chains are what Follow finds.
LEMMA ChainsFollow ==
  ASSUME NEW S, IsFiniteSet(S), None \notin S, NEW l, NEW ch, HashChains(l, ch, S)
  PROVE  ch = [b \in Buckets |-> Follow(l.head[b], l.next)]
<1>1. ASSUME NEW b \in Buckets  PROVE Follow(l.head[b], l.next) = ch[b]
  <2>1. DOMAIN l.next = S /\ ch[b] \in Seq(S) /\ Distinct(ch[b])
    BY DEF HashChains, Pointers
  <2>2. /\ l.head[b] = IF ch[b] = <<>> THEN None ELSE ch[b][1]
        /\ \A i \in 1 .. Len(ch[b]) :
             l.next[ch[b][i]] = IF i = Len(ch[b]) THEN None ELSE ch[b][i + 1]
    BY DEF HashChains, Chained
  <2>. QED BY <2>1, <2>2, FollowIs
<1>2. ch = [b \in Buckets |-> ch[b]]
  BY DEF HashChains
<1>. QED BY <1>1, <1>2

\* PushFront puts a new object in front of its chain, and leaves the others.
LEMMA ChainsPush ==
  ASSUME NEW S, None \notin S, NEW l, NEW ch, HashChains(l, ch, S),
         NEW b \in Buckets, NEW x \in S, \A d \in Buckets : x \notin Elems(ch[d])
  PROVE  HashChains(PushFront(l, b, x), [ch EXCEPT ![b] = <<x>> \o @], S)
<1>. DEFINE k == PushFront(l, b, x)
            c2 == [ch EXCEPT ![b] = <<x>> \o @]
<1>1. /\ l.head \in [Buckets -> S \cup {None}]
      /\ l.next \in Pointers(S) /\ l.prev \in Pointers(S) /\ ch \in [Buckets -> Seq(S)]
  BY DEF HashChains
<1>2. \A d \in Buckets : /\ ch[d] \in Seq(S) /\ Distinct(ch[d])
                         /\ Chained(ch[d], l.head[d], l.next, l.prev)
                         /\ l.head[d] \in Elems(ch[d]) \cup {None} /\ Elems(ch[d]) \subseteq S
  <2>. TAKE d \in Buckets
  <2>1. ch[d] \in Seq(S) /\ Distinct(ch[d]) /\ Chained(ch[d], l.head[d], l.next, l.prev)
    BY <1>1 DEF HashChains
  <2>. QED BY <2>1, ChainedLinks
<1>3. /\ k.head = [l.head EXCEPT ![b] = x]
      /\ k.next = [l.next EXCEPT ![x] = l.head[b]]
      /\ k.prev = [Set(l.prev, l.head[b], x) EXCEPT ![x] = None]
      /\ k = [head |-> k.head, next |-> k.next, prev |-> k.prev]
  BY DEF PushFront
<1>4. /\ Set(l.prev, l.head[b], x) \in Pointers(S)
      /\ \A y \in S : Set(l.prev, l.head[b], x)[y] = IF y = l.head[b] THEN x ELSE l.prev[y]
  <2>1. l.head[b] \in S \cup {None} /\ x \in S \cup {None, Junk} /\ l.prev \in Pointers(S)
    BY <1>1
  <2>. QED BY <2>1 DEF Set, Pointers
<1>. HIDE DEF k
<1>5. /\ k.head \in [Buckets -> S \cup {None}] /\ k.next \in Pointers(S) /\ k.prev \in Pointers(S)
      /\ k.next[x] = l.head[b] /\ k.prev[x] = None
      /\ \A y \in S : y # x => /\ k.next[y] = l.next[y]
                               /\ k.prev[y] = IF y = l.head[b] THEN x ELSE l.prev[y]
      /\ \A d \in Buckets : k.head[d] = IF d = b THEN x ELSE l.head[d]
  BY <1>1, <1>3, <1>4 DEF Pointers
<1>6. k \in [head: [Buckets -> S \cup {None}], next: Pointers(S), prev: Pointers(S)]
  BY <1>3, <1>5
<1>7. /\ <<x>> \o ch[b] \in Seq(S) /\ Distinct(<<x>> \o ch[b])
      /\ Elems(<<x>> \o ch[b]) = Elems(ch[b]) \cup {x}
  BY <1>2, PushList
<1>8. c2 \in [Buckets -> Seq(S)] /\ \A d \in Buckets : c2[d] = IF d = b THEN <<x>> \o ch[b] ELSE ch[d]
  BY <1>1, <1>7
<1>. HIDE DEF c2
<1>9. ASSUME NEW d \in Buckets
      PROVE  Distinct(c2[d]) /\ Chained(c2[d], k.head[d], k.next, k.prev)
  <2>1. CASE d = b
    <3>1. \A y \in Elems(ch[b]) : /\ k.next[y] = l.next[y]
                                  /\ k.prev[y] = IF y = l.head[b] THEN x ELSE l.prev[y]
      BY <1>2, <1>5
    <3>2. Chained(<<x>> \o ch[b], x, k.next, k.prev)
      <4>1. /\ ch[b] \in Seq(S) /\ Distinct(ch[b]) /\ x \notin Elems(ch[b])
            /\ Chained(ch[b], l.head[b], l.next, l.prev)
        BY <1>2
      <4>2. k.next[x] = l.head[b] /\ k.prev[x] = None
        BY <1>5
      <4>. QED BY <4>1, <4>2, <3>1, PushChained
    <3>. QED BY <2>1, <3>2, <1>5, <1>7, <1>8
  <2>2. CASE d # b
    <3>1. l.head[b] \notin Elems(ch[d])
      BY <2>2, <1>2 DEF HashChains
    <3>2. \A y \in Elems(ch[d]) : k.next[y] = l.next[y] /\ k.prev[y] = l.prev[y]
      BY <3>1, <1>2, <1>5
    <3>3. Chained(ch[d], l.head[d], k.next, k.prev)
      BY <3>2, <1>2, ChainedFrame
    <3>. QED BY <2>2, <3>3, <1>2, <1>5, <1>8
  <2>. QED BY <2>1, <2>2
<1>10. ASSUME NEW d \in Buckets, NEW e \in Buckets, d # e
       PROVE  Elems(c2[d]) \cap Elems(c2[e]) = {}
  <2>1. Elems(ch[d]) \cap Elems(ch[e]) = {}
    BY <1>10 DEF HashChains
  <2>2. /\ Elems(c2[d]) = IF d = b THEN Elems(ch[d]) \cup {x} ELSE Elems(ch[d])
        /\ Elems(c2[e]) = IF e = b THEN Elems(ch[e]) \cup {x} ELSE Elems(ch[e])
    BY <1>7, <1>8
  <2>3. x \notin Elems(ch[d]) /\ x \notin Elems(ch[e])
    OBVIOUS
  <2>. QED BY <2>1, <2>2, <2>3, <1>10
<1>. QED BY <1>6, <1>8, <1>9, <1>10 DEF HashChains, k, c2

\* Drop takes an object out of its chain, and leaves the others.
LEMMA ChainsDrop ==
  ASSUME NEW S, None \notin S, NEW l, NEW ch, HashChains(l, ch, S),
         NEW b \in Buckets, NEW x \in Elems(ch[b])
  PROVE  HashChains(Drop(l, b, x), [d \in Buckets |-> Unlink(ch[d], x)], S)
<1>. DEFINE k == Drop(l, b, x)
            c2 == [d \in Buckets |-> Unlink(ch[d], x)]
            n == l.next[x]
            p == l.prev[x]
<1>1. /\ l.head \in [Buckets -> S \cup {None}]
      /\ l.next \in Pointers(S) /\ l.prev \in Pointers(S) /\ ch \in [Buckets -> Seq(S)]
  BY DEF HashChains
<1>2. \A d \in Buckets : /\ ch[d] \in Seq(S) /\ Distinct(ch[d])
                         /\ Chained(ch[d], l.head[d], l.next, l.prev)
                         /\ l.head[d] \in Elems(ch[d]) \cup {None} /\ Elems(ch[d]) \subseteq S
                         /\ d # b => Elems(ch[d]) \cap Elems(ch[b]) = {}
  <2>. TAKE d \in Buckets
  <2>1. /\ ch[d] \in Seq(S) /\ Distinct(ch[d]) /\ Chained(ch[d], l.head[d], l.next, l.prev)
        /\ d # b => Elems(ch[d]) \cap Elems(ch[b]) = {}
    BY <1>1 DEF HashChains
  <2>. QED BY <2>1, ChainedLinks
<1>3. x \in S /\ n \in Elems(ch[b]) \cup {None} /\ p \in Elems(ch[b]) \cup {None}
  BY <1>2, ChainedLinks
<1>4. /\ k.head = IF p = None THEN [l.head EXCEPT ![b] = n] ELSE l.head
      /\ k.next = [Set(l.next, p, n) EXCEPT ![x] = Junk]
      /\ k.prev = [Set(l.prev, n, p) EXCEPT ![x] = Junk]
      /\ k = [head |-> k.head, next |-> k.next, prev |-> k.prev]
  BY DEF Drop
<1>. HIDE DEF k, n, p
<1>5. n \in S \cup {None} /\ p \in S \cup {None}
  BY <1>2, <1>3
<1>6. /\ Set(l.next, p, n) \in Pointers(S) /\ Set(l.prev, n, p) \in Pointers(S)
      /\ \A y \in S : Set(l.next, p, n)[y] = IF y = p THEN n ELSE l.next[y]
      /\ \A y \in S : Set(l.prev, n, p)[y] = IF y = n THEN p ELSE l.prev[y]
  <2>1. n \in S \cup {None, Junk} /\ p \in S \cup {None, Junk}
    BY <1>5
  <2>. QED BY <2>1, <1>1, <1>5 DEF Set, Pointers
<1>7. /\ k.head \in [Buckets -> S \cup {None}] /\ k.next \in Pointers(S) /\ k.prev \in Pointers(S)
      /\ \A y \in S : y # x => /\ k.next[y] = IF y = p THEN n ELSE l.next[y]
                               /\ k.prev[y] = IF y = n THEN p ELSE l.prev[y]
      /\ \A d \in Buckets : k.head[d] = IF d = b /\ p = None THEN n ELSE l.head[d]
  BY <1>1, <1>3, <1>4, <1>5, <1>6 DEF Pointers
<1>8. k \in [head: [Buckets -> S \cup {None}], next: Pointers(S), prev: Pointers(S)]
  BY <1>4, <1>7
<1>9. \A d \in Buckets : /\ Unlink(ch[d], x) \in Seq(S) /\ Distinct(Unlink(ch[d], x))
                         /\ Elems(Unlink(ch[d], x)) = Elems(ch[d]) \ {x}
  BY <1>2, UnlinkList
<1>10. c2 \in [Buckets -> Seq(S)]
  BY <1>9
<1>11. ASSUME NEW d \in Buckets
       PROVE  Distinct(c2[d]) /\ Chained(c2[d], k.head[d], k.next, k.prev)
  <2>1. CASE d = b
    <3>1. \A y \in Elems(ch[b]) \ {x} : /\ k.next[y] = IF y = p THEN n ELSE l.next[y]
                                        /\ k.prev[y] = IF y = n THEN p ELSE l.prev[y]
      BY <1>2, <1>7
    <3>2. Chained(Unlink(ch[b], x), k.head[b], k.next, k.prev)
      <4>1. /\ ch[b] \in Seq(S) /\ Distinct(ch[b])
            /\ Chained(ch[b], l.head[b], l.next, l.prev)
        BY <1>2
      <4>2. Bypass(ch[b], x, l.next, l.prev, k.next, k.prev)
        BY <3>1 DEF n, p, Bypass
      <4>3. k.head[b] = IF l.prev[x] = None THEN l.next[x] ELSE l.head[b]
        BY <1>7 DEF n, p
      <4>. QED BY <4>1, <4>2, <4>3, UnlinkChained
    <3>. QED BY <2>1, <3>2, <1>7, <1>9
  <2>2. CASE d # b
    <3>1. x \notin Elems(ch[d]) /\ n \notin Elems(ch[d]) /\ p \notin Elems(ch[d])
      <4>1. None \notin Elems(ch[d])
        BY <1>2
      <4>. QED BY <4>1, <2>2, <1>2, <1>3
    <3>2. \A y \in Elems(ch[d]) : k.next[y] = l.next[y] /\ k.prev[y] = l.prev[y]
      BY <3>1, <1>2, <1>7
    <3>3. Chained(ch[d], l.head[d], k.next, k.prev)
      BY <3>2, <1>2, ChainedFrame
    <3>4. Unlink(ch[d], x) = ch[d]
      BY <3>1 DEF Unlink
    <3>. QED BY <2>2, <3>3, <3>4, <1>2, <1>7
  <2>. QED BY <2>1, <2>2
<1>12. ASSUME NEW d \in Buckets, NEW e \in Buckets, d # e
       PROVE  Elems(c2[d]) \cap Elems(c2[e]) = {}
  <2>1. Elems(ch[d]) \cap Elems(ch[e]) = {}
    BY <1>12 DEF HashChains
  <2>. QED BY <2>1, <1>9
<1>. QED BY <1>8, <1>10, <1>11, <1>12 DEF HashChains, k, c2

\* MoveToFront is both: a match that is not first leaves its chain and comes back
\* as the first.
LEMMA MoveIsDropPush ==
  ASSUME NEW S, None \notin S, NEW l, NEW ch, HashChains(l, ch, S),
         NEW b \in Buckets, NEW x \in Elems(ch[b]), l.head[b] # x
  PROVE  MoveToFront(l, b, x) = PushFront(Drop(l, b, x), b, x)
<1>. DEFINE n == l.next[x]
            p == l.prev[x]
            h == l.head[b]
<1>1. /\ l.head \in [Buckets -> S \cup {None}]
      /\ l.next \in Pointers(S) /\ l.prev \in Pointers(S)
      /\ ch[b] \in Seq(S) /\ Distinct(ch[b]) /\ Chained(ch[b], h, l.next, l.prev)
  BY DEF HashChains
<1>2. /\ x \in S /\ n \in S \cup {None} /\ p \in S /\ h \in S /\ p # x /\ n # x /\ h # x
  <2>1. p # None
    BY <1>1, ChainedLinks
  <2>2. h # None
    <3>1. ch[b] # <<>>
      BY EmptyList
    <3>. QED BY <3>1, <1>1, ChainedLinks
  <2>. QED BY <2>1, <2>2, <1>1, ChainedLinks
<1>3. /\ Drop(l, b, x).head = l.head
      /\ Drop(l, b, x).next = [[l.next EXCEPT ![p] = n] EXCEPT ![x] = Junk]
      /\ Drop(l, b, x).prev = [Set(l.prev, n, p) EXCEPT ![x] = Junk]
  BY <1>2 DEF Drop, Set
<1>4. /\ PushFront(Drop(l, b, x), b, x).head = [l.head EXCEPT ![b] = x]
      /\ PushFront(Drop(l, b, x), b, x).next = [[[l.next EXCEPT ![p] = n] EXCEPT ![x] = Junk] EXCEPT ![x] = h]
      /\ PushFront(Drop(l, b, x), b, x).prev = [[[Set(l.prev, n, p) EXCEPT ![x] = Junk] EXCEPT ![h] = x] EXCEPT ![x] = None]
  BY <1>2, <1>3 DEF PushFront, Set
<1>5. Set(l.prev, n, p) \in Pointers(S)
  BY <1>1, <1>2, SetType
<1>. HIDE DEF n, p, h
<1>6. ASSUME NEW f \in Pointers(S)
      PROVE  /\ [[[f EXCEPT ![x] = Junk] EXCEPT ![h] = x] EXCEPT ![x] = None] = [f EXCEPT ![x] = None, ![h] = x]
             /\ [[[f EXCEPT ![p] = n] EXCEPT ![x] = Junk] EXCEPT ![x] = h] = [f EXCEPT ![p] = n, ![x] = h]
  BY <1>2 DEF Pointers
<1>7. /\ PushFront(Drop(l, b, x), b, x).next = [l.next EXCEPT ![p] = n, ![x] = h]
      /\ PushFront(Drop(l, b, x), b, x).prev = [Set(l.prev, n, p) EXCEPT ![x] = None, ![h] = x]
  BY <1>1, <1>4, <1>5, <1>6
<1>8. PushFront(Drop(l, b, x), b, x)
        = [head |-> PushFront(Drop(l, b, x), b, x).head,
           next |-> PushFront(Drop(l, b, x), b, x).next,
           prev |-> PushFront(Drop(l, b, x), b, x).prev]
  BY DEF PushFront
<1>9. MoveToFront(l, b, x) = [head |-> [l.head EXCEPT ![b] = x],
                              next |-> [l.next EXCEPT ![p] = n, ![x] = h],
                              prev |-> [Set(l.prev, n, p) EXCEPT ![x] = None, ![h] = x]]
  BY DEF MoveToFront, n, p, h
<1>. QED BY <1>4, <1>7, <1>8, <1>9

\* A list whose head goes and comes back is as it was, and a list without an
\* element is what is left when it goes.
LEMMA UnlinkHead ==
  ASSUME NEW S, NEW s \in Seq(S), Distinct(s), s # <<>>
  PROVE  Unlink(s, s[1]) = Tail(s) /\ <<s[1]>> \o Unlink(s, s[1]) = s
<1>. DEFINE u == Unlink(s, s[1])
            L == Len(s)
<1>1. L \in Nat /\ L # 0
  BY LenProperties, EmptySeq
<1>2. 1 \in 1 .. L /\ L - 1 \in Nat
  <2>. HIDE DEF L
  <2>. QED BY <1>1
<1>3. /\ u \in Seq(S) /\ Len(u) = L - 1
      /\ \A i \in 1 .. L - 1 : u[i] = IF i < 1 THEN s[i] ELSE s[i + 1]
  BY <1>2, UnlinkAt, UnlinkList
<1>4. /\ Tail(s) \in Seq(S) /\ Len(Tail(s)) = L - 1
      /\ \A i \in 1 .. L - 1 : Tail(s)[i] = s[i + 1]
  BY HeadTailProperties
<1>5. s[1] \in S
  BY <1>2, ElementOfSeq
<1>. HIDE DEF u, L
<1>6. \A i \in 1 .. L - 1 : u[i] = s[i + 1]
  BY <1>1, <1>3
<1>7. u = Tail(s)
  BY <1>3, <1>4, <1>6, SeqEqual
<1>. DEFINE t == <<s[1]>> \o u
<1>8. /\ t \in Seq(S) /\ Len(t) = L - 1 + 1 /\ t[1] = s[1]
      /\ \A i \in 1 .. L - 1 : t[i + 1] = u[i]
  BY <1>3, <1>5, PushList
<1>. HIDE DEF t
<1>9. ASSUME NEW i \in 1 .. L  PROVE t[i] = s[i]
  <2>1. CASE i # 1
    <3>1. i - 1 \in 1 .. L - 1 /\ i - 1 + 1 = i
      BY <2>1, <1>1
    <3>2. t[i - 1 + 1] = u[i - 1] /\ u[i - 1] = s[i - 1 + 1]
      BY <3>1, <1>6, <1>8
    <3>. QED BY <3>1, <3>2
  <2>. QED BY <2>1, <1>8
<1>10. Len(t) = Len(s) /\ Len(s) = L
  BY <1>1, <1>8 DEF L
<1>11. t = s
  BY <1>8, <1>9, <1>10, SeqEqual
<1>. QED BY <1>7, <1>11 DEF u, t

\* An element that a list has not is not missed.
LEMMA UnlinkOther == ASSUME NEW s, NEW x, x \notin Elems(s)  PROVE Unlink(s, x) = s
  BY DEF Unlink

\* MoveToFront makes the object the first of its chain, and leaves the others.
LEMMA ChainsMove ==
  ASSUME NEW S, None \notin S, NEW l, NEW ch, HashChains(l, ch, S),
         NEW b \in Buckets, NEW x \in Elems(ch[b])
  PROVE  HashChains(MoveToFront(l, b, x), [ch EXCEPT ![b] = <<x>> \o Unlink(@, x)], S)
<1>1. /\ ch \in [Buckets -> Seq(S)] /\ ch[b] \in Seq(S) /\ Distinct(ch[b])
      /\ Chained(ch[b], l.head[b], l.next, l.prev)
  BY DEF HashChains
<1>2. CASE l.head[b] = x
  <2>1. ch[b] # <<>> /\ x = ch[b][1]
    BY <1>1, <1>2, EmptyList DEF Chained
  <2>2. <<x>> \o Unlink(ch[b], x) = ch[b]
    BY <1>1, <2>1, UnlinkHead
  <2>3. [ch EXCEPT ![b] = <<x>> \o Unlink(@, x)] = ch
    BY <1>1, <2>2
  <2>. QED BY <1>2, <2>3 DEF MoveToFront
<1>3. CASE l.head[b] # x
  <2>. DEFINE c2 == [d \in Buckets |-> Unlink(ch[d], x)]
              c3 == [c2 EXCEPT ![b] = <<x>> \o @]
  <2>1. HashChains(Drop(l, b, x), c2, S)
    BY ChainsDrop
  <2>2. \A d \in Buckets : x \notin Elems(c2[d])
    <3>1. \A d \in Buckets : ch[d] \in Seq(S) /\ Distinct(ch[d])
      BY DEF HashChains
    <3>. QED BY <3>1, UnlinkList
  <2>3. x \in S
    BY <1>1, ElemsInSet
  <2>4. HashChains(PushFront(Drop(l, b, x), b, x), c3, S)
    <3>. HIDE DEF c2
    <3>. QED BY <2>1, <2>2, <2>3, ChainsPush
  <2>5. c3 = [ch EXCEPT ![b] = <<x>> \o Unlink(@, x)]
    <3>1. \A d \in Buckets : d # b => x \notin Elems(ch[d])
      BY DEF HashChains
    <3>2. \A d \in Buckets : d # b => c2[d] = ch[d]
      BY <3>1, UnlinkOther
    <3>. QED BY <3>2, <1>1
  <2>. QED BY <2>4, <2>5, <1>3, MoveIsDropPush
<1>. QED BY <1>2, <1>3

-----------------------------------------------------------------------------
(* The list of all connections                                              *)

\* l has the list s.
ListOf(l, s, S) ==
  /\ s \in Seq(S) /\ Distinct(s)
  /\ l.next \in Pointers(S) /\ l.prev \in Pointers(S)
  /\ l.tail = Final(s)
  /\ Chained(s, l.head, l.next, l.prev)

\* The list is what Follow finds.
LEMMA ListFollow ==
  ASSUME NEW S, IsFiniteSet(S), None \notin S, NEW l, NEW s, ListOf(l, s, S)
  PROVE  s = Follow(l.head, l.next)
<1>1. DOMAIN l.next = S /\ s \in Seq(S) /\ Distinct(s)
  BY DEF ListOf, Pointers
<1>2. /\ l.head = IF s = <<>> THEN None ELSE s[1]
      /\ \A i \in 1 .. Len(s) : l.next[s[i]] = IF i = Len(s) THEN None ELSE s[i + 1]
  BY DEF ListOf, Chained
<1>. QED BY <1>1, <1>2, FollowIs

\* AppendConn puts a new connection at the end.
LEMMA ListAppend ==
  ASSUME NEW S, None \notin S, NEW l, NEW s, ListOf(l, s, S), NEW c \in S, c \notin Elems(s)
  PROVE  ListOf(AppendConn(l, c), Append(s, c), S)
<1>. DEFINE k == AppendConn(l, c)
<1>1. /\ s \in Seq(S) /\ Distinct(s) /\ l.next \in Pointers(S) /\ l.prev \in Pointers(S)
      /\ l.tail = Final(s) /\ Chained(s, l.head, l.next, l.prev)
  BY DEF ListOf
<1>2. l.tail \in Elems(s) \cup {None} /\ Elems(s) \subseteq S
  BY <1>1, ChainedLinks
<1>3. /\ k.head = IF l.tail = None THEN c ELSE l.head
      /\ k.tail = c
      /\ k.next = [Set(l.next, l.tail, c) EXCEPT ![c] = None]
      /\ k.prev = [l.prev EXCEPT ![c] = l.tail]
  BY DEF AppendConn
<1>. HIDE DEF k
<1>4. /\ k.next \in Pointers(S) /\ k.prev \in Pointers(S)
      /\ k.next[c] = None /\ k.prev[c] = l.tail
      /\ \A y \in S : y # c => /\ k.next[y] = IF y = l.tail THEN c ELSE l.next[y]
                               /\ k.prev[y] = l.prev[y]
  BY <1>1, <1>2, <1>3 DEF Set, Pointers
<1>5. \A y \in Elems(s) : /\ k.next[y] = IF y = Final(s) THEN c ELSE l.next[y]
                          /\ k.prev[y] = l.prev[y]
  BY <1>1, <1>2, <1>4
<1>6. Chained(Append(s, c), k.head, k.next, k.prev) /\ Final(Append(s, c)) = c
  <2>1. k.next[c] = None /\ k.prev[c] = Final(s)
    BY <1>1, <1>4
  <2>2. k.head = IF Final(s) = None THEN c ELSE l.head
    BY <1>1, <1>3
  <2>. QED BY <2>1, <2>2, <1>1, <1>5, AppendChained
<1>7. Append(s, c) \in Seq(S) /\ Distinct(Append(s, c))
  BY <1>1, AppendList
<1>. QED BY <1>3, <1>4, <1>6, <1>7 DEF ListOf, k

\* DropConn takes a connection out.
LEMMA ListDrop ==
  ASSUME NEW S, None \notin S, NEW l, NEW s, ListOf(l, s, S), NEW c \in Elems(s)
  PROVE  ListOf(DropConn(l, c), Unlink(s, c), S)
<1>. DEFINE k == DropConn(l, c)
<1>1. /\ s \in Seq(S) /\ Distinct(s) /\ l.next \in Pointers(S) /\ l.prev \in Pointers(S)
      /\ l.tail = Final(s) /\ Chained(s, l.head, l.next, l.prev)
  BY DEF ListOf
<1>2. /\ l.next[c] \in S \cup {None} /\ l.prev[c] \in S \cup {None} /\ c \in S /\ Elems(s) \subseteq S
  BY <1>1, ChainedLinks
<1>3. /\ k.head = IF l.prev[c] = None THEN l.next[c] ELSE l.head
      /\ k.tail = IF l.next[c] = None THEN l.prev[c] ELSE l.tail
      /\ k.next = [Set(l.next, l.prev[c], l.next[c]) EXCEPT ![c] = Junk]
      /\ k.prev = [Set(l.prev, l.next[c], l.prev[c]) EXCEPT ![c] = Junk]
  BY DEF DropConn
<1>. HIDE DEF k
<1>4. /\ k.next \in Pointers(S) /\ k.prev \in Pointers(S)
      /\ \A y \in S : y # c => /\ k.next[y] = IF y = l.prev[c] THEN l.next[c] ELSE l.next[y]
                               /\ k.prev[y] = IF y = l.next[c] THEN l.prev[c] ELSE l.prev[y]
  BY <1>1, <1>2, <1>3 DEF Set, Pointers
<1>5. Bypass(s, c, l.next, l.prev, k.next, k.prev)
  BY <1>2, <1>4 DEF Bypass
<1>6. /\ Chained(Unlink(s, c), k.head, k.next, k.prev)
      /\ Final(Unlink(s, c)) = IF l.next[c] = None THEN l.prev[c] ELSE Final(s)
  BY <1>1, <1>3, <1>5, UnlinkChained
<1>7. Unlink(s, c) \in Seq(S) /\ Distinct(Unlink(s, c))
  BY <1>1, UnlinkList
<1>. QED BY <1>1, <1>3, <1>4, <1>6, <1>7 DEF ListOf, k

-----------------------------------------------------------------------------
(* The active list                                                          *)

ActiveType == [head: Matches \cup {None}, tail: Matches \cup {None},
               next: Pointers(Matches), prev: Pointers(Matches), on: [Matches -> BOOLEAN]]

\* l has the active list s, and the flags of its matches are set.
ActiveOf(l, s) ==
  /\ l \in ActiveType
  /\ ListOf(l, s, Matches)
  /\ Elems(s) = {m \in Matches : l.on[m]}

\* The objects: finitely many, and the empty pointer is none of them.
LEMMA Objects ==
  /\ IsFiniteSet(Conns) /\ None \notin Conns
  /\ IsFiniteSet(Matches) /\ None \notin Matches
<1>1. IsFiniteSet(Dirs)
  <2>1. Dirs = ({} \cup {"original"}) \cup {"reply"}
    BY DEF Dirs
  <2>. QED BY <2>1, FS_EmptySet, FS_AddElement
<1>2. IsFiniteSet(Conns \X Dirs)
  BY <1>1, FS_Product, ListsAssumption
<1>. QED BY <1>2, ListsAssumption DEF Matches

\* What the links and the flags tell of a match on the list.
LEMMA ActiveLinks ==
  ASSUME NEW l, NEW s, ActiveOf(l, s)
  PROVE  /\ l.head \in Elems(s) \cup {None} /\ l.tail \in Elems(s) \cup {None}
         /\ (l.head = None <=> s = <<>>) /\ (l.tail = None <=> s = <<>>) /\ l.tail = Final(s)
         /\ Elems(s) \subseteq Matches /\ \A m \in Matches : m \in Elems(s) <=> l.on[m]
         /\ s \in Seq(Matches) /\ Distinct(s) /\ Chained(s, l.head, l.next, l.prev)
         /\ \A m \in Elems(s) :
              /\ l.next[m] \in Elems(s) \cup {None} /\ l.prev[m] \in Elems(s) \cup {None}
              /\ l.prev[m] = None <=> m = l.head
              /\ l.next[m] = None <=> m = l.tail
<1>1. /\ s \in Seq(Matches) /\ Distinct(s) /\ Chained(s, l.head, l.next, l.prev) /\ l.tail = Final(s)
      /\ Elems(s) = {m \in Matches : l.on[m]}
  BY DEF ActiveOf, ListOf
<1>. QED BY <1>1, Objects, ChainedLinks

\* The common part of the three removals from the list: k is l without x.
TakenOff(k, l, x) ==
  /\ k \in ActiveType
  /\ k.head = IF l.prev[x] = None THEN l.next[x] ELSE l.head
  /\ k.tail = IF l.next[x] = None THEN l.prev[x] ELSE l.tail
  /\ \A y \in Matches : y # x =>
       /\ k.next[y] = IF y = l.prev[x] THEN l.next[x] ELSE l.next[y]
       /\ k.prev[y] = IF y = l.next[x] THEN l.prev[x] ELSE l.prev[y]
  /\ k.on = [l.on EXCEPT ![x] = FALSE]

\* Each of them unlinks the match.
LEMMA ActiveOff ==
  ASSUME NEW l, NEW s, ActiveOf(l, s), NEW x \in Elems(s), NEW k, TakenOff(k, l, x)
  PROVE  /\ ActiveOf(k, Unlink(s, x))
         /\ \A y \in Matches \ Elems(s) : k.next[y] = l.next[y]
<1>1. /\ s \in Seq(Matches) /\ Distinct(s) /\ Chained(s, l.head, l.next, l.prev) /\ l.tail = Final(s)
      /\ Elems(s) \subseteq Matches /\ l.prev[x] \in Elems(s) \cup {None}
  BY ActiveLinks
<1>2. Bypass(s, x, l.next, l.prev, k.next, k.prev)
  BY <1>1 DEF Bypass, TakenOff
<1>3. /\ Chained(Unlink(s, x), k.head, k.next, k.prev)
      /\ Final(Unlink(s, x)) = IF l.next[x] = None THEN l.prev[x] ELSE Final(s)
  <2>1. k.head = IF l.prev[x] = None THEN l.next[x] ELSE l.head
    BY DEF TakenOff
  <2>. QED BY <2>1, <1>1, <1>2, Objects, UnlinkChained
<1>4. /\ Unlink(s, x) \in Seq(Matches) /\ Distinct(Unlink(s, x))
      /\ Elems(Unlink(s, x)) = Elems(s) \ {x}
  BY <1>1, UnlinkList
<1>5. ListOf(k, Unlink(s, x), Matches)
  BY <1>1, <1>3, <1>4 DEF ListOf, ActiveType, TakenOff
<1>6. Elems(s) \ {x} = {m \in Matches : k.on[m]}
  BY DEF ActiveOf, ActiveType, TakenOff
<1>7. \A y \in Matches \ Elems(s) : k.next[y] = l.next[y]
  BY <1>1, Objects DEF TakenOff
<1>. QED BY <1>4, <1>5, <1>6, <1>7 DEF ActiveOf, TakenOff

\* Activate: a match that is not on the list joins its end; it relies on the
\* empty active_next that the match has.
LEMMA ActiveOn ==
  ASSUME NEW l, NEW s, ActiveOf(l, s), NEW m \in Matches, ~l.on[m] => l.next[m] = None
  PROVE  /\ ActiveOf(Activate(l, m), IF m \in Elems(s) THEN s ELSE Append(s, m))
         /\ \A y \in Matches \ (Elems(s) \cup {m}) : Activate(l, m).next[y] = l.next[y]
<1>1. /\ s \in Seq(Matches) /\ Distinct(s) /\ Chained(s, l.head, l.next, l.prev) /\ l.tail = Final(s)
      /\ Elems(s) \subseteq Matches /\ l.tail \in Elems(s) \cup {None}
      /\ (m \in Elems(s) <=> l.on[m])
  BY ActiveLinks
<1>2. CASE m \in Elems(s)
  BY <1>1, <1>2 DEF Activate
<1>3. CASE m \notin Elems(s)
  <2>. DEFINE k == Activate(l, m)
  <2>1. k = [head |-> IF l.tail = None THEN m ELSE l.head,
             tail |-> m,
             next |-> Set(l.next, l.tail, m),
             prev |-> [l.prev EXCEPT ![m] = l.tail],
             on   |-> [l.on EXCEPT ![m] = TRUE]]
    BY <1>1, <1>3 DEF Activate
  <2>. HIDE DEF k
  <2>2. /\ l.head \in Matches \cup {None} /\ l.tail \in Matches \cup {None}
        /\ l.next \in Pointers(Matches) /\ l.prev \in Pointers(Matches) /\ l.on \in [Matches -> BOOLEAN]
    BY DEF ActiveOf, ActiveType
  <2>3. /\ k.next \in Pointers(Matches) /\ k.prev \in Pointers(Matches) /\ k.on \in [Matches -> BOOLEAN]
        /\ k.head \in Matches \cup {None} /\ k.tail = m
        /\ k.head = IF l.tail = None THEN m ELSE l.head
        /\ \A y \in Matches : /\ k.next[y] = IF y = l.tail THEN m ELSE l.next[y]
                              /\ k.prev[y] = IF y = m THEN l.tail ELSE l.prev[y]
                              /\ k.on[y] = IF y = m THEN TRUE ELSE l.on[y]
    <3>1. /\ k.next = IF l.tail = None THEN l.next ELSE [l.next EXCEPT ![l.tail] = m]
          /\ k.prev = [l.prev EXCEPT ![m] = l.tail] /\ k.on = [l.on EXCEPT ![m] = TRUE]
          /\ k.tail = m /\ k.head = IF l.tail = None THEN m ELSE l.head
      BY <2>1 DEF Set
    <3>2. k.next \in Pointers(Matches) /\ \A y \in Matches : k.next[y] = IF y = l.tail THEN m ELSE l.next[y]
      BY <2>2, <3>1, Objects DEF Pointers
    <3>3. k.prev \in Pointers(Matches) /\ \A y \in Matches : k.prev[y] = IF y = m THEN l.tail ELSE l.prev[y]
      BY <2>2, <3>1 DEF Pointers
    <3>4. k.on \in [Matches -> BOOLEAN] /\ \A y \in Matches : k.on[y] = IF y = m THEN TRUE ELSE l.on[y]
      BY <2>2, <3>1
    <3>. QED BY <2>2, <3>1, <3>2, <3>3, <3>4
  <2>4. k \in ActiveType
    <3>1. k = [head |-> k.head, tail |-> k.tail, next |-> k.next, prev |-> k.prev, on |-> k.on]
      BY <2>1
    <3>. QED BY <2>3, <3>1 DEF ActiveType
  <2>5. k.next[m] = None /\ k.prev[m] = Final(s)
    BY <2>3, <1>1, <1>3, Objects
  <2>6. \A y \in Elems(s) : /\ k.next[y] = IF y = Final(s) THEN m ELSE l.next[y]
                            /\ k.prev[y] = l.prev[y]
    BY <2>3, <1>1, <1>3
  <2>7. k.head = IF Final(s) = None THEN m ELSE l.head
    BY <2>3, <1>1
  <2>8. Chained(Append(s, m), k.head, k.next, k.prev) /\ Final(Append(s, m)) = m
    BY <2>5, <2>6, <2>7, <1>1, <1>3, Objects, AppendChained
  <2>9. /\ Append(s, m) \in Seq(Matches) /\ Distinct(Append(s, m))
        /\ Elems(Append(s, m)) = Elems(s) \cup {m}
    BY <1>1, <1>3, AppendList
  <2>10. ListOf(k, Append(s, m), Matches)
    BY <2>3, <2>8, <2>9 DEF ListOf
  <2>11. Elems(s) \cup {m} = {y \in Matches : k.on[y]}
    BY <2>3 DEF ActiveOf
  <2>12. \A y \in Matches \ (Elems(s) \cup {m}) : k.next[y] = l.next[y]
    <3>. SUFFICES ASSUME NEW y \in Matches, y \notin Elems(s) \cup {m}  PROVE k.next[y] = l.next[y]
      OBVIOUS
    <3>1. y # l.tail
      BY <1>1, Objects
    <3>. QED BY <3>1, <2>3
  <2>. QED BY <2>4, <2>9, <2>10, <2>11, <2>12, <1>3 DEF ActiveOf, k
<1>. QED BY <1>2, <1>3

\* Fresh gives a new connection's matches empty pointers, off the list.
LEMMA ActiveFresh ==
  ASSUME NEW l, NEW s, ActiveOf(l, s), NEW c \in Conns, Orig(c) \notin Elems(s), Reply(c) \notin Elems(s)
  PROVE  /\ ActiveOf(Fresh(l, c), s)
         /\ Fresh(l, c).next[Orig(c)] = None /\ Fresh(l, c).next[Reply(c)] = None
         /\ \A y \in Matches \ {Orig(c), Reply(c)} : Fresh(l, c).next[y] = l.next[y]
<1>. DEFINE new == {Orig(c), Reply(c)}
            k == Fresh(l, c)
<1>1. /\ s \in Seq(Matches) /\ Distinct(s) /\ Chained(s, l.head, l.next, l.prev) /\ l.tail = Final(s)
      /\ Elems(s) \subseteq Matches /\ \A m \in Matches : m \in Elems(s) <=> l.on[m]
  BY ActiveLinks
<1>2. l \in ActiveType
  BY DEF ActiveOf
<1>3. /\ k = [l EXCEPT !.next = [m \in Matches |-> IF m \in new THEN None ELSE l.next[m]],
                       !.prev = [m \in Matches |-> IF m \in new THEN None ELSE l.prev[m]],
                       !.on   = [m \in Matches |-> m \notin new /\ l.on[m]]]
      /\ Orig(c) \in Matches /\ Reply(c) \in Matches
  BY <1>2 DEF Fresh, ActiveType, Orig, Reply, Matches, Dirs
<1>. HIDE DEF new, k
<1>4. /\ k = [head |-> k.head, tail |-> k.tail, next |-> k.next, prev |-> k.prev, on |-> k.on]
      /\ k.head = l.head /\ k.tail = l.tail
      /\ k.next = [m \in Matches |-> IF m \in new THEN None ELSE l.next[m]]
      /\ k.prev = [m \in Matches |-> IF m \in new THEN None ELSE l.prev[m]]
      /\ k.on = [m \in Matches |-> m \notin new /\ l.on[m]]
  BY <1>2, <1>3 DEF ActiveType
<1>5. k.next \in Pointers(Matches) /\ k.prev \in Pointers(Matches) /\ k.on \in [Matches -> BOOLEAN]
  BY <1>2, <1>4 DEF ActiveType, Pointers
<1>6. k \in ActiveType
  BY <1>2, <1>4, <1>5 DEF ActiveType
<1>7. \A y \in Elems(s) : k.next[y] = l.next[y] /\ k.prev[y] = l.prev[y]
  BY <1>1, <1>4 DEF new
<1>8. Chained(s, k.head, k.next, k.prev)
  <2>1. Chained(s, k.head, l.next, l.prev)
    BY <1>1, <1>4
  <2>. QED BY <2>1, <1>1, <1>7, ChainedFrame
<1>9. ListOf(k, s, Matches)
  BY <1>1, <1>4, <1>5, <1>8 DEF ListOf
<1>10. Elems(s) = {m \in Matches : k.on[m]}
  BY <1>1, <1>4 DEF new
<1>11. /\ k.next[Orig(c)] = None /\ k.next[Reply(c)] = None
       /\ \A y \in Matches \ new : k.next[y] = l.next[y]
  BY <1>3, <1>4 DEF new
<1>. QED BY <1>6, <1>9, <1>10, <1>11 DEF ActiveOf, k, new

\* Deactivate takes a match off the list when it is on it.
LEMMA ActiveDrop ==
  ASSUME NEW l, NEW s, ActiveOf(l, s), NEW m \in Matches
  PROVE  /\ ActiveOf(Deactivate(l, m), Unlink(s, m))
         /\ \A y \in Matches \ (Elems(s) \cup {m}) : Deactivate(l, m).next[y] = l.next[y]
<1>. DEFINE k == Deactivate(l, m)
<1>1. /\ s \in Seq(Matches) /\ Distinct(s) /\ Chained(s, l.head, l.next, l.prev) /\ l.tail = Final(s)
      /\ Elems(s) \subseteq Matches /\ \A y \in Matches : y \in Elems(s) <=> l.on[y]
  BY ActiveLinks
<1>2. /\ l \in ActiveType
      /\ l.head \in Matches \cup {None} /\ l.tail \in Matches \cup {None}
      /\ l.next \in Pointers(Matches) /\ l.prev \in Pointers(Matches) /\ l.on \in [Matches -> BOOLEAN]
  BY DEF ActiveOf, ActiveType
<1>3. CASE m \in Elems(s)
  <2>. DEFINE n == l.next[m]
              p == l.prev[m]
  <2>1. n \in Matches \cup {None} /\ p \in Matches \cup {None}
    BY <1>1, <1>3, ActiveLinks
  <2>. HIDE DEF n, p
  <2>2. k = [head |-> IF p = None THEN n ELSE l.head,
             tail |-> IF n = None THEN p ELSE l.tail,
             next |-> [Set(l.next, p, n) EXCEPT ![m] = Junk],
             prev |-> [Set(l.prev, n, p) EXCEPT ![m] = Junk],
             on   |-> [l.on EXCEPT ![m] = FALSE]]
    BY <1>1, <1>3 DEF Deactivate, n, p
  <2>. HIDE DEF k
  <2>3. /\ k.head = IF p = None THEN n ELSE l.head
        /\ k.tail = IF n = None THEN p ELSE l.tail
        /\ k.next = [Set(l.next, p, n) EXCEPT ![m] = Junk]
        /\ k.prev = [Set(l.prev, n, p) EXCEPT ![m] = Junk]
        /\ k.on = [l.on EXCEPT ![m] = FALSE]
        /\ k = [head |-> k.head, tail |-> k.tail, next |-> k.next, prev |-> k.prev, on |-> k.on]
    BY <2>2
  <2>4. k.next \in Pointers(Matches) /\ \A y \in Matches : y # m => k.next[y] = IF y = p THEN n ELSE l.next[y]
    BY <2>1, <2>3, <1>2, Objects DEF Set, Pointers
  <2>5. k.prev \in Pointers(Matches) /\ \A y \in Matches : y # m => k.prev[y] = IF y = n THEN p ELSE l.prev[y]
    BY <2>1, <2>3, <1>2, Objects DEF Set, Pointers
  <2>6. k.on \in [Matches -> BOOLEAN] /\ k.head \in Matches \cup {None} /\ k.tail \in Matches \cup {None}
    BY <2>1, <2>3, <1>2
  <2>7. k \in ActiveType
    BY <2>3, <2>4, <2>5, <2>6 DEF ActiveType
  <2>8. /\ ActiveOf(k, Unlink(s, m))
        /\ \A y \in Matches \ Elems(s) : k.next[y] = l.next[y]
    <3>1. TakenOff(k, l, m)
      BY <2>3, <2>4, <2>5, <2>7 DEF TakenOff, n, p
    <3>. QED BY <3>1, <1>3, ActiveOff
  <2>. QED BY <2>8 DEF k
<1>4. CASE m \notin Elems(s)
  <2>1. k = [l EXCEPT !.next[m] = Junk, !.prev[m] = Junk]
    BY <1>1, <1>4 DEF Deactivate
  <2>. HIDE DEF k
  <2>2. /\ k = [head |-> k.head, tail |-> k.tail, next |-> k.next, prev |-> k.prev, on |-> k.on]
        /\ k.head = l.head /\ k.tail = l.tail /\ k.on = l.on
        /\ k.next = [l.next EXCEPT ![m] = Junk] /\ k.prev = [l.prev EXCEPT ![m] = Junk]
    BY <2>1, <1>2 DEF ActiveType
  <2>3. /\ k.next \in Pointers(Matches) /\ k.prev \in Pointers(Matches)
        /\ \A y \in Matches : y # m => k.next[y] = l.next[y] /\ k.prev[y] = l.prev[y]
    BY <2>2, <1>2 DEF Pointers
  <2>4. k \in ActiveType
    BY <2>2, <2>3, <1>2 DEF ActiveType
  <2>5. Chained(s, k.head, k.next, k.prev)
    <3>1. \A y \in Elems(s) : k.next[y] = l.next[y] /\ k.prev[y] = l.prev[y]
      BY <2>3, <1>1, <1>4
    <3>2. Chained(s, k.head, l.next, l.prev)
      BY <2>2, <1>1
    <3>. QED BY <3>1, <3>2, <1>1, ChainedFrame
  <2>6. ActiveOf(k, s)
    BY <2>2, <2>3, <2>4, <2>5, <1>1 DEF ActiveOf, ListOf
  <2>7. Unlink(s, m) = s
    BY <1>4, UnlinkOther
  <2>. QED BY <2>3, <2>6, <2>7 DEF k
<1>. QED BY <1>3, <1>4

\* TakeCounter takes a match that is not the head off the list when it is on it, and
\* clears its pointers.
LEMMA ActiveCounter ==
  ASSUME NEW l, NEW s, ActiveOf(l, s), NEW m \in Matches, m # l.head
  PROVE  /\ ActiveOf(TakeCounter(l, m), Unlink(s, m)) /\ TakeCounter(l, m).head = l.head
         /\ m \in Elems(s) => TakeCounter(l, m).next[m] = None
         /\ \A y \in Matches \ Elems(s) : TakeCounter(l, m).next[y] = l.next[y]
<1>. DEFINE k == TakeCounter(l, m)
<1>1. Elems(s) \subseteq Matches /\ \A y \in Matches : y \in Elems(s) <=> l.on[y]
  BY ActiveLinks
<1>2. /\ l.head \in Matches \cup {None} /\ l.tail \in Matches \cup {None}
      /\ l.next \in Pointers(Matches) /\ l.prev \in Pointers(Matches) /\ l.on \in [Matches -> BOOLEAN]
  BY DEF ActiveOf, ActiveType
<1>3. CASE m \in Elems(s)
  <2>. DEFINE n == l.next[m]
              p == l.prev[m]
  <2>1. n \in Matches \cup {None} /\ p \in Matches /\ p # None
    <3>1. n \in Elems(s) \cup {None} /\ p \in Elems(s) \cup {None} /\ (p = None <=> m = l.head)
      BY <1>3, ActiveLinks
    <3>. QED BY <3>1, <1>1, Objects
  <2>. HIDE DEF n, p
  <2>2. k = [head |-> l.head,
             tail |-> IF n = None THEN p ELSE l.tail,
             next |-> [l.next EXCEPT ![p] = n, ![m] = None],
             prev |-> [Set(l.prev, n, p) EXCEPT ![m] = None],
             on   |-> [l.on EXCEPT ![m] = FALSE]]
    BY <1>1, <1>3 DEF TakeCounter, n, p
  <2>. HIDE DEF k
  <2>3. /\ k.head = IF p = None THEN n ELSE l.head
        /\ k.head = l.head
        /\ k.tail = IF n = None THEN p ELSE l.tail
        /\ k.next = [l.next EXCEPT ![p] = n, ![m] = None]
        /\ k.prev = [Set(l.prev, n, p) EXCEPT ![m] = None]
        /\ k.on = [l.on EXCEPT ![m] = FALSE]
        /\ k = [head |-> k.head, tail |-> k.tail, next |-> k.next, prev |-> k.prev, on |-> k.on]
    BY <2>1, <2>2
  <2>4. /\ k.next \in Pointers(Matches) /\ k.next[m] = None
        /\ \A y \in Matches : y # m => k.next[y] = IF y = p THEN n ELSE l.next[y]
    BY <2>1, <2>3, <1>2 DEF Pointers
  <2>5. k.prev \in Pointers(Matches) /\ \A y \in Matches : y # m => k.prev[y] = IF y = n THEN p ELSE l.prev[y]
    BY <2>1, <2>3, <1>2, Objects DEF Set, Pointers
  <2>6. k.on \in [Matches -> BOOLEAN] /\ k.head \in Matches \cup {None} /\ k.tail \in Matches \cup {None}
    BY <2>1, <2>3, <1>2
  <2>7. k \in ActiveType
    BY <2>3, <2>4, <2>5, <2>6 DEF ActiveType
  <2>8. /\ ActiveOf(k, Unlink(s, m))
        /\ \A y \in Matches \ Elems(s) : k.next[y] = l.next[y]
    <3>1. TakenOff(k, l, m)
      BY <2>3, <2>4, <2>5, <2>7 DEF TakenOff, n, p
    <3>. QED BY <3>1, <1>3, ActiveOff
  <2>. QED BY <2>3, <2>4, <2>8 DEF k
<1>4. CASE m \notin Elems(s)
  BY <1>1, <1>4, UnlinkOther DEF TakeCounter
<1>. QED BY <1>3, <1>4

\* TakeHead takes the first match off the list and clears its active_next.
LEMMA ActiveHead ==
  ASSUME NEW l, NEW s, ActiveOf(l, s), s # <<>>
  PROVE  /\ ActiveOf(TakeHead(l), Tail(s)) /\ l.head = s[1] /\ l.head \in Elems(s)
         /\ TakeHead(l).next[l.head] = None
         /\ \A y \in Matches \ Elems(s) : TakeHead(l).next[y] = l.next[y]
<1>. DEFINE k == TakeHead(l)
            m == l.head
            n == l.next[m]
<1>1. /\ s \in Seq(Matches) /\ Distinct(s) /\ Elems(s) \subseteq Matches /\ m = s[1] /\ m \in Elems(s)
  <2>1. /\ s \in Seq(Matches) /\ Distinct(s) /\ Elems(s) \subseteq Matches
        /\ Chained(s, l.head, l.next, l.prev) /\ l.head \in Elems(s) \cup {None} /\ l.head # None
    BY ActiveLinks
  <2>. QED BY <2>1 DEF Chained
<1>2. /\ l.head \in Matches \cup {None} /\ l.tail \in Matches \cup {None} /\ l \in ActiveType
      /\ l.next \in Pointers(Matches) /\ l.prev \in Pointers(Matches) /\ l.on \in [Matches -> BOOLEAN]
  BY DEF ActiveOf, ActiveType
<1>3. n \in Matches \cup {None} /\ l.prev[m] = None
  BY <1>1, ActiveLinks
<1>4. k = [l EXCEPT !.head = n,
                    !.tail = IF n = None THEN None ELSE @,
                    !.next[m] = None,
                    !.prev = Set(@, n, None),
                    !.on[m] = FALSE]
  BY DEF TakeHead
<1>. HIDE DEF k, m, n
<1>5. /\ k = [head |-> k.head, tail |-> k.tail, next |-> k.next, prev |-> k.prev, on |-> k.on]
      /\ k.head = n /\ k.tail = IF n = None THEN None ELSE l.tail
      /\ k.next = [l.next EXCEPT ![m] = None] /\ k.prev = Set(l.prev, n, None)
      /\ k.on = [l.on EXCEPT ![m] = FALSE]
  BY <1>2, <1>4 DEF ActiveType
<1>6. m \in Matches
  BY <1>1
<1>7. /\ k.next \in Pointers(Matches) /\ k.next[m] = None
      /\ \A y \in Matches : y # m => k.next[y] = l.next[y]
  BY <1>2, <1>5, <1>6 DEF Pointers
<1>8. k.prev \in Pointers(Matches) /\ \A y \in Matches : k.prev[y] = IF y = n THEN None ELSE l.prev[y]
  BY <1>2, <1>3, <1>5, Objects DEF Set, Pointers
<1>9. k.on \in [Matches -> BOOLEAN] /\ k.head \in Matches \cup {None} /\ k.tail \in Matches \cup {None}
  BY <1>2, <1>3, <1>5
<1>10. k \in ActiveType
  BY <1>5, <1>7, <1>8, <1>9 DEF ActiveType
<1>11. /\ k.head = IF l.prev[m] = None THEN l.next[m] ELSE l.head
       /\ k.tail = IF l.next[m] = None THEN l.prev[m] ELSE l.tail
  BY <1>3, <1>5 DEF n
<1>12. \A y \in Matches : y # m => /\ k.next[y] = IF y = l.prev[m] THEN l.next[m] ELSE l.next[y]
                                   /\ k.prev[y] = IF y = l.next[m] THEN l.prev[m] ELSE l.prev[y]
  BY <1>3, <1>7, <1>8, Objects DEF n
<1>13. /\ ActiveOf(k, Unlink(s, m))
       /\ \A y \in Matches \ Elems(s) : k.next[y] = l.next[y]
  <2>1. TakenOff(k, l, m)
    BY <1>5, <1>10, <1>11, <1>12 DEF TakenOff
  <2>. QED BY <2>1, <1>1, ActiveOff
<1>14. Unlink(s, m) = Tail(s)
  BY <1>1, UnlinkHead
<1>. QED BY <1>1, <1>7, <1>13, <1>14 DEF k, m

-----------------------------------------------------------------------------
(* The inductive invariant                                                  *)

All == Follow(conns.head, conns.next)
Active == Follow(act.head, act.next)
Chain == [b \in Buckets |-> Follow(hash.head[b], hash.next)]
TupleChain == [b \in Buckets |-> Follow(chash.head[b], chash.next)]

KeysOk ==
  /\ key \in [Matches -> Keys \cup {None}]
  /\ \A c \in Conns : key[Orig(c)] = None <=> key[Reply(c)] = None

\* The matches of a connection in the tables are in the chains of their keys.
HashOk ==
  /\ HashChains(hash, Chain, Matches)
  /\ \A b \in Buckets, m \in Matches :
       m \in Elems(Chain[b]) <=> m[1] \in InTables /\ Hash[key[m]] = b

\* The connections are in the chains of their tuples.
TupleOk ==
  /\ HashChains(chash, TupleChain, Conns)
  /\ \A b \in Buckets, c \in Conns :
       c \in Elems(TupleChain[b]) <=> c \in InTables /\ Hash[key[Orig(c)]] = b

ConnsOk == ListOf(conns, All, Conns) /\ Elems(All) = InTables

\* The active matches are in the tables, and those in the tables that are not
\* active have the empty pointer that Activate relies on.
ActiveOk ==
  /\ ActiveOf(act, Active)
  /\ \A m \in Elems(Active) : m[1] \in InTables
  /\ \A m \in Matches \ Elems(Active) : m[1] \in InTables => act.next[m] = None

Inv == KeysOk /\ HashOk /\ TupleOk /\ ConnsOk /\ ActiveOk

\* The matches are those of the two directions.
LEMMA MatchOf ==
  /\ \A c \in Conns : /\ Orig(c) \in Matches /\ Reply(c) \in Matches /\ Orig(c) # Reply(c)
                      /\ Orig(c)[1] = c /\ Reply(c)[1] = c
  /\ \A m \in Matches : m[1] \in Conns /\ (m = Orig(m[1]) \/ m = Reply(m[1]))
  /\ \A m \in Matches : Counter(m) \in Matches /\ Counter(m) # m /\ Counter(m)[1] = m[1]
  BY DEF Orig, Reply, Matches, Dirs, Counter

\* A match has a key when its connection is in the tables, and its key a bucket.
LEMMA KeyOf ==
  ASSUME KeysOk, NEW m \in Matches
  PROVE  /\ m[1] \in InTables <=> key[m] # None
         /\ m[1] \in InTables => key[m] \in Keys /\ Hash[key[m]] \in Buckets
<1>1. m[1] \in Conns /\ (m = Orig(m[1]) \/ m = Reply(m[1]))
  BY MatchOf
<1>2. m[1] \in InTables <=> key[m] # None
  BY <1>1 DEF KeysOk, InTables
<1>3. key[m] # None => key[m] \in Keys
  BY DEF KeysOk
<1>. QED BY <1>2, <1>3, ListsAssumption

\* What the operations on the chains do to their sets of elements.
LEMMA ChainElems ==
  ASSUME NEW S, NEW ch \in [Buckets -> Seq(S)], NEW b \in Buckets, NEW x \in S,
         \A d \in Buckets : Distinct(ch[d])
  PROVE  /\ \A d \in Buckets : Elems([ch EXCEPT ![b] = <<x>> \o @][d])
                                 = IF d = b THEN Elems(ch[d]) \cup {x} ELSE Elems(ch[d])
         /\ \A d \in Buckets : Elems([e \in Buckets |-> Unlink(ch[e], x)][d]) = Elems(ch[d]) \ {x}
         /\ \A d \in Buckets : Elems([ch EXCEPT ![b] = <<x>> \o Unlink(@, x)][d])
                                 = IF d = b THEN Elems(ch[d]) \cup {x} ELSE Elems(ch[d])
<1>1. ASSUME NEW d \in Buckets
      PROVE  Elems([ch EXCEPT ![b] = <<x>> \o @][d])
               = IF d = b THEN Elems(ch[d]) \cup {x} ELSE Elems(ch[d])
  <2>1. Elems(<<x>> \o ch[b]) = Elems(ch[b]) \cup {x}
    BY PushList
  <2>. QED BY <2>1
<1>2. \A d \in Buckets : Elems([e \in Buckets |-> Unlink(ch[e], x)][d]) = Elems(ch[d]) \ {x}
  BY UnlinkList
<1>3. ASSUME NEW d \in Buckets
      PROVE  Elems([ch EXCEPT ![b] = <<x>> \o Unlink(@, x)][d])
               = IF d = b THEN Elems(ch[d]) \cup {x} ELSE Elems(ch[d])
  <2>1. Unlink(ch[b], x) \in Seq(S) /\ Elems(Unlink(ch[b], x)) = Elems(ch[b]) \ {x}
    BY UnlinkList
  <2>2. Elems(<<x>> \o Unlink(ch[b], x)) = Elems(Unlink(ch[b], x)) \cup {x}
    BY <2>1, PushList
  <2>. QED BY <2>1, <2>2
<1>. QED BY <1>1, <1>2, <1>3

\* The abstract sequences after a step are those that the pointers then represent.
LEMMA ChainNext ==
  ASSUME NEW ch, HashChains(hash', ch, Matches)
  PROVE  Chain' = ch
  BY Objects, ChainsFollow DEF Chain

\* The same for the connections' chains.
LEMMA TupleChainNext ==
  ASSUME NEW ch, HashChains(chash', ch, Conns)
  PROVE  TupleChain' = ch
  BY Objects, ChainsFollow DEF TupleChain

\* The same for the list of connections.
LEMMA AllNext == ASSUME NEW s, ListOf(conns', s, Conns)  PROVE All' = s
<1>1. s = Follow(conns'.head, conns'.next)
  BY Objects, ListFollow
<1>. QED BY <1>1 DEF All

\* The same for the active list.
LEMMA ActiveNext == ASSUME NEW s, ActiveOf(act', s)  PROVE Active' = s
<1>1. ListOf(act', s, Matches)
  BY DEF ActiveOf
<1>2. s = Follow(act'.head, act'.next)
  BY <1>1, Objects, ListFollow
<1>. QED BY <1>2 DEF Active

\* What an insertion does to the keys.
LEMMA InsertKeys ==
  ASSUME Inv, NEW c \in Conns, NEW p \in Pairs, Insert(c, p)
  PROVE  /\ KeysOk' /\ InTables' = InTables \cup {c} /\ c \notin InTables
         /\ key'[Orig(c)] = p.original /\ key'[Reply(c)] = p.reply
         /\ \A m \in Matches : m[1] # c => key'[m] = key[m]
         /\ Hash[p.original] \in Buckets /\ Hash[p.reply] \in Buckets
<1>1. /\ p.original \in Keys /\ p.reply \in Keys
      /\ Hash[p.original] \in Buckets /\ Hash[p.reply] \in Buckets
  BY ListsAssumption
<1>2. key' = [key EXCEPT ![Orig(c)] = p.original, ![Reply(c)] = p.reply] /\ c \notin InTables
  BY DEF Insert
<1>3. /\ key \in [Matches -> Keys \cup {None}]
      /\ \A d \in Conns : key[Orig(d)] = None <=> key[Reply(d)] = None
  BY DEF Inv, KeysOk
<1>4. /\ key' \in [Matches -> Keys \cup {None}]
      /\ key'[Orig(c)] = p.original /\ key'[Reply(c)] = p.reply
  BY <1>1, <1>2, <1>3, MatchOf
<1>5. \A m \in Matches : m[1] # c => key'[m] = key[m]
  BY <1>2, <1>3, MatchOf
<1>6. None \notin Keys
  BY ListsAssumption
<1>7. \A d \in Conns : key'[Orig(d)] = None <=> key'[Reply(d)] = None
  <2>. TAKE d \in Conns
  <2>1. CASE d = c
    BY <2>1, <1>1, <1>4, <1>6
  <2>2. CASE d # c
    BY <2>2, <1>3, <1>5, MatchOf
  <2>. QED BY <2>1, <2>2
<1>8. InTables' = InTables \cup {c}
  <2>1. \A d \in Conns : d # c => key'[Orig(d)] = key[Orig(d)]
    BY <1>5, MatchOf
  <2>. QED BY <2>1, <1>1, <1>4, <1>6 DEF InTables
<1>. QED BY <1>1, <1>2, <1>4, <1>5, <1>7, <1>8 DEF KeysOk

\* An insertion puts the matches in front of the chains of their keys.
LEMMA InsertHash ==
  ASSUME Inv, NEW c \in Conns, NEW p \in Pairs, Insert(c, p)
  PROVE  /\ HashOk'
         /\ Chain' = [[Chain EXCEPT ![Hash[p.original]] = <<Orig(c)>> \o @]
                        EXCEPT ![Hash[p.reply]] = <<Reply(c)>> \o @]
<1>. DEFINE b == Hash[p.original]
            d == Hash[p.reply]
            x == Orig(c)
            y == Reply(c)
            c1 == [Chain EXCEPT ![b] = <<x>> \o @]
            c2 == [c1 EXCEPT ![d] = <<y>> \o @]
<1>1. /\ InTables' = InTables \cup {c} /\ c \notin InTables
      /\ key'[x] = p.original /\ key'[y] = p.reply
      /\ \A m \in Matches : m[1] # c => key'[m] = key[m]
      /\ b \in Buckets /\ d \in Buckets
  BY InsertKeys
<1>2. /\ HashChains(hash, Chain, Matches)
      /\ \A e \in Buckets, m \in Matches :
           m \in Elems(Chain[e]) <=> m[1] \in InTables /\ Hash[key[m]] = e
  BY DEF Inv, HashOk
<1>3. Chain \in [Buckets -> Seq(Matches)] /\ \A e \in Buckets : Distinct(Chain[e])
  BY <1>2 DEF HashChains
<1>4. x \in Matches /\ y \in Matches /\ x # y /\ x[1] = c /\ y[1] = c
  BY MatchOf
<1>5. hash' = PushFront(PushFront(hash, b, x), d, y)
  BY DEF Insert
<1>. HIDE DEF b, d, x, y
<1>6. \A e \in Buckets : x \notin Elems(Chain[e]) /\ y \notin Elems(Chain[e])
  BY <1>1, <1>2, <1>4
<1>7. HashChains(PushFront(hash, b, x), c1, Matches)
  BY <1>1, <1>2, <1>4, <1>6, Objects, ChainsPush
<1>8. \A e \in Buckets : Elems(c1[e]) = IF e = b THEN Elems(Chain[e]) \cup {x} ELSE Elems(Chain[e])
  BY <1>1, <1>3, <1>4, ChainElems
<1>9. c1 \in [Buckets -> Seq(Matches)] /\ \A e \in Buckets : Distinct(c1[e])
  BY <1>7 DEF HashChains
<1>. HIDE DEF c1
<1>10. \A e \in Buckets : y \notin Elems(c1[e])
  BY <1>4, <1>6, <1>8
<1>11. HashChains(hash', c2, Matches)
  BY <1>1, <1>4, <1>5, <1>7, <1>10, Objects, ChainsPush
<1>12. \A e \in Buckets : Elems(c2[e]) = IF e = d THEN Elems(c1[e]) \cup {y} ELSE Elems(c1[e])
  BY <1>1, <1>4, <1>9, ChainElems
<1>13. Chain' = c2
  BY <1>11, ChainNext
<1>. HIDE DEF c2
<1>14. ASSUME NEW e \in Buckets, NEW m \in Matches
       PROVE  m \in Elems(c2[e]) <=> m[1] \in InTables' /\ Hash[key'[m]] = e
  <2>1. m \in Elems(c2[e]) <=> m \in Elems(Chain[e]) \/ (e = b /\ m = x) \/ (e = d /\ m = y)
    BY <1>8, <1>12
  <2>2. CASE m[1] = c
    <3>1. m = x \/ m = y
      BY <2>2, MatchOf DEF x, y
    <3>2. m \notin Elems(Chain[e])
      BY <3>1, <1>6
    <3>3. Hash[key'[x]] = b /\ Hash[key'[y]] = d
      BY <1>1 DEF b, d
    <3>. QED BY <3>1, <3>2, <3>3, <2>1, <2>2, <1>1, <1>4
  <2>3. CASE m[1] # c
    BY <2>1, <2>3, <1>1, <1>2, <1>4
  <2>. QED BY <2>2, <2>3
<1>15. HashOk'
  BY <1>11, <1>13, <1>14 DEF HashOk
<1>. QED BY <1>13, <1>15 DEF c1, c2, b, d, x, y

\* An insertion puts the connection in front of the chain of its tuple, and at the
\* end of the list.
LEMMA InsertConn ==
  ASSUME Inv, NEW c \in Conns, NEW p \in Pairs, Insert(c, p)
  PROVE  TupleOk' /\ ConnsOk' /\ All' = Append(All, c)
<1>. DEFINE b == Hash[p.original]
            c2 == [TupleChain EXCEPT ![b] = <<c>> \o @]
<1>1. /\ InTables' = InTables \cup {c} /\ c \notin InTables
      /\ key'[Orig(c)] = p.original
      /\ \A m \in Matches : m[1] # c => key'[m] = key[m]
      /\ b \in Buckets
  BY InsertKeys
<1>2. /\ HashChains(chash, TupleChain, Conns)
      /\ \A e \in Buckets, a \in Conns :
           a \in Elems(TupleChain[e]) <=> a \in InTables /\ Hash[key[Orig(a)]] = e
  BY DEF Inv, TupleOk
<1>3. TupleChain \in [Buckets -> Seq(Conns)] /\ \A e \in Buckets : Distinct(TupleChain[e])
  BY <1>2 DEF HashChains
<1>4. chash' = PushFront(chash, b, c) /\ conns' = AppendConn(conns, c)
  BY DEF Insert
<1>5. Hash[key'[Orig(c)]] = b /\ \A a \in Conns : a # c => key'[Orig(a)] = key[Orig(a)]
  BY <1>1, MatchOf
<1>. HIDE DEF b
<1>6. HashChains(chash', c2, Conns)
  BY <1>1, <1>2, <1>4, Objects, ChainsPush
<1>7. \A e \in Buckets : Elems(c2[e]) = IF e = b THEN Elems(TupleChain[e]) \cup {c} ELSE Elems(TupleChain[e])
  BY <1>1, <1>3, ChainElems
<1>8. TupleChain' = c2
  BY <1>6, TupleChainNext
<1>. HIDE DEF c2
<1>9. \A e \in Buckets, a \in Conns : a \in Elems(c2[e]) <=> a \in InTables' /\ Hash[key'[Orig(a)]] = e
  <2>. TAKE e \in Buckets, a \in Conns
  <2>1. CASE a = c
    <3>1. c \notin Elems(TupleChain[e]) /\ c \in InTables'
      BY <1>1, <1>2
    <3>2. c \in Elems(c2[e]) <=> e = b
      BY <3>1, <1>7
    <3>. QED BY <3>1, <3>2, <2>1, <1>5
  <2>2. CASE a # c
    <3>1. a \in Elems(c2[e]) <=> a \in Elems(TupleChain[e])
      BY <2>2, <1>7
    <3>2. key'[Orig(a)] = key[Orig(a)] /\ (a \in InTables' <=> a \in InTables)
      BY <2>2, <1>1, <1>5
    <3>. QED BY <3>1, <3>2, <1>2
  <2>. QED BY <2>1, <2>2
<1>10. TupleOk'
  BY <1>6, <1>8, <1>9 DEF TupleOk
<1>11. ListOf(conns, All, Conns) /\ Elems(All) = InTables
  BY DEF Inv, ConnsOk
<1>12. ListOf(conns', Append(All, c), Conns)
  BY <1>1, <1>4, <1>11, Objects, ListAppend
<1>13. All' = Append(All, c)
  BY <1>12, AllNext
<1>14. Elems(Append(All, c)) = InTables \cup {c}
  BY <1>11, AppendList DEF ListOf
<1>15. ConnsOk'
  BY <1>1, <1>12, <1>13, <1>14 DEF ConnsOk
<1>. QED BY <1>10, <1>13, <1>15

\* An insertion leaves the active list alone.
LEMMA InsertActive ==
  ASSUME Inv, NEW c \in Conns, NEW p \in Pairs, Insert(c, p)
  PROVE  ActiveOk' /\ Active' = Active
<1>1. /\ ActiveOf(act, Active) /\ \A m \in Elems(Active) : m[1] \in InTables
      /\ \A m \in Matches \ Elems(Active) : m[1] \in InTables => act.next[m] = None
  BY DEF Inv, ActiveOk
<1>2. InTables' = InTables \cup {c} /\ c \notin InTables
  BY InsertKeys
<1>3. act' = Fresh(act, c)
  BY DEF Insert
<1>4. Orig(c) \notin Elems(Active) /\ Reply(c) \notin Elems(Active)
  BY <1>1, <1>2, MatchOf
<1>5. /\ ActiveOf(act', Active)
      /\ act'.next[Orig(c)] = None /\ act'.next[Reply(c)] = None
      /\ \A y \in Matches \ {Orig(c), Reply(c)} : act'.next[y] = act.next[y]
  BY <1>1, <1>3, <1>4, ActiveFresh
<1>6. Active' = Active
  BY <1>5, ActiveNext
<1>7. \A m \in Elems(Active) : m[1] \in InTables'
  BY <1>1, <1>2
<1>8. \A m \in Matches \ Elems(Active) : m[1] \in InTables' => act'.next[m] = None
  BY <1>1, <1>2, <1>5, MatchOf
<1>. QED BY <1>5, <1>6, <1>7, <1>8 DEF ActiveOk

\* What a removal does to the keys.
LEMMA RemoveKeys ==
  ASSUME Inv, NEW c \in Conns, Remove(c)
  PROVE  /\ KeysOk' /\ InTables' = InTables \ {c} /\ c \in InTables
         /\ \A m \in Matches : m[1] # c => key'[m] = key[m]
<1>1. key' = [key EXCEPT ![Orig(c)] = None, ![Reply(c)] = None] /\ c \in InTables
  BY DEF Remove
<1>2. /\ key \in [Matches -> Keys \cup {None}]
      /\ \A d \in Conns : key[Orig(d)] = None <=> key[Reply(d)] = None
  BY DEF Inv, KeysOk
<1>3. /\ key' \in [Matches -> Keys \cup {None}]
      /\ key'[Orig(c)] = None /\ key'[Reply(c)] = None
  BY <1>1, <1>2, MatchOf
<1>4. \A m \in Matches : m[1] # c => key'[m] = key[m]
  BY <1>1, <1>2, MatchOf
<1>5. \A d \in Conns : d # c => key'[Orig(d)] = key[Orig(d)] /\ key'[Reply(d)] = key[Reply(d)]
  BY <1>4, MatchOf
<1>6. \A d \in Conns : key'[Orig(d)] = None <=> key'[Reply(d)] = None
  BY <1>2, <1>3, <1>5
<1>7. InTables' = InTables \ {c}
  BY <1>3, <1>5 DEF InTables
<1>. QED BY <1>1, <1>3, <1>4, <1>6, <1>7 DEF KeysOk

\* A removal takes both matches out of the chains of their keys.
LEMMA RemoveHash ==
  ASSUME Inv, NEW c \in Conns, Remove(c)
  PROVE  /\ HashOk'
         /\ Chain' = [b \in Buckets |-> Unlink(Unlink(Chain[b], Reply(c)), Orig(c))]
<1>. DEFINE x == Orig(c)
            y == Reply(c)
            b == Hash[key[x]]
            d == Hash[key[y]]
            c1 == [e \in Buckets |-> Unlink(Chain[e], y)]
            c2 == [e \in Buckets |-> Unlink(c1[e], x)]
<1>1. /\ InTables' = InTables \ {c} /\ c \in InTables
      /\ \A m \in Matches : m[1] # c => key'[m] = key[m]
  BY RemoveKeys
<1>2. /\ HashChains(hash, Chain, Matches)
      /\ \A e \in Buckets, m \in Matches :
           m \in Elems(Chain[e]) <=> m[1] \in InTables /\ Hash[key[m]] = e
  BY DEF Inv, HashOk
<1>3. Chain \in [Buckets -> Seq(Matches)] /\ \A e \in Buckets : Distinct(Chain[e])
  BY <1>2 DEF HashChains
<1>4. x \in Matches /\ y \in Matches /\ x # y /\ x[1] = c /\ y[1] = c
  BY MatchOf
<1>5. hash' = Drop(Drop(hash, d, y), b, x)
  BY DEF Remove
<1>6. b \in Buckets /\ d \in Buckets
  BY <1>1, <1>4, KeyOf DEF Inv
<1>7. x \in Elems(Chain[b]) /\ y \in Elems(Chain[d])
  BY <1>1, <1>2, <1>4, <1>6
<1>. HIDE DEF b, d, x, y
<1>8. HashChains(Drop(hash, d, y), c1, Matches)
  BY <1>2, <1>6, <1>7, Objects, ChainsDrop
<1>9. \A e \in Buckets : Elems(c1[e]) = Elems(Chain[e]) \ {y}
  BY <1>3, UnlinkList
<1>10. c1 \in [Buckets -> Seq(Matches)] /\ \A e \in Buckets : Distinct(c1[e])
  BY <1>8 DEF HashChains
<1>11. c2 = [e \in Buckets |-> Unlink(Unlink(Chain[e], y), x)]
  OBVIOUS
<1>. HIDE DEF c1
<1>12. x \in Elems(c1[b])
  BY <1>4, <1>6, <1>7, <1>9
<1>13. HashChains(hash', c2, Matches)
  BY <1>5, <1>6, <1>8, <1>12, Objects, ChainsDrop
<1>14. \A e \in Buckets : Elems(c2[e]) = Elems(c1[e]) \ {x}
  BY <1>10, UnlinkList
<1>15. Chain' = c2
  BY <1>13, ChainNext
<1>. HIDE DEF c2
<1>16. ASSUME NEW e \in Buckets, NEW m \in Matches
       PROVE  m \in Elems(c2[e]) <=> m[1] \in InTables' /\ Hash[key'[m]] = e
  <2>1. m \in Elems(c2[e]) <=> m \in Elems(Chain[e]) /\ m # x /\ m # y
    BY <1>9, <1>14
  <2>2. CASE m[1] = c
    <3>1. m = x \/ m = y
      BY <2>2, MatchOf DEF x, y
    <3>. QED BY <3>1, <2>1, <2>2, <1>1
  <2>3. CASE m[1] # c
    BY <2>1, <2>3, <1>1, <1>2, <1>4
  <2>. QED BY <2>2, <2>3
<1>17. HashOk'
  BY <1>13, <1>15, <1>16 DEF HashOk
<1>. QED BY <1>11, <1>15, <1>17 DEF x, y

\* A removal takes the connection out of the chain of its tuple, and off the list.
LEMMA RemoveConn ==
  ASSUME Inv, NEW c \in Conns, Remove(c)
  PROVE  TupleOk' /\ ConnsOk' /\ All' = Unlink(All, c)
<1>. DEFINE b == Hash[key[Orig(c)]]
            c2 == [e \in Buckets |-> Unlink(TupleChain[e], c)]
<1>1. /\ InTables' = InTables \ {c} /\ c \in InTables
      /\ \A m \in Matches : m[1] # c => key'[m] = key[m]
  BY RemoveKeys
<1>2. /\ HashChains(chash, TupleChain, Conns)
      /\ \A e \in Buckets, a \in Conns :
           a \in Elems(TupleChain[e]) <=> a \in InTables /\ Hash[key[Orig(a)]] = e
  BY DEF Inv, TupleOk
<1>3. TupleChain \in [Buckets -> Seq(Conns)] /\ \A e \in Buckets : Distinct(TupleChain[e])
  BY <1>2 DEF HashChains
<1>4. chash' = Drop(chash, b, c) /\ conns' = DropConn(conns, c)
  BY DEF Remove
<1>5. b \in Buckets /\ \A a \in Conns : a # c => key'[Orig(a)] = key[Orig(a)]
  BY <1>1, MatchOf, KeyOf DEF Inv
<1>6. c \in Elems(TupleChain[b])
  BY <1>1, <1>2, <1>5
<1>. HIDE DEF b
<1>7. HashChains(chash', c2, Conns)
  BY <1>2, <1>4, <1>5, <1>6, Objects, ChainsDrop
<1>8. \A e \in Buckets : Elems(c2[e]) = Elems(TupleChain[e]) \ {c}
  BY <1>3, UnlinkList
<1>9. TupleChain' = c2
  BY <1>7, TupleChainNext
<1>. HIDE DEF c2
<1>10. \A e \in Buckets, a \in Conns : a \in Elems(c2[e]) <=> a \in InTables' /\ Hash[key'[Orig(a)]] = e
  <2>. TAKE e \in Buckets, a \in Conns
  <2>1. CASE a = c
    BY <2>1, <1>1, <1>8
  <2>2. CASE a # c
    <3>1. a \in Elems(c2[e]) <=> a \in Elems(TupleChain[e])
      BY <2>2, <1>8
    <3>2. key'[Orig(a)] = key[Orig(a)] /\ (a \in InTables' <=> a \in InTables)
      BY <2>2, <1>1, <1>5
    <3>. QED BY <3>1, <3>2, <1>2
  <2>. QED BY <2>1, <2>2
<1>11. TupleOk'
  BY <1>7, <1>9, <1>10 DEF TupleOk
<1>12. ListOf(conns, All, Conns) /\ Elems(All) = InTables
  BY DEF Inv, ConnsOk
<1>13. ListOf(conns', Unlink(All, c), Conns)
  BY <1>1, <1>4, <1>12, Objects, ListDrop
<1>14. All' = Unlink(All, c)
  BY <1>13, AllNext
<1>15. Elems(Unlink(All, c)) = InTables \ {c}
  BY <1>12, UnlinkList DEF ListOf
<1>16. ConnsOk'
  BY <1>1, <1>13, <1>14, <1>15 DEF ConnsOk
<1>. QED BY <1>11, <1>14, <1>16

\* A removal takes both matches off the active list.
LEMMA RemoveActive ==
  ASSUME Inv, NEW c \in Conns, Remove(c)
  PROVE  ActiveOk' /\ Active' = Unlink(Unlink(Active, Reply(c)), Orig(c))
<1>. DEFINE x == Orig(c)
            y == Reply(c)
            a1 == Unlink(Active, y)
            a2 == Unlink(a1, x)
            l1 == Deactivate(act, y)
<1>1. /\ ActiveOf(act, Active) /\ \A m \in Elems(Active) : m[1] \in InTables
      /\ \A m \in Matches \ Elems(Active) : m[1] \in InTables => act.next[m] = None
  BY DEF Inv, ActiveOk
<1>2. InTables' = InTables \ {c} /\ c \in InTables
  BY RemoveKeys
<1>3. act' = Deactivate(l1, x)
  BY DEF Remove
<1>4. x \in Matches /\ y \in Matches
  BY MatchOf
<1>5. \A m \in Matches : m[1] # c <=> m # x /\ m # y
  BY MatchOf
<1>. HIDE DEF x, y
<1>6. /\ ActiveOf(l1, a1)
      /\ \A m \in Matches \ (Elems(Active) \cup {y}) : l1.next[m] = act.next[m]
  BY <1>1, <1>4, ActiveDrop
<1>7. Elems(a1) = Elems(Active) \ {y}
  BY <1>1, UnlinkList DEF ActiveOf, ListOf
<1>. HIDE DEF a1, l1
<1>8. /\ ActiveOf(act', a2)
      /\ \A m \in Matches \ (Elems(a1) \cup {x}) : act'.next[m] = l1.next[m]
  BY <1>3, <1>4, <1>6, ActiveDrop
<1>9. Elems(a2) = Elems(a1) \ {x}
  BY <1>6, UnlinkList DEF ActiveOf, ListOf
<1>10. Active' = a2
  BY <1>8, ActiveNext
<1>. HIDE DEF a2
<1>11. Elems(Active) \subseteq Matches
  BY <1>1, ActiveLinks
<1>12. \A m \in Elems(a2) : m[1] \in InTables'
  BY <1>1, <1>2, <1>5, <1>7, <1>9, <1>11
<1>13. \A m \in Matches \ Elems(a2) : m[1] \in InTables' => act'.next[m] = None
  <2>. SUFFICES ASSUME NEW m \in Matches, m \notin Elems(a2), m[1] \in InTables'
                PROVE  act'.next[m] = None
    OBVIOUS
  <2>1. m # x /\ m # y /\ m[1] \in InTables
    BY <1>2, <1>5
  <2>2. m \notin Elems(Active) /\ m \notin Elems(a1)
    BY <2>1, <1>7, <1>9
  <2>3. act'.next[m] = l1.next[m] /\ l1.next[m] = act.next[m] /\ act.next[m] = None
    BY <2>1, <2>2, <1>1, <1>6, <1>8
  <2>. QED BY <2>3
<1>14. ActiveOk'
  BY <1>8, <1>10, <1>12, <1>13 DEF ActiveOk
<1>. QED BY <1>10, <1>14 DEF a2, a1, x, y
\* A received packet makes its match the first of its chain, and nothing else
\* of the chains and the list of connections changes.
LEMMA ReceiveHash ==
  ASSUME Inv, NEW m \in Matches, NEW forward, Receive(m, forward)
  PROVE  /\ KeysOk' /\ HashOk' /\ TupleOk' /\ ConnsOk' /\ All' = All
         /\ Hash[key[m]] \in Buckets /\ m \in Elems(Chain[Hash[key[m]]])
         /\ Chain' = [Chain EXCEPT ![Hash[key[m]]] = <<m>> \o Unlink(@, m)]
<1>. DEFINE b == Hash[key[m]]
            c2 == [Chain EXCEPT ![b] = <<m>> \o Unlink(@, m)]
<1>1. /\ hash' = MoveToFront(hash, b, m) /\ m[1] \in InTables
      /\ key' = key /\ chash' = chash /\ conns' = conns
  BY DEF Receive
<1>2. /\ HashChains(hash, Chain, Matches)
      /\ \A e \in Buckets, n \in Matches :
           n \in Elems(Chain[e]) <=> n[1] \in InTables /\ Hash[key[n]] = e
  BY DEF Inv, HashOk
<1>3. Chain \in [Buckets -> Seq(Matches)] /\ \A e \in Buckets : Distinct(Chain[e])
  BY <1>2 DEF HashChains
<1>4. InTables' = InTables
  BY <1>1 DEF InTables
<1>5. b \in Buckets
  BY <1>1, KeyOf DEF Inv
<1>. HIDE DEF b
<1>6. m \in Elems(Chain[b])
  BY <1>1, <1>2, <1>5 DEF b
<1>7. HashChains(hash', c2, Matches)
  BY <1>1, <1>2, <1>5, <1>6, Objects, ChainsMove
<1>8. Chain' = c2
  BY <1>7, ChainNext
<1>9. \A e \in Buckets : Elems(c2[e]) = IF e = b THEN Elems(Chain[e]) \cup {m} ELSE Elems(Chain[e])
  BY <1>3, <1>5, ChainElems
<1>. HIDE DEF c2
<1>10. \A e \in Buckets : Elems(c2[e]) = Elems(Chain[e])
  BY <1>6, <1>9
<1>11. \A e \in Buckets, n \in Matches : n \in Elems(c2[e]) <=> n[1] \in InTables' /\ Hash[key'[n]] = e
  BY <1>1, <1>2, <1>4, <1>10
<1>12. HashOk'
  BY <1>7, <1>8, <1>11 DEF HashOk
<1>13. All' = All /\ TupleChain' = TupleChain
  BY <1>1 DEF All, TupleChain
<1>14. KeysOk' /\ TupleOk' /\ ConnsOk'
  BY <1>1, <1>4, <1>13 DEF Inv, KeysOk, TupleOk, ConnsOk
<1>. QED BY <1>5, <1>6, <1>8, <1>12, <1>13, <1>14 DEF b, c2

\* A forwarded packet's match joins the active list, once.
LEMMA ReceiveActive ==
  ASSUME Inv, NEW m \in Matches, NEW forward \in BOOLEAN, Receive(m, forward)
  PROVE  /\ ActiveOk'
         /\ Active' = IF forward /\ m \notin Elems(Active) THEN Append(Active, m) ELSE Active
<1>1. /\ ActiveOf(act, Active) /\ \A n \in Elems(Active) : n[1] \in InTables
      /\ \A n \in Matches \ Elems(Active) : n[1] \in InTables => act.next[n] = None
  BY DEF Inv, ActiveOk
<1>2. m[1] \in InTables /\ key' = key
  BY DEF Receive
<1>3. InTables' = InTables
  BY <1>2 DEF InTables
<1>4. Active \in Seq(Matches) /\ Elems(Active) \subseteq Matches /\ (m \in Elems(Active) <=> act.on[m])
  BY <1>1, ActiveLinks
<1>5. CASE ~forward \/ m \in Elems(Active)
  <2>1. act' = act
    BY <1>4, <1>5 DEF Receive, Activate
  <2>2. Active' = Active
    BY <2>1 DEF Active
  <2>. QED BY <1>1, <1>3, <1>5, <2>1, <2>2 DEF ActiveOk
<1>6. CASE forward /\ m \notin Elems(Active)
  <2>. DEFINE s == Append(Active, m)
  <2>1. act' = Activate(act, m)
    BY <1>6 DEF Receive
  <2>2. ~act.on[m] => act.next[m] = None
    BY <1>1, <1>2, <1>4
  <2>3. /\ ActiveOf(Activate(act, m), IF m \in Elems(Active) THEN Active ELSE s)
        /\ \A y \in Matches \ (Elems(Active) \cup {m}) : Activate(act, m).next[y] = act.next[y]
    BY <1>1, <2>2, ActiveOn
  <2>4. (IF m \in Elems(Active) THEN Active ELSE s) = s
    BY <1>6
  <2>5. Elems(s) = Elems(Active) \cup {m}
    BY <1>4, AppendList
  <2>. HIDE DEF s
  <2>6. ActiveOf(act', s) /\ \A y \in Matches \ Elems(s) : act'.next[y] = act.next[y]
    BY <2>1, <2>3, <2>4, <2>5
  <2>7. Active' = s
    BY <2>6, ActiveNext
  <2>8. \A n \in Elems(s) : n[1] \in InTables'
    BY <1>1, <1>2, <1>3, <2>5
  <2>9. \A n \in Matches \ Elems(s) : n[1] \in InTables' => act'.next[n] = None
    BY <1>1, <1>3, <2>5, <2>6
  <2>10. ActiveOk'
    BY <2>6, <2>7, <2>8, <2>9 DEF ActiveOk
  <2>. QED BY <1>6, <2>7, <2>10 DEF s
<1>. QED BY <1>5, <1>6

\* An element behind the head can go before or after the head does.
LEMMA TailUnlink ==
  ASSUME NEW S, NEW s \in Seq(S), Distinct(s), s # <<>>, NEW x, x # Head(s)
  PROVE  Tail(Unlink(s, x)) = Unlink(Tail(s), x) /\ Unlink(s, x) # <<>> /\ Unlink(s, x)[1] = Head(s)
<1>1. /\ Head(s) = s[1] /\ Tail(s) \in Seq(S) /\ Elems(s) = Elems(Tail(s)) \cup {Head(s)}
      /\ Distinct(Tail(s))
  BY TailList, HeadTailProperties
<1>2. CASE x \notin Elems(s)
  BY <1>1, <1>2, UnlinkOther
<1>3. CASE x \in Elems(s)
  <2>. DEFINE u == Unlink(s, x)
              v == Unlink(Tail(s), x)
              t == Tail(s)
              L == Len(s)
  <2>1. /\ L \in Nat /\ L # 0 /\ DOMAIN s = 1 .. L
        /\ t \in Seq(S) /\ Len(t) = L - 1 /\ \A i \in 1 .. L - 1 : t[i] = s[i + 1]
    BY LenProperties, EmptySeq, HeadTailProperties
  <2>2. PICK p \in 1 .. L : s[p] = x
    BY <1>3, ElemsInSet
  <2>3. p # 1 /\ u \in Seq(S) /\ v \in Seq(S)
    BY <1>1, <2>2, UnlinkList
  <2>4. Len(u) = L - 1 /\ \A i \in 1 .. L - 1 : u[i] = IF i < p THEN s[i] ELSE s[i + 1]
    BY <2>2, UnlinkAt
  <2>. HIDE DEF L, t, u
  <2>5. p - 1 \in 1 .. L - 1 /\ p - 1 + 1 = p /\ L - 1 \in Nat /\ L - 2 \in Nat /\ p \in Nat
    BY <2>1, <2>2, <2>3
  <2>6. t[p - 1] = x
    BY <2>1, <2>2, <2>5
  <2>. HIDE DEF v
  <2>7. Len(v) = L - 2 /\ \A i \in 1 .. L - 2 : v[i] = IF i < p - 1 THEN t[i] ELSE t[i + 1]
    <3>1. Unlink(t, t[p - 1]) = v
      BY <2>6 DEF v, t
    <3>2. p - 1 \in 1 .. Len(t) /\ Distinct(t) /\ Len(t) - 1 = L - 2
      BY <1>1, <2>1, <2>5 DEF t
    <3>3. /\ Len(Unlink(t, t[p - 1])) = Len(t) - 1
          /\ \A i \in 1 .. Len(t) - 1 : Unlink(t, t[p - 1])[i] = IF i < p - 1 THEN t[i] ELSE t[i + 1]
      BY <2>1, <3>2, UnlinkAt
    <3>. QED BY <3>1, <3>2, <3>3
  <2>8. u # <<>>
    BY <2>3, <2>4, <2>5, EmptySeq
  <2>9. Tail(u) \in Seq(S) /\ Len(Tail(u)) = L - 2 /\ \A i \in 1 .. L - 2 : Tail(u)[i] = u[i + 1]
    <3>1. Tail(u) \in Seq(S) /\ Len(Tail(u)) = Len(u) - 1 /\ \A i \in 1 .. Len(Tail(u)) : Tail(u)[i] = u[i + 1]
      BY <2>3, <2>8, HeadTailProperties
    <3>. HIDE DEF L
    <3>2. Len(u) - 1 = L - 2
      BY <2>1, <2>4
    <3>. QED BY <3>1, <3>2
  <2>10. ASSUME NEW i \in 1 .. L - 2  PROVE Tail(u)[i] = v[i]
    <3>1. i + 1 \in 1 .. L - 1 /\ i \in 1 .. L - 1 /\ i + 1 + 1 = i + 2 /\ (i + 1 < p <=> i < p - 1)
      BY <2>1, <2>2
    <3>2. Tail(u)[i] = IF i + 1 < p THEN s[i + 1] ELSE s[i + 2]
      BY <2>4, <2>9, <3>1
    <3>3. v[i] = IF i < p - 1 THEN s[i + 1] ELSE s[i + 2]
      BY <2>1, <2>7, <3>1
    <3>4. CASE i + 1 < p
      BY <3>1, <3>2, <3>3, <3>4
    <3>5. CASE ~(i + 1 < p)
      BY <3>1, <3>2, <3>3, <3>5
    <3>. QED BY <3>4, <3>5
  <2>11. Tail(u) = v
    BY <2>3, <2>7, <2>9, <2>10, SeqEqual
  <2>12. 1 \in 1 .. L - 1 /\ 1 < p
    BY <2>1, <2>2, <2>3, <2>5
  <2>13. u[1] = s[1]
    BY <2>4, <2>12
  <2>. QED BY <1>1, <2>8, <2>11, <2>13 DEF u, v
<1>. QED BY <1>2, <1>3

\* The timer takes the first active match and its counter match off the list.
LEMMA SyncActive ==
  ASSUME Inv, SyncHead
  PROVE  /\ ActiveOk' /\ Active # <<>>
         /\ Active' = Unlink(Tail(Active), Counter(Head(Active)))
<1>. DEFINE m == Counter(act.head)
            l1 == TakeCounter(act, m)
            a1 == Unlink(Active, m)
            a2 == Tail(a1)
<1>1. /\ ActiveOf(act, Active) /\ \A n \in Elems(Active) : n[1] \in InTables
      /\ \A n \in Matches \ Elems(Active) : n[1] \in InTables => act.next[n] = None
  BY DEF Inv, ActiveOk
<1>2. act.head # None /\ act' = TakeHead(l1) /\ key' = key
  BY DEF SyncHead
<1>3. InTables' = InTables
  BY <1>2 DEF InTables
<1>4. /\ Active \in Seq(Matches) /\ Distinct(Active) /\ Elems(Active) \subseteq Matches
      /\ Active # <<>> /\ act.head \in Elems(Active) /\ act.head = Active[1]
  <2>1. /\ Active \in Seq(Matches) /\ Distinct(Active) /\ Elems(Active) \subseteq Matches
        /\ Active # <<>> /\ act.head \in Elems(Active)
    BY <1>1, <1>2, ActiveLinks
  <2>. QED BY <2>1, <1>1, ActiveHead
<1>5. Head(Active) = act.head
  BY <1>4
<1>6. m \in Matches /\ m # act.head
  BY <1>4, MatchOf
<1>. HIDE DEF m
<1>7. /\ ActiveOf(l1, a1) /\ l1.head = act.head
      /\ m \in Elems(Active) => l1.next[m] = None
      /\ \A n \in Matches \ Elems(Active) : l1.next[n] = act.next[n]
  BY <1>1, <1>6, ActiveCounter
<1>8. a2 = Unlink(Tail(Active), m) /\ a1 # <<>>
  BY <1>4, <1>5, <1>6, TailUnlink
<1>9. Elems(a1) = Elems(Active) \ {m} /\ a1 \in Seq(Matches) /\ Distinct(a1)
  BY <1>4, UnlinkList
<1>. HIDE DEF l1, a1
<1>10. /\ ActiveOf(TakeHead(l1), a2) /\ l1.head = a1[1]
       /\ TakeHead(l1).next[l1.head] = None
       /\ \A n \in Matches \ Elems(a1) : TakeHead(l1).next[n] = l1.next[n]
  BY <1>7, <1>8, ActiveHead
<1>11. Elems(a1) = Elems(a2) \cup {l1.head}
  BY <1>8, <1>9, <1>10, TailList
<1>. HIDE DEF a2
<1>12. Active' = a2
  BY <1>2, <1>10, ActiveNext
<1>13. \A n \in Elems(a2) : n[1] \in InTables'
  BY <1>1, <1>3, <1>9, <1>11
<1>14. ASSUME NEW n \in Matches, n \notin Elems(a2), n[1] \in InTables'
       PROVE  act'.next[n] = None
  <2>1. CASE n \in Elems(a1)
    <3>1. n = l1.head
      BY <2>1, <1>11, <1>14
    <3>. QED BY <3>1, <1>2, <1>10
  <2>2. CASE n \notin Elems(a1)
    <3>1. act'.next[n] = l1.next[n]
      BY <2>2, <1>2, <1>10
    <3>2. CASE n = m /\ m \in Elems(Active)
      BY <3>1, <3>2, <1>7
    <3>3. CASE ~(n = m /\ m \in Elems(Active))
      <4>1. n \notin Elems(Active)
        BY <2>2, <3>3, <1>9
      <4>2. l1.next[n] = act.next[n] /\ act.next[n] = None
        BY <4>1, <1>1, <1>3, <1>7, <1>14
      <4>. QED BY <3>1, <4>2
    <3>. QED BY <3>2, <3>3
  <2>. QED BY <2>1, <2>2
<1>15. ActiveOk'
  BY <1>2, <1>10, <1>12, <1>13, <1>14 DEF ActiveOk
<1>. QED BY <1>4, <1>5, <1>8, <1>12, <1>15 DEF m

\* A step that leaves the matches' and connections' lists alone keeps what is said of them.
LEMMA SameLists ==
  ASSUME Inv, UNCHANGED <<key, hash, chash, conns>>
  PROVE  KeysOk' /\ HashOk' /\ TupleOk' /\ ConnsOk' /\ Chain' = Chain /\ All' = All
<1>1. /\ key' = key /\ hash' = hash /\ chash' = chash /\ conns' = conns
      /\ Chain' = Chain /\ TupleChain' = TupleChain /\ All' = All /\ InTables' = InTables
  BY DEF Chain, TupleChain, All, InTables
<1>. QED BY <1>1 DEF Inv, KeysOk, HashOk, TupleOk, ConnsOk

\* The same for the active list.
LEMMA SameActive ==
  ASSUME Inv, UNCHANGED <<key, act>>
  PROVE  ActiveOk' /\ Active' = Active
<1>1. key' = key /\ act' = act /\ Active' = Active /\ InTables' = InTables
  BY DEF Active, InTables
<1>. QED BY <1>1 DEF Inv, ActiveOk

\* Without objects the lists are empty.
LEMMA EmptyChained == ASSUME NEW next, NEW prev  PROVE Chained(<<>>, None, next, prev) /\ Final(<<>>) = None
  BY DEF Chained, Final

\* At first the tables are empty.
LEMMA InitInv ==
  ASSUME Init
  PROVE  /\ Inv /\ InTables = {} /\ All = <<>> /\ Active = <<>>
         /\ Chain = [b \in Buckets |-> <<>>]
<1>. DEFINE empty == [b \in Buckets |-> <<>>]
<1>1. key = [m \in Matches |-> None] /\ InTables = {}
  BY MatchOf DEF Init, InTables
<1>2. KeysOk
  BY <1>1, MatchOf DEF KeysOk
<1>3. /\ empty \in [Buckets -> Seq(Matches)] /\ empty \in [Buckets -> Seq(Conns)]
      /\ \A b \in Buckets : empty[b] = <<>> /\ Elems(empty[b]) = {} /\ Distinct(empty[b])
  BY EmptyList
<1>. HIDE DEF empty
<1>4. HashChains(hash, empty, Matches)
  <2>1. /\ hash \in [head: [Buckets -> Matches \cup {None}], next: Pointers(Matches), prev: Pointers(Matches)]
        /\ \A b \in Buckets : hash.head[b] = None
    BY DEF Init, Pointers
  <2>2. \A b \in Buckets : Chained(empty[b], hash.head[b], hash.next, hash.prev)
    BY <1>3, <2>1, EmptyChained
  <2>. QED BY <1>3, <2>1, <2>2 DEF HashChains
<1>5. HashChains(chash, empty, Conns)
  <2>1. /\ chash \in [head: [Buckets -> Conns \cup {None}], next: Pointers(Conns), prev: Pointers(Conns)]
        /\ \A b \in Buckets : chash.head[b] = None
    BY DEF Init, Pointers
  <2>2. \A b \in Buckets : Chained(empty[b], chash.head[b], chash.next, chash.prev)
    BY <1>3, <2>1, EmptyChained
  <2>. QED BY <1>3, <2>1, <2>2 DEF HashChains
<1>6. Chain = empty /\ TupleChain = empty
  BY <1>4, <1>5, Objects, ChainsFollow DEF Chain, TupleChain
<1>7. HashOk /\ TupleOk
  BY <1>1, <1>3, <1>4, <1>5, <1>6 DEF HashOk, TupleOk
<1>8. ListOf(conns, <<>>, Conns)
  <2>1. /\ conns.next \in Pointers(Conns) /\ conns.prev \in Pointers(Conns)
        /\ conns.head = None /\ conns.tail = None
    BY DEF Init, Pointers
  <2>. QED BY <2>1, EmptyList, EmptyChained DEF ListOf
<1>9. All = <<>>
  BY <1>8, Objects, ListFollow DEF All
<1>10. ConnsOk
  BY <1>1, <1>8, <1>9, EmptyList DEF ConnsOk
<1>11. ActiveOf(act, <<>>)
  <2>1. /\ act \in ActiveType /\ act.head = None /\ act.tail = None
        /\ \A m \in Matches : ~act.on[m]
    BY DEF Init, ActiveType, Pointers
  <2>2. ListOf(act, <<>>, Matches)
    BY <2>1, EmptyList, EmptyChained DEF ListOf, ActiveType
  <2>. QED BY <2>1, <2>2, EmptyList DEF ActiveOf
<1>12. Active = <<>>
  <2>1. ListOf(act, <<>>, Matches)
    BY <1>11 DEF ActiveOf
  <2>. QED BY <2>1, Objects, ListFollow DEF Active
<1>13. ActiveOk
  <2>1. \A m \in Matches : m[1] \notin InTables
    BY <1>1
  <2>. QED BY <1>11, <1>12, <2>1, EmptyList DEF ActiveOk
<1>. QED BY <1>1, <1>2, <1>6, <1>7, <1>9, <1>10, <1>12, <1>13 DEF Inv, empty

\* Every step keeps the invariant.
LEMMA NextInv == ASSUME Inv, [Next]_vars  PROVE Inv'
<1>1. ASSUME NEW c \in Conns, Remove(c)  PROVE Inv'
  BY <1>1, RemoveKeys, RemoveHash, RemoveConn, RemoveActive DEF Inv
<1>2. ASSUME NEW c \in Conns, NEW p \in Pairs, Insert(c, p)  PROVE Inv'
  BY <1>2, InsertKeys, InsertHash, InsertConn, InsertActive DEF Inv
<1>3. ASSUME NEW m \in Matches, NEW forward \in BOOLEAN, Receive(m, forward)  PROVE Inv'
  BY <1>3, ReceiveHash, ReceiveActive DEF Inv
<1>4. CASE SyncHead
  <2>1. UNCHANGED <<key, hash, chash, conns>>
    BY <1>4 DEF SyncHead
  <2>. QED BY <1>4, <2>1, SyncActive, SameLists DEF Inv
<1>5. CASE UNCHANGED vars
  <2>1. UNCHANGED <<key, hash, chash, conns>> /\ UNCHANGED <<key, act>>
    BY <1>5 DEF vars
  <2>. QED BY <2>1, SameLists, SameActive DEF Inv
<1>. QED BY <1>1, <1>2, <1>3, <1>4, <1>5 DEF Next

\* The pointers of all four kinds of lists represent sequences, which have the
\* objects that they should have.
THEOREM Represented == Spec => []Inv
<1>1. Init => Inv
  BY InitInv
<1>2. Inv /\ [Next]_vars => Inv'
  BY NextInv
<1>. QED BY <1>1, <1>2, PTL DEF Spec

-----------------------------------------------------------------------------
(* The properties                                                           *)

\* Chains that hold exactly some members link those.
LEMMA ChainsLinked ==
  ASSUME NEW S, None \notin S, NEW l, NEW ch, HashChains(l, ch, S), NEW members,
         \A x \in members : \E b \in Buckets : x \in Elems(ch[b]),
         \A b \in Buckets : Elems(ch[b]) \subseteq members
  PROVE  Linked(l.next, l.prev, members)
<1>1. ASSUME NEW x \in members
      PROVE  /\ l.next[x] \in members \cup {None} /\ l.prev[x] \in members \cup {None}
             /\ l.next[x] # None => l.prev[l.next[x]] = x
             /\ l.prev[x] # None => l.next[l.prev[x]] = x
  <2>1. PICK b \in Buckets : x \in Elems(ch[b])
    OBVIOUS
  <2>2. ch[b] \in Seq(S) /\ Distinct(ch[b]) /\ Chained(ch[b], l.head[b], l.next, l.prev)
    BY DEF HashChains
  <2>3. /\ l.next[x] \in Elems(ch[b]) \cup {None} /\ l.prev[x] \in Elems(ch[b]) \cup {None}
        /\ l.next[x] # None => l.prev[l.next[x]] = x
        /\ l.prev[x] # None => l.next[l.prev[x]] = x
    BY <2>1, <2>2, ChainedLinks
  <2>. QED BY <2>3
<1>. QED BY <1>1 DEF Linked

\* So does one list.
LEMMA ListLinked ==
  ASSUME NEW S, None \notin S, NEW l, NEW s, ListOf(l, s, S)
  PROVE  /\ Linked(l.next, l.prev, Elems(s))
         /\ l.tail = None \/ (l.tail \in Elems(s) /\ l.next[l.tail] = None)
<1>1. /\ s \in Seq(S) /\ Distinct(s) /\ Chained(s, l.head, l.next, l.prev) /\ l.tail = Final(s)
  BY DEF ListOf
<1>2. /\ Final(s) \in Elems(s) \cup {None}
      /\ \A x \in Elems(s) :
           /\ l.next[x] \in Elems(s) \cup {None} /\ l.prev[x] \in Elems(s) \cup {None}
           /\ l.next[x] # None => l.prev[l.next[x]] = x
           /\ l.prev[x] # None => l.next[l.prev[x]] = x
           /\ l.next[x] = None <=> x = Final(s)
  BY <1>1, ChainedLinks
<1>. QED BY <1>1, <1>2 DEF Linked

\* The invariant says what the pointers may lead to.
THEOREM PointersAreSound == Spec => []NoDanglingPointer
<1>1. ASSUME Inv  PROVE NoDanglingPointer
  <2>. DEFINE members == InTables \X Dirs
              listed == {m \in Matches : act.on[m]}
  <2>1. /\ HashChains(hash, Chain, Matches)
        /\ \A b \in Buckets, m \in Matches :
             m \in Elems(Chain[b]) <=> m[1] \in InTables /\ Hash[key[m]] = b
    BY <1>1 DEF Inv, HashOk
  <2>2. /\ HashChains(chash, TupleChain, Conns)
        /\ \A b \in Buckets, c \in Conns :
             c \in Elems(TupleChain[b]) <=> c \in InTables /\ Hash[key[Orig(c)]] = b
    BY <1>1 DEF Inv, TupleOk
  <2>3. \A m : m \in members <=> m \in Matches /\ m[1] \in InTables
    BY DEF Matches, InTables
  <2>. HIDE DEF members
  <2>4. Linked(hash.next, hash.prev, members)
    <3>1. \A b \in Buckets : Elems(Chain[b]) \subseteq Matches
      BY <2>1, ElemsInSet DEF HashChains
    <3>2. \A b \in Buckets : Elems(Chain[b]) \subseteq members
      BY <2>1, <2>3, <3>1
    <3>3. \A m \in members : \E b \in Buckets : m \in Elems(Chain[b])
      BY <1>1, <2>1, <2>3, KeyOf DEF Inv
    <3>. QED BY <2>1, <3>2, <3>3, Objects, ChainsLinked
  <2>5. Linked(chash.next, chash.prev, InTables)
    <3>1. \A b \in Buckets : Elems(TupleChain[b]) \subseteq Conns
      BY <2>2, ElemsInSet DEF HashChains
    <3>2. \A b \in Buckets : Elems(TupleChain[b]) \subseteq InTables
      BY <2>2, <3>1
    <3>3. \A c \in InTables : \E b \in Buckets : c \in Elems(TupleChain[b])
      <4>1. \A c \in InTables : c \in Conns /\ Hash[key[Orig(c)]] \in Buckets
        BY <1>1, MatchOf, KeyOf DEF Inv, InTables
      <4>. QED BY <2>2, <4>1
    <3>. QED BY <2>2, <3>2, <3>3, Objects, ChainsLinked
  <2>6. /\ Linked(conns.next, conns.prev, InTables)
        /\ conns.tail = None \/ (conns.tail \in InTables /\ conns.next[conns.tail] = None)
    <3>1. ListOf(conns, All, Conns) /\ Elems(All) = InTables
      BY <1>1 DEF Inv, ConnsOk
    <3>. QED BY <3>1, Objects, ListLinked
  <2>7. /\ ListOf(act, Active, Matches) /\ Elems(Active) = listed
        /\ \A m \in Elems(Active) : m[1] \in InTables
        /\ \A m \in Matches \ Elems(Active) : m[1] \in InTables => act.next[m] = None
    BY <1>1 DEF Inv, ActiveOk, ActiveOf
  <2>8. /\ Linked(act.next, act.prev, listed)
        /\ act.tail = None \/ (act.tail \in listed /\ act.next[act.tail] = None)
    <3>1. /\ Linked(act.next, act.prev, Elems(Active))
          /\ act.tail = None \/ (act.tail \in Elems(Active) /\ act.next[act.tail] = None)
      BY <2>7, Objects, ListLinked
    <3>. QED BY <2>7, <3>1
  <2>9. listed \subseteq members /\ \A m \in members \ listed : act.next[m] = None
    BY <2>3, <2>7
  <2>. QED BY <2>4, <2>5, <2>6, <2>8, <2>9 DEF NoDanglingPointer, members
<1>. QED BY <1>1, Represented, PTL

\* The operators of the abstract specification are those of this one.
LEMMA SameOperators ==
  /\ \A s : Tables!Elems(s) = Elems(s)
  /\ \A s : Tables!Distinct(s) <=> Distinct(s)
  /\ \A s, x : Tables!Unlink(s, x) = Unlink(s, x)
  /\ \A c : Tables!Orig(c) = Orig(c) /\ Tables!Reply(c) = Reply(c)
  /\ \A m : Tables!Counter(m) = Counter(m)
  /\ Tables!Dirs = Dirs /\ Tables!Matches = Matches
<1>1. \A s : Tables!Elems(s) = Elems(s)
  BY DEF Tables!Elems, Elems
<1>2. \A s : Tables!Distinct(s) <=> Distinct(s)
  BY DEF Tables!Distinct, Distinct
<1>3. \A s, x : Tables!Unlink(s, x) = Unlink(s, x)
  BY <1>1, Zenon DEF Tables!Unlink, Unlink
<1>4. /\ \A c : Tables!Orig(c) = Orig(c) /\ Tables!Reply(c) = Reply(c)
      /\ \A m : Tables!Counter(m) = Counter(m)
      /\ Tables!Dirs = Dirs
  BY DEF Tables!Orig, Orig, Tables!Reply, Reply, Tables!Counter, Counter, Tables!Dirs, Dirs
<1>5. Tables!Matches = Matches
  BY <1>4 DEF Tables!Matches, Matches
<1>. QED BY <1>1, <1>2, <1>3, <1>4, <1>5

\* Every match in the tables can be found, and no chain leads to another one.
THEOREM MatchesInChains == Spec => []ChainsAgree
<1>1. ASSUME Inv  PROVE ChainsAgree
  <2>1. /\ HashChains(hash, Chain, Matches)
        /\ \A b \in Buckets, m \in Matches :
             m \in Elems(Chain[b]) <=> m[1] \in InTables /\ Hash[key[m]] = b
    BY <1>1 DEF Inv, HashOk
  <2>2. /\ HashChains(chash, TupleChain, Conns)
        /\ \A b \in Buckets, c \in Conns :
             c \in Elems(TupleChain[b]) <=> c \in InTables /\ Hash[key[Orig(c)]] = b
    BY <1>1 DEF Inv, TupleOk
  <2>3. Elems(All) = InTables
    BY <1>1 DEF Inv, ConnsOk
  <2>4. \A b \in Buckets : Distinct(Chain[b]) /\ Elems(Chain[b]) \subseteq Matches
    BY <2>1, ElemsInSet DEF HashChains
  <2>5. \A m : m \in InTables \X Dirs <=> m \in Matches /\ m[1] \in InTables
    BY DEF Matches, InTables
  <2>6. \A b \in Buckets : Elems(Chain[b]) = {m \in Elems(All) \X Dirs : Hash[key[m]] = b}
    BY <2>1, <2>3, <2>4, <2>5
  <2>7. Tables!ChainsAgree
    <3>1. Tables!ChainsAgree <=>
            \A b \in Buckets :
              /\ Tables!Distinct(Chain[b])
              /\ Tables!Elems(Chain[b]) = {m \in Tables!Elems(All) \X Tables!Dirs : Hash[key[m]] = b}
      BY DEF Tables!ChainsAgree, Chain, All
    <3>. QED BY <3>1, <2>4, <2>6, SameOperators
  <2>8. TupleIsFound
    <3>. SUFFICES ASSUME NEW c \in InTables
                  PROVE  LET s == Follow(chash.head[Hash[key[Orig(c)]]], chash.next)
                         IN \E i \in DOMAIN s : s[i] = c
      BY DEF TupleIsFound
    <3>. DEFINE b == Hash[key[Orig(c)]]
    <3>1. c \in Conns /\ b \in Buckets
      BY <1>1, MatchOf, KeyOf DEF Inv, InTables
    <3>2. c \in Elems(TupleChain[b])
      BY <2>2, <3>1
    <3>3. TupleChain[b] = Follow(chash.head[b], chash.next)
      BY <3>1 DEF TupleChain
    <3>. QED BY <3>2, <3>3 DEF Elems
  <2>. QED BY <2>7, <2>8 DEF ChainsAgree
<1>. QED BY <1>1, Represented, PTL

-----------------------------------------------------------------------------
(* The refinement of SfeTables                                              *)

\* The match that a lookup finds is the one that the abstract lookup finds.
LEMMA SameFound ==
  ASSUME NEW m, Hash[key[m]] \in Buckets
  PROVE  /\ Found(m) <=> LET s == Chain[Hash[key[m]]]
                         IN \E i \in DOMAIN s : s[i] = m /\ \A j \in 1 .. i - 1 : key[s[j]] # key[m]
         /\ Tables!Found(m, key[m]) <=> Found(m)
<1>. DEFINE b == Hash[key[m]]
            s == Chain[b]
<1>1. s = Follow(hash.head[b], hash.next)
  BY DEF Chain
<1>2. Found(m) <=> \E i \in DOMAIN s : s[i] = m /\ \A j \in 1 .. i - 1 : key[s[j]] # key[m]
  BY <1>1 DEF Found
<1>3. Tables!Found(m, key[m]) <=>
        \E i \in DOMAIN s : m = s[i] /\ key[m] = key[m] /\ \A j \in 1 .. i - 1 : key[s[j]] # key[m]
  BY DEF Tables!Found, Chain
<1>. QED BY <1>2, <1>3

\* create_rule looks for the tuple in its chain, and so among all connections.
LEMMA SameKnown ==
  ASSUME Inv, NEW p
  PROVE  Tables!Free(p) <=> ~Known(p)
<1>1. Elems(All) = InTables
  BY DEF Inv, ConnsOk
<1>2. Tables!Free(p) <=> \A c \in Tables!Elems(All) : key[Tables!Orig(c)] # p.original
  BY DEF Tables!Free, All
<1>. QED BY <1>1, <1>2, SameOperators DEF Known

\* An insertion is one of SfeTables.
LEMMA InsertImplements ==
  ASSUME Inv, NEW c \in Conns, NEW p \in Pairs, Insert(c, p)
  PROVE  Tables!Insert(c, p)
<1>. DEFINE c1 == [Chain EXCEPT ![Hash[p.original]] = <<Orig(c)>> \o @]
<1>1. c \notin Elems(All) /\ Tables!Free(p)
  <2>1. Elems(All) = InTables /\ c \notin InTables /\ ~Known(p)
    BY DEF Inv, ConnsOk, Insert
  <2>. QED BY <2>1, SameKnown
<1>2. key' = [key EXCEPT ![Orig(c)] = p.original, ![Reply(c)] = p.reply]
  BY DEF Insert
<1>3. All' = Append(All, c) /\ Active' = Active
  BY InsertConn, InsertActive
<1>4. Chain' = [c1 EXCEPT ![Hash[p.reply]] = <<Reply(c)>> \o @]
  BY InsertHash
<1>5. Tables!Insert(c, p) <=>
        /\ c \notin Tables!Elems(All) /\ Tables!Free(p)
        /\ key' = [key EXCEPT ![Tables!Orig(c)] = p.original, ![Tables!Reply(c)] = p.reply]
        /\ All' = Append(All, c)
        /\ Chain' = [[Chain EXCEPT ![Hash[p.original]] = <<Tables!Orig(c)>> \o @]
                       EXCEPT ![Hash[p.reply]] = <<Tables!Reply(c)>> \o @]
        /\ UNCHANGED Active
  BY DEF Tables!Insert, Tables!PushAt, All, Chain, Active
<1>. QED BY <1>1, <1>2, <1>3, <1>4, <1>5, SameOperators

\* A removal is one of SfeTables.
LEMMA RemoveImplements ==
  ASSUME Inv, NEW c \in Conns, Remove(c)
  PROVE  Tables!Remove(c)
<1>1. c \in Elems(All)
  BY DEF Inv, ConnsOk, Remove
<1>2. key' = [key EXCEPT ![Orig(c)] = None, ![Reply(c)] = None]
  BY DEF Remove
<1>3. All' = Unlink(All, c) /\ Active' = Unlink(Unlink(Active, Reply(c)), Orig(c))
  BY RemoveConn, RemoveActive
<1>4. Chain' = [b \in Buckets |-> Unlink(Unlink(Chain[b], Reply(c)), Orig(c))]
  BY RemoveHash
<1>5. Tables!Remove(c) <=>
        /\ c \in Tables!Elems(All)
        /\ key' = [key EXCEPT ![Tables!Orig(c)] = None, ![Tables!Reply(c)] = None]
        /\ All' = Tables!Unlink(All, c)
        /\ Active' = Tables!Unlink(Tables!Unlink(Active, Tables!Reply(c)), Tables!Orig(c))
        /\ Chain' = [b \in Buckets |->
                       Tables!Unlink(Tables!Unlink(Chain[b], Tables!Reply(c)), Tables!Orig(c))]
  BY DEF Tables!Remove, Tables!TakeFrom, All, Chain, Active
<1>. QED BY <1>1, <1>2, <1>3, <1>4, <1>5, SameOperators

\* A received packet does what one does in SfeTables.
LEMMA ReceiveImplements ==
  ASSUME Inv, NEW m \in Matches, NEW forward \in BOOLEAN, Receive(m, forward)
  PROVE  Tables!Receive(m, forward)
<1>1. m[1] \in Elems(All) /\ Found(m) /\ key' = key
  BY DEF Inv, ConnsOk, Receive
<1>2. All' = All /\ Hash[key[m]] \in Buckets
      /\ Chain' = [Chain EXCEPT ![Hash[key[m]]] = <<m>> \o Unlink(@, m)]
  BY ReceiveHash
<1>3. Active' = IF forward /\ m \notin Elems(Active) THEN Append(Active, m) ELSE Active
  BY ReceiveActive
<1>4. Tables!Found(m, key[m])
  BY <1>1, <1>2, SameFound
<1>5. Tables!Receive(m, forward) <=>
        /\ m[1] \in Tables!Elems(All)
        /\ Tables!Found(m, key[m])
        /\ Chain' = [Chain EXCEPT ![Hash[key[m]]] = <<m>> \o Tables!Unlink(@, m)]
        /\ Active' = IF forward /\ m \notin Tables!Elems(Active) THEN Append(Active, m) ELSE Active
        /\ UNCHANGED <<key, All>>
  BY DEF Tables!Receive, All, Chain, Active
<1>. QED BY <1>1, <1>2, <1>3, <1>4, <1>5, SameOperators

\* So does the timer.
LEMMA SyncImplements ==
  ASSUME Inv, SyncHead
  PROVE  Tables!SyncHead
<1>1. Active # <<>> /\ Active' = Unlink(Tail(Active), Counter(Head(Active)))
  BY SyncActive
<1>2. UNCHANGED <<key, hash, chash, conns>>
  BY DEF SyncHead
<1>3. key' = key /\ Chain' = Chain /\ All' = All
  BY <1>2, SameLists
<1>4. Tables!SyncHead <=>
        /\ Active # <<>>
        /\ Active' = Tables!Unlink(Tail(Active), Tables!Counter(Head(Active)))
        /\ UNCHANGED <<key, All, Chain>>
  BY DEF Tables!SyncHead, All, Chain, Active
<1>. QED BY <1>1, <1>3, <1>4, SameOperators

\* The initial pointers are empty lists.
LEMMA InitImplements == Init => Tables!Init
<1>. SUFFICES ASSUME Init  PROVE Tables!Init
  OBVIOUS
<1>1. key = [m \in Matches |-> None]
  BY DEF Init
<1>2. Tables!Init <=>
        /\ key = [m \in Tables!Matches |-> None]
        /\ All = <<>> /\ Active = <<>>
        /\ Chain = [b \in Buckets |-> <<>>]
  BY DEF Tables!Init, All, Chain, Active
<1>. QED BY <1>1, <1>2, InitInv, SameOperators

\* Each step of the pointers is one step of the sequences, or none.
LEMMA NextImplements == ASSUME Inv, [Next]_vars  PROVE [Tables!Next]_(Tables!tables)
<1>1. ASSUME NEW c \in Conns, Remove(c)  PROVE Tables!Next
  BY <1>1, RemoveImplements DEF Tables!Next
<1>2. ASSUME NEW c \in Conns, NEW p \in Pairs, Insert(c, p)  PROVE Tables!Next
  BY <1>2, InsertImplements DEF Tables!Next
<1>3. ASSUME NEW m \in Matches, NEW forward \in BOOLEAN, Receive(m, forward)  PROVE Tables!Next
  <2>1. Tables!Receive(m, forward) /\ m \in Tables!Matches
    BY <1>3, ReceiveImplements, SameOperators
  <2>. QED BY <2>1 DEF Tables!Next
<1>4. CASE SyncHead
  BY <1>4, SyncImplements DEF Tables!Next
<1>5. CASE UNCHANGED vars
  <2>1. key' = key /\ hash' = hash /\ conns' = conns /\ act' = act
    BY <1>5 DEF vars
  <2>. QED BY <2>1 DEF Tables!tables
<1>. QED BY <1>1, <1>2, <1>3, <1>4, <1>5 DEF Next

\* Every assignment to a pointer keeps the sequences that SfeTables promises: the
\* code with pointers implements the specification with sequences.
THEOREM PointersImplementTables == Spec => Refines
<1>1. Init => Tables!Init
  BY InitImplements
<1>2. Inv /\ [Next]_vars => [Tables!Next]_(Tables!tables)
  BY NextImplements
<1>. QED BY <1>1, <1>2, Represented, PTL DEF Spec, Refines, Tables!Spec

-----------------------------------------------------------------------------
(* The order of the chains                                                  *)

\* u is before v in s.
Before(s, u, v) == \E i, j \in DOMAIN s : i < j /\ s[i] = u /\ s[j] = v

\* m is the match of the younger connection, or the reply match of its own.
YoungerIn(s, m, n) ==
  \/ Before(s, n[1], m[1])
  \/ m[1] = n[1] /\ m[2] = "reply" /\ n[2] = "original"

\* Of two matches of one key, the younger is the first in their chain.
YoungestFirst ==
  \A b \in Buckets, m, n \in Matches :
    Before(Chain[b], m, n) /\ key[m] = key[n] => YoungerIn(All, m, n)

\* What an entry at the front of a list is before.
LEMMA BeforePush ==
  ASSUME NEW S, NEW s \in Seq(S), NEW x \in S, NEW u, NEW v, Before(<<x>> \o s, u, v)
  PROVE  (u = x /\ v \in Elems(s)) \/ Before(s, u, v)
<1>. DEFINE t == <<x>> \o s
<1>1. /\ t \in Seq(S) /\ Len(t) = Len(s) + 1 /\ t[1] = x
      /\ \A i \in 1 .. Len(s) : t[i + 1] = s[i]
  BY PushList
<1>2. Len(s) \in Nat /\ DOMAIN s = 1 .. Len(s) /\ DOMAIN t = 1 .. Len(t)
  BY <1>1, LenProperties
<1>3. PICK i, j \in DOMAIN t : i < j /\ t[i] = u /\ t[j] = v
  BY DEF Before
<1>. HIDE DEF t
<1>4. j - 1 \in 1 .. Len(s) /\ j - 1 + 1 = j
  BY <1>1, <1>2, <1>3
<1>5. s[j - 1] = v
  BY <1>1, <1>3, <1>4
<1>6. CASE i = 1
  <2>1. u = x
    BY <1>1, <1>3, <1>6
  <2>2. v \in Elems(s)
    BY <1>2, <1>4, <1>5 DEF Elems
  <2>. QED BY <2>1, <2>2
<1>7. CASE i # 1
  <2>1. i - 1 \in 1 .. Len(s) /\ i - 1 + 1 = i /\ i - 1 < j - 1
    BY <1>1, <1>2, <1>3, <1>7
  <2>2. s[i - 1] = u
    BY <1>1, <1>3, <2>1
  <2>. QED BY <1>2, <1>4, <1>5, <2>1, <2>2 DEF Before
<1>. QED BY <1>6, <1>7

\* A new last entry is behind all others, which keep their order.
LEMMA BeforeAppend ==
  ASSUME NEW S, NEW s \in Seq(S), NEW x \in S
  PROVE  /\ \A u, v : Before(s, u, v) => Before(Append(s, x), u, v)
         /\ \A u \in Elems(s) : Before(Append(s, x), u, x)
<1>. DEFINE t == Append(s, x)
<1>1. /\ t \in Seq(S) /\ Len(t) = Len(s) + 1 /\ t[Len(s) + 1] = x
      /\ \A i \in 1 .. Len(s) : t[i] = s[i]
  BY AppendProperties
<1>2. Len(s) \in Nat /\ DOMAIN s = 1 .. Len(s) /\ DOMAIN t = 1 .. Len(t)
  BY <1>1, LenProperties
<1>. HIDE DEF t
<1>3. \A i \in DOMAIN s : i \in DOMAIN t /\ t[i] = s[i] /\ i < Len(s) + 1
  BY <1>1, <1>2
<1>4. Len(s) + 1 \in DOMAIN t
  BY <1>1, <1>2
<1>5. \A u, v : Before(s, u, v) => Before(t, u, v)
  BY <1>3 DEF Before
<1>6. \A u \in Elems(s) : Before(t, u, x)
  BY <1>1, <1>3, <1>4 DEF Before, Elems
<1>. QED BY <1>5, <1>6 DEF t

\* The entries that stay keep their order.
LEMMA BeforeUnlink ==
  ASSUME NEW S, NEW s \in Seq(S), Distinct(s), NEW x, NEW u, NEW v, u # x, v # x
  PROVE  Before(Unlink(s, x), u, v) <=> Before(s, u, v)
<1>1. CASE x \notin Elems(s)
  BY <1>1, UnlinkOther
<1>2. CASE x \in Elems(s)
  <2>. DEFINE t == Unlink(s, x)
              L == Len(s)
  <2>1. L \in Nat /\ DOMAIN s = 1 .. L
    BY LenProperties
  <2>2. PICK p \in 1 .. L : s[p] = x
    BY <1>2, ElemsInSet
  <2>3. t \in Seq(S)
    BY UnlinkList
  <2>4. Len(t) = L - 1 /\ \A i \in 1 .. L - 1 : t[i] = IF i < p THEN s[i] ELSE s[i + 1]
    BY <2>2, UnlinkAt
  <2>5. DOMAIN t = 1 .. L - 1
    <3>1. DOMAIN t = 1 .. Len(t)
      BY <2>3, LenProperties
    <3>. QED BY <2>4, <3>1
  <2>. HIDE DEF t, L
  <2>6. ASSUME Before(t, u, v)  PROVE Before(s, u, v)
    <3>1. PICK i, j \in 1 .. L - 1 : i < j /\ t[i] = u /\ t[j] = v
      BY <2>5, <2>6 DEF Before
    <3>. DEFINE a == IF i < p THEN i ELSE i + 1
                d == IF j < p THEN j ELSE j + 1
    <3>2. a \in 1 .. L /\ d \in 1 .. L /\ a < d
      BY <2>1, <2>2, <3>1
    <3>3. s[a] = u /\ s[d] = v
      BY <2>4, <3>1
    <3>. HIDE DEF a, d
    <3>. QED BY <2>1, <3>2, <3>3 DEF Before
  <2>7. ASSUME Before(s, u, v)  PROVE Before(t, u, v)
    <3>1. PICK i, j \in 1 .. L : i < j /\ s[i] = u /\ s[j] = v
      BY <2>1, <2>7 DEF Before
    <3>. DEFINE a == IF i < p THEN i ELSE i - 1
                d == IF j < p THEN j ELSE j - 1
    <3>2. i # p /\ j # p
      BY <2>2, <3>1
    <3>3. a \in 1 .. L - 1 /\ d \in 1 .. L - 1 /\ a < d
      BY <2>1, <2>2, <3>1, <3>2
    <3>4. t[a] = u
      <4>1. CASE i < p
        BY <4>1, <2>4, <3>1, <3>3
      <4>2. CASE ~(i < p)
        <5>1. a = i - 1 /\ ~(a < p) /\ a + 1 = i
          BY <4>2, <2>1, <2>2, <3>1, <3>2
        <5>. QED BY <5>1, <2>4, <3>1, <3>3
      <4>. QED BY <4>1, <4>2
    <3>5. t[d] = v
      <4>1. CASE j < p
        BY <4>1, <2>4, <3>1, <3>3
      <4>2. CASE ~(j < p)
        <5>1. d = j - 1 /\ ~(d < p) /\ d + 1 = j
          BY <4>2, <2>1, <2>2, <3>1, <3>2
        <5>. QED BY <5>1, <2>4, <3>1, <3>3
      <4>. QED BY <4>1, <4>2
    <3>. HIDE DEF a, d
    <3>. QED BY <2>5, <3>3, <3>4, <3>5 DEF Before
  <2>. QED BY <2>6, <2>7 DEF t
<1>. QED BY <1>1, <1>2

\* Who is before another is an entry, and so is the other.
LEMMA BeforeElems == ASSUME NEW s, NEW u, NEW v, Before(s, u, v)  PROVE u \in Elems(s) /\ v \in Elems(s)
  BY DEF Before, Elems

\* The entry that a lookup finds is before all others of its key.
LEMMA FoundFirst ==
  ASSUME Inv, NEW m \in Matches, Hash[key[m]] \in Buckets, Found(m),
         NEW n \in Elems(Chain[Hash[key[m]]]), key[n] = key[m], n # m
  PROVE  Before(Chain[Hash[key[m]]], m, n)
<1>. DEFINE s == Chain[Hash[key[m]]]
<1>1. PICK i \in DOMAIN s : s[i] = m /\ \A j \in 1 .. i - 1 : key[s[j]] # key[m]
  BY SameFound
<1>2. s \in Seq(Matches)
  BY DEF Inv, HashOk, HashChains
<1>3. DOMAIN s = 1 .. Len(s) /\ Len(s) \in Nat
  BY <1>2, LenProperties
<1>4. PICK j \in DOMAIN s : s[j] = n
  BY DEF Elems
<1>. HIDE DEF s
<1>5. j # i /\ j \notin 1 .. i - 1
  BY <1>1, <1>4
<1>6. i < j
  BY <1>1, <1>3, <1>4, <1>5
<1>. QED BY <1>1, <1>4, <1>6 DEF Before, s

\* An insertion puts the youngest in front.
LEMMA InsertYoungest ==
  ASSUME Inv, YoungestFirst, NEW c \in Conns, NEW p \in Pairs, Insert(c, p)
  PROVE  YoungestFirst'
<1>. DEFINE x == Orig(c)
            y == Reply(c)
            a == Hash[p.original]
            d == Hash[p.reply]
            c1 == [Chain EXCEPT ![a] = <<x>> \o @]
            c2 == [c1 EXCEPT ![d] = <<y>> \o @]
            all2 == Append(All, c)
<1>1. /\ c \notin InTables /\ a \in Buckets /\ d \in Buckets
      /\ \A m \in Matches : m[1] # c => key'[m] = key[m]
  BY InsertKeys
<1>2. Chain' = c2
  BY InsertHash
<1>3. /\ Chain \in [Buckets -> Seq(Matches)]
      /\ \A b \in Buckets, m \in Matches : m \in Elems(Chain[b]) => m[1] \in InTables
  BY DEF Inv, HashOk, HashChains
<1>4. All \in Seq(Conns) /\ Elems(All) = InTables
  BY DEF Inv, ConnsOk, ListOf
<1>5. All' = all2
  BY InsertConn
<1>6. /\ \A u, v : Before(All, u, v) => Before(all2, u, v)
      /\ \A u \in InTables : Before(all2, u, c)
  BY <1>4, BeforeAppend
<1>7. /\ x \in Matches /\ y \in Matches /\ x[1] = c /\ y[1] = c
      /\ x[2] = "original" /\ y[2] = "reply"
  BY MatchOf DEF Orig, Reply
<1>. HIDE DEF x, y, a, d
<1>8. c1 \in [Buckets -> Seq(Matches)]
  <2>1. Chain[a] \in Seq(Matches)
    BY <1>1, <1>3
  <2>2. <<x>> \o Chain[a] \in Seq(Matches)
    BY <2>1, <1>7, PushList
  <2>. QED BY <2>2, <1>1, <1>3
<1>9. ASSUME NEW b \in Buckets, NEW u, NEW v, Before(c1[b], u, v)
      PROVE  (u = x /\ v \in Elems(Chain[b])) \/ Before(Chain[b], u, v)
  <2>1. CASE b = a
    <3>1. c1[b] = <<x>> \o Chain[b] /\ Chain[b] \in Seq(Matches)
      BY <2>1, <1>1, <1>3
    <3>2. Before(<<x>> \o Chain[b], u, v)
      BY <3>1, <1>9
    <3>. QED BY <3>1, <3>2, <1>7, BeforePush
  <2>2. CASE b # a
    BY <2>2, <1>3, <1>9
  <2>. QED BY <2>1, <2>2
<1>10. ASSUME NEW b \in Buckets  PROVE Elems(c1[b]) \subseteq Elems(Chain[b]) \cup {x}
  <2>1. CASE b = a
    <3>1. c1[b] = <<x>> \o Chain[b] /\ Chain[b] \in Seq(Matches)
      BY <2>1, <1>1, <1>3
    <3>. QED BY <3>1, <1>7, PushList
  <2>2. CASE b # a
    BY <2>2, <1>3
  <2>. QED BY <2>1, <2>2
<1>. HIDE DEF c1
<1>11. ASSUME NEW b \in Buckets, NEW u, NEW v, Before(c2[b], u, v)
       PROVE  (u = y /\ v \in Elems(c1[b])) \/ Before(c1[b], u, v)
  <2>1. CASE b = d
    <3>1. c2[b] = <<y>> \o c1[b] /\ c1[b] \in Seq(Matches)
      BY <2>1, <1>1, <1>8
    <3>2. Before(<<y>> \o c1[b], u, v)
      BY <3>1, <1>11
    <3>. QED BY <3>1, <3>2, <1>7, BeforePush
  <2>2. CASE b # d
    BY <2>2, <1>8, <1>11
  <2>. QED BY <2>1, <2>2
<1>. HIDE DEF c2, all2
<1>12. ASSUME NEW b \in Buckets, NEW m \in Matches, NEW n \in Matches,
              Before(c2[b], m, n), key'[m] = key'[n]
       PROVE  YoungerIn(all2, m, n)
  <2>1. ASSUME m[1] = c, n \in Elems(Chain[b])  PROVE YoungerIn(all2, m, n)
    <3>1. Before(all2, n[1], m[1])
      BY <2>1, <1>3, <1>6
    <3>. QED BY <3>1 DEF YoungerIn
  <2>2. CASE m = y /\ n = x
    BY <2>2, <1>7 DEF YoungerIn
  <2>3. CASE Before(Chain[b], m, n)
    <3>1. m \in Elems(Chain[b]) /\ n \in Elems(Chain[b])
      BY <2>3, BeforeElems
    <3>2. m[1] # c /\ n[1] # c
      BY <3>1, <1>1, <1>3
    <3>3. key[m] = key[n]
      BY <3>2, <1>1, <1>12
    <3>4. YoungerIn(All, m, n)
      BY <2>3, <3>3 DEF YoungestFirst
    <3>. QED BY <3>4, <1>6 DEF YoungerIn
  <2>4. (m = y /\ n \in Elems(c1[b])) \/ Before(c1[b], m, n)
    BY <1>11, <1>12
  <2>5. CASE m = y /\ n \in Elems(c1[b])
    BY <2>1, <2>2, <2>5, <1>7, <1>10
  <2>6. CASE Before(c1[b], m, n)
    BY <2>1, <2>3, <2>6, <1>7, <1>9
  <2>. QED BY <2>4, <2>5, <2>6
<1>. QED BY <1>2, <1>5, <1>12 DEF YoungestFirst

\* A removal keeps the order of the others, in the chains and by age.
LEMMA RemoveYoungest ==
  ASSUME Inv, YoungestFirst, NEW c \in Conns, Remove(c)
  PROVE  YoungestFirst'
<1>. DEFINE x == Orig(c)
            y == Reply(c)
            c1 == [b \in Buckets |-> Unlink(Chain[b], y)]
            c2 == [b \in Buckets |-> Unlink(c1[b], x)]
            all2 == Unlink(All, c)
<1>1. \A m \in Matches : m[1] # c => key'[m] = key[m]
  BY RemoveKeys
<1>2. Chain' = c2
  BY RemoveHash
<1>3. \A b \in Buckets : Chain[b] \in Seq(Matches) /\ Distinct(Chain[b])
  BY DEF Inv, HashOk, HashChains
<1>4. All \in Seq(Conns) /\ Distinct(All)
  BY DEF Inv, ConnsOk, ListOf
<1>5. All' = all2
  BY RemoveConn
<1>6. \A m \in Matches : m[1] # c <=> m # x /\ m # y
  BY MatchOf
<1>. HIDE DEF x, y
<1>7. \A b \in Buckets : /\ c1[b] \in Seq(Matches) /\ Distinct(c1[b])
                         /\ Elems(c1[b]) = Elems(Chain[b]) \ {y}
  BY <1>3, UnlinkList
<1>8. \A b \in Buckets : \A u, v : u # y /\ v # y => (Before(c1[b], u, v) <=> Before(Chain[b], u, v))
  BY <1>3, BeforeUnlink
<1>. HIDE DEF c1
<1>9. \A b \in Buckets : Elems(c2[b]) = Elems(c1[b]) \ {x}
  BY <1>7, UnlinkList
<1>10. \A b \in Buckets : \A u, v : u # x /\ v # x => (Before(c2[b], u, v) <=> Before(c1[b], u, v))
  BY <1>7, BeforeUnlink
<1>11. \A u, v : u # c /\ v # c => (Before(all2, u, v) <=> Before(All, u, v))
  BY <1>4, BeforeUnlink
<1>. HIDE DEF c2, all2
<1>12. ASSUME NEW b \in Buckets, NEW m \in Matches, NEW n \in Matches,
              Before(c2[b], m, n), key'[m] = key'[n]
       PROVE  YoungerIn(all2, m, n)
  <2>1. m \in Elems(c2[b]) /\ n \in Elems(c2[b])
    BY <1>12, BeforeElems
  <2>2. m # x /\ m # y /\ n # x /\ n # y
    BY <2>1, <1>7, <1>9
  <2>3. Before(Chain[b], m, n)
    BY <2>2, <1>8, <1>10, <1>12
  <2>4. m[1] # c /\ n[1] # c
    BY <2>2, <1>6
  <2>5. key[m] = key[n]
    BY <2>4, <1>1, <1>12
  <2>6. YoungerIn(All, m, n)
    BY <2>3, <2>5 DEF YoungestFirst
  <2>. QED BY <2>4, <2>6, <1>11 DEF YoungerIn
<1>. QED BY <1>2, <1>5, <1>12 DEF YoungestFirst

\* A lookup moves the first match of its key, which stays the first.
LEMMA ReceiveYoungest ==
  ASSUME Inv, YoungestFirst, NEW m \in Matches, NEW forward, Receive(m, forward)
  PROVE  YoungestFirst'
<1>. DEFINE d == Hash[key[m]]
            c2 == [Chain EXCEPT ![d] = <<m>> \o Unlink(@, m)]
<1>1. All' = All /\ key' = key /\ Found(m)
  BY ReceiveHash DEF Receive
<1>2. d \in Buckets /\ Chain' = c2
  BY ReceiveHash
<1>3. Chain \in [Buckets -> Seq(Matches)] /\ \A b \in Buckets : Distinct(Chain[b])
  BY DEF Inv, HashOk, HashChains
<1>4. \A n \in Elems(Chain[d]) : key[n] = key[m] /\ n # m => Before(Chain[d], m, n)
  BY <1>1, <1>2, FoundFirst
<1>. HIDE DEF d
<1>5. ASSUME NEW b \in Buckets, NEW u \in Matches, NEW v \in Matches,
             Before(c2[b], u, v), key[u] = key[v]
      PROVE  Before(Chain[b], u, v)
  <2>1. CASE b # d
    BY <2>1, <1>3, <1>5
  <2>2. CASE b = d
    <3>. DEFINE s == Unlink(Chain[b], m)
    <3>1. c2[b] = <<m>> \o s
      BY <2>2, <1>2, <1>3
    <3>2. s \in Seq(Matches) /\ Elems(s) = Elems(Chain[b]) \ {m}
      BY <1>3, UnlinkList
    <3>3. \A u2, v2 : u2 # m /\ v2 # m => (Before(s, u2, v2) <=> Before(Chain[b], u2, v2))
      BY <1>3, BeforeUnlink
    <3>. HIDE DEF s
    <3>4. Before(<<m>> \o s, u, v)
      BY <3>1, <1>5
    <3>5. (u = m /\ v \in Elems(s)) \/ Before(s, u, v)
      BY <3>2, <3>4, BeforePush
    <3>6. CASE u = m /\ v \in Elems(s)
      BY <3>2, <3>6, <2>2, <1>4, <1>5
    <3>7. CASE Before(s, u, v)
      <4>1. u \in Elems(s) /\ v \in Elems(s)
        BY <3>7, BeforeElems
      <4>. QED BY <4>1, <3>2, <3>3, <3>7
    <3>. QED BY <3>5, <3>6, <3>7
  <2>. QED BY <2>1, <2>2
<1>. HIDE DEF c2
<1>6. ASSUME NEW b \in Buckets, NEW u \in Matches, NEW v \in Matches,
             Before(c2[b], u, v), key'[u] = key'[v]
      PROVE  YoungerIn(All, u, v)
  <2>1. Before(Chain[b], u, v) /\ key[u] = key[v]
    BY <1>1, <1>5, <1>6
  <2>. QED BY <2>1 DEF YoungestFirst
<1>. QED BY <1>1, <1>2, <1>6 DEF YoungestFirst

\* Of two matches of one key the younger is always the first in the chain.
THEOREM YoungestIsFirst == Spec => []YoungestFirst
<1>1. ASSUME Init  PROVE YoungestFirst
  <2>1. \A b \in Buckets : Elems(Chain[b]) = {}
    BY <1>1, InitInv, EmptyList
  <2>. QED BY <2>1, BeforeElems DEF YoungestFirst
<1>2. ASSUME Inv, YoungestFirst, [Next]_vars  PROVE YoungestFirst'
  <2>1. ASSUME NEW c \in Conns, Remove(c)  PROVE YoungestFirst'
    BY <1>2, <2>1, RemoveYoungest
  <2>2. ASSUME NEW c \in Conns, NEW p \in Pairs, Insert(c, p)  PROVE YoungestFirst'
    BY <1>2, <2>2, InsertYoungest
  <2>3. ASSUME NEW m \in Matches, NEW forward \in BOOLEAN, Receive(m, forward)  PROVE YoungestFirst'
    BY <1>2, <2>3, ReceiveYoungest
  <2>4. ASSUME UNCHANGED <<key, hash, chash, conns>>  PROVE YoungestFirst'
    <3>1. Chain' = Chain /\ All' = All /\ key' = key
      BY <1>2, <2>4, SameLists
    <3>. QED BY <1>2, <3>1 DEF YoungestFirst
  <2>5. CASE SyncHead
    BY <2>4, <2>5 DEF SyncHead
  <2>6. CASE UNCHANGED vars
    BY <2>4, <2>6 DEF vars
  <2>. QED BY <1>2, <2>1, <2>2, <2>3, <2>5, <2>6 DEF Next
<1>. QED BY <1>1, <1>2, Represented, PTL DEF Spec

\* Whatever lookups have reordered, a packet goes to the connection that was
\* created last of those with its key.
THEOREM YoungestIsFound == Spec => []LookupFindsYoungest
<1>1. ASSUME Inv, YoungestFirst  PROVE LookupFindsYoungest
  <2>1. Elems(All) = InTables
    BY <1>1 DEF Inv, ConnsOk
  <2>2. \A b \in Buckets, m \in Matches :
          m \in Elems(Chain[b]) <=> m[1] \in InTables /\ Hash[key[m]] = b
    BY <1>1 DEF Inv, HashOk
  <2>3. ASSUME NEW m \in InTables \X Dirs, Tables!Found(m, key[m]),
               NEW n \in InTables \X Dirs, key[n] = key[m], n # m
        PROVE  Tables!Younger(m, n)
    <3>1. m \in Matches /\ n \in Matches /\ m[1] \in InTables /\ n[1] \in InTables
      BY DEF Matches, InTables
    <3>2. Hash[key[m]] \in Buckets
      BY <3>1, <1>1, KeyOf DEF Inv
    <3>3. Found(m)
      BY <2>3, <3>2, SameFound
    <3>4. n \in Elems(Chain[Hash[key[m]]])
      BY <2>2, <2>3, <3>1, <3>2
    <3>5. Before(Chain[Hash[key[m]]], m, n)
      BY <1>1, <2>3, <3>1, <3>2, <3>3, <3>4, FoundFirst
    <3>6. YoungerIn(All, m, n)
      BY <1>1, <2>3, <3>1, <3>2, <3>5 DEF YoungestFirst
    <3>7. Tables!Younger(m, n) <=>
            \/ \E i, j \in DOMAIN All : i > j /\ All[i] = m[1] /\ All[j] = n[1]
            \/ m[1] = n[1] /\ m[2] = "reply" /\ n[2] = "original"
      BY DEF Tables!Younger, All
    <3>8. All \in Seq(Conns)
      BY <1>1 DEF Inv, ConnsOk, ListOf
    <3>9. DOMAIN All \subseteq Int
      BY <3>8, LenProperties
    <3>. QED BY <3>6, <3>7, <3>9 DEF YoungerIn, Before
  <2>4. Tables!LookupFindsYoungest <=>
          \A m \in Tables!Elems(All) \X Tables!Dirs :
            Tables!Found(m, key[m]) =>
              \A n \in Tables!Elems(All) \X Tables!Dirs :
                key[n] = key[m] => m = n \/ Tables!Younger(m, n)
    BY DEF Tables!LookupFindsYoungest, All
  <2>. QED BY <2>1, <2>3, <2>4, SameOperators DEF LookupFindsYoungest
<1>. QED BY <1>1, Represented, YoungestIsFirst, PTL
=============================================================================
