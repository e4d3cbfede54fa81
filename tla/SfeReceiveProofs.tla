-------------------------- MODULE SfeReceiveProofs --------------------------
(***************************************************************************)
(* What the engine computes of a packet: its window check and the windows  *)
(* that it keeps, and its checksums.                                       *)
(*                                                                         *)
(* The numbers of a connection wrap in the header and do not wrap at its   *)
(* ends.  At(x) is the place that a number of the header has at the ends,  *)
(* as long as a connection and its windows are less than half of the       *)
(* numbers (Room).  The proof goes by an invariant of the two ends s and   *)
(* r, the packets on their way and the records of all who keep windows     *)
(* (Agreement): what the ends may send and have acknowledged, some record  *)
(* tells, and no record tells more than the ends did.  Whatever the box    *)
(* does takes a record to one that is not behind it, so that the first     *)
(* packet of a line is in the window of a record that knows all.           *)
(*                                                                         *)
(* The adjusted checksums are right for every header and every width: each *)
(* is congruent, in ones' complement, to the checksum of the new header,   *)
(* it fits its field, and folding as often as the code folds is enough.    *)
(* The loop of the IPv6 engine loses no carry: what it has summed after    *)
(* each word is an invariant, by induction on the number of words.         *)
(***************************************************************************)
EXTENDS SfeTcpWindow, SfeChecksum, OperatorProofs

-----------------------------------------------------------------------------
(* Numbers that wrap                                                        *)

H == M \div 2

\* Half of the numbers are H.
LEMMA TwoHalves == H \in Nat \ {0} /\ M = 2 * H
  BY WindowAssumption DEF H

\* A number is congruent to its header's form, which is one of M.
LEMMA HeaderForm ==
  ASSUME NEW x \in Int
  PROVE  x % M \in Numbers /\ Congruent(x % M, x, M) /\ Congruent(x, x % M, M)
<1>1. x % M \in Numbers
  BY WindowAssumption DEF Numbers
<1>2. x = M * (x \div M) + (x % M) /\ x \div M \in Int
  BY WindowAssumption
<1>. DEFINE k == x \div M
            y == x % M
<1>3. x = y + k * M /\ y = x + (-k) * M /\ k \in Int /\ y \in Int
  <2>. HIDE DEF k, y
  <2>1. x = M * k + y /\ k \in Int /\ y \in Int
    BY <1>1, <1>2 DEF Numbers, k, y
  <2>. QED BY <2>1, WindowAssumption
<1>4. -k \in Int
  BY <1>3, WindowAssumption
<1>. QED BY <1>1, <1>3, <1>4 DEF Congruent

\* Congruence is an equivalence, and goes through sums and differences.
LEMMA Congruence ==
  ASSUME NEW a \in Int, NEW b \in Int, NEW c \in Int, NEW e \in Int,
         Congruent(a, b, M), Congruent(c, e, M)
  PROVE  /\ Congruent(a + c, b + e, M) /\ Congruent(a - c, b - e, M)
         /\ Congruent(b, a, M)
         /\ b = c => Congruent(a, e, M)
<1>1. PICK j \in Int : a = b + j * M
  BY DEF Congruent
<1>2. PICK k \in Int : c = e + k * M
  BY DEF Congruent
<1>3. j + k \in Int /\ j - k \in Int /\ -j \in Int
  OBVIOUS
<1>4. a + c = b + e + (j + k) * M /\ a - c = b - e + (j - k) * M /\ b = a + (-j) * M
  BY <1>1, <1>2, WindowAssumption
<1>5. b = c => a = e + (j + k) * M
  BY <1>1, <1>2, WindowAssumption
<1>. QED BY <1>3, <1>4, <1>5 DEF Congruent

\* Numbers less than M apart are congruent when they are the same.
LEMMA CongruentSame ==
  ASSUME NEW a \in Int, NEW b \in Int, Congruent(a, b, M), a - b < M, b - a < M
  PROVE  a = b
<1>1. PICK k \in Int : a = b + k * M
  BY DEF Congruent
<1>2. CASE k >= 1
  <2>1. k * M >= M
    BY <1>2, WindowAssumption
  <2>. QED BY <1>1, <2>1, WindowAssumption
<1>3. CASE k <= -1
  <2>1. k * M <= -M
    BY <1>3, WindowAssumption
  <2>. QED BY <1>1, <2>1, WindowAssumption
<1>4. CASE k = 0
  BY <1>1, <1>4, WindowAssumption
<1>. QED BY <1>2, <1>3, <1>4

\* The signed difference is the number nearest to zero, ...
LEMMA SignedType ==
  ASSUME NEW x \in Int
  PROVE  Signed(x) \in -H .. H - 1 /\ Congruent(Signed(x), x, M)
<1>1. x % M \in Numbers /\ Congruent(x % M, x, M)
  BY HeaderForm
<1>. DEFINE y == x % M
<1>2. Congruent(y - M, x, M)
  <2>1. PICK k \in Int : y = x + k * M
    BY <1>1 DEF Congruent
  <2>2. y - M = x + (k - 1) * M /\ k - 1 \in Int
    <3>. HIDE DEF y
    <3>. QED BY <2>1, WindowAssumption
  <2>. QED BY <2>2 DEF Congruent
<1>3. Signed(x) = IF y >= H THEN y - M ELSE y
  BY DEF Signed, H
<1>4. y \in 0 .. M - 1 /\ Congruent(y, x, M)
  BY <1>1 DEF Numbers
<1>. HIDE DEF y
<1>5. H \in Nat \ {0} /\ M = 2 * H
  BY TwoHalves
<1>6. Signed(x) \in -H .. H - 1
  BY <1>3, <1>4, <1>5
<1>7. Congruent(Signed(x), x, M)
  BY <1>2, <1>3, <1>4
<1>. QED BY <1>6, <1>7

\* ... and there is only one.
LEMMA SignedIs ==
  ASSUME NEW x \in Int, NEW n \in -H .. H - 1, Congruent(x, n, M)
  PROVE  Signed(x) = n
<1>1. H \in Nat \ {0} /\ M = 2 * H
  BY TwoHalves
<1>2. Signed(x) \in -H .. H - 1 /\ Congruent(Signed(x), x, M)
  BY SignedType
<1>3. Congruent(Signed(x), n, M)
  <2>1. Signed(x) \in Int /\ n \in Int
    BY <1>1, <1>2
  <2>. QED BY <1>2, <2>1, Congruence
<1>. QED BY <1>1, <1>2, <1>3, CongruentSame

\* Going from x to the later of x and y is never going back.
LEMMA LaterForwards ==
  ASSUME NEW x \in Int, NEW y \in Int
  PROVE  Later(x, y) \in {x, y} /\ Signed(Later(x, y) - x) >= 0
<1>1. Signed(x - x) = 0
  <2>1. 0 \in -H .. H - 1 /\ x - x = 0
    BY TwoHalves
  <2>2. Congruent(x - x, 0, M)
    BY <2>1, WindowAssumption DEF Congruent
  <2>. QED BY <2>1, <2>2, SignedIs
<1>2. Signed(y - x) \in Int
  BY SignedType, TwoHalves, WindowAssumption
<1>3. CASE Signed(y - x) > 0
  BY <1>2, <1>3 DEF Later
<1>4. CASE ~(Signed(y - x) > 0)
  BY <1>1, <1>4 DEF Later
<1>. QED BY <1>3, <1>4

-----------------------------------------------------------------------------
(* Types                                                                    *)

Records == [Dirs -> [maxWin : Int, end : Numbers, maxEnd : Numbers]]

\* The bytes and the ends of direction d.
BytesOf(d) == First .. First + Bytes[d] - 1
EndsOf(d) == First .. First + Bytes[d]

Packets(d) ==
  {p \in [seq : First - 1 .. First + Bytes[d], len : Nat, ack : EndsOf(Other(d)),
          win : 0 .. MaxWin, edges : SUBSET EndsOf(Other(d))] :
     p.seq + p.len <= First + Bytes[d] /\ (p.len > 0 => First <= p.seq)}

Steps(d) == {Idle} \cup [at : {"sync"}, sis : Records] \cup [at : {"create"}, sic : Records]
            \cup [at : {"slow"}, p : Packets(d)]

EndTypes(s, r) ==
  /\ s \in [Dirs -> [nxt : Int, una : Int, lim : Int]]
  /\ r \in [Dirs -> [got : SUBSET Int, edge : Int, dup : Int \cup {None}]]
  /\ \A d \in Dirs : /\ s[d].nxt \in EndsOf(d) /\ s[d].una \in EndsOf(d)
                     /\ r[d].got \subseteq BytesOf(d)
                     /\ r[d].dup \in EndsOf(d) \cup {None}
BoxTypes ==
  /\ ct \in Records /\ win \in Records \cup {None}
  /\ DOMAIN up = Dirs /\ DOMAIN cpu = Dirs
  /\ \A d \in Dirs : up[d] \in Seq(Packets(d)) /\ cpu[d] \in Steps(d)

Types == EndTypes(snd, rcv) /\ BoxTypes

\* A direction has another one, and its other one is itself.
LEMMA Directions ==
  ASSUME NEW d \in Dirs
  PROVE  /\ Other(d) \in Dirs /\ Other(d) # d /\ Other(Other(d)) = d
         /\ \A e \in Dirs : e = d \/ e = Other(d)
         /\ Bytes[d] \in Nat
  BY WindowAssumption DEF Dirs, Other

\* A set of numbers up to b that is not empty has a greatest one.
LEMMA GreatestNumber ==
  ASSUME NEW a \in Int, NEW b \in Int, NEW S \in SUBSET (a .. b), S # {}
  PROVE  Max(S) \in S /\ \A x \in S : x <= Max(S)
<1>. DEFINE T == {b - x : x \in S}
<1>1. T \in SUBSET Nat /\ T # {}
  <2>1. \A x \in S : b - x \in Nat
    OBVIOUS
  <2>. QED BY <2>1
<1>2. PICK n \in T : \A m \in T : n <= m
  <2>. HIDE DEF T
  <2>. QED BY <1>1, LeastNumber
<1>3. PICK x \in S : n = b - x
  BY <1>2
<1>4. \A y \in S : x >= y
  <2>. SUFFICES ASSUME NEW y \in S  PROVE x >= y
    OBVIOUS
  <2>1. b - y \in T
    OBVIOUS
  <2>. HIDE DEF T
  <2>2. n <= b - y
    BY <1>2, <2>1
  <2>. QED BY <1>3, <2>2
<1>5. Max(S) \in S /\ \A y \in S : Max(S) >= y
  BY <1>3, <1>4 DEF Max
<1>. QED BY <1>5

\* The greater, and the smaller, of two numbers.
LEMMA MinMax ==
  ASSUME NEW x \in Int, NEW y \in Int
  PROVE  /\ Max({x, y}) = IF x < y THEN y ELSE x
         /\ Min({x, y}) = IF x < y THEN x ELSE y
<1>1. CASE x < y
  <2>1. y \in {x, y} /\ \A z \in {x, y} : y >= z
    BY <1>1
  <2>2. x \in {x, y} /\ \A z \in {x, y} : x <= z
    BY <1>1
  <2>3. Max({x, y}) \in {x, y} /\ Max({x, y}) >= y
    BY <2>1 DEF Max
  <2>4. Min({x, y}) \in {x, y} /\ Min({x, y}) <= x
    BY <2>2 DEF Min
  <2>. QED BY <1>1, <2>3, <2>4
<1>2. CASE ~(x < y)
  <2>1. x \in {x, y} /\ \A z \in {x, y} : x >= z
    BY <1>2
  <2>2. y \in {x, y} /\ \A z \in {x, y} : y <= z
    BY <1>2
  <2>3. Max({x, y}) \in {x, y} /\ Max({x, y}) >= x
    BY <2>1 DEF Max
  <2>4. Min({x, y}) \in {x, y} /\ Min({x, y}) <= y
    BY <2>2 DEF Min
  <2>. QED BY <1>2, <2>3, <2>4
<1>. QED BY <1>1, <1>2

\* RcvNxt of a receiver that got g.
NextOf(g, d) == Min({n \in EndsOf(d) : n \notin g})

\* What a receiver expects next is the first byte that it lacks, ...
LEMMA NextIsFirst ==
  ASSUME NEW d \in Dirs, NEW g \in SUBSET BytesOf(d)
  PROVE  /\ NextOf(g, d) \in EndsOf(d) /\ NextOf(g, d) \notin g
         /\ \A n \in BytesOf(d) : n < NextOf(g, d) => n \in g
<1>. DEFINE T == {n \in EndsOf(d) : n \notin g}
<1>1. T \in SUBSET Nat /\ First + Bytes[d] \in T
  BY Directions, WindowAssumption DEF EndsOf, BytesOf
<1>2. PICK n \in T : \A m \in T : n <= m
  <2>. HIDE DEF T
  <2>. QED BY <1>1, LeastNumber
<1>3. Min(T) \in T /\ \A m \in T : Min(T) <= m
  BY <1>2 DEF Min
<1>4. BytesOf(d) \subseteq EndsOf(d) /\ NextOf(g, d) = Min(T)
  BY Directions, WindowAssumption DEF EndsOf, BytesOf, NextOf
<1>5. \A m \in T : ~(m < Min(T))
  <2>. SUFFICES ASSUME NEW m \in T  PROVE ~(m < Min(T))
    OBVIOUS
  <2>1. m \in Nat /\ Min(T) \in Nat /\ Min(T) <= m
    BY <1>1, <1>3
  <2>. QED BY <2>1
<1>. QED BY <1>3, <1>4, <1>5

\* ... and that moves forwards only.
LEMMA NextGrows ==
  ASSUME NEW d \in Dirs, NEW g \in SUBSET BytesOf(d), NEW h \in SUBSET BytesOf(d), g \subseteq h
  PROVE  NextOf(g, d) <= NextOf(h, d)
<1>1. NextOf(g, d) \in EndsOf(d) /\ NextOf(h, d) \in EndsOf(d) /\ NextOf(h, d) \notin g
  BY NextIsFirst
<1>2. \A n \in BytesOf(d) : n < NextOf(g, d) => n \in g
  BY NextIsFirst
<1>. QED BY <1>1, <1>2, Directions, WindowAssumption DEF EndsOf, BytesOf

-----------------------------------------------------------------------------
(* What the box writes down                                                 *)

\* The numbers of a record are in their types.
LEMMA RecordType ==
  ASSUME NEW w \in Records, NEW d \in Dirs
  PROVE  /\ w[d].maxWin \in Int /\ w[d].end \in Int /\ w[d].maxEnd \in Int
         /\ w[d].end \in Numbers /\ w[d].maxEnd \in Numbers
  BY DEF Records, Numbers

\* The later, and the greater, of two numbers of the header is one of them.
LEMMA PickType ==
  /\ \A x, y \in Numbers : Later(x, y) \in Numbers /\ Later(x, y) \in {x, y}
  /\ \A x, y \in Int : Greater(x, y) \in Int /\ Greater(x, y) \in {x, y}
                       /\ x <= Greater(x, y) /\ y <= Greater(x, y)
  BY DEF Later, Greater

\* Record v is w with a greater window and a later end of direction d, and a later end
\* of what the other one may send.
Takes(v, w, d, n, e, x) ==
  LET o == Other(d) IN
  /\ v[d].maxWin = Greater(w[d].maxWin, n) /\ v[o].maxWin = w[o].maxWin
  /\ v[d].end = Later(w[d].end, e) /\ v[o].end = w[o].end
  /\ v[d].maxEnd = w[d].maxEnd /\ v[o].maxEnd = Later(w[o].maxEnd, x)

Changed(w, d, o, a, b, c) == [w EXCEPT ![d].maxWin = a, ![d].end = b, ![o].maxEnd = c]

Changes(v, w, d, o, a, b, c) ==
  /\ v \in Records
  /\ v[d].maxWin = a /\ v[o].maxWin = w[o].maxWin
  /\ v[d].end = b /\ v[o].end = w[o].end
  /\ v[d].maxEnd = w[d].maxEnd /\ v[o].maxEnd = c

\* A record with three other numbers is one.
LEMMA ChangedParts ==
  ASSUME NEW w \in Records, NEW d \in Dirs, NEW o \in Dirs, o # d,
         NEW a \in Int, NEW b \in Numbers, NEW c \in Numbers
  PROVE  Changes(Changed(w, d, o, a, b, c), w, d, o, a, b, c)
<1>. DEFINE v == Changed(w, d, o, a, b, c)
<1>1. \A f \in Dirs : f = d \/ f = o
  BY Directions
<1>2. v \in Records
  BY <1>1 DEF Changed, Records
<1>3. /\ v[d].maxWin = a /\ v[o].maxWin = w[o].maxWin
      /\ v[d].end = b /\ v[o].end = w[o].end
      /\ v[d].maxEnd = w[d].maxEnd /\ v[o].maxEnd = c
  BY DEF Changed, Records
<1>. QED BY <1>2, <1>3 DEF Changes

\* What Track and Conntrack make of a record.
Taken(w, d, n, e, x) ==
  [w EXCEPT ![d].maxWin = Greater(@, n), ![d].end = Later(@, e), ![Other(d)].maxEnd = Later(@, x)]

\* It is such a record.
LEMMA TakenParts ==
  ASSUME NEW w \in Records, NEW d \in Dirs, NEW n \in Int, NEW e \in Numbers, NEW x \in Numbers
  PROVE  Taken(w, d, n, e, x) \in Records /\ Takes(Taken(w, d, n, e, x), w, d, n, e, x)
<1>1. Other(d) \in Dirs /\ Other(d) # d
  BY Directions
<1>2. PICK o \in Dirs : o = Other(d) /\ o # d
  BY <1>1
<1>3. PICK a \in Int : a = Greater(w[d].maxWin, n)
  BY RecordType, PickType
<1>4. PICK b \in Numbers : b = Later(w[d].end, e)
  BY RecordType, PickType
<1>5. PICK c \in Numbers : c = Later(w[o].maxEnd, x)
  BY RecordType, PickType
<1>6. Taken(w, d, n, e, x) = Changed(w, d, o, a, b, c)
  BY <1>1, <1>2, <1>3, <1>4, <1>5 DEF Changed, Taken, Records
<1>7. Changes(Changed(w, d, o, a, b, c), w, d, o, a, b, c)
  BY <1>2, ChangedParts
<1>. QED BY <1>2, <1>3, <1>4, <1>5, <1>6, <1>7 DEF Takes, Changes

\* A record that is made so is not behind the one it was.
LEMMA TakenForwards ==
  ASSUME NEW w \in Records, NEW d \in Dirs, NEW n \in Int, NEW e \in Numbers, NEW x \in Numbers,
         NEW v, Takes(v, w, d, n, e, x)
  PROVE  Forwards(w, v)
<1>. DEFINE o == Other(d)
<1>1. o \in Dirs /\ \A f \in Dirs : f = d \/ f = o
  BY Directions, WindowAssumption
<1>2. /\ v[d].maxWin = Greater(w[d].maxWin, n) /\ v[o].maxWin = w[o].maxWin
      /\ v[d].end = Later(w[d].end, e) /\ v[o].end = w[o].end
      /\ v[d].maxEnd = w[d].maxEnd /\ v[o].maxEnd = Later(w[o].maxEnd, x)
  BY DEF Takes
<1>3. \A f \in Dirs : w[f].maxWin \in Int /\ w[f].end \in Int /\ w[f].maxEnd \in Int
  BY RecordType
<1>4. e \in Int /\ x \in Int
  BY DEF Numbers
<1>5. \A y \in Int : Signed(y - y) >= 0
  BY LaterForwards DEF Later
<1>. HIDE DEF o
<1>6. /\ w[d].maxWin <= v[d].maxWin /\ w[o].maxWin <= v[o].maxWin
  <2>1. w[d].maxWin \in Int /\ w[o].maxWin \in Int
    BY <1>1, <1>3
  <2>2. w[d].maxWin <= Greater(w[d].maxWin, n)
    BY <2>1, PickType
  <2>. QED BY <1>2, <2>1, <2>2
<1>7. Signed(v[d].end - w[d].end) >= 0 /\ Signed(v[o].end - w[o].end) >= 0
  BY <1>1, <1>2, <1>3, <1>4, <1>5, LaterForwards
<1>8. Signed(v[d].maxEnd - w[d].maxEnd) >= 0 /\ Signed(v[o].maxEnd - w[o].maxEnd) >= 0
  BY <1>1, <1>2, <1>3, <1>4, <1>5, LaterForwards
<1>. QED BY <1>1, <1>6, <1>7, <1>8 DEF Forwards

\* Two records merged are a record with the parts of both, and behind neither.
LEMMA MergeParts ==
  ASSUME NEW w \in Records, NEW v \in Records
  PROVE  /\ Merge(w, v) \in Records
         /\ \A d \in Dirs : /\ Merge(w, v)[d].maxWin = Greater(w[d].maxWin, v[d].maxWin)
                            /\ Merge(w, v)[d].end = Later(w[d].end, v[d].end)
                            /\ Merge(w, v)[d].maxEnd = Later(w[d].maxEnd, v[d].maxEnd)
         /\ Forwards(w, Merge(w, v))
<1>1. \A d \in Dirs : /\ Merge(w, v)[d].maxWin = Greater(w[d].maxWin, v[d].maxWin)
                      /\ Merge(w, v)[d].end = Later(w[d].end, v[d].end)
                      /\ Merge(w, v)[d].maxEnd = Later(w[d].maxEnd, v[d].maxEnd)
  BY DEF Merge
<1>2. Merge(w, v) \in Records
  BY RecordType, PickType DEF Merge, Records
<1>3. ASSUME NEW d \in Dirs
      PROVE  /\ w[d].maxWin <= Merge(w, v)[d].maxWin
             /\ Signed(Merge(w, v)[d].end - w[d].end) >= 0
             /\ Signed(Merge(w, v)[d].maxEnd - w[d].maxEnd) >= 0
  <2>1. /\ w[d].maxWin \in Int /\ w[d].end \in Int /\ w[d].maxEnd \in Int
        /\ v[d].maxWin \in Int /\ v[d].end \in Int /\ v[d].maxEnd \in Int
    BY RecordType
  <2>2. w[d].maxWin <= Greater(w[d].maxWin, v[d].maxWin)
    BY <2>1, PickType
  <2>3. Signed(Later(w[d].end, v[d].end) - w[d].end) >= 0
    BY <2>1, LaterForwards
  <2>4. Signed(Later(w[d].maxEnd, v[d].maxEnd) - w[d].maxEnd) >= 0
    BY <2>1, LaterForwards
  <2>. QED BY <1>1, <2>2, <2>3, <2>4
<1>. QED BY <1>1, <1>2, <1>3 DEF Forwards

\* What a packet tells is in its type.
LEMMA PacketType ==
  ASSUME NEW d \in Dirs, NEW p \in Packets(d)
  PROVE  /\ p.seq \in Int /\ p.len \in Nat /\ p.ack \in Int /\ p.win \in 0 .. MaxWin
         /\ p.edges \cup {p.ack} \subseteq Int
         /\ p.edges \cup {p.ack} \subseteq EndsOf(Other(d))
         /\ p.ack \in EndsOf(Other(d)) /\ First - 1 <= p.seq /\ p.seq <= First + Bytes[d]
         /\ p.seq + p.len <= First + Bytes[d]
         /\ p.len > 0 => First <= p.seq
  BY Directions DEF Packets, EndsOf

\* The greatest edge in the header is the ack or one of the edges ...
LEMMA SackInPacket ==
  ASSUME NEW d \in Dirs, NEW p \in Packets(d)
  PROVE  \E x \in p.edges \cup {p.ack} : SackIn(p) = x % M
<1>. DEFINE S == {p.ack % M} \cup {e % M : e \in p.edges}
<1>1. \A x \in p.edges \cup {p.ack} : x % M \in 0 .. M - 1
  BY PacketType, HeaderForm DEF Numbers
<1>2. S \in SUBSET (0 .. M - 1) /\ S # {} /\ SackIn(p) = Max(S)
  BY <1>1 DEF SackIn, SackOf
<1>3. SackIn(p) \in S
  <2>. DEFINE b == M - 1
  <2>1. 0 \in Int /\ b \in Int /\ S \in SUBSET (0 .. b)
    BY <1>2, WindowAssumption
  <2>. HIDE DEF S, b
  <2>2. Max(S) \in S
    BY <1>2, <2>1, GreatestNumber
  <2>. QED BY <1>2, <2>2
<1>. QED BY <1>3

\* ... and so is the greatest edge that conntrack sees.
LEMMA SackOfConntrack ==
  ASSUME NEW d \in Dirs, NEW p \in Packets(d)
  PROVE  LET sack == IF p.edges = {} THEN p.ack ELSE Max(p.edges \cup {p.ack}) IN
         sack \in p.edges \cup {p.ack} /\ p.ack <= sack
<1>. DEFINE S == p.edges \cup {p.ack}
<1>1. S \in SUBSET (First .. First + Bytes[Other(d)]) /\ S # {} /\ p.ack \in S /\ p.ack \in Int
  BY PacketType DEF EndsOf
<1>2. Max(S) \in S /\ p.ack <= Max(S)
  <2>1. First \in Int /\ First + Bytes[Other(d)] \in Int
    BY Directions, WindowAssumption
  <2>. HIDE DEF S
  <2>. QED BY <1>1, <2>1, GreatestNumber
<1>. QED BY <1>1, <1>2

\* recv_tcp makes such a record of the engine's, ...
LEMMA TrackTakes ==
  ASSUME NEW w \in Records, NEW d \in Dirs, NEW p \in Packets(d)
  PROVE  LET n == (p.win + SackIn(p) - p.ack) % M IN
         /\ SackIn(p) \in Numbers /\ n \in Numbers /\ SegEnd(p) \in Int
         /\ Takes(Track(w, d, p), w, d, n, SegEnd(p) % M, (SackIn(p) + n) % M)
         /\ Track(w, d, p) \in Records
<1>1. p.seq \in Int /\ p.len \in Int /\ p.ack \in Int /\ p.win \in Int
  BY PacketType, WindowAssumption
<1>2. SackIn(p) \in Numbers
  <2>1. PICK x \in p.edges \cup {p.ack} : SackIn(p) = x % M
    BY SackInPacket
  <2>2. x \in Int
    BY PacketType
  <2>. QED BY <2>1, <2>2, HeaderForm
<1>. DEFINE n == (p.win + SackIn(p) - p.ack) % M
            e == SegEnd(p) % M
            x == (SackIn(p) + n) % M
<1>3. SackIn(p) \in Int
  BY <1>2 DEF Numbers
<1>4. n \in Numbers /\ n \in Int
  <2>1. p.win + SackIn(p) - p.ack \in Int
    BY <1>1, <1>3
  <2>2. n \in Numbers
    BY <2>1, HeaderForm
  <2>. QED BY <2>2 DEF Numbers
<1>5. SegEnd(p) \in Int /\ e \in Numbers
  <2>1. SegEnd(p) \in Int
    BY <1>1 DEF SegEnd
  <2>. QED BY <2>1, HeaderForm
<1>6. x \in Numbers
  <2>. HIDE DEF n
  <2>1. SackIn(p) + n \in Int
    BY <1>3, <1>4
  <2>. QED BY <2>1, HeaderForm
<1>7. Track(w, d, p) = Taken(w, d, n, e, x)
  BY DEF Track, Taken
<1>8. Taken(w, d, n, e, x) \in Records /\ Takes(Taken(w, d, n, e, x), w, d, n, e, x)
  <2>. HIDE DEF n, e, x
  <2>. QED BY <1>4, <1>5, <1>6, TakenParts
<1>. QED BY <1>2, <1>4, <1>5, <1>7, <1>8

\* The greatest edge as conntrack sees it.
SackSeen(p) == IF p.edges = {} THEN p.ack ELSE Max(p.edges \cup {p.ack})

\* ... and so does conntrack of its own.
LEMMA ConntrackTakes ==
  ASSUME NEW w \in Records, NEW d \in Dirs, NEW p \in Packets(d)
  PROVE  LET n == p.win + SackSeen(p) - p.ack IN
         /\ n \in Int
         /\ Takes(Conntrack(w, d, p), w, d, n, (p.seq + p.len) % M, (SackSeen(p) + p.win) % M)
         /\ Conntrack(w, d, p) \in Records
<1>1. p.seq \in Int /\ p.len \in Int /\ p.ack \in Int /\ p.win \in Int
  BY PacketType, WindowAssumption
<1>2. SackSeen(p) \in Int
  BY SackOfConntrack, PacketType DEF SackSeen
<1>. DEFINE n == p.win + SackSeen(p) - p.ack
            e == (p.seq + p.len) % M
            x == (SackSeen(p) + p.win) % M
<1>3. n \in Int
  BY <1>1, <1>2
<1>4. e \in Numbers
  <2>1. p.seq + p.len \in Int
    BY <1>1
  <2>. QED BY <2>1, HeaderForm
<1>5. x \in Numbers
  <2>1. SackSeen(p) + p.win \in Int
    BY <1>1, <1>2
  <2>. QED BY <2>1, HeaderForm
<1>6. Conntrack(w, d, p) = Taken(w, d, n, e, x)
  BY DEF Conntrack, Taken, SackSeen
<1>7. Taken(w, d, n, e, x) \in Records /\ Takes(Taken(w, d, n, e, x), w, d, n, e, x)
  <2>. HIDE DEF n, e, x
  <2>. QED BY <1>3, <1>4, <1>5, TakenParts
<1>. QED BY <1>3, <1>6, <1>7

\* A new rule has conntrack's record, with a window of at least one byte.
LEMMA NewWindowParts ==
  ASSUME NEW w \in Records
  PROVE  /\ NewWindow(w) \in Records
         /\ \A d \in Dirs : /\ NewWindow(w)[d].maxWin = (IF w[d].maxWin = 0 THEN 1 ELSE w[d].maxWin)
                            /\ NewWindow(w)[d].end = w[d].end
                            /\ NewWindow(w)[d].maxEnd = w[d].maxEnd
  BY DEF NewWindow, Records

\* A record is not behind itself.
LEMMA ForwardsSame ==
  ASSUME NEW w \in Records
  PROVE  Forwards(w, w)
<1>1. \A y \in Int : Signed(y - y) >= 0
  BY LaterForwards DEF Later
<1>. QED BY <1>1, RecordType DEF Forwards

\* No record is None.
LEMMA NoneIsNoRecord == None \notin Records
<1>1. Records \subseteq [Dirs -> [maxWin : Int, end : Int, maxEnd : Int]]
  BY DEF Records, Numbers
<1>. QED BY <1>1, WindowAssumption

-----------------------------------------------------------------------------
(* The types are invariant                                                  *)

\* What the receiver of a direction expects next is one of the direction's ends.
LEMMA RcvNxtType ==
  ASSUME Types, NEW d \in Dirs
  PROVE  /\ RcvNxt(d) = NextOf(rcv[d].got, d) /\ RcvNxt(d) \in EndsOf(d)
         /\ rcv[d].got \subseteq BytesOf(d) /\ RcvNxt(d) \notin rcv[d].got
         /\ \A n \in BytesOf(d) : n < RcvNxt(d) => n \in rcv[d].got
<1>1. RcvNxt(d) = NextOf(rcv[d].got, d)
  BY DEF RcvNxt, NextOf, EndsOf
<1>2. rcv[d].got \subseteq BytesOf(d)
  BY DEF Types, EndTypes
<1>. QED BY <1>1, <1>2, NextIsFirst

\* The edges that a receiver tells are ends too.
LEMMA EdgesType ==
  ASSUME Types, NEW d \in Dirs
  PROVE  Edges(d) \subseteq EndsOf(d)
<1>1. rcv[d].got \subseteq BytesOf(d) /\ rcv[d].dup \in EndsOf(d) \cup {None}
  BY DEF Types, EndTypes
<1>2. Islands(d) \subseteq EndsOf(d)
  <2>1. \A m \in BytesOf(d) : m + 1 \in EndsOf(d)
    BY Directions, WindowAssumption DEF BytesOf, EndsOf
  <2>. QED BY <1>1, <2>1 DEF Islands
<1>. QED BY <1>1, <1>2 DEF Edges

\* The sender of direction d sends len bytes from seq, and grants window w.
Sends(d, seq, len, w) ==
  LET o == Other(d) IN
  /\ \/ len > 0 /\ seq >= snd[d].una
     \/ len = 0 /\ seq \in {snd[d].nxt, snd[d].una - 1}
  /\ len > 0 => seq + len <= Min({snd[d].lim, First + Bytes[d]})
  /\ RcvNxt(o) + w >= rcv[o].edge
  /\ up' = [up EXCEPT ![d] = Append(@,
              [seq |-> seq, len |-> len, ack |-> RcvNxt(o), win |-> w,
               edges |-> Edges(o)])]
  /\ snd' = [snd EXCEPT ![d].nxt = Max({@, seq + len})]
  /\ rcv' = [rcv EXCEPT ![o].edge = RcvNxt(o) + w, ![o].dup = None]

\* A packet that is sent is in its type, and so are the ends after it.
LEMMA SendTypes ==
  ASSUME Types, NEW d \in Dirs, Send(d)
  PROVE  /\ EndTypes(snd', rcv')
         /\ \E p \in Packets(d) : up' = [up EXCEPT ![d] = Append(@, p)]
<1>. DEFINE o == Other(d)
<1>1. PICK seq \in snd[d].una - 1 .. snd[d].nxt, len \in 0 .. MaxLen, w \in 0 .. MaxWin :
         Sends(d, seq, len, w)
  BY DEF Send, Sends
<1>2. /\ \/ len > 0 /\ seq >= snd[d].una
         \/ len = 0 /\ seq \in {snd[d].nxt, snd[d].una - 1}
      /\ len > 0 => seq + len <= Min({snd[d].lim, First + Bytes[d]})
      /\ up' = [up EXCEPT ![d] = Append(@,
                  [seq |-> seq, len |-> len, ack |-> RcvNxt(o), win |-> w, edges |-> Edges(o)])]
      /\ snd' = [snd EXCEPT ![d].nxt = Max({@, seq + len})]
      /\ rcv' = [rcv EXCEPT ![o].edge = RcvNxt(o) + w, ![o].dup = None]
  BY <1>1 DEF Sends
<1>3. o \in Dirs /\ Bytes[d] \in Nat /\ First \in Nat /\ First + Bytes[d] \in Int
  BY Directions, WindowAssumption
<1>4. /\ snd[d].una \in EndsOf(d) /\ snd[d].nxt \in EndsOf(d)
      /\ snd[d].una \in Int /\ snd[d].nxt \in Int /\ snd[d].lim \in Int
  BY DEF Types, EndTypes
<1>5. RcvNxt(o) \in EndsOf(o) /\ RcvNxt(o) \in Int /\ Edges(o) \subseteq EndsOf(o)
  BY <1>3, RcvNxtType, EdgesType DEF EndsOf
<1>6. seq \in Int /\ len \in Nat /\ First - 1 <= seq /\ (len > 0 => First <= seq)
  <2>1. seq \in Int /\ len \in Nat /\ snd[d].una >= First /\ snd[d].nxt >= First
    BY <1>1, <1>3, <1>4, WindowAssumption DEF EndsOf
  <2>. QED BY <1>2, <1>3, <1>4, <2>1
<1>7. seq + len <= First + Bytes[d]
  <2>1. CASE len > 0
    <3>. DEFINE lim == snd[d].lim
                top == First + Bytes[d]
    <3>1. lim \in Int /\ top \in Int
      BY <1>3, <1>4
    <3>2. seq + len <= Min({lim, top})
      BY <1>2, <2>1
    <3>. HIDE DEF lim, top
    <3>3. Min({lim, top}) = IF lim < top THEN lim ELSE top
      BY <3>1, MinMax
    <3>4. seq + len <= top
      BY <1>6, <3>1, <3>2, <3>3
    <3>. QED BY <3>4 DEF top
  <2>2. CASE len = 0
    BY <1>2, <1>3, <1>4, <1>6, <2>2 DEF EndsOf
  <2>. QED BY <1>6, <2>1, <2>2
<1>8. seq <= First + Bytes[d]
  BY <1>3, <1>6, <1>7
<1>. DEFINE p == [seq |-> seq, len |-> len, ack |-> RcvNxt(o), win |-> w, edges |-> Edges(o)]
<1>9. p \in Packets(d)
  <2>1. /\ p.seq = seq /\ p.len = len
        /\ p \in [seq : First - 1 .. First + Bytes[d], len : Nat, ack : EndsOf(o),
                  win : 0 .. MaxWin, edges : SUBSET EndsOf(o)]
    BY <1>1, <1>3, <1>5, <1>6, <1>8
  <2>. HIDE DEF p
  <2>. QED BY <1>6, <1>7, <2>1 DEF Packets
<1>10. Max({snd[d].nxt, seq + len}) \in EndsOf(d) /\ Max({snd[d].nxt, seq + len}) \in Int
  <2>. DEFINE x == snd[d].nxt
              y == seq + len
  <2>1. x \in Int /\ y \in Int /\ x \in EndsOf(d) /\ y <= First + Bytes[d]
    BY <1>4, <1>6, <1>7
  <2>. HIDE DEF x, y
  <2>2. Max({x, y}) = IF x < y THEN y ELSE x
    BY <2>1, MinMax
  <2>3. Max({x, y}) \in EndsOf(d) /\ Max({x, y}) \in Int
    BY <1>3, <2>1, <2>2 DEF EndsOf
  <2>. QED BY <2>3 DEF x, y
<1>11. EndTypes(snd', rcv')
  <2>1. /\ snd \in [Dirs -> [nxt : Int, una : Int, lim : Int]]
        /\ rcv \in [Dirs -> [got : SUBSET Int, edge : Int, dup : Int \cup {None}]]
        /\ \A e \in Dirs : /\ snd[e].nxt \in EndsOf(e) /\ snd[e].una \in EndsOf(e)
                           /\ rcv[e].got \subseteq BytesOf(e)
                           /\ rcv[e].dup \in EndsOf(e) \cup {None}
    BY DEF Types, EndTypes
  <2>. DEFINE new == Max({snd[d].nxt, seq + len})
              edge == RcvNxt(o) + w
  <2>2. new \in Int /\ new \in EndsOf(d) /\ edge \in Int
    BY <1>1, <1>5, <1>10, WindowAssumption
  <2>3. snd' = [snd EXCEPT ![d].nxt = new] /\ rcv' = [rcv EXCEPT ![o].edge = edge, ![o].dup = None]
    BY <1>2
  <2>. HIDE DEF new, edge, o
  <2>4. snd' \in [Dirs -> [nxt : Int, una : Int, lim : Int]]
    BY <2>1, <2>2, <2>3
  <2>5. rcv' \in [Dirs -> [got : SUBSET Int, edge : Int, dup : Int \cup {None}]]
    BY <1>3, <2>1, <2>2, <2>3, ZenonT(30)
  <2>6. \A e \in Dirs : /\ snd'[e].nxt \in EndsOf(e) /\ snd'[e].una \in EndsOf(e)
                        /\ rcv'[e].got \subseteq BytesOf(e)
                        /\ rcv'[e].dup \in EndsOf(e) \cup {None}
    BY <1>3, <2>1, <2>2, <2>3
  <2>. QED BY <2>4, <2>5, <2>6 DEF EndTypes
<1>. QED BY <1>2, <1>9, <1>11

\* The ends stay in their types when a packet reaches the other one, or is lost.
LEMMA DeliverTypes ==
  ASSUME Types, NEW d \in Dirs, NEW p \in Packets(d), Deliver(d, p)
  PROVE  EndTypes(snd', rcv')
<1>1. CASE UNCHANGED <<snd, rcv>>
  BY <1>1 DEF Types
<1>2. CASE Reach(d, p)
  <2>. DEFINE o == Other(d)
              got == rcv[d].got \cup {n \in Payload(p) : n < rcv[d].edge}
              dup == IF Dsack /\ p.len > 0 /\ Payload(p) \subseteq rcv[d].got
                     THEN p.seq + p.len ELSE rcv[d].dup
              una == Max({snd[o].una, p.ack})
              lim == Max({snd[o].lim, p.ack + p.win})
  <2>1. /\ snd \in [Dirs -> [nxt : Int, una : Int, lim : Int]]
        /\ rcv \in [Dirs -> [got : SUBSET Int, edge : Int, dup : Int \cup {None}]]
        /\ \A e \in Dirs : /\ snd[e].nxt \in EndsOf(e) /\ snd[e].una \in EndsOf(e)
                           /\ rcv[e].got \subseteq BytesOf(e)
                           /\ rcv[e].dup \in EndsOf(e) \cup {None}
    BY DEF Types, EndTypes
  <2>2. o \in Dirs /\ Bytes[d] \in Nat /\ First \in Nat /\ \A e \in Dirs : BytesOf(e) \subseteq Int
    BY Directions, WindowAssumption DEF BytesOf
  <2>3. rcv' = [rcv EXCEPT ![d].got = got, ![d].dup = dup]
    BY <1>2, <2>1 DEF Reach
  <2>4. snd' = [snd EXCEPT ![o].una = una, ![o].lim = lim]
    BY <1>2, <2>1, <2>2 DEF Reach
  <2>5. Payload(p) \subseteq BytesOf(d)
    BY <2>2, PacketType DEF Payload, BytesOf
  <2>6. got \subseteq BytesOf(d) /\ got \subseteq Int
    BY <2>1, <2>2, <2>5
  <2>7. dup \in EndsOf(d) \cup {None} /\ dup \in Int \cup {None}
    <3>1. p.len > 0 => p.seq + p.len \in EndsOf(d)
      BY <2>2, PacketType DEF EndsOf
    <3>. QED BY <2>1, <3>1 DEF EndsOf
  <2>8. una \in EndsOf(o) /\ una \in Int /\ lim \in Int
    <3>1. p.ack \in EndsOf(o) /\ p.ack \in Int /\ p.win \in Int
      BY PacketType, WindowAssumption
    <3>2. snd[o].una \in EndsOf(o) /\ snd[o].una \in Int /\ snd[o].lim \in Int
      BY <2>1, <2>2
    <3>3. p.ack + p.win \in Int
      BY <3>1
    <3>. DEFINE x == snd[o].una
                y == snd[o].lim
                z == p.ack + p.win
    <3>4. x \in Int /\ y \in Int /\ z \in Int
      BY <3>2, <3>3
    <3>. HIDE DEF x, y, z, o
    <3>5. Max({x, p.ack}) \in {x, p.ack} /\ Max({y, z}) \in {y, z}
      BY <3>1, <3>4, MinMax
    <3>. QED BY <3>1, <3>2, <3>4, <3>5 DEF x, y, z
  <2>. HIDE DEF got, dup, una, lim, o
  <2>9. snd' \in [Dirs -> [nxt : Int, una : Int, lim : Int]]
    BY <2>1, <2>2, <2>4, <2>8, ZenonT(30)
  <2>10. rcv' \in [Dirs -> [got : SUBSET Int, edge : Int, dup : Int \cup {None}]]
    BY <2>1, <2>3, <2>6, <2>7, ZenonT(30)
  <2>11. \A e \in Dirs : /\ snd'[e].nxt \in EndsOf(e) /\ snd'[e].una \in EndsOf(e)
                         /\ rcv'[e].got \subseteq BytesOf(e)
                         /\ rcv'[e].dup \in EndsOf(e) \cup {None}
    BY <2>1, <2>2, <2>3, <2>4, <2>6, <2>7, <2>8
  <2>. QED BY <2>9, <2>10, <2>11 DEF EndTypes
<1>. QED BY <1>1, <1>2 DEF Deliver

\* What a step may change: no record goes back, while there is one.
Moves == Forwards(ct, ct') /\ (win # None /\ win' # None => Forwards(win, win'))

\* Track takes no record back, ...
LEMMA TrackForwards ==
  ASSUME NEW w \in Records, NEW d \in Dirs, NEW p \in Packets(d)
  PROVE  Track(w, d, p) \in Records /\ Forwards(w, Track(w, d, p))
<1>. DEFINE n == (p.win + SackIn(p) - p.ack) % M
            e == SegEnd(p) % M
            x == (SackIn(p) + n) % M
            v == Track(w, d, p)
<1>1. /\ SackIn(p) \in Numbers /\ n \in Numbers /\ SegEnd(p) \in Int
      /\ Takes(v, w, d, n, e, x) /\ v \in Records
  BY TrackTakes
<1>2. n \in Int /\ SackIn(p) \in Int
  BY <1>1 DEF Numbers
<1>3. e \in Numbers /\ x \in Numbers
  <2>. HIDE DEF n, v
  <2>1. SackIn(p) + n \in Int
    BY <1>2
  <2>. QED BY <1>1, <2>1, HeaderForm
<1>. HIDE DEF n, e, x, v
<1>4. Forwards(w, v)
  BY <1>1, <1>2, <1>3, TakenForwards
<1>. QED BY <1>1, <1>4 DEF v

\* ... and neither does Conntrack.
LEMMA ConntrackForwards ==
  ASSUME NEW w \in Records, NEW d \in Dirs, NEW p \in Packets(d)
  PROVE  Conntrack(w, d, p) \in Records /\ Forwards(w, Conntrack(w, d, p))
<1>. DEFINE n == p.win + SackSeen(p) - p.ack
            e == (p.seq + p.len) % M
            x == (SackSeen(p) + p.win) % M
            v == Conntrack(w, d, p)
<1>1. n \in Int /\ Takes(v, w, d, n, e, x) /\ v \in Records
  BY ConntrackTakes
<1>2. p.seq + p.len \in Int /\ SackSeen(p) + p.win \in Int
  <2>1. p.seq \in Int /\ p.len \in Int /\ p.win \in Int /\ SackSeen(p) \in Int
    BY PacketType, SackOfConntrack, WindowAssumption DEF SackSeen
  <2>. QED BY <2>1
<1>3. e \in Numbers /\ x \in Numbers
  BY <1>2, HeaderForm
<1>. HIDE DEF n, e, x, v
<1>4. Forwards(w, v)
  BY <1>1, <1>3, TakenForwards
<1>. QED BY <1>1, <1>4 DEF v

\* The queues and the processors stay in their types when one of them changes to what is
\* in its type.
LEMMA BoxParts ==
  ASSUME Types, NEW d \in Dirs
  PROVE  /\ \A q \in Seq(Packets(d)) :
              /\ DOMAIN [up EXCEPT ![d] = q] = Dirs
              /\ \A e \in Dirs : [up EXCEPT ![d] = q][e] \in Seq(Packets(e))
         /\ \A c \in Steps(d) :
              /\ DOMAIN [cpu EXCEPT ![d] = c] = Dirs
              /\ \A e \in Dirs : [cpu EXCEPT ![d] = c][e] \in Steps(e)
  BY DEF Types, BoxTypes

\* The first packet of a queue, and what is left, are in their types.
LEMMA HeadType ==
  ASSUME Types, NEW d \in Dirs, Ready(d)
  PROVE  Head1(d) \in Packets(d) /\ Tail(up[d]) \in Seq(Packets(d))
<1>. DEFINE S == Packets(d)
<1>1. up[d] \in Seq(S) /\ up[d] # <<>>
  BY DEF Types, BoxTypes, Ready
<1>. HIDE DEF S
<1>2. Head(up[d]) \in S /\ Tail(up[d]) \in Seq(S)
  BY <1>1
<1>. QED BY <1>2 DEF Head1, S

\* What a processor does is in its type: the message and the values that it holds are records.
LEMMA StepType ==
  ASSUME Types, NEW d \in Dirs
  PROVE  /\ cpu[d].at = "sync" => cpu[d].sis \in Records
         /\ cpu[d].at = "create" => cpu[d].sic \in Records
         /\ cpu[d].at = "slow" => cpu[d].p \in Packets(d)
         /\ Idle \in Steps(d)
         /\ \A w \in Records : [at |-> "sync", sis |-> w] \in Steps(d)
         /\ \A w \in Records : [at |-> "create", sic |-> w] \in Steps(d)
         /\ \A p \in Packets(d) : [at |-> "slow", p |-> p] \in Steps(d)
<1>1. cpu[d] \in Steps(d)
  BY DEF Types, BoxTypes
<1>. QED BY <1>1 DEF Steps, Idle

\* Every step of the box keeps the types of what it holds, and no step takes a record back.
LEMMA BoxStep ==
  ASSUME Types, NEW d \in Dirs,
         \/ Send(d) \/ Forward(d) \/ Sync(d) \/ Miss(d) \/ SlowPath(d) \/ CreateRule(d)
         \/ TimerSync(d) \/ OutOfWindow(d) \/ NotFast(d)
  PROVE  BoxTypes' /\ Moves
<1>. DEFINE Queues == /\ DOMAIN up' = Dirs /\ \A e \in Dirs : up'[e] \in Seq(Packets(e))
            Procs == /\ DOMAIN cpu' = Dirs /\ \A e \in Dirs : cpu'[e] \in Steps(e)
<1>1. /\ ct \in Records /\ win \in Records \cup {None} /\ None \notin Records
      /\ Forwards(ct, ct) /\ (win # None => win \in Records /\ Forwards(win, win))
  BY NoneIsNoRecord, ForwardsSame DEF Types, BoxTypes
<1>2. UNCHANGED up => Queues
  BY DEF Types, BoxTypes
<1>3. UNCHANGED cpu => Procs
  BY DEF Types, BoxTypes
<1>4. ASSUME NEW c \in Steps(d), cpu' = [cpu EXCEPT ![d] = c]
      PROVE  Procs
  BY <1>4, BoxParts
<1>5. ASSUME NEW q \in Seq(Packets(d)), up' = [up EXCEPT ![d] = q]
      PROVE  Queues
  BY <1>5, BoxParts
<1>6. SUFFICES /\ Queues /\ Procs /\ ct' \in Records /\ win' \in Records \cup {None}
               /\ Forwards(ct, ct') /\ (win # None /\ win' # None => Forwards(win, win'))
  BY DEF BoxTypes, Moves
<1>7. CASE Send(d)
  <2>1. PICK p \in Packets(d) : up' = [up EXCEPT ![d] = Append(@, p)]
    BY <1>7, SendTypes
  <2>2. PICK q \in Seq(Packets(d)) : q = Append(up[d], p)
    <3>. DEFINE S == Packets(d)
    <3>1. up[d] \in Seq(S) /\ p \in S
      BY DEF Types, BoxTypes
    <3>. HIDE DEF S
    <3>2. Append(up[d], p) \in Seq(S)
      BY <3>1
    <3>. QED BY <3>2 DEF S
  <2>3. up' = [up EXCEPT ![d] = q]
    BY <2>1, <2>2
  <2>4. UNCHANGED <<ct, win, cpu>>
    BY <1>7 DEF Send
  <2>. HIDE DEF Queues, Procs
  <2>. QED BY <1>1, <1>3, <1>5, <2>3, <2>4
<1>8. ASSUME Ready(d), up' = [up EXCEPT ![d] = Tail(@)]
      PROVE  Queues
  <2>1. PICK q \in Seq(Packets(d)) : q = Tail(up[d])
    BY <1>8, HeadType
  <2>2. up' = [up EXCEPT ![d] = q]
    BY <1>8, <2>1
  <2>. HIDE DEF Queues
  <2>. QED BY <1>5, <2>2
<1>9. CASE Forward(d)
  <2>1. Ready(d) /\ win # None /\ win' = Track(win, d, Head1(d)) /\ UNCHANGED <<ct, cpu>>
        /\ up' = [up EXCEPT ![d] = Tail(@)]
    BY <1>9 DEF Forward
  <2>2. PICK p \in Packets(d) : p = Head1(d)
    BY <2>1, HeadType
  <2>3. win \in Records
    BY <1>1, <2>1
  <2>4. win' \in Records /\ Forwards(win, win')
    BY <2>1, <2>2, <2>3, TrackForwards
  <2>. HIDE DEF Queues, Procs
  <2>. QED BY <1>1, <1>3, <1>8, <2>1, <2>4
<1>10. CASE Sync(d)
  <2>1. /\ cpu[d].at = "sync" /\ ct' = Merge(ct, cpu[d].sis)
        /\ cpu' = [cpu EXCEPT ![d] = Idle] /\ UNCHANGED <<up, win>>
    BY <1>10 DEF Sync, SyncRule
  <2>2. PICK v \in Records : v = cpu[d].sis
    BY <2>1, StepType
  <2>3. ct' \in Records /\ Forwards(ct, ct')
    BY <1>1, <2>1, <2>2, MergeParts
  <2>4. Idle \in Steps(d)
    BY StepType
  <2>. HIDE DEF Queues, Procs
  <2>. QED BY <1>1, <1>2, <1>4, <2>1, <2>3, <2>4
<1>11. CASE Miss(d)
  <2>1. /\ Ready(d) /\ cpu' = [cpu EXCEPT ![d] = [at |-> "slow", p |-> Head1(d)]]
        /\ up' = [up EXCEPT ![d] = Tail(@)] /\ UNCHANGED <<ct, win>>
    BY <1>11 DEF Miss
  <2>2. PICK c \in Steps(d) : c = [at |-> "slow", p |-> Head1(d)]
    BY <2>1, HeadType, StepType
  <2>3. cpu' = [cpu EXCEPT ![d] = c]
    BY <2>1, <2>2
  <2>. HIDE DEF Queues, Procs
  <2>. QED BY <1>1, <1>4, <1>8, <2>1, <2>3
<1>12. CASE SlowPath(d)
  <2>1. /\ cpu[d].at = "slow" /\ ct' = Conntrack(ct, d, cpu[d].p) /\ UNCHANGED <<up, win>>
        /\ cpu' \in {[cpu EXCEPT ![d] = Idle], [cpu EXCEPT ![d] = [at |-> "create", sic |-> ct']]}
    BY <1>12 DEF SlowPath
  <2>2. PICK p \in Packets(d) : p = cpu[d].p
    BY <2>1, StepType
  <2>3. ct' \in Records /\ Forwards(ct, ct')
    BY <1>1, <2>1, <2>2, ConntrackForwards
  <2>4. PICK c \in Steps(d) : c = [at |-> "create", sic |-> ct']
    BY <2>3, StepType
  <2>5. cpu' = [cpu EXCEPT ![d] = Idle] \/ cpu' = [cpu EXCEPT ![d] = c]
    BY <2>1, <2>4
  <2>6. Idle \in Steps(d)
    BY StepType
  <2>. HIDE DEF Queues, Procs
  <2>. QED BY <1>1, <1>2, <1>4, <2>1, <2>3, <2>5, <2>6
<1>13. CASE CreateRule(d)
  <2>1. /\ cpu[d].at = "create" /\ cpu' = [cpu EXCEPT ![d] = Idle] /\ UNCHANGED <<up, ct>>
        /\ win' = IF win = None THEN NewWindow(cpu[d].sic) ELSE Merge(win, cpu[d].sic)
    BY <1>13 DEF CreateRule, UpdateTcpState
  <2>2. PICK v \in Records : v = cpu[d].sic
    BY <2>1, StepType
  <2>3. Idle \in Steps(d)
    BY StepType
  <2>4. win' \in Records \cup {None} /\ (win # None /\ win' # None => Forwards(win, win'))
    <3>1. CASE win = None
      BY <1>1, <2>1, <2>2, <3>1, NewWindowParts
    <3>2. CASE win # None
      BY <1>1, <2>1, <2>2, <3>2, MergeParts
    <3>. QED BY <3>1, <3>2
  <2>. HIDE DEF Queues, Procs
  <2>. QED BY <1>1, <1>2, <1>4, <2>1, <2>3, <2>4
<1>14. CASE TimerSync(d) \/ OutOfWindow(d) \/ NotFast(d)
  <2>1. /\ win # None /\ cpu' = [cpu EXCEPT ![d] = [at |-> "sync", sis |-> win]]
        /\ UNCHANGED <<up, ct>> /\ (win' = win \/ win' = None)
    BY <1>14 DEF TimerSync, OutOfWindow, NotFast, RemoveRule
  <2>2. PICK c \in Steps(d) : c = [at |-> "sync", sis |-> win]
    BY <1>1, <2>1, StepType
  <2>3. cpu' = [cpu EXCEPT ![d] = c]
    BY <2>1, <2>2
  <2>. HIDE DEF Queues, Procs
  <2>. QED BY <1>1, <1>2, <1>4, <2>1, <2>3
<1>. QED BY <1>7, <1>9, <1>10, <1>11, <1>12, <1>13, <1>14

\* At the start everything is in its type.
LEMMA InitTypes == Init => Types
<1>. SUFFICES ASSUME Init  PROVE Types
  OBVIOUS
<1>1. \A d \in Dirs : First \in EndsOf(d) /\ Bytes[d] \in Nat
  BY Directions, WindowAssumption DEF EndsOf
<1>2. First \in Int /\ First + MaxWin \in Int /\ MaxWin \in Int
  BY WindowAssumption
<1>3. EndTypes(snd, rcv)
  BY <1>1, <1>2 DEF Init, EndTypes
<1>4. First % M \in Numbers /\ (First + MaxWin) % M \in Numbers
  BY <1>2, HeaderForm
<1>5. ct \in Records
  BY <1>2, <1>4 DEF Init, Records
<1>6. \A d \in Dirs : up[d] \in Seq(Packets(d)) /\ cpu[d] \in Steps(d)
  BY DEF Init, Steps
<1>. QED BY <1>3, <1>5, <1>6 DEF Types, BoxTypes, Init

\* The ends are in their types after every step too.
LEMMA EndStep ==
  ASSUME Types, NEW d \in Dirs,
         \/ Send(d) \/ Forward(d) \/ Sync(d) \/ Miss(d) \/ SlowPath(d) \/ CreateRule(d)
         \/ TimerSync(d) \/ OutOfWindow(d) \/ NotFast(d)
  PROVE  EndTypes(snd', rcv')
<1>1. CASE Send(d)
  BY <1>1, SendTypes
<1>2. CASE Forward(d)
  <2>1. Ready(d) /\ Deliver(d, Head1(d))
    BY <1>2 DEF Forward
  <2>. QED BY <2>1, HeadType, DeliverTypes
<1>3. CASE SlowPath(d)
  <2>1. cpu[d].at = "slow" /\ Deliver(d, cpu[d].p)
    BY <1>3 DEF SlowPath
  <2>. QED BY <2>1, StepType, DeliverTypes
<1>4. CASE \/ Sync(d) \/ Miss(d) \/ CreateRule(d) \/ TimerSync(d) \/ OutOfWindow(d) \/ NotFast(d)
  <2>1. UNCHANGED <<snd, rcv>>
    BY <1>4 DEF Sync, Miss, CreateRule, TimerSync, OutOfWindow, NotFast, RemoveRule
  <2>. QED BY <2>1 DEF Types
<1>. QED BY <1>1, <1>2, <1>3, <1>4

\* Every step keeps the types, and takes no record back.
LEMMA TypesStep == Types /\ [Next]_vars => Types' /\ Moves
<1>. SUFFICES ASSUME Types, [Next]_vars  PROVE Types' /\ Moves
  OBVIOUS
<1>1. CASE Next
  <2>1. PICK d \in Dirs :
          \/ Send(d) \/ Forward(d) \/ Sync(d) \/ Miss(d) \/ SlowPath(d) \/ CreateRule(d)
          \/ TimerSync(d) \/ OutOfWindow(d) \/ NotFast(d)
    BY <1>1 DEF Next
  <2>2. EndTypes(snd', rcv')
    BY <2>1, EndStep
  <2>3. BoxTypes' /\ Moves
    BY <2>1, BoxStep
  <2>. QED BY <2>2, <2>3 DEF Types
<1>2. CASE UNCHANGED vars
  <2>1. ct \in Records /\ (win # None => win \in Records)
    BY DEF Types, BoxTypes
  <2>2. Moves
    BY <1>2, <2>1, ForwardsSame DEF Moves, vars
  <2>. QED BY <1>2, <2>2 DEF vars, Types, EndTypes, BoxTypes
<1>. QED BY <1>1, <1>2

\* Everything the ends and the box hold stays in its type.
LEMMA TypesInvariant == Spec => []Types
<1>1. Init => Types
  BY InitTypes
<1>2. Types /\ [Next]_vars => Types'
  BY TypesStep
<1>. QED BY <1>1, <1>2, PTL DEF Spec

\* Whatever the order in which packets, messages and rules come to the engine and to
\* conntrack, and on whichever processor, neither takes a window back (sfe_ipv4_recv_tcp,
\* sfe_ipv4_update_tcp_state and sfe_cm_sync_rule).
THEOREM NoWindowGoesBack == Spec => WindowsMoveForwards
<1>1. Types /\ [Next]_vars =>
        [Forwards(ct, ct') /\ (win # None /\ win' # None => Forwards(win, win'))]_vars
  BY TypesStep DEF Moves
<1>. QED BY <1>1, TypesInvariant, PTL DEF Spec, WindowsMoveForwards

-----------------------------------------------------------------------------
(* Ends that follow TCP stay in their windows                               *)

\* The ends report no duplicates and no frame is padded; the numbers of one connection,
\* with three windows and the window of acks, are less than half of the numbers.
Room ==
  /\ ~Dsack /\ ~Padding
  /\ \A d \in Dirs : Bytes[d] + 3 * MaxWin + AckWindow + 2 < H

\* A number of the header, as the ends have it that do not wrap.
At(x) == Lift(x, First)

\* The signed difference of two numbers of the header is that of the ends.
LEMMA SignedDiff ==
  ASSUME NEW x \in Int, NEW y \in Int, NEW m \in Int, NEW n \in Int,
         Congruent(x, m, M), Congruent(y, n, M), -H <= m - n, m - n < H
  PROVE  Signed(x - y) = m - n
<1>1. Congruent(x - y, m - n, M)
  BY Congruence
<1>2. m - n \in -H .. H - 1 /\ x - y \in Int
  BY TwoHalves
<1>. QED BY <1>1, <1>2, SignedIs

\* A number has one place among those within half of the numbers from the first, ...
LEMMA AtIs ==
  ASSUME NEW x \in Int, NEW n \in Int, Congruent(x, n, M), -H <= n - First, n - First < H
  PROVE  At(x) = n
<1>1. First \in Int /\ Congruent(First, First, M)
  BY WindowAssumption DEF Congruent
<1>2. Signed(x - First) = n - First
  BY <1>1, SignedDiff
<1>. QED BY <1>1, <1>2 DEF At, Lift

\* ... to which it is congruent.
LEMMA AtType ==
  ASSUME NEW x \in Int
  PROVE  At(x) \in Int /\ Congruent(x, At(x), M) /\ -H <= At(x) - First /\ At(x) - First < H
<1>1. First \in Int /\ Congruent(First, First, M) /\ H \in Nat
  BY WindowAssumption, TwoHalves DEF Congruent
<1>. DEFINE y == Signed(x - First)
<1>2. y \in -H .. H - 1 /\ Congruent(y, x - First, M)
  BY <1>1, SignedType
<1>3. y \in Int
  BY <1>1, <1>2
<1>4. Congruent(x - First + First, y + First, M)
  <2>. HIDE DEF y
  <2>1. Congruent(x - First, y, M)
    BY <1>1, <1>2, <1>3, Congruence
  <2>. QED BY <1>1, <1>3, <2>1, Congruence
<1>5. At(x) = First + y /\ x - First + First = x /\ First + y = y + First
  BY <1>1, <1>3 DEF At, Lift
<1>6. y + First - First = y
  BY <1>1, <1>3
<1>. HIDE DEF y
<1>. QED BY <1>1, <1>2, <1>3, <1>4, <1>5, <1>6

\* The later of two numbers is the greater of the two places.
LEMMA LaterAt ==
  ASSUME NEW x \in Int, NEW y \in Int, NEW n \in Int, Congruent(y, n, M),
         -H <= n - First, n - First < H, -H <= n - At(x), n - At(x) < H
  PROVE  At(Later(x, y)) = Greater(At(x), n)
<1>1. At(x) \in Int /\ Congruent(x, At(x), M)
  BY AtType
<1>2. Signed(y - x) = n - At(x)
  BY <1>1, SignedDiff
<1>3. At(y) = n
  BY AtIs
<1>4. CASE n - At(x) > 0
  BY <1>1, <1>2, <1>3, <1>4 DEF Later, Greater
<1>5. CASE ~(n - At(x) > 0)
  BY <1>1, <1>2, <1>3, <1>5 DEF Later, Greater
<1>. QED BY <1>4, <1>5

\* A number that is not behind another, by the header's comparison, is not behind it.
LEMMA ForwardsAt ==
  ASSUME NEW x \in Int, NEW y \in Int, -H <= At(y) - At(x), At(y) - At(x) < H,
         Signed(y - x) >= 0
  PROVE  At(x) <= At(y)
<1>1. At(x) \in Int /\ At(y) \in Int /\ Congruent(x, At(x), M) /\ Congruent(y, At(y), M)
  BY AtType
<1>2. Signed(y - x) = At(y) - At(x)
  BY <1>1, SignedDiff
<1>. QED BY <1>1, <1>2

\* Does a record say that direction d has been sent up to n, may be sent up to n, and
\* has a window of n?
EndAt(R, d, n) == \E w \in R : n <= At(w[d].end)
GrantAt(R, d, n) == \E w \in R : n <= At(w[d].maxEnd)
WinAt(R, d, n) == \E w \in R : n <= w[d].maxWin

\* The two ends s and r, the packets l on their way, and the records R of the engine, of
\* conntrack and of the messages between them agree with each other: ...
SenderOk(s, r, R, d) ==
  /\ First <= s[d].una /\ s[d].una <= NextOf(r[d].got, d)
  /\ s[d].nxt <= s[d].lim /\ s[d].lim <= r[d].edge
  /\ GrantAt(R, d, s[d].lim)
  /\ WinAt(R, Other(d), s[d].lim - s[d].una)

ReceiverOk(s, r, R, d) ==
  /\ r[d].dup = None
  /\ \A n \in r[d].got : n < s[d].nxt /\ n < r[d].edge /\ EndAt(R, d, n + 1)
  /\ r[d].edge <= NextOf(r[d].got, d) + MaxWin

PacketOk(s, r, R, d, p) ==
  LET o == Other(d) IN
  /\ p.seq <= s[d].nxt /\ p.seq + p.len <= s[d].nxt
  /\ p.ack <= NextOf(r[o].got, o)
  /\ p.ack + p.win <= r[o].edge
  /\ WinAt(R, d, s[o].lim - p.ack)
  /\ \A e \in p.edges \cup {p.ack} : /\ p.ack <= e /\ e <= p.ack + p.win
                                     /\ e = First \/ e - 1 \in r[o].got

\* ... a packet acknowledges what the ones before it did, and what they carried is within
\* the receiver's window of it; ...
LineOk(s, r, q, R, d) ==
  \A i \in 1 .. Len(q) :
    /\ PacketOk(s, r, R, d, q[i])
    /\ \A j \in 1 .. i : /\ q[j].ack <= q[i].ack
                         /\ WinAt(R, Other(d), q[j].seq + q[j].len - (q[i].seq + 1))

\* ... no record is ahead of the ends, and a packet on its way is in the window of each.
RecordOk(s, r, q, R, d, w) ==
  /\ First <= At(w[d].end) /\ At(w[d].end) <= s[d].nxt
  /\ First <= At(w[d].maxEnd) /\ At(w[d].maxEnd) <= r[d].edge + 2 * MaxWin
  /\ 0 <= w[d].maxWin /\ w[d].maxWin <= 2 * MaxWin
  /\ \A i \in 1 .. Len(q) : WinAt(R, Other(d), At(w[d].end) - (q[i].seq + 1))

\* A holds, besides the records of R, those that conntrack told for a rule.
Agree(s, r, l, R, A, d) ==
  /\ l[d] \in Seq(Packets(d))
  /\ SenderOk(s, r, R, d) /\ ReceiverOk(s, r, R, d) /\ LineOk(s, r, l[d], R, d)
  /\ \A w \in A : RecordOk(s, r, l[d], R, d, w)

Agreement(s, r, l, R, A) ==
  /\ EndTypes(s, r) /\ R \subseteq A /\ A \subseteq Records
  /\ \A d \in Dirs : Agree(s, r, l, R, A, d)

\* Record v is not behind w; ...
Ahead(w, v) ==
  \A d \in Dirs : /\ w[d].maxWin <= v[d].maxWin /\ At(w[d].end) <= At(v[d].end)
                  /\ At(w[d].maxEnd) <= At(v[d].maxEnd)

\* ... for every record of R there is one of S that is not behind it.
Grows(R, S) == \A w \in R : \E v \in S : Ahead(w, v)

\* What a record of R says, a record of S then says too.
LEMMA GrownSays ==
  ASSUME NEW R \in SUBSET Records, NEW S \in SUBSET Records, Grows(R, S),
         NEW d \in Dirs, NEW n \in Int
  PROVE  /\ EndAt(R, d, n) => EndAt(S, d, n)
         /\ GrantAt(R, d, n) => GrantAt(S, d, n)
         /\ WinAt(R, d, n) => WinAt(S, d, n)
<1>1. ASSUME NEW w \in R
      PROVE  \E v \in S : /\ w[d].maxWin <= v[d].maxWin /\ At(w[d].end) <= At(v[d].end)
                          /\ At(w[d].maxEnd) <= At(v[d].maxEnd)
                          /\ w[d].maxWin \in Int /\ v[d].maxWin \in Int
                          /\ At(w[d].end) \in Int /\ At(v[d].end) \in Int
                          /\ At(w[d].maxEnd) \in Int /\ At(v[d].maxEnd) \in Int
  BY RecordType, AtType DEF Grows, Ahead
<1>2. EndAt(R, d, n) => EndAt(S, d, n)
  BY <1>1 DEF EndAt
<1>3. GrantAt(R, d, n) => GrantAt(S, d, n)
  BY <1>1 DEF GrantAt
<1>4. WinAt(R, d, n) => WinAt(S, d, n)
  BY <1>1 DEF WinAt
<1>. QED BY <1>2, <1>3, <1>4

\* What a record says of a number, it says of a smaller one.
LEMMA SaysLess ==
  ASSUME NEW R \in SUBSET Records, NEW d \in Dirs, NEW m \in Int, NEW n \in Int, n <= m
  PROVE  /\ EndAt(R, d, m) => EndAt(R, d, n)
         /\ GrantAt(R, d, m) => GrantAt(R, d, n)
         /\ WinAt(R, d, m) => WinAt(R, d, n)
<1>1. ASSUME NEW w \in R
      PROVE  w[d].maxWin \in Int /\ At(w[d].end) \in Int /\ At(w[d].maxEnd) \in Int
  BY RecordType, AtType
<1>. QED BY <1>1 DEF EndAt, GrantAt, WinAt

\* The numbers of the two ends and of their packets.
LEMMA EndNumbers ==
  ASSUME NEW s, NEW r, NEW d \in Dirs, EndTypes(s, r)
  PROVE  /\ s[d].nxt \in Int /\ s[d].una \in Int /\ s[d].lim \in Int /\ r[d].edge \in Int
         /\ First <= s[d].nxt /\ s[d].nxt <= First + Bytes[d]
         /\ First \in Int /\ Bytes[d] \in Nat /\ MaxWin \in Nat \ {0} /\ AckWindow \in Nat
         /\ r[d].got \subseteq BytesOf(d) /\ BytesOf(d) \subseteq Int
         /\ NextOf(r[d].got, d) \in Int
         /\ First <= NextOf(r[d].got, d) /\ NextOf(r[d].got, d) <= First + Bytes[d]
<1>1. /\ s \in [Dirs -> [nxt : Int, una : Int, lim : Int]]
      /\ r \in [Dirs -> [got : SUBSET Int, edge : Int, dup : Int \cup {None}]]
      /\ s[d].nxt \in EndsOf(d) /\ r[d].got \subseteq BytesOf(d)
  BY DEF EndTypes
<1>2. First \in Nat /\ Bytes[d] \in Nat /\ MaxWin \in Nat \ {0} /\ AckWindow \in Nat
  BY Directions, WindowAssumption
<1>3. NextOf(r[d].got, d) \in EndsOf(d)
  BY <1>1, NextIsFirst
<1>. QED BY <1>1, <1>2, <1>3 DEF EndsOf, BytesOf

\* The packets of a line are packets of its direction.
LEMMA LinePackets ==
  ASSUME NEW d \in Dirs, NEW q \in Seq(Packets(d)), NEW i \in 1 .. Len(q)
  PROVE  q[i] \in Packets(d)
<1>. DEFINE S == Packets(d)
<1>. HIDE DEF S
<1>1. q \in Seq(S) => q[i] \in S
  OBVIOUS
<1>. QED BY <1>1 DEF S

\* The agreement stays when records go, as long as there are others that are not behind them
\* and that are not ahead of the ends.
LEMMA RecordsGrow ==
  ASSUME NEW s, NEW r, NEW l, NEW R, NEW A, Agreement(s, r, l, R, A),
         NEW S, NEW B, S \subseteq B, B \subseteq Records, Grows(R, S),
         \A d \in Dirs : \A w \in B : RecordOk(s, r, l[d], R, d, w)
  PROVE  Agreement(s, r, l, S, B)
<1>1. EndTypes(s, r) /\ R \in SUBSET Records /\ S \in SUBSET Records
  BY DEF Agreement
<1>2. \A e \in Dirs, n \in Int : /\ EndAt(R, e, n) => EndAt(S, e, n)
                                 /\ GrantAt(R, e, n) => GrantAt(S, e, n)
                                 /\ WinAt(R, e, n) => WinAt(S, e, n)
  BY <1>1, GrownSays
<1>3. ASSUME NEW d \in Dirs  PROVE Agree(s, r, l, S, B, d)
  <2>. DEFINE o == Other(d)
              q == l[d]
  <2>1. Agree(s, r, l, R, A, d) /\ o \in Dirs
    BY Directions DEF Agreement
  <2>2. /\ s[d].lim \in Int /\ s[d].una \in Int /\ s[o].lim \in Int
        /\ r[d].got \subseteq Int
    BY <1>1, <2>1, EndNumbers
  <2>3. q \in Seq(Packets(d)) /\ Len(q) \in Nat
    BY <2>1 DEF Agree
  <2>4. \A i \in 1 .. Len(q) : q[i].seq \in Int /\ q[i].len \in Int /\ q[i].ack \in Int
    BY <2>3, LinePackets, PacketType
  <2>5. SenderOk(s, r, S, d)
    BY <1>2, <2>1, <2>2 DEF SenderOk, Agree
  <2>6. ReceiverOk(s, r, S, d)
    BY <1>2, <2>1, <2>2 DEF ReceiverOk, Agree
  <2>7. LineOk(s, r, q, S, d)
    <3>1. ASSUME NEW i \in 1 .. Len(q)  PROVE PacketOk(s, r, S, d, q[i])
      <4>1. PacketOk(s, r, R, d, q[i])
        BY <2>1 DEF Agree, LineOk
      <4>2. s[o].lim - q[i].ack \in Int
        BY <2>2, <2>4
      <4>. QED BY <1>2, <4>1, <4>2 DEF PacketOk
    <3>2. ASSUME NEW i \in 1 .. Len(q), NEW j \in 1 .. i
          PROVE  /\ q[j].ack <= q[i].ack
                 /\ WinAt(S, o, q[j].seq + q[j].len - (q[i].seq + 1))
      <4>1. /\ q[j].ack <= q[i].ack
            /\ WinAt(R, o, q[j].seq + q[j].len - (q[i].seq + 1))
        BY <2>1 DEF Agree, LineOk
      <4>2. j \in 1 .. Len(q)
        BY <2>3
      <4>3. q[j].seq + q[j].len - (q[i].seq + 1) \in Int
        BY <2>4, <4>2
      <4>. QED BY <1>2, <2>1, <4>1, <4>3
    <3>. QED BY <3>1, <3>2 DEF LineOk
  <2>8. ASSUME NEW w \in B  PROVE RecordOk(s, r, q, S, d, w)
    <3>1. RecordOk(s, r, q, R, d, w) /\ At(w[d].end) \in Int
      BY RecordType, AtType
    <3>2. \A i \in 1 .. Len(q) : At(w[d].end) - (q[i].seq + 1) \in Int
      BY <2>4, <3>1
    <3>. QED BY <1>2, <2>1, <3>1, <3>2 DEF RecordOk
  <2>. QED BY <2>1, <2>3, <2>5, <2>6, <2>7, <2>8 DEF Agree
<1>. QED BY <1>1, <1>3 DEF Agreement

\* Line q without its first packet.
LEMMA HeadGone ==
  ASSUME NEW s, NEW r, NEW l, NEW R, NEW A, Agreement(s, r, l, R, A),
         NEW d \in Dirs, NEW k, l[d] # <<>>, k[d] = Tail(l[d]), k[Other(d)] = l[Other(d)]
  PROVE  Agreement(s, r, k, R, A)
<1>. DEFINE q == l[d]
            t == Tail(q)
<1>1. Agree(s, r, l, R, A, d) /\ Agree(s, r, l, R, A, Other(d))
  BY Directions DEF Agreement
<1>2. q \in Seq(Packets(d)) /\ q # <<>>
  BY <1>1 DEF Agree
<1>3. /\ Len(q) \in Nat /\ Len(q) >= 1 /\ Len(t) = Len(q) - 1
      /\ \A i \in 1 .. Len(t) : i + 1 \in 1 .. Len(q) /\ t[i] = q[i + 1]
      /\ t \in Seq(Packets(d))
  <2>. DEFINE P == Packets(d)
  <2>1. q \in Seq(P) /\ q # <<>>
    BY <1>2
  <2>. HIDE DEF P, q
  <2>2. /\ Len(q) \in Nat /\ Len(q) >= 1 /\ Len(t) = Len(q) - 1
        /\ \A i \in 1 .. Len(t) : i + 1 \in 1 .. Len(q) /\ t[i] = q[i + 1]
        /\ t \in Seq(P)
    BY <2>1
  <2>. QED BY <2>2 DEF P
<1>4. LineOk(s, r, q, R, d)
  BY <1>1 DEF Agree
<1>. HIDE DEF q, t
<1>5. LineOk(s, r, t, R, d)
  <2>1. ASSUME NEW i \in 1 .. Len(t), NEW j \in 1 .. i
        PROVE  /\ PacketOk(s, r, R, d, t[i]) /\ t[j].ack <= t[i].ack
               /\ WinAt(R, Other(d), t[j].seq + t[j].len - (t[i].seq + 1))
    <3>1. /\ i + 1 \in 1 .. Len(q) /\ j + 1 \in 1 .. i + 1
          /\ t[i] = q[i + 1] /\ t[j] = q[j + 1]
      BY <1>3
    <3>. QED BY <1>4, <3>1 DEF LineOk
  <2>2. \A i \in 1 .. Len(t) : i \in 1 .. i
    BY <1>3
  <2>. QED BY <2>1, <2>2 DEF LineOk
<1>6. \A w \in A : RecordOk(s, r, t, R, d, w)
  <2>1. \A w \in A : RecordOk(s, r, q, R, d, w)
    BY <1>1 DEF Agree, q
  <2>. QED BY <1>3, <2>1 DEF RecordOk
<1>7. Agree(s, r, k, R, A, d)
  BY <1>1, <1>3, <1>5, <1>6 DEF Agree, t, q
<1>8. Agree(s, r, k, R, A, Other(d))
  BY <1>1 DEF Agree
<1>. QED BY <1>7, <1>8, Directions DEF Agreement

\* Do the records tell what packet p of direction d does?
HasTaken(R, d, p) ==
  /\ EndAt(R, d, p.seq + p.len) /\ GrantAt(R, Other(d), p.ack + p.win) /\ WinAt(R, d, p.win)

\* Packet p of direction d takes the ends s and r to u and v.
Reached(s, r, u, v, d, p) ==
  LET o == Other(d) IN
  /\ v[d].got = r[d].got \cup {n \in Payload(p) : n < r[d].edge}
  /\ v[d].edge = r[d].edge /\ v[d].dup = r[d].dup /\ v[o] = r[o]
  /\ u[d] = s[d] /\ u[o].nxt = s[o].nxt
  /\ u[o].una = Greater(s[o].una, p.ack) /\ u[o].lim = Greater(s[o].lim, p.ack + p.win)

\* The agreement stays when a packet that the records tell of reaches the other end: what it
\* carries and what it grants are theirs, and an ack comes with a window that was granted.
LEMMA PacketReaches ==
  ASSUME NEW s, NEW r, NEW l, NEW R, NEW A, Agreement(s, r, l, R, A),
         NEW d \in Dirs, l[d] # <<>>, HasTaken(R, d, Head(l[d])),
         NEW u, NEW v, EndTypes(u, v), Reached(s, r, u, v, d, Head(l[d]))
  PROVE  Agreement(u, v, l, R, A)
<1>. DEFINE o == Other(d)
            p == Head(l[d])
            q == l[d]
            t == l[o]
<1>1. /\ EndTypes(s, r) /\ R \in SUBSET Records /\ o \in Dirs /\ Other(o) = d
      /\ Agree(s, r, l, R, A, d) /\ Agree(s, r, l, R, A, o)
  BY Directions DEF Agreement
<1>2. /\ q \in Seq(Packets(d)) /\ t \in Seq(Packets(o)) /\ q # <<>>
      /\ SenderOk(s, r, R, d) /\ ReceiverOk(s, r, R, d) /\ LineOk(s, r, q, R, d)
      /\ SenderOk(s, r, R, o) /\ ReceiverOk(s, r, R, o) /\ LineOk(s, r, t, R, o)
      /\ \A w \in A : RecordOk(s, r, q, R, d, w) /\ RecordOk(s, r, t, R, o, w)
  BY <1>1 DEF Agree
<1>3. Len(q) \in Nat /\ Len(q) >= 1 /\ p = q[1] /\ Len(t) \in Nat /\ 1 \in 1 .. Len(q)
  <2>. DEFINE P == Packets(d)
              O == Packets(o)
  <2>. HIDE DEF P, O, q, t
  <2>1. q \in Seq(P) /\ t \in Seq(O) /\ q # <<>>
    BY <1>2 DEF P, O
  <2>2. Len(q) \in Nat /\ Len(q) >= 1 /\ Head(q) = q[1] /\ Len(t) \in Nat
    BY <2>1
  <2>. QED BY <2>2 DEF q
<1>4. /\ \A i \in 1 .. Len(q) : q[i].seq \in Int /\ q[i].len \in Int /\ q[i].ack \in Int
      /\ \A i \in 1 .. Len(t) : t[i].seq \in Int /\ t[i].len \in Int /\ t[i].ack \in Int
  BY <1>1, <1>2, LinePackets, PacketType
<1>5. /\ p.seq \in Int /\ p.len \in Nat /\ p.ack \in Int /\ p.win \in Int
      /\ p.win >= 0 /\ (p.len > 0 => First <= p.seq) /\ PacketOk(s, r, R, d, p)
      /\ \A i \in 1 .. Len(q) : p.ack <= q[i].ack
  <2>1. p \in Packets(d)
    BY <1>2, <1>3, LinePackets
  <2>2. PacketOk(s, r, R, d, p) /\ \A i \in 1 .. Len(q) : p.ack <= q[i].ack
    <3>1. \A i \in 1 .. Len(q) : 1 \in 1 .. i
      BY <1>3
    <3>. QED BY <1>2, <1>3, <3>1 DEF LineOk
  <2>. QED BY <2>1, <2>2, PacketType, WindowAssumption
<1>6. /\ s[d].nxt \in Int /\ s[d].una \in Int /\ s[d].lim \in Int /\ r[d].edge \in Int
      /\ s[o].nxt \in Int /\ s[o].una \in Int /\ s[o].lim \in Int /\ r[o].edge \in Int
      /\ r[d].got \subseteq BytesOf(d) /\ v[d].got \subseteq BytesOf(d) /\ BytesOf(d) \subseteq Int
      /\ NextOf(r[d].got, d) \in Int /\ NextOf(v[d].got, d) \in Int /\ NextOf(r[o].got, o) \in Int
      /\ First \in Int /\ MaxWin \in Nat
  BY <1>1, EndNumbers
<1>7. /\ v[d].got = r[d].got \cup {n \in Payload(p) : n < r[d].edge}
      /\ v[d].edge = r[d].edge /\ v[d].dup = r[d].dup /\ v[o] = r[o]
      /\ u[d] = s[d] /\ u[o].nxt = s[o].nxt
      /\ u[o].una = Greater(s[o].una, p.ack) /\ u[o].lim = Greater(s[o].lim, p.ack + p.win)
  BY DEF Reached
<1>8. NextOf(r[d].got, d) <= NextOf(v[d].got, d)
  BY <1>6, <1>7, NextGrows
<1>9. /\ EndAt(R, d, p.seq + p.len) /\ GrantAt(R, o, p.ack + p.win) /\ WinAt(R, d, p.win)
  BY DEF HasTaken
<1>10. \A m, n \in Int : n <= m => /\ EndAt(R, d, m) => EndAt(R, d, n)
                                   /\ WinAt(R, d, m) => WinAt(R, d, n)
  BY <1>1, SaysLess
<1>11. \A n \in Int : n <= p.win => WinAt(R, d, n)
  <2>1. PICK m \in Int : m = p.win
    BY <1>5
  <2>. HIDE DEF p
  <2>2. WinAt(R, d, m)
    BY <1>9, <2>1
  <2>. QED BY <1>10, <2>1, <2>2
<1>12. /\ p.ack <= NextOf(r[o].got, o) /\ p.ack + p.win <= r[o].edge
       /\ WinAt(R, d, s[o].lim - p.ack)
  BY <1>5 DEF PacketOk
<1>13. /\ First <= s[o].una /\ s[o].una <= NextOf(r[o].got, o)
       /\ s[o].nxt <= s[o].lim /\ s[o].lim <= r[o].edge
       /\ GrantAt(R, o, s[o].lim) /\ WinAt(R, d, s[o].lim - s[o].una)
  BY <1>1, <1>2 DEF SenderOk
<1>. HIDE DEF o, p, q, t
<1>14. SenderOk(u, v, R, d)
  BY <1>2, <1>6, <1>7, <1>8 DEF SenderOk
<1>15. ReceiverOk(u, v, R, d)
  <2>1. ASSUME NEW n \in v[d].got
        PROVE  n < u[d].nxt /\ n < v[d].edge /\ EndAt(R, d, n + 1)
    <3>1. CASE n \in r[d].got
      BY <1>2, <1>7, <3>1 DEF ReceiverOk
    <3>2. CASE n \in Payload(p) /\ n < r[d].edge
      <4>1. n \in Int /\ n + 1 <= p.seq + p.len /\ p.seq + p.len <= s[d].nxt
        BY <1>5, <3>2 DEF Payload, PacketOk
      <4>2. EndAt(R, d, n + 1)
        BY <1>5, <1>9, <1>10, <4>1
      <4>. QED BY <1>5, <1>6, <1>7, <3>2, <4>1, <4>2, SMTT(30)
    <3>. QED BY <1>7, <3>1, <3>2
  <2>2. v[d].dup = None /\ v[d].edge <= NextOf(v[d].got, d) + MaxWin
    BY <1>2, <1>6, <1>7, <1>8 DEF ReceiverOk
  <2>. QED BY <2>1, <2>2 DEF ReceiverOk
<1>16. LineOk(u, v, q, R, d)
  <2>1. ASSUME NEW i \in 1 .. Len(q)  PROVE PacketOk(u, v, R, d, q[i])
    <3>1. PacketOk(s, r, R, d, q[i])
      BY <1>2 DEF LineOk
    <3>2. WinAt(R, d, u[o].lim - q[i].ack)
      <4>1. CASE u[o].lim = s[o].lim
        BY <3>1, <4>1 DEF PacketOk, o
      <4>2. CASE u[o].lim = p.ack + p.win
        <5>1. q[i].ack \in Int /\ p.ack <= q[i].ack
          BY <1>4, <1>5
        <5>2. p.ack + p.win - q[i].ack \in Int /\ p.ack + p.win - q[i].ack <= p.win
          BY <1>5, <5>1
        <5>3. PICK n \in Int : n = p.ack + p.win - q[i].ack
          BY <5>2
        <5>4. WinAt(R, d, n)
          BY <1>11, <5>2, <5>3
        <5>. QED BY <1>5, <4>2, <5>1, <5>3, <5>4
      <4>. QED BY <1>7, <4>1, <4>2 DEF Greater
    <3>. QED BY <1>7, <3>1, <3>2 DEF PacketOk, o
  <2>. QED BY <1>2, <2>1 DEF LineOk
<1>17. \A w \in A : RecordOk(u, v, q, R, d, w)
  BY <1>2, <1>7 DEF RecordOk
<1>18. SenderOk(u, v, R, o)
  <2>1. First <= u[o].una /\ u[o].una <= NextOf(v[o].got, o)
    BY <1>12, <1>13, <1>5, <1>6, <1>7, SMTT(30) DEF Greater
  <2>2. u[o].nxt <= u[o].lim /\ u[o].lim <= v[o].edge
    <3>1. PICK g \in Int : g = p.ack + p.win
      BY <1>5
    <3>2. u[o].lim = Greater(s[o].lim, g) /\ g <= r[o].edge
      BY <1>12, <1>7, <3>1
    <3>3. /\ u[o].nxt = s[o].nxt /\ v[o].edge = r[o].edge
          /\ s[o].nxt \in Int /\ s[o].lim \in Int /\ r[o].edge \in Int
          /\ s[o].nxt <= s[o].lim /\ s[o].lim <= r[o].edge
      BY <1>13, <1>6, <1>7
    <3>. QED BY <3>2, <3>3 DEF Greater
  <2>3. GrantAt(R, o, u[o].lim)
    BY <1>13, <1>7, <1>9 DEF Greater
  <2>4. WinAt(R, d, u[o].lim - u[o].una)
    <3>2. CASE u[o].lim = s[o].lim
      BY <1>12, <1>13, <1>7, <3>2 DEF Greater
    <3>3. CASE u[o].lim = p.ack + p.win
      <4>1. p.ack + p.win - u[o].una \in Int /\ p.ack + p.win - u[o].una <= p.win
        BY <1>5, <1>6, <1>7, SMTT(30) DEF Greater
      <4>2. PICK n \in Int : n = p.ack + p.win - u[o].una
        BY <4>1
      <4>3. WinAt(R, d, n)
        BY <1>11, <4>1, <4>2
      <4>. QED BY <1>5, <1>6, <1>7, <3>3, <4>2, <4>3 DEF Greater
    <3>. QED BY <1>7, <3>2, <3>3 DEF Greater
  <2>. QED BY <1>1, <2>1, <2>2, <2>3, <2>4 DEF SenderOk
<1>19. ReceiverOk(u, v, R, o)
  BY <1>2, <1>7 DEF ReceiverOk
<1>20. LineOk(u, v, t, R, o)
  <2>1. ASSUME NEW i \in 1 .. Len(t)  PROVE PacketOk(u, v, R, o, t[i])
    <3>1. PacketOk(s, r, R, o, t[i])
      BY <1>2 DEF LineOk
    <3>2. t[i].ack <= NextOf(v[d].got, d)
      BY <1>1, <1>4, <1>6, <1>8, <3>1, SMTT(30) DEF PacketOk
    <3>3. r[d].got \subseteq v[d].got
      BY <1>7
    <3>. QED BY <1>1, <1>7, <3>1, <3>2, <3>3 DEF PacketOk
  <2>. QED BY <1>2, <2>1 DEF LineOk
<1>21. \A w \in A : RecordOk(u, v, t, R, o, w)
  BY <1>2, <1>7 DEF RecordOk
<1>22. Agree(u, v, l, R, A, d)
  BY <1>2, <1>14, <1>15, <1>16, <1>17 DEF Agree, q
<1>23. Agree(u, v, l, R, A, o)
  BY <1>2, <1>18, <1>19, <1>20, <1>21 DEF Agree, t
<1>. QED BY <1>22, <1>23, Directions DEF Agreement, o

\* Sending packet p of direction d takes the ends s and r to u and v.
Sent(s, r, u, v, d, p) ==
  LET o == Other(d) IN
  /\ s[d].una - 1 <= p.seq /\ p.seq <= s[d].nxt
  /\ p.len > 0 => s[d].una <= p.seq /\ p.seq + p.len <= s[d].lim
  /\ p.ack = NextOf(r[o].got, o) /\ r[o].edge <= p.ack + p.win
  /\ \A e \in p.edges : p.ack <= e /\ e - 1 \in r[o].got
  /\ u[d].nxt = Greater(s[d].nxt, p.seq + p.len) /\ u[d].una = s[d].una /\ u[d].lim = s[d].lim
  /\ u[o] = s[o] /\ v[d] = r[d]
  /\ v[o].got = r[o].got /\ v[o].edge = p.ack + p.win /\ v[o].dup = None

\* The line of direction d is longer by packet p.
Longer(k, l, d, p) == k[d] = Append(l[d], p) /\ k[Other(d)] = l[Other(d)]

\* The agreement stays when a packet is sent: it is within the window that is granted to its
\* sender, and that window is one of the records'.
LEMMA PacketSent ==
  ASSUME NEW s, NEW r, NEW l, NEW R, NEW A, Agreement(s, r, l, R, A), NEW d \in Dirs,
         NEW p \in Packets(d), NEW u, NEW v, EndTypes(u, v), Sent(s, r, u, v, d, p),
         NEW k, Longer(k, l, d, p)
  PROVE  Agreement(u, v, k, R, A)
<1>. DEFINE o == Other(d)
            q == l[d]
            t == l[o]
            c == Append(q, p)
<1>1. /\ EndTypes(s, r) /\ R \in SUBSET Records /\ A \subseteq Records
      /\ o \in Dirs /\ Other(o) = d /\ o # d
      /\ Agree(s, r, l, R, A, d) /\ Agree(s, r, l, R, A, o)
  BY Directions DEF Agreement
<1>2. /\ q \in Seq(Packets(d)) /\ t \in Seq(Packets(o))
      /\ SenderOk(s, r, R, d) /\ ReceiverOk(s, r, R, d) /\ LineOk(s, r, q, R, d)
      /\ SenderOk(s, r, R, o) /\ ReceiverOk(s, r, R, o) /\ LineOk(s, r, t, R, o)
      /\ \A w \in A : RecordOk(s, r, q, R, d, w) /\ RecordOk(s, r, t, R, o, w)
  BY <1>1 DEF Agree
<1>3. /\ Len(q) \in Nat /\ Len(c) = Len(q) + 1 /\ c[Len(q) + 1] = p /\ Len(t) \in Nat
      /\ \A i \in 1 .. Len(q) : c[i] = q[i]
      /\ c \in Seq(Packets(d))
  <2>. DEFINE P == Packets(d)
              O == Packets(o)
  <2>1. q \in Seq(P) /\ t \in Seq(O) /\ p \in P
    BY <1>2
  <2>. HIDE DEF P, O, q, t
  <2>2. /\ Len(q) \in Nat /\ Len(c) = Len(q) + 1 /\ c[Len(q) + 1] = p /\ Len(t) \in Nat
        /\ \A i \in 1 .. Len(q) : c[i] = q[i]
        /\ c \in Seq(P)
    BY <2>1
  <2>. QED BY <2>2 DEF P
<1>4. /\ \A i \in 1 .. Len(q) : q[i].seq \in Int /\ q[i].len \in Int /\ q[i].ack \in Int
                                 /\ q[i].win \in Int
      /\ \A i \in 1 .. Len(t) : t[i].seq \in Int /\ t[i].len \in Int /\ t[i].ack \in Int
                                 /\ t[i].win \in Int
  <2>1. 0 .. MaxWin \subseteq Int
    BY WindowAssumption
  <2>. QED BY <1>1, <1>2, <2>1, LinePackets, PacketType
<1>5. /\ p.seq \in Int /\ p.len \in Nat /\ p.ack \in Int /\ p.win \in Int
      /\ p.win >= 0 /\ p.win <= MaxWin /\ p.edges \subseteq Int
  BY PacketType, WindowAssumption
<1>6. /\ s[d].nxt \in Int /\ s[d].una \in Int /\ s[d].lim \in Int /\ r[d].edge \in Int
      /\ s[o].nxt \in Int /\ s[o].una \in Int /\ s[o].lim \in Int /\ r[o].edge \in Int
      /\ r[d].got \subseteq Int /\ r[o].got \subseteq BytesOf(o) /\ BytesOf(o) \subseteq Int
      /\ NextOf(r[d].got, d) \in Int /\ NextOf(r[o].got, o) \in Int
      /\ First <= NextOf(r[o].got, o)
      /\ First \in Int /\ MaxWin \in Nat
  BY <1>1, EndNumbers
<1>7. /\ s[d].una - 1 <= p.seq /\ p.seq <= s[d].nxt
      /\ p.len > 0 => s[d].una <= p.seq /\ p.seq + p.len <= s[d].lim
      /\ p.ack = NextOf(r[o].got, o) /\ r[o].edge <= p.ack + p.win
      /\ \A e \in p.edges : p.ack <= e /\ e - 1 \in r[o].got
      /\ u[d].nxt = Greater(s[d].nxt, p.seq + p.len) /\ u[d].una = s[d].una /\ u[d].lim = s[d].lim
      /\ u[o] = s[o] /\ v[d] = r[d]
      /\ v[o].got = r[o].got /\ v[o].edge = p.ack + p.win /\ v[o].dup = None
  BY DEF Sent
<1>8. /\ \A m, n \in Int : n <= m /\ WinAt(R, d, m) => WinAt(R, d, n)
      /\ \A m, n \in Int : n <= m /\ WinAt(R, o, m) => WinAt(R, o, n)
  BY <1>1, SaysLess
<1>9. /\ First <= s[d].una /\ s[d].nxt <= s[d].lim /\ s[d].lim <= r[d].edge
      /\ First <= s[o].una /\ s[o].una <= NextOf(r[o].got, o)
      /\ s[o].nxt <= s[o].lim /\ s[o].lim <= r[o].edge
      /\ WinAt(R, o, s[d].lim - s[d].una) /\ WinAt(R, d, s[o].lim - s[o].una)
  BY <1>1, <1>2 DEF SenderOk
<1>10. /\ p.seq \in Int /\ p.len \in Int /\ p.ack \in Int /\ p.win \in Int
       /\ p.len >= 0 /\ p.win >= 0 /\ p.win <= MaxWin /\ MaxWin \in Int /\ First \in Int
       /\ s[d].nxt \in Int /\ s[d].una \in Int /\ s[d].lim \in Int /\ r[d].edge \in Int
       /\ s[o].nxt \in Int /\ s[o].una \in Int /\ s[o].lim \in Int /\ r[o].edge \in Int
       /\ s[d].una - 1 <= p.seq /\ p.seq <= s[d].nxt
       /\ p.len > 0 => s[d].una <= p.seq /\ p.seq + p.len <= s[d].lim
       /\ r[o].edge <= p.ack + p.win
       /\ First <= s[d].una /\ s[d].nxt <= s[d].lim
       /\ First <= s[o].una /\ s[o].una <= p.ack /\ First <= p.ack
       /\ s[o].nxt <= s[o].lim /\ s[o].lim <= r[o].edge
  <2>. HIDE DEF o
  <2>1. MaxWin \in Int /\ p.len \in Int /\ p.len >= 0
    BY <1>5, WindowAssumption
  <2>. QED BY <1>5, <1>6, <1>7, <1>9, <2>1
<1>. HIDE DEF o, q, t, c
<1>11. /\ \A n \in Int : n <= s[d].lim - s[d].una => WinAt(R, o, n)
       /\ \A n \in Int : n <= s[o].lim - s[o].una => WinAt(R, d, n)
  <2>1. PICK m \in Int : m = s[d].lim - s[d].una
    BY <1>6
  <2>2. PICK n \in Int : n = s[o].lim - s[o].una
    BY <1>6
  <2>3. WinAt(R, o, m) /\ WinAt(R, d, n)
    BY <1>9, <2>1, <2>2
  <2>. QED BY <1>8, <2>1, <2>2, <2>3
<1>12. /\ s[d].nxt <= u[d].nxt /\ p.seq + p.len <= u[d].nxt /\ u[d].nxt <= s[d].lim
       /\ u[d].nxt \in Int /\ r[o].edge <= v[o].edge /\ v[o].edge \in Int
  <2>1. p.seq + p.len <= s[d].lim /\ p.seq + p.len \in Int
    BY <1>10
  <2>2. PICK n \in Int : n = p.seq + p.len
    BY <2>1
  <2>3. u[d].nxt = Greater(s[d].nxt, n) /\ n <= s[d].lim
    BY <1>7, <2>1, <2>2
  <2>4. s[d].nxt <= u[d].nxt /\ n <= u[d].nxt /\ u[d].nxt <= s[d].lim /\ u[d].nxt \in Int
    BY <1>10, <2>3 DEF Greater
  <2>. QED BY <1>5, <1>6, <1>7, <2>2, <2>4
<1>13. /\ \A x \in Int : x <= s[d].nxt => x <= u[d].nxt /\ x <= s[d].lim
       /\ \A x \in Int : x <= r[o].edge => x <= v[o].edge
       /\ p.seq + p.len \in Int /\ p.seq + p.len <= s[d].lim /\ p.ack <= p.ack
  BY <1>10, <1>12
<1>14. ASSUME NEW x \in Int, x <= s[d].lim
      PROVE  WinAt(R, o, x - (p.seq + 1))
  <2>1. PICK n \in Int : n = x - (p.seq + 1)
    BY <1>10
  <2>2. n <= s[d].lim - s[d].una
    BY <1>10, <1>14, <2>1
  <2>. QED BY <1>11, <2>1, <2>2
<1>15. SenderOk(u, v, R, d)
  BY <1>2, <1>6, <1>7, <1>12 DEF SenderOk
<1>16. ReceiverOk(u, v, R, d)
  <2>1. \A n \in r[d].got : n \in Int /\ n < s[d].nxt /\ n < r[d].edge /\ EndAt(R, d, n + 1)
    BY <1>2, <1>6 DEF ReceiverOk
  <2>2. \A n \in r[d].got : n < u[d].nxt
    BY <1>6, <1>12, <2>1
  <2>3. r[d].dup = None /\ r[d].edge <= NextOf(r[d].got, d) + MaxWin
    BY <1>2 DEF ReceiverOk
  <2>. QED BY <1>7, <2>1, <2>2, <2>3 DEF ReceiverOk
<1>17. ASSUME NEW i \in 1 .. Len(q)  PROVE PacketOk(u, v, R, d, q[i])
  <2>1. PacketOk(s, r, R, d, q[i])
    BY <1>2 DEF LineOk
  <2>2. q[i].seq <= u[d].nxt /\ q[i].seq + q[i].len <= u[d].nxt
    <3>1. /\ q[i].seq \in Int /\ q[i].seq + q[i].len \in Int
          /\ q[i].seq <= s[d].nxt /\ q[i].seq + q[i].len <= s[d].nxt
      BY <1>4, <2>1 DEF PacketOk
    <3>2. PICK x \in Int : x = q[i].seq + q[i].len
      BY <3>1
    <3>. QED BY <1>13, <3>1, <3>2
  <2>3. q[i].ack + q[i].win <= v[o].edge
    <3>1. q[i].ack + q[i].win \in Int /\ q[i].ack + q[i].win <= r[o].edge
      BY <1>4, <2>1 DEF PacketOk, o
    <3>2. PICK x \in Int : x = q[i].ack + q[i].win
      BY <3>1
    <3>. QED BY <1>13, <3>1, <3>2
  <2>. QED BY <1>7, <2>1, <2>2, <2>3 DEF PacketOk, o
<1>18. PacketOk(u, v, R, d, p)
  <2>1. p.seq <= u[d].nxt
    BY <1>10, <1>12
  <2>2. p.ack <= NextOf(v[o].got, o) /\ p.ack + p.win <= v[o].edge
    BY <1>5, <1>6, <1>7, <1>12
  <2>3. WinAt(R, d, u[o].lim - p.ack)
    <3>1. PICK n \in Int : n = s[o].lim - p.ack
      BY <1>10
    <3>2. n <= s[o].lim - s[o].una
      BY <1>10, <3>1
    <3>3. WinAt(R, d, n)
      BY <1>11, <3>2
    <3>. QED BY <1>7, <3>1, <3>3
  <2>4. p.ack = First \/ p.ack - 1 \in v[o].got
    <3>1. \A n \in BytesOf(o) : n < NextOf(r[o].got, o) => n \in r[o].got
      BY <1>1, <1>6, NextIsFirst
    <3>2. p.ack # First => p.ack - 1 \in BytesOf(o)
      <4>1. p.ack <= First + Bytes[o] /\ Bytes[o] \in Int
        <5>1. NextOf(r[o].got, o) <= First + Bytes[o] /\ Bytes[o] \in Nat
          BY <1>1, EndNumbers
        <5>. QED BY <1>7, <5>1
      <4>. QED BY <1>10, <4>1 DEF BytesOf
    <3>3. p.ack - 1 < p.ack
      BY <1>10
    <3>. QED BY <1>7, <3>1, <3>2, <3>3
  <2>5. \A e \in p.edges : p.ack <= e /\ e <= p.ack + p.win /\ e - 1 \in v[o].got
    <3>1. ASSUME NEW e \in p.edges  PROVE e <= p.ack + p.win
      <4>1. e \in Int /\ e - 1 \in r[o].got
        BY <1>5, <1>7
      <4>2. e - 1 < r[o].edge
        BY <1>2, <4>1 DEF ReceiverOk
      <4>. QED BY <1>5, <1>6, <1>7, <4>1, <4>2
    <3>. QED BY <1>7, <3>1
  <2>6. p.ack <= p.ack /\ p.ack <= p.ack + p.win
    BY <1>5
  <2>. QED BY <1>12, <2>1, <2>2, <2>3, <2>4, <2>5, <2>6 DEF PacketOk, o
<1>19. LineOk(u, v, c, R, d)
  <2>1. ASSUME NEW i \in 1 .. Len(c)  PROVE PacketOk(u, v, R, d, c[i])
    BY <1>3, <1>17, <1>18
  <2>2. ASSUME NEW i \in 1 .. Len(c), NEW j \in 1 .. i
        PROVE  c[j].ack <= c[i].ack /\ WinAt(R, o, c[j].seq + c[j].len - (c[i].seq + 1))
    <3>1. CASE i \in 1 .. Len(q)
      <4>1. j \in 1 .. i /\ c[i] = q[i] /\ c[j] = q[j]
        BY <1>3, <3>1
      <4>. QED BY <1>2, <3>1, <4>1 DEF LineOk, o
    <3>2. CASE i = Len(q) + 1
      <4>1. /\ c[j].ack <= p.ack /\ c[j].seq + c[j].len <= s[d].lim
            /\ c[j].seq \in Int /\ c[j].len \in Int
        <5>1. CASE j = Len(q) + 1
          <6>1. c[j] = p
            BY <1>3, <5>1
          <6>. QED BY <1>5, <1>13, <6>1
        <5>2. CASE j \in 1 .. Len(q)
          <6>1. c[j] = q[j] /\ PacketOk(s, r, R, d, q[j])
            BY <1>2, <1>3, <5>2 DEF LineOk
          <6>2. /\ q[j].seq \in Int /\ q[j].len \in Int
                /\ q[j].seq + q[j].len <= s[d].nxt /\ q[j].ack <= p.ack
            BY <1>4, <1>7, <5>2, <6>1 DEF PacketOk, o
          <6>3. PICK x \in Int : x = q[j].seq + q[j].len
            BY <6>2
          <6>. QED BY <1>13, <6>1, <6>2, <6>3
        <5>. QED BY <1>3, <3>2, <5>1, <5>2
      <4>2. PICK x \in Int : x = c[j].seq + c[j].len
        BY <4>1
      <4>3. WinAt(R, o, x - (p.seq + 1))
        BY <1>14, <4>1, <4>2
      <4>4. WinAt(R, o, c[j].seq + c[j].len - (p.seq + 1))
        BY <1>5, <4>1, <4>2, <4>3
      <4>5. c[i] = p
        BY <1>3, <3>2
      <4>. QED BY <4>1, <4>4, <4>5
    <3>. QED BY <1>3, <3>1, <3>2
  <2>. QED BY <2>1, <2>2 DEF LineOk, o
<1>20. ASSUME NEW w \in A  PROVE RecordOk(u, v, c, R, d, w)
  <2>1. RecordOk(s, r, q, R, d, w) /\ At(w[d].end) \in Int
    BY <1>1, <1>2, RecordType, AtType
  <2>2. At(w[d].end) <= u[d].nxt
    BY <1>6, <1>12, <2>1, SMTT(30) DEF RecordOk
  <2>3. ASSUME NEW i \in 1 .. Len(c)  PROVE WinAt(R, o, At(w[d].end) - (c[i].seq + 1))
    <3>1. CASE i \in 1 .. Len(q)
      BY <1>3, <2>1, <3>1 DEF RecordOk, o
    <3>2. CASE i = Len(q) + 1
      <4>1. PICK x \in Int : x = At(w[d].end)
        BY <2>1
      <4>2. x <= s[d].nxt
        BY <2>1, <4>1 DEF RecordOk
      <4>3. WinAt(R, o, x - (p.seq + 1))
        BY <1>13, <1>14, <4>2
      <4>. QED BY <1>3, <3>2, <4>1, <4>3
    <3>. QED BY <1>3, <3>1, <3>2
  <2>. QED BY <1>7, <2>1, <2>2, <2>3 DEF RecordOk, o
<1>21. SenderOk(u, v, R, o)
  BY <1>2, <1>6, <1>7, <1>12 DEF SenderOk
<1>22. ReceiverOk(u, v, R, o)
  <2>1. \A n \in r[o].got : n \in Int /\ n < s[o].nxt /\ n < r[o].edge /\ EndAt(R, o, n + 1)
    BY <1>2, <1>6 DEF ReceiverOk
  <2>2. \A n \in r[o].got : n < v[o].edge
    BY <1>6, <1>12, <2>1
  <2>3. v[o].edge <= NextOf(v[o].got, o) + MaxWin
    BY <1>5, <1>6, <1>7
  <2>. QED BY <1>7, <2>1, <2>2, <2>3 DEF ReceiverOk
<1>23. LineOk(u, v, t, R, o)
  <2>1. ASSUME NEW i \in 1 .. Len(t)  PROVE PacketOk(u, v, R, o, t[i])
    <3>1. PacketOk(s, r, R, o, t[i])
      BY <1>2 DEF LineOk
    <3>. QED BY <1>1, <1>7, <3>1 DEF PacketOk
  <2>. QED BY <1>2, <2>1 DEF LineOk
<1>24. ASSUME NEW w \in A  PROVE RecordOk(u, v, t, R, o, w)
  <2>1. RecordOk(s, r, t, R, o, w) /\ At(w[o].maxEnd) \in Int
    BY <1>1, <1>2, RecordType, AtType
  <2>2. At(w[o].maxEnd) <= v[o].edge + 2 * MaxWin
    BY <1>6, <1>12, <2>1 DEF RecordOk
  <2>. QED BY <1>7, <2>1, <2>2 DEF RecordOk
<1>25. Agree(u, v, k, R, A, d)
  BY <1>3, <1>15, <1>16, <1>19, <1>20 DEF Agree, Longer, c, q
<1>26. Agree(u, v, k, R, A, o)
  BY <1>2, <1>21, <1>22, <1>23, <1>24 DEF Agree, Longer, t, o
<1>. QED BY <1>25, <1>26, Directions DEF Agreement, o

-----------------------------------------------------------------------------
(* What the box does to the records                                         *)

\* Does record v tell what packet p of direction d does?
Tells(v, d, p) ==
  /\ p.seq + p.len <= At(v[d].end) /\ p.ack + p.win <= At(v[Other(d)].maxEnd)
  /\ p.win <= v[d].maxWin

\* A record that agrees with the ends has numbers within their bounds.
LEMMA RecordBounds ==
  ASSUME NEW s, NEW r, NEW l, NEW R, NEW A, Agreement(s, r, l, R, A), NEW w \in A, NEW d \in Dirs
  PROVE  /\ w \in Records /\ RecordOk(s, r, l[d], R, d, w)
         /\ w[d].maxWin \in Int /\ 0 <= w[d].maxWin /\ w[d].maxWin <= 2 * MaxWin
         /\ w[d].end \in Int /\ At(w[d].end) \in Int /\ Congruent(w[d].end, At(w[d].end), M)
         /\ First <= At(w[d].end) /\ At(w[d].end) <= First + Bytes[d]
         /\ w[d].maxEnd \in Int /\ At(w[d].maxEnd) \in Int
         /\ Congruent(w[d].maxEnd, At(w[d].maxEnd), M)
         /\ First <= At(w[d].maxEnd) /\ At(w[d].maxEnd) <= r[d].edge + 2 * MaxWin
         /\ r[d].edge \in Int /\ r[d].edge <= First + Bytes[d] + MaxWin
<1>1. /\ w \in Records /\ RecordOk(s, r, l[d], R, d, w) /\ EndTypes(s, r)
      /\ ReceiverOk(s, r, R, d)
  BY DEF Agreement, Agree
<1>2. /\ w[d].maxWin \in Int /\ w[d].end \in Int /\ w[d].maxEnd \in Int
  BY <1>1, RecordType
<1>3. /\ At(w[d].end) \in Int /\ Congruent(w[d].end, At(w[d].end), M)
      /\ At(w[d].maxEnd) \in Int /\ Congruent(w[d].maxEnd, At(w[d].maxEnd), M)
  BY <1>2, AtType
<1>4. /\ s[d].nxt \in Int /\ s[d].nxt <= First + Bytes[d] /\ r[d].edge \in Int
      /\ NextOf(r[d].got, d) \in Int /\ NextOf(r[d].got, d) <= First + Bytes[d]
      /\ First \in Int /\ Bytes[d] \in Nat /\ MaxWin \in Nat
  BY <1>1, EndNumbers
<1>5. r[d].edge <= First + Bytes[d] + MaxWin
  BY <1>1, <1>4 DEF ReceiverOk
<1>6. At(w[d].end) <= First + Bytes[d]
  BY <1>1, <1>3, <1>4 DEF RecordOk
<1>. QED BY <1>1, <1>2, <1>3, <1>4, <1>5, <1>6 DEF RecordOk

\* The later of the ends, and of the grants, of two numbers that are so bounded.
LEMMA LaterBounded ==
  ASSUME Room, NEW d \in Dirs, NEW x \in Int, NEW y \in Int, NEW n \in Int, Congruent(y, n, M),
         First - 1 <= n, n <= First + Bytes[d] + 3 * MaxWin,
         First <= At(x), At(x) <= First + Bytes[d] + 3 * MaxWin
  PROVE  /\ At(Later(x, y)) = Greater(At(x), n)
         /\ At(Later(x, y)) \in {At(x), n} /\ At(x) <= At(Later(x, y)) /\ n <= At(Later(x, y))
         /\ At(Later(x, y)) \in Int
<1>1. /\ Bytes[d] \in Nat /\ MaxWin \in Nat /\ First \in Nat /\ H \in Nat \ {0}
      /\ Bytes[d] + 3 * MaxWin + AckWindow + 2 < H /\ AckWindow \in Nat
  BY Directions, TwoHalves, WindowAssumption DEF Room
<1>2. At(x) \in Int
  BY AtType
<1>3. At(Later(x, y)) = Greater(At(x), n)
  <2>1. -H <= n - First /\ n - First < H /\ -H <= n - At(x) /\ n - At(x) < H
    BY <1>1, <1>2
  <2>. QED BY <2>1, LaterAt
<1>. QED BY <1>2, <1>3, PickType

\* The packets of line q are within the window of the receiver from n.
IsFirst(q, R, d, n) == \A i \in 1 .. Len(q) : WinAt(R, Other(d), n - (q[i].seq + 1))

\* The window n, the end e and the grant x of packet p are in their bounds; y is the place
\* of the grant.
Numbered(r, d, p, n, e, x, y) ==
  /\ p.win <= n /\ n <= 2 * MaxWin /\ Congruent(e, p.seq + p.len, M) /\ Congruent(x, y, M)
  /\ p.ack + p.win <= y /\ y <= r[Other(d)].edge + 2 * MaxWin

\* A record that takes the first packet of a line agrees with the ends too, it is not behind
\* the one it was, and it tells what the packet does.
LEMMA TakenAgrees ==
  ASSUME Room, NEW s, NEW r, NEW l, NEW R, NEW A, Agreement(s, r, l, R, A),
         NEW d \in Dirs, NEW p \in Packets(d), PacketOk(s, r, R, d, p),
         IsFirst(l[d], R, d, p.seq + p.len),
         NEW w \in A, NEW v \in Records,
         NEW n \in Int, NEW e \in Int, NEW x \in Int, NEW y \in Int, Takes(v, w, d, n, e, x),
         Numbered(r, d, p, n, e, x, y)
  PROVE  /\ \A f \in Dirs : RecordOk(s, r, l[f], R, f, v)
         /\ Ahead(w, v) /\ Tells(v, d, p)
<1>. DEFINE o == Other(d)
            m == p.seq + p.len
<1>1. o \in Dirs /\ \A f \in Dirs : f = d \/ f = o
  BY Directions
<1>2. /\ v[d].maxWin = Greater(w[d].maxWin, n) /\ v[o].maxWin = w[o].maxWin
      /\ v[d].end = Later(w[d].end, e) /\ v[o].end = w[o].end
      /\ v[d].maxEnd = w[d].maxEnd /\ v[o].maxEnd = Later(w[o].maxEnd, x)
  BY DEF Takes
<1>3. /\ Bytes[d] \in Nat /\ Bytes[o] \in Nat /\ MaxWin \in Nat /\ First \in Nat
  BY <1>1, Directions, WindowAssumption
<1>4. /\ m \in Int /\ First - 1 <= m /\ m <= First + Bytes[d] /\ Congruent(e, m, M)
      /\ p.ack + p.win \in Int /\ First <= p.ack + p.win /\ p.win \in Int /\ 0 <= p.win
  <2>1. /\ p.seq \in Int /\ p.len \in Nat /\ p.ack \in Int /\ p.win \in 0 .. MaxWin
        /\ p.ack \in EndsOf(o) /\ First - 1 <= p.seq /\ p.seq + p.len <= First + Bytes[d]
    BY PacketType
  <2>2. First <= p.ack /\ p.win \in Int /\ 0 <= p.win
    BY <1>3, <2>1 DEF EndsOf
  <2>3. p.ack + p.win \in Int /\ First <= p.ack + p.win
    BY <1>3, <2>1, <2>2
  <2>4. m \in Int /\ First - 1 <= m /\ m <= First + Bytes[d]
    BY <1>3, <2>1
  <2>5. Congruent(e, m, M)
    BY DEF Numbered
  <2>. QED BY <2>2, <2>3, <2>4, <2>5
<1>5. m <= s[d].nxt
  BY DEF PacketOk
<1>. HIDE DEF m, o
<1>6. /\ RecordOk(s, r, l[d], R, d, w)
      /\ w[d].maxWin \in Int /\ 0 <= w[d].maxWin /\ w[d].maxWin <= 2 * MaxWin
      /\ w[d].end \in Int /\ At(w[d].end) \in Int
      /\ First <= At(w[d].end) /\ At(w[d].end) <= First + Bytes[d]
      /\ At(w[d].maxEnd) \in Int
  BY RecordBounds
<1>7. /\ RecordOk(s, r, l[o], R, o, w)
      /\ w[o].maxWin \in Int /\ At(w[o].end) \in Int
      /\ w[o].maxEnd \in Int /\ At(w[o].maxEnd) \in Int
      /\ First <= At(w[o].maxEnd) /\ At(w[o].maxEnd) <= r[o].edge + 2 * MaxWin
      /\ r[o].edge \in Int /\ r[o].edge <= First + Bytes[o] + MaxWin
  BY <1>1, RecordBounds
<1>8. /\ At(v[d].end) \in {At(w[d].end), m} /\ At(v[d].end) \in Int
      /\ At(w[d].end) <= At(v[d].end) /\ m <= At(v[d].end)
  <2>1. m <= First + Bytes[d] + 3 * MaxWin /\ At(w[d].end) <= First + Bytes[d] + 3 * MaxWin
    BY <1>3, <1>4, <1>6
  <2>. QED BY <1>2, <1>4, <1>6, <2>1, LaterBounded
<1>9. /\ y <= r[o].edge + 2 * MaxWin /\ p.ack + p.win <= y
      /\ p.win <= n /\ n <= 2 * MaxWin /\ Congruent(x, y, M)
  BY DEF o, Numbered
<1>10. /\ At(v[o].maxEnd) \in {At(w[o].maxEnd), y} /\ At(v[o].maxEnd) \in Int
       /\ At(w[o].maxEnd) <= At(v[o].maxEnd) /\ y <= At(v[o].maxEnd)
  <2>1. /\ First - 1 <= y /\ y <= First + Bytes[o] + 3 * MaxWin
        /\ At(w[o].maxEnd) <= First + Bytes[o] + 3 * MaxWin
    BY <1>3, <1>4, <1>7, <1>9
  <2>. QED BY <1>1, <1>2, <1>7, <1>9, <2>1, LaterBounded
<1>11. /\ v[d].maxWin \in {w[d].maxWin, n} /\ w[d].maxWin <= v[d].maxWin /\ n <= v[d].maxWin
       /\ v[d].maxWin \in Int
  BY <1>2, <1>6, PickType
<1>12. RecordOk(s, r, l[d], R, d, v)
  <2>1. First <= At(v[d].end) /\ At(v[d].end) <= s[d].nxt
    BY <1>3, <1>5, <1>6, <1>8 DEF RecordOk
  <2>2. 0 <= v[d].maxWin /\ v[d].maxWin <= 2 * MaxWin
    BY <1>3, <1>4, <1>6, <1>9, <1>11
  <2>3. \A i \in 1 .. Len(l[d]) : WinAt(R, Other(d), At(v[d].end) - (l[d][i].seq + 1))
    <3>1. CASE At(v[d].end) = At(w[d].end)
      BY <1>6, <3>1 DEF RecordOk
    <3>2. CASE At(v[d].end) = m
      <4>1. IsFirst(l[d], R, d, m)
        BY DEF m
      <4>. QED BY <3>2, <4>1 DEF IsFirst
    <3>. QED BY <1>8, <3>1, <3>2
  <2>. QED BY <1>2, <1>6, <2>1, <2>2, <2>3 DEF RecordOk
<1>13. RecordOk(s, r, l[o], R, o, v)
  <2>1. First <= At(v[o].maxEnd) /\ At(v[o].maxEnd) <= r[o].edge + 2 * MaxWin
    BY <1>3, <1>7, <1>9, <1>10
  <2>. QED BY <1>2, <1>7, <2>1 DEF RecordOk
<1>14. Ahead(w, v)
  <2>1. w[o].maxWin <= v[o].maxWin /\ At(w[o].end) <= At(v[o].end)
        /\ At(w[d].maxEnd) <= At(v[d].maxEnd)
    BY <1>2, <1>6, <1>7
  <2>. QED BY <1>1, <1>8, <1>10, <1>11, <2>1 DEF Ahead
<1>15. Tells(v, d, p)
  <2>1. p.win <= v[d].maxWin
    BY <1>4, <1>9, <1>11
  <2>2. p.ack + p.win <= At(v[o].maxEnd)
    BY <1>4, <1>9, <1>10
  <2>. QED BY <1>8, <2>1, <2>2 DEF Tells, m, o
<1>. QED BY <1>1, <1>12, <1>13, <1>14, <1>15

\* The first packet of a line agrees with the ends, and it is the first.
LEMMA FirstPacket ==
  ASSUME NEW s, NEW r, NEW l, NEW R, NEW A, Agreement(s, r, l, R, A), NEW d \in Dirs, l[d] # <<>>
  PROVE  LET p == Head(l[d]) IN
         /\ p \in Packets(d) /\ PacketOk(s, r, R, d, p) /\ IsFirst(l[d], R, d, p.seq + p.len)
<1>. DEFINE q == l[d]
<1>1. q \in Seq(Packets(d)) /\ LineOk(s, r, q, R, d)
  BY DEF Agreement, Agree
<1>2. Len(q) \in Nat /\ 1 \in 1 .. Len(q) /\ Head(q) = q[1]
  <2>. DEFINE P == Packets(d)
  <2>1. q \in Seq(P) /\ q # <<>>
    BY <1>1
  <2>. HIDE DEF P, q
  <2>. QED BY <2>1
<1>. HIDE DEF q
<1>3. q[1] \in Packets(d)
  BY <1>1, <1>2, LinePackets
<1>4. PacketOk(s, r, R, d, q[1])
  BY <1>1, <1>2 DEF LineOk
<1>5. IsFirst(q, R, d, q[1].seq + q[1].len)
  <2>1. PICK n \in Int : n = q[1].seq + q[1].len
    BY <1>3, PacketType
  <2>2. ASSUME NEW i \in 1 .. Len(q)  PROVE WinAt(R, Other(d), n - (q[i].seq + 1))
    <3>1. PICK j \in 1 .. i : j = 1
      BY <1>2
    <3>2. WinAt(R, Other(d), q[j].seq + q[j].len - (q[i].seq + 1))
      BY <1>1 DEF LineOk
    <3>3. q[i].seq \in Int /\ q[1].seq \in Int /\ q[1].len \in Int
      BY <1>1, <1>3, LinePackets, PacketType
    <3>. QED BY <2>1, <3>1, <3>2, <3>3
  <2>3. IsFirst(q, R, d, n)
    BY <2>2 DEF IsFirst
  <2>. QED BY <2>1, <2>3
<1>. QED BY <1>2, <1>3, <1>4, <1>5 DEF q

\* What an edge of a packet is, for the window that it is sent with.
LEMMA EdgeBounds ==
  ASSUME Room, NEW s, NEW r, NEW R, NEW d \in Dirs, NEW p \in Packets(d), EndTypes(s, r),
         PacketOk(s, r, R, d, p), NEW x \in p.edges \cup {p.ack}
  PROVE  /\ x \in Int /\ p.ack \in Int /\ p.win \in Int /\ p.ack <= x /\ x <= p.ack + p.win
         /\ 0 <= p.win /\ p.win <= MaxWin /\ p.ack + p.win <= r[Other(d)].edge
         /\ r[Other(d)].edge \in Int /\ MaxWin \in Nat /\ 2 * MaxWin < M
<1>1. /\ p.ack \in Int /\ p.win \in 0 .. MaxWin /\ p.edges \cup {p.ack} \subseteq Int
  BY PacketType
<1>2. /\ p.ack <= x /\ x <= p.ack + p.win /\ p.ack + p.win <= r[Other(d)].edge
  BY DEF PacketOk
<1>3. r[Other(d)].edge \in Int /\ MaxWin \in Nat
  BY Directions, EndNumbers
<1>4. 2 * MaxWin < M
  <2>1. /\ Bytes[d] \in Nat /\ AckWindow \in Nat /\ H \in Nat /\ M = 2 * H
        /\ Bytes[d] + 3 * MaxWin + AckWindow + 2 < H
    BY Directions, TwoHalves, WindowAssumption DEF Room
  <2>. QED BY <1>3, <2>1
<1>. QED BY <1>1, <1>2, <1>3, <1>4

\* A packet with window b, ack a and greatest edge g, which the header shows as z, is sent
\* with edge k granted; m is the window from the ack to its end and g more.
WindowSent(b, a, g, z, k, m) ==
  /\ Congruent(z, g, M) /\ a <= g /\ g <= a + b /\ 0 <= b /\ b <= MaxWin
  /\ MaxWin \in Nat /\ 2 * MaxWin < M /\ a + b <= k /\ m = b + g - a

\* Then what recv_tcp, and conntrack, compute of it is in its bounds.
WindowRead(b, a, g, z, k, m) ==
  /\ b <= m /\ m <= 2 * MaxWin
  /\ g + m \in Int /\ a + b <= g + m /\ g + m <= k + 2 * MaxWin
  /\ g + b \in Int /\ a + b <= g + b /\ g + b <= k + 2 * MaxWin
  /\ (b + z - a) % M = m
  /\ (z + m) % M \in Int /\ Congruent((z + m) % M, g + m, M)

\* The scaled window of the code is the one that was sent, wherever the numbers wrap.
LEMMA ScaledWindow ==
  ASSUME NEW win0 \in Int, NEW ack \in Int, NEW g \in Int, NEW z \in Int, NEW edge \in Int,
         NEW n \in Int, WindowSent(win0, ack, g, z, edge, n)
  PROVE  WindowRead(win0, ack, g, z, edge, n)
<1>1. /\ Congruent(z, g, M) /\ ack <= g /\ g <= ack + win0 /\ 0 <= win0 /\ win0 <= MaxWin
      /\ MaxWin \in Nat /\ 2 * MaxWin < M /\ ack + win0 <= edge /\ n = win0 + g - ack
  BY DEF WindowSent
<1>. DEFINE a == win0 + z - ack
            c == win0 - ack
<1>2. /\ win0 <= n /\ n <= 2 * MaxWin /\ 0 <= n
      /\ g + n \in Int /\ ack + win0 <= g + n /\ g + n <= edge + 2 * MaxWin
      /\ g + win0 \in Int /\ ack + win0 <= g + win0 /\ g + win0 <= edge + 2 * MaxWin
  BY <1>1
<1>3. c \in Int /\ a \in Int /\ a = z + c /\ n = g + c /\ z + n \in Int
  BY <1>1
<1>4. M \in Nat /\ \A b \in Int : Congruent(b, b, M)
  BY WindowAssumption DEF Congruent
<1>. HIDE DEF a, c
<1>5. Congruent(a, n, M)
  <2>1. Congruent(z + c, g + c, M)
    BY <1>1, <1>3, <1>4, Congruence
  <2>. QED BY <1>3, <2>1
<1>6. PICK f \in Int : f = z + n /\ Congruent(f, g + n, M)
  <2>1. Congruent(z + n, g + n, M)
    BY <1>1, <1>2, <1>4, Congruence
  <2>. QED BY <1>3, <2>1
<1>7. PICK b \in 0 .. M - 1 : b = a % M /\ Congruent(b, a, M)
  BY <1>3, HeaderForm DEF Numbers
<1>8. a % M = n
  <2>1. b \in Int /\ b - n < M /\ n - b < M
    BY <1>1, <1>2, <1>4
  <2>2. Congruent(b, n, M)
    BY <1>2, <1>3, <1>5, <1>7, <2>1, Congruence
  <2>3. b = n
    BY <1>2, <2>1, <2>2, CongruentSame
  <2>. QED BY <1>7, <2>3
<1>9. (z + n) % M \in Int /\ Congruent((z + n) % M, g + n, M)
  <2>1. PICK k \in 0 .. M - 1 : k = f % M /\ Congruent(k, f, M)
    BY HeaderForm DEF Numbers
  <2>2. k \in Int
    BY <1>4
  <2>3. Congruent(k, g + n, M)
    BY <1>2, <1>6, <2>1, <2>2, Congruence
  <2>. QED BY <1>6, <2>1, <2>2, <2>3
<1>. QED BY <1>2, <1>8, <1>9 DEF a, WindowRead

\* What a box does to a record with the first packet of a line leaves it agreeing.
IsTaken(s, r, l, R, d, w, v) ==
  /\ v \in Records /\ \A f \in Dirs : RecordOk(s, r, l[f], R, f, v)
  /\ Ahead(w, v) /\ Tells(v, d, Head(l[d]))

\* recv_tcp does so, wherever the number of the greatest edge wraps, ...
LEMMA TrackAgrees ==
  ASSUME Room, NEW s, NEW r, NEW l, NEW R, NEW A, Agreement(s, r, l, R, A),
         NEW d \in Dirs, l[d] # <<>>, NEW w \in A
  PROVE  IsTaken(s, r, l, R, d, w, Track(w, d, Head(l[d])))
<1>1. PICK p \in Packets(d) : p = Head(l[d])
  BY FirstPacket
<1>2. /\ EndTypes(s, r) /\ w \in Records
      /\ PacketOk(s, r, R, d, p) /\ IsFirst(l[d], R, d, p.seq + p.len)
  BY <1>1, FirstPacket DEF Agreement
<1>. DEFINE v == Track(w, d, p)
            n == (p.win + SackIn(p) - p.ack) % M
            e == SegEnd(p) % M
            x == (SackIn(p) + n) % M
<1>3. /\ SackIn(p) \in Numbers /\ n \in Numbers /\ SegEnd(p) \in Int
      /\ Takes(v, w, d, n, e, x) /\ v \in Records
  BY <1>2, TrackTakes
<1>4. PICK g \in p.edges \cup {p.ack} : SackIn(p) = g % M
  BY SackInPacket
<1>5. /\ g \in Int /\ p.ack \in Int /\ p.win \in Int /\ p.ack <= g /\ g <= p.ack + p.win
      /\ 0 <= p.win /\ p.win <= MaxWin /\ p.ack + p.win <= r[Other(d)].edge
      /\ r[Other(d)].edge \in Int /\ MaxWin \in Nat /\ 2 * MaxWin < M
  BY <1>2, EdgeBounds
<1>6. SackIn(p) \in Int /\ Congruent(SackIn(p), g, M)
  <2>1. g % M \in 0 .. M - 1 /\ Congruent(g % M, g, M)
    BY <1>5, HeaderForm DEF Numbers
  <2>. QED BY <1>4, <2>1
<1>. DEFINE y == g + n
<1>7. /\ n \in Int /\ p.win <= n /\ n <= 2 * MaxWin
      /\ y \in Int /\ p.ack + p.win <= y /\ y <= r[Other(d)].edge + 2 * MaxWin
      /\ x \in Int /\ Congruent(x, y, M)
  <2>1. PICK b \in Int, a \in Int, z \in Int, k \in Int :
          b = p.win /\ a = p.ack /\ z = SackIn(p) /\ k = r[Other(d)].edge
    BY <1>5, <1>6
  <2>2. PICK m \in Int : m = b + g - a
    BY <1>5
  <2>3. WindowSent(b, a, g, z, k, m)
    BY <1>5, <1>6, <2>1, <2>2 DEF WindowSent
  <2>4. WindowRead(b, a, g, z, k, m)
    BY <1>5, <2>3, ScaledWindow
  <2>5. n = (b + z - a) % M
    BY <2>1
  <2>. HIDE DEF n
  <2>6. x = (z + m) % M /\ y = g + m /\ n = m
    BY <2>1, <2>5, <2>4 DEF WindowRead
  <2>. QED BY <2>1, <2>6, <2>4 DEF WindowRead
<1>8. e \in Int /\ Congruent(e, p.seq + p.len, M)
  <2>1. SegEnd(p) = p.seq + p.len
    <3>1. p.seq \in Int /\ p.len \in Nat
      BY PacketType
    <3>. QED BY <3>1 DEF SegEnd, Room
  <2>2. e \in Numbers /\ Congruent(e, SegEnd(p), M)
    BY <1>3, HeaderForm
  <2>. QED BY <2>1, <2>2 DEF Numbers
<1>. HIDE DEF v, n, e, x, y
<1>9. Numbered(r, d, p, n, e, x, y)
  BY <1>7, <1>8 DEF Numbered
<1>10. /\ \A f \in Dirs : RecordOk(s, r, l[f], R, f, v)
       /\ Ahead(w, v) /\ Tells(v, d, p)
  BY <1>2, <1>3, <1>7, <1>8, <1>9, TakenAgrees
<1>. QED BY <1>1, <1>3, <1>10 DEF IsTaken, v

\* ... and so does conntrack.
LEMMA ConntrackAgrees ==
  ASSUME Room, NEW s, NEW r, NEW l, NEW R, NEW A, Agreement(s, r, l, R, A),
         NEW d \in Dirs, l[d] # <<>>, NEW w \in A
  PROVE  IsTaken(s, r, l, R, d, w, Conntrack(w, d, Head(l[d])))
<1>1. PICK p \in Packets(d) : p = Head(l[d])
  BY FirstPacket
<1>2. /\ EndTypes(s, r) /\ w \in Records
      /\ PacketOk(s, r, R, d, p) /\ IsFirst(l[d], R, d, p.seq + p.len)
  BY <1>1, FirstPacket DEF Agreement
<1>3. PICK g \in p.edges \cup {p.ack} : g = SackSeen(p)
  BY SackOfConntrack DEF SackSeen
<1>. DEFINE v == Conntrack(w, d, p)
            n == p.win + g - p.ack
            e == (p.seq + p.len) % M
            x == (g + p.win) % M
            y == g + p.win
<1>4. n \in Int /\ Takes(v, w, d, n, e, x) /\ v \in Records
  BY <1>2, <1>3, ConntrackTakes
<1>5. /\ g \in Int /\ p.ack \in Int /\ p.win \in Int /\ p.ack <= g /\ g <= p.ack + p.win
      /\ 0 <= p.win /\ p.win <= MaxWin /\ p.ack + p.win <= r[Other(d)].edge
      /\ r[Other(d)].edge \in Int /\ MaxWin \in Nat /\ 2 * MaxWin < M
  BY <1>2, EdgeBounds
<1>6. y \in Int /\ p.win <= n /\ n <= 2 * MaxWin /\ p.ack + p.win <= y
      /\ y <= r[Other(d)].edge + 2 * MaxWin
  <2>1. PICK b \in Int, a \in Int, k \in Int, m \in Int :
          b = p.win /\ a = p.ack /\ k = r[Other(d)].edge /\ m = n
    BY <1>4, <1>5
  <2>2. Congruent(g, g, M)
    BY <1>5, WindowAssumption DEF Congruent
  <2>3. WindowSent(b, a, g, g, k, m)
    BY <1>5, <2>1, <2>2 DEF WindowSent
  <2>4. WindowRead(b, a, g, g, k, m)
    BY <1>5, <2>3, ScaledWindow
  <2>. QED BY <2>1, <2>4 DEF WindowRead
<1>7. M \in Nat /\ p.seq + p.len \in Int
  BY PacketType, WindowAssumption
<1>8. /\ e \in Int /\ Congruent(e, p.seq + p.len, M)
      /\ x \in Int /\ Congruent(x, y, M)
  <2>. DEFINE a == p.seq + p.len
  <2>. HIDE DEF a, y
  <2>1. a % M \in 0 .. M - 1 /\ Congruent(a % M, a, M)
    BY <1>7, HeaderForm DEF Numbers, a
  <2>2. y % M \in 0 .. M - 1 /\ Congruent(y % M, y, M)
    BY <1>6, HeaderForm DEF Numbers
  <2>. QED BY <2>1, <2>2 DEF a, y
<1>. HIDE DEF v, n, e, x, y
<1>9. Numbered(r, d, p, n, e, x, y)
  BY <1>6, <1>8 DEF Numbered
<1>10. /\ \A f \in Dirs : RecordOk(s, r, l[f], R, f, v)
       /\ Ahead(w, v) /\ Tells(v, d, p)
  BY <1>2, <1>4, <1>6, <1>8, <1>9, TakenAgrees
<1>. QED BY <1>1, <1>4, <1>10 DEF IsTaken, v

\* Two records that agree with the ends, merged, agree with them, behind neither.
LEMMA MergeAgrees ==
  ASSUME Room, NEW s, NEW r, NEW l, NEW R, NEW A, Agreement(s, r, l, R, A),
         NEW w \in A, NEW v \in A
  PROVE  /\ Merge(w, v) \in Records
         /\ \A f \in Dirs : RecordOk(s, r, l[f], R, f, Merge(w, v))
         /\ Ahead(w, Merge(w, v)) /\ Ahead(v, Merge(w, v))
<1>. DEFINE z == Merge(w, v)
<1>1. w \in Records /\ v \in Records
  BY DEF Agreement
<1>2. /\ z \in Records
      /\ \A d \in Dirs : /\ z[d].maxWin = Greater(w[d].maxWin, v[d].maxWin)
                         /\ z[d].end = Later(w[d].end, v[d].end)
                         /\ z[d].maxEnd = Later(w[d].maxEnd, v[d].maxEnd)
  BY <1>1, MergeParts
<1>. HIDE DEF z
<1>3. ASSUME NEW d \in Dirs
      PROVE  /\ RecordOk(s, r, l[d], R, d, z)
             /\ w[d].maxWin <= z[d].maxWin /\ v[d].maxWin <= z[d].maxWin
             /\ At(w[d].end) <= At(z[d].end) /\ At(v[d].end) <= At(z[d].end)
             /\ At(w[d].maxEnd) <= At(z[d].maxEnd) /\ At(v[d].maxEnd) <= At(z[d].maxEnd)
  <2>1. /\ RecordOk(s, r, l[d], R, d, w) /\ w[d].maxWin \in Int
        /\ w[d].end \in Int /\ At(w[d].end) \in Int
        /\ First <= At(w[d].end) /\ At(w[d].end) <= First + Bytes[d]
        /\ w[d].maxEnd \in Int /\ At(w[d].maxEnd) \in Int
        /\ First <= At(w[d].maxEnd) /\ At(w[d].maxEnd) <= r[d].edge + 2 * MaxWin
        /\ r[d].edge \in Int /\ r[d].edge <= First + Bytes[d] + MaxWin
    BY RecordBounds
  <2>2. /\ RecordOk(s, r, l[d], R, d, v) /\ v[d].maxWin \in Int
        /\ v[d].end \in Int /\ At(v[d].end) \in Int /\ Congruent(v[d].end, At(v[d].end), M)
        /\ First <= At(v[d].end) /\ At(v[d].end) <= First + Bytes[d]
        /\ v[d].maxEnd \in Int /\ At(v[d].maxEnd) \in Int
        /\ Congruent(v[d].maxEnd, At(v[d].maxEnd), M)
        /\ First <= At(v[d].maxEnd) /\ At(v[d].maxEnd) <= r[d].edge + 2 * MaxWin
    BY RecordBounds
  <2>3. Bytes[d] \in Nat /\ MaxWin \in Nat /\ First \in Nat
    BY Directions, WindowAssumption
  <2>4. /\ At(z[d].end) \in {At(w[d].end), At(v[d].end)}
        /\ At(w[d].end) <= At(z[d].end) /\ At(v[d].end) <= At(z[d].end)
    <3>1. /\ First - 1 <= At(v[d].end) /\ At(v[d].end) <= First + Bytes[d] + 3 * MaxWin
          /\ At(w[d].end) <= First + Bytes[d] + 3 * MaxWin
      BY <2>1, <2>2, <2>3
    <3>. QED BY <1>2, <2>1, <2>2, <3>1, LaterBounded
  <2>5. /\ At(z[d].maxEnd) \in {At(w[d].maxEnd), At(v[d].maxEnd)}
        /\ At(w[d].maxEnd) <= At(z[d].maxEnd) /\ At(v[d].maxEnd) <= At(z[d].maxEnd)
    <3>1. /\ First - 1 <= At(v[d].maxEnd) /\ At(v[d].maxEnd) <= First + Bytes[d] + 3 * MaxWin
          /\ At(w[d].maxEnd) <= First + Bytes[d] + 3 * MaxWin
      BY <2>1, <2>2, <2>3
    <3>. QED BY <1>2, <2>1, <2>2, <3>1, LaterBounded
  <2>6. /\ z[d].maxWin \in {w[d].maxWin, v[d].maxWin}
        /\ w[d].maxWin <= z[d].maxWin /\ v[d].maxWin <= z[d].maxWin
    <3>1. PICK a \in Int, b \in Int : a = w[d].maxWin /\ b = v[d].maxWin
      BY <2>1, <2>2
    <3>2. z[d].maxWin = Greater(a, b)
      BY <1>2, <3>1
    <3>. QED BY <3>1, <3>2, PickType
  <2>7. RecordOk(s, r, l[d], R, d, z)
    <3>1. /\ First <= At(z[d].end) /\ At(z[d].end) <= s[d].nxt
          /\ \A i \in 1 .. Len(l[d]) : WinAt(R, Other(d), At(z[d].end) - (l[d][i].seq + 1))
      <4>1. CASE At(z[d].end) = At(w[d].end)
        BY <2>1, <4>1 DEF RecordOk
      <4>2. CASE At(z[d].end) = At(v[d].end)
        BY <2>2, <4>2 DEF RecordOk
      <4>. QED BY <2>4, <4>1, <4>2
    <3>2. First <= At(z[d].maxEnd) /\ At(z[d].maxEnd) <= r[d].edge + 2 * MaxWin
      BY <2>1, <2>2, <2>5
    <3>3. 0 <= z[d].maxWin /\ z[d].maxWin <= 2 * MaxWin
      BY <2>1, <2>2, <2>6 DEF RecordOk
    <3>. QED BY <3>1, <3>2, <3>3 DEF RecordOk
  <2>. QED BY <2>4, <2>5, <2>6, <2>7
<1>4. Ahead(w, z) /\ Ahead(v, z)
  BY <1>3 DEF Ahead
<1>. QED BY <1>2, <1>3, <1>4 DEF z

\* The record of a new rule agrees with the ends, and it is not behind conntrack's.
LEMMA NewWindowAgrees ==
  ASSUME Room, NEW s, NEW r, NEW l, NEW R, NEW A, Agreement(s, r, l, R, A), NEW w \in A
  PROVE  /\ NewWindow(w) \in Records
         /\ \A f \in Dirs : RecordOk(s, r, l[f], R, f, NewWindow(w))
         /\ Ahead(w, NewWindow(w))
<1>. DEFINE z == NewWindow(w)
<1>1. w \in Records
  BY DEF Agreement
<1>2. /\ z \in Records
      /\ \A d \in Dirs : /\ z[d].maxWin = (IF w[d].maxWin = 0 THEN 1 ELSE w[d].maxWin)
                         /\ z[d].end = w[d].end
                         /\ z[d].maxEnd = w[d].maxEnd
  BY <1>1, NewWindowParts
<1>. HIDE DEF z
<1>3. ASSUME NEW d \in Dirs
      PROVE  /\ RecordOk(s, r, l[d], R, d, z) /\ w[d].maxWin <= z[d].maxWin
             /\ At(w[d].end) <= At(z[d].end) /\ At(w[d].maxEnd) <= At(z[d].maxEnd)
  <2>1. /\ RecordOk(s, r, l[d], R, d, w) /\ w[d].maxWin \in Int
        /\ 0 <= w[d].maxWin /\ w[d].maxWin <= 2 * MaxWin
        /\ At(w[d].end) \in Int /\ At(w[d].maxEnd) \in Int
    BY RecordBounds
  <2>2. MaxWin \in Nat \ {0}
    BY WindowAssumption
  <2>3. 0 <= z[d].maxWin /\ z[d].maxWin <= 2 * MaxWin /\ w[d].maxWin <= z[d].maxWin
    BY <1>2, <2>1, <2>2
  <2>. QED BY <1>2, <2>1, <2>3 DEF RecordOk
<1>4. Ahead(w, z)
  BY <1>3 DEF Ahead
<1>. QED BY <1>2, <1>3, <1>4 DEF z

\* No record is behind itself.
LEMMA AheadSame ==
  ASSUME NEW w \in Records
  PROVE  Ahead(w, w)
<1>1. \A d \in Dirs : /\ w[d].maxWin \in Int /\ At(w[d].end) \in Int
                      /\ At(w[d].maxEnd) \in Int
  BY RecordType, AtType
<1>. QED BY <1>1 DEF Ahead

\* The agreement stays when a box takes the first packet of a line and sends it on: S is the
\* records, with one that has taken it.
LEMMA PacketForwarded ==
  ASSUME NEW s, NEW r, NEW l, NEW R, NEW A, Agreement(s, r, l, R, A),
         NEW S, NEW B, S \subseteq B, B \subseteq Records, Grows(R, S),
         \A f \in Dirs : \A w \in B : RecordOk(s, r, l[f], R, f, w),
         NEW d \in Dirs, l[d] # <<>>, NEW v \in S, Tells(v, d, Head(l[d])),
         NEW u, NEW x, EndTypes(u, x), (u = s /\ x = r) \/ Reached(s, r, u, x, d, Head(l[d])),
         NEW k, k[d] = Tail(l[d]), k[Other(d)] = l[Other(d)]
  PROVE  Agreement(u, x, k, S, B)
<1>1. Agreement(s, r, l, S, B)
  BY RecordsGrow
<1>2. HasTaken(S, d, Head(l[d]))
  BY DEF Tells, HasTaken, EndAt, GrantAt, WinAt
<1>3. Agreement(u, x, l, S, B)
  <2>1. CASE u = s /\ x = r
    BY <1>1, <2>1
  <2>2. CASE Reached(s, r, u, x, d, Head(l[d]))
    BY <1>1, <1>2, <2>2, PacketReaches
  <2>. QED BY <2>1, <2>2
<1>. QED BY <1>3, HeadGone

-----------------------------------------------------------------------------
(* The agreement is invariant                                               *)

\* A line with a packet before it.
LEMMA FirstOfLine ==
  ASSUME NEW S, NEW q \in Seq(S), NEW p \in S
  PROVE  /\ <<p>> \o q \in Seq(S) /\ <<p>> \o q # <<>>
         /\ Head(<<p>> \o q) = p /\ Tail(<<p>> \o q) = q
         /\ \A x \in S : <<p>> \o Append(q, x) = Append(<<p>> \o q, x)
<1>. DEFINE c == <<p>> \o q
<1>1. <<p>> \in Seq(S) /\ Len(<<p>>) = 1 /\ <<p>>[1] = p
  OBVIOUS
<1>2. /\ c \in Seq(S) /\ Len(c) = Len(q) + 1 /\ Len(q) \in Nat
      /\ \A i \in 1 .. Len(q) + 1 : c[i] = IF i <= 1 THEN p ELSE q[i - 1]
  BY <1>1, ConcatProperties
<1>. HIDE DEF c
<1>3. c # <<>> /\ Head(c) = p
  BY <1>2
<1>4. Tail(c) = q
  <2>1. /\ Tail(c) \in Seq(S) /\ Len(Tail(c)) = Len(q)
        /\ \A i \in 1 .. Len(q) : Tail(c)[i] = c[i + 1]
    BY <1>2, <1>3, HeadTailProperties
  <2>2. \A i \in 1 .. Len(q) : c[i + 1] = q[i]
    BY <1>2
  <2>. QED BY <2>1, <2>2, SeqEqual
<1>5. ASSUME NEW x \in S  PROVE <<p>> \o Append(q, x) = Append(c, x)
  <2>1. Append(q, x) = q \o <<x>> /\ Append(c, x) = c \o <<x>> /\ <<x>> \in Seq(S)
    BY <1>2, AppendIsConcat
  <2>. QED BY <1>1, <2>1, ConcatAssociative DEF c
<1>. QED BY <1>2, <1>3, <1>4, <1>5 DEF c

\* A line is its first packet with the others after it.
LEMMA LineParts ==
  ASSUME NEW S, NEW q \in Seq(S), q # <<>>
  PROVE  Tail(q) \in Seq(S) /\ <<Head(q)>> \o Tail(q) = q
<1>1. PICK p \in S, t \in Seq(S) : p = Head(q) /\ t = Tail(q)
  BY HeadTailProperties
<1>2. PICK c \in Seq(S) : c = <<p>> \o t /\ c # <<>> /\ Head(c) = p /\ Tail(c) = t
  BY FirstOfLine
<1>3. /\ Len(q) \in Nat /\ Len(q) >= 1 /\ q[1] = p /\ Len(t) = Len(q) - 1
      /\ \A i \in 1 .. Len(t) : t[i] = q[i + 1]
  BY <1>1, HeadTailProperties
<1>4. /\ Len(c) \in Nat /\ Len(c) >= 1 /\ c[1] = p /\ Len(t) = Len(c) - 1
      /\ \A i \in 1 .. Len(t) : t[i] = c[i + 1]
  BY <1>2, HeadTailProperties
<1>5. \A i \in 1 .. Len(c) : c[i] = q[i]
  <2>1. ASSUME NEW i \in 1 .. Len(c), i # 1  PROVE c[i] = q[i]
    <3>1. PICK j \in 1 .. Len(t) : j + 1 = i
      <4>1. i - 1 \in 1 .. Len(t) /\ i - 1 + 1 = i
        BY <1>4, <2>1
      <4>. QED BY <4>1
    <3>. QED BY <1>3, <1>4, <3>1
  <2>. QED BY <1>3, <1>4, <2>1
<1>6. c = q
  BY <1>3, <1>4, <1>5, SeqEqual
<1>. QED BY <1>1, <1>2, <1>6

\* The packets of a direction whose processor is at c, with packets u before the box, that
\* the box has not sent on.
LineOf(c, u) == IF c.at = "slow" THEN <<c.p>> \o u ELSE u
LinesOf(p, u) == [d \in Dirs |-> LineOf(p[d], u[d])]

\* The records of the box: conntrack's, the engine's, and those of the messages between
\* them; and those that conntrack told for a rule.
RecsOf(c, w, p) == {c} \cup ({w} \ {None}) \cup {p[d].sis : d \in {e \in Dirs : p[e].at = "sync"}}
AllOf(c, w, p) == RecsOf(c, w, p) \cup {p[d].sic : d \in {e \in Dirs : p[e].at = "create"}}

Agreed == Agreement(snd, rcv, LinesOf(cpu, up), RecsOf(ct, win, cpu), AllOf(ct, win, cpu))

\* Is x the record of a message, or of a request for a rule, of a processor at c?
IsSis(c, x) == c.at = "sync" /\ x = c.sis
IsSic(c, x) == c.at = "create" /\ x = c.sic

\* The records of the box by what the two processors do, ...
LEMMA RecsMembers ==
  ASSUME NEW c, NEW w, NEW p, NEW d \in Dirs, NEW x
  PROVE  /\ x \in RecsOf(c, w, p) <=>
              x = c \/ (x = w /\ w # None) \/ IsSis(p[d], x) \/ IsSis(p[Other(d)], x)
         /\ x \in AllOf(c, w, p) <=>
              x \in RecsOf(c, w, p) \/ IsSic(p[d], x) \/ IsSic(p[Other(d)], x)
<1>1. Other(d) \in Dirs /\ \A e \in Dirs : e = d \/ e = Other(d)
  BY Directions
<1>2. x \in RecsOf(c, w, p) <=>
        x = c \/ (x = w /\ w # None) \/ \E e \in Dirs : IsSis(p[e], x)
  BY DEF RecsOf, IsSis
<1>3. x \in AllOf(c, w, p) <=> x \in RecsOf(c, w, p) \/ \E e \in Dirs : IsSic(p[e], x)
  BY DEF AllOf, IsSic
<1>. QED BY <1>1, <1>2, <1>3

\* ... and its lines.
LEMMA LinesMembers ==
  ASSUME NEW p, NEW u, NEW d \in Dirs
  PROVE  LinesOf(p, u)[d] = LineOf(p[d], u[d])
  BY DEF LinesOf

\* The agreement of what the box holds after a step that takes no packet from a line: for
\* every record there is one that is not behind it.
LEMMA BoxGrows ==
  ASSUME NEW s, NEW r, NEW l, NEW R, NEW A, Agreement(s, r, l, R, A), NEW d \in Dirs,
         NEW k, k[d] = l[d], k[Other(d)] = l[Other(d)],
         NEW S, NEW B, S \subseteq B, B \subseteq Records, Grows(R, S),
         \A f \in Dirs : \A w \in B : RecordOk(s, r, l[f], R, f, w)
  PROVE  Agreement(s, r, k, S, B)
<1>1. Agreement(s, r, l, S, B)
  BY RecordsGrow
<1>2. \A f \in Dirs : k[f] = l[f]
  BY Directions
<1>. QED BY <1>1, <1>2 DEF Agreement, Agree

\* What the box holds is in its type, and there is a record that is not behind each of it.
LEMMA BoxAgrees ==
  ASSUME NEW s, NEW r, NEW l, NEW R, NEW A, Agreement(s, r, l, R, A)
  PROVE  /\ R \subseteq A /\ A \subseteq Records
         /\ \A d \in Dirs : \A w \in A : RecordOk(s, r, l[d], R, d, w)
         /\ \A w \in A : Ahead(w, w)
<1>1. /\ R \subseteq A /\ A \subseteq Records
      /\ \A d \in Dirs : \A w \in A : RecordOk(s, r, l[d], R, d, w)
  BY DEF Agreement, Agree
<1>2. \A w \in Records : Ahead(w, w)
  BY AheadSame
<1>. QED BY <1>1, <1>2

\* What a step starts from.
LEMMA BoxHolds ==
  ASSUME Types, Agreed, NEW d \in Dirs
  PROVE  /\ DOMAIN cpu = Dirs /\ DOMAIN up = Dirs /\ Other(d) \in Dirs
         /\ ct \in RecsOf(ct, win, cpu) /\ (win # None => win \in RecsOf(ct, win, cpu))
         /\ cpu[d].at = "sync" => cpu[d].sis \in RecsOf(ct, win, cpu)
         /\ cpu[d].at = "create" => cpu[d].sic \in AllOf(ct, win, cpu)
         /\ RecsOf(ct, win, cpu) \subseteq AllOf(ct, win, cpu)
         /\ AllOf(ct, win, cpu) \subseteq Records
         /\ up[d] \in Seq(Packets(d))
<1>1. DOMAIN cpu = Dirs /\ DOMAIN up = Dirs /\ up[d] \in Seq(Packets(d))
  BY DEF Types, BoxTypes
<1>2. /\ ct \in RecsOf(ct, win, cpu) /\ (win # None => win \in RecsOf(ct, win, cpu))
      /\ cpu[d].at = "sync" => cpu[d].sis \in RecsOf(ct, win, cpu)
      /\ cpu[d].at = "create" => cpu[d].sic \in AllOf(ct, win, cpu)
  BY RecsMembers DEF IsSis, IsSic
<1>3. /\ RecsOf(ct, win, cpu) \subseteq AllOf(ct, win, cpu)
      /\ AllOf(ct, win, cpu) \subseteq Records
  BY BoxAgrees DEF Agreed
<1>. QED BY <1>1, <1>2, <1>3, Directions

\* A message that brings the engine's record back, ...
LEMMA SyncAgrees ==
  ASSUME Room, Types, Agreed, NEW d \in Dirs, Sync(d)
  PROVE  Agreed'
<1>. DEFINE R == RecsOf(ct, win, cpu)
            A == AllOf(ct, win, cpu)
            l == LinesOf(cpu, up)
            o == Other(d)
<1>1. /\ cpu[d].at = "sync" /\ ct' = Merge(ct, cpu[d].sis)
      /\ cpu' = [cpu EXCEPT ![d] = Idle] /\ UNCHANGED <<snd, rcv, up, win>>
  BY DEF Sync, SyncRule
<1>2. PICK v \in R : v = cpu[d].sis
  BY <1>1, BoxHolds
<1>3. cpu'[d] = Idle /\ cpu'[o] = cpu[o] /\ Idle.at = "idle"
  <2>1. DOMAIN cpu = Dirs /\ o \in Dirs /\ o # d
    BY BoxHolds, Directions
  <2>. HIDE DEF o
  <2>. QED BY <1>1, <2>1 DEF Idle
<1>4. Agreement(snd, rcv, l, R, A) /\ R \subseteq A /\ A \subseteq Records
  BY BoxHolds DEF Agreed
<1>5. PICK z \in Records : z = ct' /\ Ahead(ct, z) /\ Ahead(v, z)
                           /\ \A f \in Dirs : RecordOk(snd, rcv, l[f], R, f, z)
  <2>1. ct \in A /\ v \in A
    BY <1>2, <1>4, BoxHolds
  <2>2. /\ Merge(ct, v) \in Records /\ Ahead(ct, Merge(ct, v)) /\ Ahead(v, Merge(ct, v))
        /\ \A f \in Dirs : RecordOk(snd, rcv, l[f], R, f, Merge(ct, v))
    <3>. HIDE DEF l, R, A
    <3>. QED BY <1>4, <2>1, MergeAgrees
  <2>. QED BY <1>1, <1>2, <2>2
<1>6. PICK p, w : p = cpu' /\ w = win
  OBVIOUS
<1>. DEFINE S == RecsOf(z, w, p)
            B == AllOf(z, w, p)
            k == LinesOf(p, up)
<1>7. k[d] = l[d] /\ k[o] = l[o]
  <2>1. LineOf(p[d], up[d]) = LineOf(cpu[d], up[d])
    BY <1>1, <1>3, <1>6 DEF LineOf
  <2>. QED BY <1>3, <1>6, <2>1, LinesMembers, Directions
<1>8. /\ \A x : x \in S <=> x = z \/ (x = win /\ win # None) \/ IsSis(cpu[o], x)
      /\ \A x : x \in B <=> x \in S \/ IsSic(cpu[o], x)
  <2>1. \A x : ~IsSis(p[d], x) /\ ~IsSic(p[d], x)
    BY <1>3, <1>6 DEF IsSis, IsSic
  <2>2. p[o] = cpu[o] /\ w = win
    BY <1>3, <1>6
  <2>. QED BY <2>1, <2>2, RecsMembers, ZenonT(30)
<1>9. /\ \A x : x \in R <=> x = ct \/ (x = win /\ win # None) \/ x = v \/ IsSis(cpu[o], x)
      /\ \A x : x \in A <=> x \in R \/ IsSic(cpu[o], x)
  <2>1. \A x : (IsSis(cpu[d], x) <=> x = v) /\ ~IsSic(cpu[d], x)
    BY <1>1, <1>2 DEF IsSis, IsSic
  <2>. QED BY <2>1, RecsMembers
<1>. HIDE DEF R, A, S, B, l, k, o
<1>10. S \subseteq B /\ B \subseteq Records
  BY <1>4, <1>5, <1>8, <1>9
<1>11. Grows(R, S)
  <2>1. \A x \in A : Ahead(x, x)
    BY <1>4, BoxAgrees
  <2>. QED BY <1>4, <1>5, <1>8, <1>9, <2>1 DEF Grows
<1>12. \A f \in Dirs : \A x \in B : RecordOk(snd, rcv, l[f], R, f, x)
  <2>1. \A f \in Dirs : \A x \in A : RecordOk(snd, rcv, l[f], R, f, x)
    BY <1>4, BoxAgrees
  <2>. QED BY <1>5, <1>8, <1>9, <2>1
<1>13. Agreement(snd, rcv, k, S, B)
  BY <1>4, <1>7, <1>10, <1>11, <1>12, BoxGrows DEF o
<1>. QED BY <1>1, <1>5, <1>6, <1>13 DEF Agreed, k, S, B

\* ... a rule that is made, or that is told what conntrack knows, ...
LEMMA CreateAgrees ==
  ASSUME Room, Types, Agreed, NEW d \in Dirs, CreateRule(d)
  PROVE  Agreed'
<1>. DEFINE R == RecsOf(ct, win, cpu)
            A == AllOf(ct, win, cpu)
            l == LinesOf(cpu, up)
            o == Other(d)
<1>1. /\ cpu[d].at = "create" /\ UNCHANGED <<snd, rcv, up, ct>>
      /\ win' = IF win = None THEN NewWindow(cpu[d].sic) ELSE Merge(win, cpu[d].sic)
      /\ cpu' = [cpu EXCEPT ![d] = Idle]
  BY DEF CreateRule, UpdateTcpState
<1>2. PICK v \in A : v = cpu[d].sic
  BY <1>1, BoxHolds
<1>3. cpu'[d] = Idle /\ cpu'[o] = cpu[o] /\ Idle.at = "idle"
  <2>1. DOMAIN cpu = Dirs /\ o \in Dirs /\ o # d
    BY BoxHolds, Directions
  <2>. HIDE DEF o
  <2>. QED BY <1>1, <2>1 DEF Idle
<1>4. Agreement(snd, rcv, l, R, A) /\ R \subseteq A /\ A \subseteq Records /\ ct \in R
      /\ (win # None => win \in A)
  BY BoxHolds DEF Agreed
<1>5. PICK z \in Records : z = win' /\ z # None /\ (win # None => Ahead(win, z))
                           /\ \A f \in Dirs : RecordOk(snd, rcv, l[f], R, f, z)
  <2>. HIDE DEF l, R, A
  <2>1. CASE win = None
    <3>1. NewWindow(v) \in Records /\ \A f \in Dirs : RecordOk(snd, rcv, l[f], R, f, NewWindow(v))
      BY <1>4, NewWindowAgrees
    <3>. QED BY <1>1, <1>2, <2>1, <3>1, NoneIsNoRecord
  <2>2. CASE win # None
    <3>1. /\ Merge(win, v) \in Records /\ Ahead(win, Merge(win, v))
          /\ \A f \in Dirs : RecordOk(snd, rcv, l[f], R, f, Merge(win, v))
      BY <1>4, <2>2, MergeAgrees
    <3>. QED BY <1>1, <1>2, <2>2, <3>1, NoneIsNoRecord
  <2>. QED BY <2>1, <2>2
<1>6. PICK p : p = cpu'
  OBVIOUS
<1>. DEFINE S == RecsOf(ct, z, p)
            B == AllOf(ct, z, p)
            k == LinesOf(p, up)
<1>7. k[d] = l[d] /\ k[o] = l[o]
  <2>1. LineOf(p[d], up[d]) = LineOf(cpu[d], up[d])
    BY <1>1, <1>3, <1>6 DEF LineOf
  <2>. QED BY <1>3, <1>6, <2>1, LinesMembers, Directions
<1>8. /\ \A x : x \in S <=> x = ct \/ x = z \/ IsSis(cpu[o], x)
      /\ \A x : x \in B <=> x \in S \/ IsSic(cpu[o], x)
  <2>1. \A x : ~IsSis(p[d], x) /\ ~IsSic(p[d], x)
    BY <1>3, <1>6 DEF IsSis, IsSic
  <2>2. p[o] = cpu[o]
    BY <1>3, <1>6
  <2>3. z # None
    BY <1>5
  <2>4. /\ \A x : x \in S <=> x = ct \/ (x = z /\ z # None) \/ IsSis(p[d], x) \/ IsSis(cpu[o], x)
        /\ \A x : x \in B <=> x \in S \/ IsSic(p[d], x) \/ IsSic(cpu[o], x)
    BY <2>2, RecsMembers
  <2>. HIDE DEF S, B, o
  <2>. QED BY <2>1, <2>3, <2>4
<1>9. /\ \A x : x \in R <=> x = ct \/ (x = win /\ win # None) \/ IsSis(cpu[o], x)
      /\ \A x : x \in A <=> x \in R \/ x = v \/ IsSic(cpu[o], x)
  <2>1. \A x : (IsSic(cpu[d], x) <=> x = v) /\ ~IsSis(cpu[d], x)
    BY <1>1, <1>2 DEF IsSis, IsSic
  <2>. QED BY <2>1, RecsMembers
<1>. HIDE DEF R, A, S, B, l, k, o
<1>10. S \subseteq B /\ B \subseteq Records
  BY <1>4, <1>5, <1>8, <1>9
<1>11. Grows(R, S)
  <2>1. \A x \in A : Ahead(x, x)
    BY <1>4, BoxAgrees
  <2>. QED BY <1>4, <1>5, <1>8, <1>9, <2>1 DEF Grows
<1>12. \A f \in Dirs : \A x \in B : RecordOk(snd, rcv, l[f], R, f, x)
  <2>1. \A f \in Dirs : \A x \in A : RecordOk(snd, rcv, l[f], R, f, x)
    BY <1>4, BoxAgrees
  <2>. QED BY <1>5, <1>8, <1>9, <2>1
<1>13. Agreement(snd, rcv, k, S, B)
  BY <1>4, <1>7, <1>10, <1>11, <1>12, BoxGrows DEF o
<1>. QED BY <1>1, <1>5, <1>6, <1>13 DEF Agreed, k, S, B

\* ... a message that takes the engine's record along, with the rule or without, and a packet
\* that takes the slow path change nothing of it.
LEMMA SameAgrees ==
  ASSUME Types, Agreed, NEW d \in Dirs, TimerSync(d) \/ OutOfWindow(d) \/ NotFast(d) \/ Miss(d)
  PROVE  Agreed'
<1>. DEFINE R == RecsOf(ct, win, cpu)
            A == AllOf(ct, win, cpu)
            l == LinesOf(cpu, up)
            o == Other(d)
<1>1. /\ UNCHANGED <<snd, rcv, ct>> /\ cpu[d] = Idle /\ Idle.at = "idle"
      /\ DOMAIN cpu = Dirs /\ DOMAIN up = Dirs /\ up[d] \in Seq(Packets(d))
  <2>1. UNCHANGED <<snd, rcv, ct>> /\ cpu[d] = Idle /\ Idle.at = "idle"
    BY DEF TimerSync, OutOfWindow, NotFast, Miss, RemoveRule, Ready, Idle
  <2>. QED BY <2>1, BoxHolds
<1>2. o \in Dirs /\ o # d
  BY Directions
<1>3. Agreement(snd, rcv, l, R, A) /\ R \subseteq A /\ A \subseteq Records
  BY BoxHolds DEF Agreed
<1>4. PICK p, w, u : p = cpu' /\ w = win' /\ u = up'
  OBVIOUS
<1>5. /\ p[o] = cpu[o] /\ u[o] = up[o] /\ LineOf(p[d], u[d]) = LineOf(cpu[d], up[d])
      /\ \A x : ((x = w /\ w # None) \/ IsSis(p[d], x)) <=> (x = win /\ win # None)
      /\ \A x : ~IsSic(p[d], x)
  <2>. HIDE DEF o
  <2>1. CASE TimerSync(d) \/ OutOfWindow(d) \/ NotFast(d)
    <3>1. /\ win # None /\ p = [cpu EXCEPT ![d] = [at |-> "sync", sis |-> win]]
          /\ u = up /\ (w = win \/ w = None)
      BY <1>4, <2>1 DEF TimerSync, OutOfWindow, NotFast, RemoveRule
    <3>2. p[d] = [at |-> "sync", sis |-> win] /\ p[o] = cpu[o]
      BY <1>1, <1>2, <3>1
    <3>. QED BY <1>1, <3>1, <3>2 DEF IsSis, IsSic, LineOf
  <2>2. CASE Miss(d)
    <3>1. /\ win = None /\ w = None /\ up[d] # <<>>
          /\ p = [cpu EXCEPT ![d] = [at |-> "slow", p |-> Head(up[d])]]
          /\ u = [up EXCEPT ![d] = Tail(up[d])]
      BY <1>4, <2>2 DEF Miss, Ready, Head1
    <3>2. /\ p[d] = [at |-> "slow", p |-> Head(up[d])] /\ p[o] = cpu[o]
          /\ u[d] = Tail(up[d]) /\ u[o] = up[o]
      BY <1>1, <1>2, <3>1
    <3>3. <<Head(up[d])>> \o Tail(up[d]) = up[d]
      BY <1>1, <3>1, LineParts
    <3>4. LineOf(p[d], u[d]) = LineOf(cpu[d], up[d])
      BY <1>1, <3>2, <3>3 DEF LineOf
    <3>5. \A x : ~IsSis(p[d], x) /\ ~IsSic(p[d], x)
      BY <3>2 DEF IsSis, IsSic
    <3>. QED BY <3>1, <3>2, <3>4, <3>5
  <2>. QED BY <2>1, <2>2
<1>. DEFINE S == RecsOf(ct, w, p)
            B == AllOf(ct, w, p)
            k == LinesOf(p, u)
<1>6. k[d] = l[d] /\ k[o] = l[o]
  BY <1>2, <1>5, LinesMembers
<1>7. \A x : (x \in S <=> x \in R) /\ (x \in B <=> x \in A)
  <2>1. \A x : ~IsSis(cpu[d], x) /\ ~IsSic(cpu[d], x)
    BY <1>1 DEF IsSis, IsSic
  <2>2. p[o] = cpu[o]
    BY <1>5
  <2>3. /\ \A x : x \in S <=> x = ct \/ (x = w /\ w # None) \/ IsSis(p[d], x) \/ IsSis(cpu[o], x)
        /\ \A x : x \in B <=> x \in S \/ IsSic(p[d], x) \/ IsSic(cpu[o], x)
    BY <2>2, RecsMembers
  <2>4. /\ \A x : x \in R <=> x = ct \/ (x = win /\ win # None) \/ IsSis(cpu[o], x)
        /\ \A x : x \in A <=> x \in R \/ IsSic(cpu[o], x)
    BY <2>1, RecsMembers
  <2>. HIDE DEF R, A, S, B, o
  <2>. QED BY <1>5, <2>3, <2>4
<1>. HIDE DEF R, A, S, B, l, k, o
<1>8. S = R /\ B = A
  BY <1>7
<1>9. Grows(R, S) /\ \A f \in Dirs : \A x \in B : RecordOk(snd, rcv, l[f], R, f, x)
  <2>1. /\ \A x \in A : Ahead(x, x)
        /\ \A f \in Dirs : \A x \in A : RecordOk(snd, rcv, l[f], R, f, x)
    BY <1>3, BoxAgrees
  <2>. QED BY <1>3, <1>8, <2>1 DEF Grows
<1>10. Agreement(snd, rcv, k, S, B)
  BY <1>3, <1>6, <1>8, <1>9, BoxGrows DEF o
<1>. QED BY <1>1, <1>4, <1>10 DEF Agreed, k, S, B

\* A packet that reaches the other end takes both ends on, or it is lost.
LEMMA DeliverReaches ==
  ASSUME Room, Types, NEW d \in Dirs, NEW p \in Packets(d), Deliver(d, p)
  PROVE  (snd' = snd /\ rcv' = rcv) \/ Reached(snd, rcv, snd', rcv', d, p)
<1>. SUFFICES ASSUME Reach(d, p)  PROVE Reached(snd, rcv, snd', rcv', d, p)
  BY DEF Deliver
<1>1. PICK o \in Dirs : o = Other(d) /\ o # d
  BY Directions
<1>2. /\ snd \in [Dirs -> [nxt : Int, una : Int, lim : Int]]
      /\ rcv \in [Dirs -> [got : SUBSET Int, edge : Int, dup : Int \cup {None}]]
  BY DEF Types, EndTypes
<1>3. PICK una, lim, got :
        /\ una = Max({snd[o].una, p.ack}) /\ lim = Max({snd[o].lim, p.ack + p.win})
        /\ got = rcv[d].got \cup {n \in Payload(p) : n < rcv[d].edge}
  OBVIOUS
<1>4. /\ snd' = [snd EXCEPT ![o].una = una, ![o].lim = lim]
      /\ rcv' = [rcv EXCEPT ![d].got = got, ![d].dup = rcv[d].dup]
  BY <1>1, <1>2, <1>3 DEF Reach, Room
<1>5. una = Greater(snd[o].una, p.ack) /\ lim = Greater(snd[o].lim, p.ack + p.win)
  <2>1. PICK x \in Int, y \in Int, a \in Int, g \in Int :
          x = snd[o].una /\ y = snd[o].lim /\ a = p.ack /\ g = p.ack + p.win
    <3>1. p.ack \in Int /\ p.win \in Int
      BY PacketType, WindowAssumption
    <3>2. p.ack + p.win \in Int
      BY <3>1
    <3>. QED BY <1>2, <3>1, <3>2
  <2>2. Max({x, a}) = Greater(x, a) /\ Max({y, g}) = Greater(y, g)
    BY MinMax DEF Greater
  <2>. QED BY <1>3, <2>1, <2>2
<1>6. /\ snd'[d] = snd[d] /\ snd'[o].nxt = snd[o].nxt /\ snd'[o].una = una /\ snd'[o].lim = lim
  BY <1>1, <1>2, <1>4
<1>7. /\ rcv'[o] = rcv[o] /\ rcv'[d].got = got /\ rcv'[d].edge = rcv[d].edge
      /\ rcv'[d].dup = rcv[d].dup
  BY <1>1, <1>2, <1>4
<1>. QED BY <1>1, <1>3, <1>5, <1>6, <1>7 DEF Reached

\* recv_tcp passes the first packet of a line on, and has taken it.
LEMMA ForwardAgrees ==
  ASSUME Room, Types, Agreed, NEW d \in Dirs, Forward(d)
  PROVE  Agreed'
<1>. DEFINE R == RecsOf(ct, win, cpu)
            A == AllOf(ct, win, cpu)
            l == LinesOf(cpu, up)
            o == Other(d)
<1>1. /\ cpu[d] = Idle /\ Idle.at = "idle" /\ up[d] # <<>> /\ win # None
      /\ win' = Track(win, d, Head(up[d])) /\ up' = [up EXCEPT ![d] = Tail(up[d])]
      /\ Deliver(d, Head(up[d])) /\ UNCHANGED <<ct, cpu>> /\ Head(up[d]) \in Packets(d)
  <2>1. Ready(d)
    BY DEF Forward
  <2>2. Head1(d) \in Packets(d)
    BY <2>1, HeadType
  <2>. QED BY <2>2 DEF Forward, Ready, Idle, Head1
<1>2. o \in Dirs /\ o # d /\ DOMAIN up = Dirs
  BY BoxHolds, Directions
<1>3. Agreement(snd, rcv, l, R, A) /\ R \subseteq A /\ A \subseteq Records /\ win \in A
  BY <1>1, BoxHolds DEF Agreed
<1>4. l[d] = up[d]
  BY <1>1, LinesMembers DEF LineOf
<1>5. PICK z \in Records : z = win' /\ z # None /\ Ahead(win, z) /\ Tells(z, d, Head(l[d]))
                           /\ \A f \in Dirs : RecordOk(snd, rcv, l[f], R, f, z)
  <2>1. IsTaken(snd, rcv, l, R, d, win, Track(win, d, Head(l[d])))
    <3>. HIDE DEF l, R, A
    <3>. QED BY <1>1, <1>3, <1>4, TrackAgrees
  <2>. QED BY <1>1, <1>4, <2>1, NoneIsNoRecord DEF IsTaken
<1>6. PICK u, x, y : u = up' /\ x = snd' /\ y = rcv'
  OBVIOUS
<1>7. EndTypes(x, y) /\ ((x = snd /\ y = rcv) \/ Reached(snd, rcv, x, y, d, Head(l[d])))
  BY <1>1, <1>4, <1>6, EndStep, DeliverReaches
<1>. DEFINE S == RecsOf(ct, z, cpu)
            B == AllOf(ct, z, cpu)
            k == LinesOf(cpu, u)
<1>8. k[d] = Tail(l[d]) /\ k[o] = l[o]
  <2>1. u[d] = Tail(up[d]) /\ u[o] = up[o]
    BY <1>1, <1>2, <1>6
  <2>2. LineOf(cpu[d], u[d]) = Tail(up[d])
    BY <1>1, <2>1 DEF LineOf
  <2>3. /\ k[d] = LineOf(cpu[d], u[d]) /\ k[o] = LineOf(cpu[o], u[o])
        /\ l[o] = LineOf(cpu[o], up[o])
    BY <1>2, LinesMembers
  <2>. HIDE DEF k, l, o
  <2>. QED BY <1>4, <2>1, <2>2, <2>3
<1>9. /\ \A v : v \in S <=> v = ct \/ v = z \/ IsSis(cpu[o], v)
      /\ \A v : v \in B <=> v \in S \/ IsSic(cpu[o], v)
      /\ \A v : v \in R <=> v = ct \/ v = win \/ IsSis(cpu[o], v)
      /\ \A v : v \in A <=> v \in R \/ IsSic(cpu[o], v)
  <2>1. \A v : ~IsSis(cpu[d], v) /\ ~IsSic(cpu[d], v)
    BY <1>1 DEF IsSis, IsSic
  <2>2. z # None /\ win # None
    BY <1>1, <1>5
  <2>. QED BY <2>1, <2>2, RecsMembers
<1>. HIDE DEF R, A, S, B, l, k, o
<1>10. S \subseteq B /\ B \subseteq Records /\ z \in S
  BY <1>3, <1>5, <1>9
<1>11. Grows(R, S)
  <2>1. \A v \in A : Ahead(v, v)
    BY <1>3, BoxAgrees
  <2>. QED BY <1>3, <1>5, <1>9, <2>1 DEF Grows
<1>12. \A f \in Dirs : \A v \in B : RecordOk(snd, rcv, l[f], R, f, v)
  <2>1. \A f \in Dirs : \A v \in A : RecordOk(snd, rcv, l[f], R, f, v)
    BY <1>3, BoxAgrees
  <2>. QED BY <1>5, <1>9, <2>1
<1>13. l[d] # <<>> /\ k[d] = Tail(l[d]) /\ k[Other(d)] = l[Other(d)]
  BY <1>1, <1>4, <1>8 DEF o
<1>14. Agreement(x, y, k, S, B)
  BY <1>3, <1>5, <1>7, <1>10, <1>11, <1>12, <1>13, PacketForwarded
<1>. QED BY <1>1, <1>5, <1>6, <1>14 DEF Agreed, k, S, B

\* conntrack takes the first packet of a line, which has taken the slow path, and passes it on.
LEMMA SlowPathAgrees ==
  ASSUME Room, Types, Agreed, NEW d \in Dirs, SlowPath(d)
  PROVE  Agreed'
<1>. DEFINE R == RecsOf(ct, win, cpu)
            A == AllOf(ct, win, cpu)
            l == LinesOf(cpu, up)
            o == Other(d)
<1>1. PICK p \in Packets(d) : p = cpu[d].p /\ cpu[d].at = "slow"
  BY StepType DEF SlowPath
<1>2. /\ ct' = Conntrack(ct, d, p) /\ Deliver(d, p) /\ UNCHANGED <<up, win>>
      /\ cpu' \in {[cpu EXCEPT ![d] = Idle], [cpu EXCEPT ![d] = [at |-> "create", sic |-> ct']]}
  BY <1>1 DEF SlowPath
<1>3. o \in Dirs /\ o # d /\ DOMAIN cpu = Dirs /\ up[d] \in Seq(Packets(d))
  BY BoxHolds, Directions
<1>4. Agreement(snd, rcv, l, R, A) /\ R \subseteq A /\ A \subseteq Records /\ ct \in A
  BY BoxHolds DEF Agreed
<1>5. l[d] # <<>> /\ Head(l[d]) = p /\ Tail(l[d]) = up[d]
  <2>1. l[d] = <<p>> \o up[d]
    BY <1>1, LinesMembers DEF LineOf
  <2>2. /\ <<p>> \o up[d] # <<>> /\ Head(<<p>> \o up[d]) = p /\ Tail(<<p>> \o up[d]) = up[d]
    BY <1>3, FirstOfLine
  <2>. HIDE DEF l
  <2>. QED BY <2>1, <2>2
<1>6. PICK z \in Records : z = ct' /\ Ahead(ct, z) /\ Tells(z, d, Head(l[d]))
                           /\ \A f \in Dirs : RecordOk(snd, rcv, l[f], R, f, z)
  <2>1. IsTaken(snd, rcv, l, R, d, ct, Conntrack(ct, d, Head(l[d])))
    <3>. HIDE DEF l, R, A
    <3>. QED BY <1>4, <1>5, ConntrackAgrees
  <2>. QED BY <1>2, <1>5, <2>1 DEF IsTaken
<1>7. PICK q, x, y : q = cpu' /\ x = snd' /\ y = rcv'
  OBVIOUS
<1>8. EndTypes(x, y) /\ ((x = snd /\ y = rcv) \/ Reached(snd, rcv, x, y, d, Head(l[d])))
  BY <1>2, <1>5, <1>7, EndStep, DeliverReaches
<1>9. /\ q[o] = cpu[o] /\ LineOf(q[d], up[d]) = up[d]
      /\ \A v : ~IsSis(q[d], v) /\ (IsSic(q[d], v) => v = z)
  <2>1. q = [cpu EXCEPT ![d] = Idle] \/ q = [cpu EXCEPT ![d] = [at |-> "create", sic |-> z]]
    BY <1>2, <1>6, <1>7
  <2>. HIDE DEF o
  <2>2. q[o] = cpu[o] /\ (q[d] = Idle \/ q[d] = [at |-> "create", sic |-> z])
    BY <1>3, <2>1
  <2>. QED BY <2>2 DEF Idle, LineOf, IsSis, IsSic
<1>. DEFINE S == RecsOf(z, win, q)
            B == AllOf(z, win, q)
            k == LinesOf(q, up)
<1>10. k[d] = Tail(l[d]) /\ k[o] = l[o]
  <2>1. /\ k[d] = LineOf(q[d], up[d]) /\ k[o] = LineOf(q[o], up[o])
        /\ l[o] = LineOf(cpu[o], up[o])
    BY <1>3, LinesMembers
  <2>. HIDE DEF k, l, o
  <2>. QED BY <1>5, <1>9, <2>1
<1>11. /\ \A v : v \in S <=> v = z \/ (v = win /\ win # None) \/ IsSis(cpu[o], v)
       /\ \A v : v \in B => v \in S \/ v = z \/ IsSic(cpu[o], v)
       /\ S \subseteq B
  <2>1. q[o] = cpu[o]
    BY <1>9
  <2>2. /\ \A v : v \in S <=> v = z \/ (v = win /\ win # None) \/ IsSis(q[d], v) \/ IsSis(cpu[o], v)
        /\ \A v : v \in B <=> v \in S \/ IsSic(q[d], v) \/ IsSic(cpu[o], v)
    BY <2>1, RecsMembers
  <2>. HIDE DEF S, B, o
  <2>. QED BY <1>9, <2>2
<1>12. /\ \A v : v \in R <=> v = ct \/ (v = win /\ win # None) \/ IsSis(cpu[o], v)
       /\ \A v : v \in A <=> v \in R \/ IsSic(cpu[o], v)
  <2>1. \A v : ~IsSis(cpu[d], v) /\ ~IsSic(cpu[d], v)
    BY <1>1 DEF IsSis, IsSic
  <2>. QED BY <2>1, RecsMembers
<1>. HIDE DEF R, A, S, B, l, k, o
<1>13. B \subseteq Records /\ z \in S
  BY <1>4, <1>6, <1>11, <1>12
<1>14. Grows(R, S)
  <2>1. \A v \in A : Ahead(v, v)
    BY <1>4, BoxAgrees
  <2>. QED BY <1>4, <1>6, <1>11, <1>12, <2>1 DEF Grows
<1>15. \A f \in Dirs : \A v \in B : RecordOk(snd, rcv, l[f], R, f, v)
  <2>1. \A f \in Dirs : \A v \in A : RecordOk(snd, rcv, l[f], R, f, v)
    BY <1>4, BoxAgrees
  <2>. QED BY <1>6, <1>11, <1>12, <2>1
<1>16. l[d] # <<>> /\ k[d] = Tail(l[d]) /\ k[Other(d)] = l[Other(d)]
  BY <1>5, <1>10 DEF o
<1>17. Agreement(x, y, k, S, B)
  BY <1>4, <1>6, <1>8, <1>11, <1>13, <1>14, <1>15, <1>16, PacketForwarded
<1>. QED BY <1>2, <1>6, <1>7, <1>17 DEF Agreed, k, S, B

\* What an end sends, it may send, and it tells what its own receiver got.
LEMMA SendSends ==
  ASSUME Types, NEW d \in Dirs, Send(d), rcv[Other(d)].dup = None
  PROVE  \E p \in Packets(d) : /\ Sent(snd, rcv, snd', rcv', d, p)
                               /\ up' = [up EXCEPT ![d] = Append(up[d], p)]
<1>1. PICK o \in Dirs : o = Other(d) /\ o # d
  BY Directions
<1>2. PICK seq \in snd[d].una - 1 .. snd[d].nxt, len \in 0 .. MaxLen, w \in 0 .. MaxWin :
         Sends(d, seq, len, w)
  BY DEF Send, Sends
<1>3. PICK p : p = [seq |-> seq, len |-> len, ack |-> RcvNxt(o), win |-> w, edges |-> Edges(o)]
  OBVIOUS
<1>4. /\ len > 0 => seq >= snd[d].una /\ seq + len <= Min({snd[d].lim, First + Bytes[d]})
      /\ RcvNxt(o) + w >= rcv[o].edge
      /\ up' = [up EXCEPT ![d] = Append(up[d], p)]
      /\ snd' = [snd EXCEPT ![d].nxt = Max({@, seq + len})]
      /\ rcv' = [rcv EXCEPT ![o].edge = RcvNxt(o) + w, ![o].dup = None]
  <2>1. len > 0 => seq >= snd[d].una
    BY <1>2 DEF Sends
  <2>. QED BY <1>1, <1>2, <1>3, <2>1 DEF Sends
<1>5. p.seq = seq /\ p.len = len /\ p.ack = RcvNxt(o) /\ p.win = w /\ p.edges = Edges(o)
  BY <1>3
<1>6. p \in Packets(d)
  <2>1. PICK q \in Packets(d) : up' = [up EXCEPT ![d] = Append(up[d], q)]
    BY SendTypes
  <2>2. DOMAIN up = Dirs /\ up[d] \in Seq(Packets(d))
    BY DEF Types, BoxTypes
  <2>3. up'[d] = Append(up[d], p) /\ up'[d] = Append(up[d], q)
    BY <1>4, <2>1, <2>2
  <2>4. Append(up[d], p) = Append(up[d], q) => p = q
    BY <2>2
  <2>. QED BY <2>3, <2>4
<1>7. /\ snd \in [Dirs -> [nxt : Int, una : Int, lim : Int]]
      /\ rcv \in [Dirs -> [got : SUBSET Int, edge : Int, dup : Int \cup {None}]]
      /\ snd[d].nxt \in Int /\ snd[d].una \in Int /\ snd[d].lim \in Int
      /\ Bytes[d] \in Nat /\ First \in Int /\ First + Bytes[d] \in Int
  BY Directions, WindowAssumption DEF Types, EndTypes
<1>8. seq \in Int /\ len \in Int /\ len >= 0 /\ snd[d].una - 1 <= seq /\ seq <= snd[d].nxt
      /\ seq + len \in Int
  BY <1>2, <1>7, WindowAssumption
<1>9. len > 0 => seq + len <= snd[d].lim
  <2>1. PICK x \in Int, y \in Int, z \in Int :
          x = snd[d].lim /\ y = First + Bytes[d] /\ z = seq + len
    BY <1>7, <1>8
  <2>2. Min({x, y}) = IF x < y THEN x ELSE y
    BY MinMax
  <2>3. len > 0 => z <= Min({x, y})
    BY <1>4, <2>1
  <2>. QED BY <2>1, <2>2, <2>3
<1>10. PICK n : n = Max({snd[d].nxt, seq + len})
  OBVIOUS
<1>11. n = Greater(snd[d].nxt, seq + len)
  BY <1>7, <1>8, <1>10, MinMax DEF Greater
<1>12. /\ RcvNxt(o) = NextOf(rcv[o].got, o) /\ RcvNxt(o) \in Int
       /\ \A e \in Edges(o) : RcvNxt(o) <= e /\ e - 1 \in rcv[o].got
  <2>1. /\ RcvNxt(o) = NextOf(rcv[o].got, o) /\ RcvNxt(o) \in EndsOf(o)
        /\ rcv[o].got \subseteq BytesOf(o)
    BY RcvNxtType
  <2>2. RcvNxt(o) \in Int /\ rcv[o].got \subseteq Int
    BY <2>1, Directions, WindowAssumption DEF EndsOf, BytesOf
  <2>3. Edges(o) = Islands(o)
    BY <1>1 DEF Edges
  <2>. QED BY <2>1, <2>2, <2>3 DEF Islands
<1>13. PICK g : g = RcvNxt(o) + w
  OBVIOUS
<1>14. /\ snd'[d].nxt = n /\ snd'[d].una = snd[d].una /\ snd'[d].lim = snd[d].lim
       /\ snd'[o] = snd[o]
  <2>1. snd' = [snd EXCEPT ![d].nxt = n]
    BY <1>4, <1>10
  <2>. QED BY <1>1, <1>7, <2>1
<1>15. /\ rcv'[d] = rcv[d] /\ rcv'[o].got = rcv[o].got /\ rcv'[o].edge = g
       /\ rcv'[o].dup = None
  <2>1. rcv' = [rcv EXCEPT ![o].edge = g, ![o].dup = None]
    BY <1>4, <1>13
  <2>. QED BY <1>1, <1>7, <2>1
<1>16. w \in Int
  BY WindowAssumption
<1>17. rcv[o].edge \in Int
  BY <1>7
<1>18. /\ snd[d].una - 1 <= p.seq /\ p.seq <= snd[d].nxt
       /\ p.len > 0 => snd[d].una <= p.seq /\ p.seq + p.len <= snd[d].lim
  BY <1>4, <1>5, <1>7, <1>8, <1>9
<1>19. p.ack = NextOf(rcv[o].got, o) /\ rcv[o].edge <= p.ack + p.win
  BY <1>4, <1>5, <1>12, <1>16, <1>17
<1>. HIDE DEF Greater
<1>20. Sent(snd, rcv, snd', rcv', d, p)
  BY <1>1, <1>5, <1>11, <1>12, <1>13, <1>14, <1>15, <1>18, <1>19 DEF Sent
<1>. QED BY <1>4, <1>6, <1>20

\* An end sends a packet to the box.
LEMMA SendAgrees ==
  ASSUME Types, Agreed, NEW d \in Dirs, Send(d)
  PROVE  Agreed'
<1>. DEFINE R == RecsOf(ct, win, cpu)
            A == AllOf(ct, win, cpu)
            l == LinesOf(cpu, up)
            o == Other(d)
<1>1. o \in Dirs /\ o # d /\ DOMAIN up = Dirs /\ up[d] \in Seq(Packets(d))
  BY BoxHolds, Directions
<1>2. Agreement(snd, rcv, l, R, A) /\ UNCHANGED <<ct, win, cpu>>
  BY DEF Agreed, Send
<1>3. PICK p \in Packets(d) : /\ Sent(snd, rcv, snd', rcv', d, p)
                              /\ up' = [up EXCEPT ![d] = Append(up[d], p)]
  <2>1. rcv[o].dup = None
    BY <1>1, <1>2 DEF Agreement, Agree, ReceiverOk
  <2>. QED BY <2>1, SendSends
<1>4. PICK u, x, y : u = up' /\ x = snd' /\ y = rcv'
  OBVIOUS
<1>5. EndTypes(x, y) /\ Sent(snd, rcv, x, y, d, p)
  BY <1>3, <1>4, EndStep
<1>. DEFINE k == LinesOf(cpu, u)
<1>6. k[d] = Append(l[d], p) /\ k[o] = l[o]
  <2>1. u[d] = Append(up[d], p) /\ u[o] = up[o]
    <3>1. PICK q : q = Append(up[d], p)
      OBVIOUS
    <3>. HIDE DEF o
    <3>. QED BY <1>1, <1>3, <1>4, <3>1
  <2>2. LineOf(cpu[d], u[d]) = Append(LineOf(cpu[d], up[d]), p)
    <3>1. CASE cpu[d].at = "slow"
      <4>1. cpu[d].p \in Packets(d)
        BY <3>1, StepType
      <4>2. <<cpu[d].p>> \o Append(up[d], p) = Append(<<cpu[d].p>> \o up[d], p)
        BY <1>1, <4>1, FirstOfLine
      <4>. QED BY <2>1, <3>1, <4>2 DEF LineOf
    <3>2. CASE cpu[d].at # "slow"
      BY <2>1, <3>2 DEF LineOf
    <3>. QED BY <3>1, <3>2
  <2>3. /\ k[d] = LineOf(cpu[d], u[d]) /\ k[o] = LineOf(cpu[o], u[o])
        /\ l[o] = LineOf(cpu[o], up[o]) /\ l[d] = LineOf(cpu[d], up[d])
    BY <1>1, LinesMembers
  <2>. HIDE DEF k, l, o
  <2>. QED BY <2>1, <2>2, <2>3
<1>7. Longer(k, l, d, p)
  <2>. HIDE DEF k, l
  <2>. QED BY <1>6 DEF Longer
<1>. HIDE DEF R, A, l, k, o
<1>8. Agreement(x, y, k, R, A)
  BY <1>2, <1>5, <1>7, PacketSent
<1>. QED BY <1>2, <1>4, <1>8 DEF Agreed, k, R, A

\* At the start the record of conntrack is that of the two ends.
LEMMA InitAgrees ==
  ASSUME Room, Init
  PROVE  Agreed
<1>. DEFINE R == RecsOf(ct, win, cpu)
            A == AllOf(ct, win, cpu)
            l == LinesOf(cpu, up)
<1>1. /\ snd = [d \in Dirs |-> [nxt |-> First, una |-> First, lim |-> First + MaxWin]]
      /\ rcv = [d \in Dirs |-> [got |-> {}, edge |-> First + MaxWin, dup |-> None]]
      /\ up = [d \in Dirs |-> <<>>] /\ win = None /\ cpu = [d \in Dirs |-> Idle]
      /\ ct = [d \in Dirs |-> [maxWin |-> MaxWin, end |-> First % M,
                               maxEnd |-> (First + MaxWin) % M]]
  BY DEF Init
<1>2. PICK g \in Int : /\ g = First + MaxWin /\ First <= g /\ g - First = MaxWin
                       /\ First \in Int /\ MaxWin \in Int /\ 0 <= MaxWin
                       /\ g <= g + 2 * MaxWin /\ MaxWin <= 2 * MaxWin /\ First <= First
  <2>1. First \in Int /\ MaxWin \in Nat
    BY WindowAssumption
  <2>. QED BY <2>1
<1>3. ASSUME NEW d \in Dirs
      PROVE  /\ ct[d].maxWin = MaxWin /\ At(ct[d].end) = First /\ At(ct[d].maxEnd) = g
             /\ NextOf({}, d) = First
  <2>1. /\ Bytes[d] + 3 * MaxWin + AckWindow + 2 < H /\ Bytes[d] \in Nat /\ AckWindow \in Nat
        /\ H \in Nat /\ MaxWin \in Nat /\ First \in Int
    BY Directions, TwoHalves, WindowAssumption DEF Room
  <2>2. At(First % M) = First
    <3>1. First % M \in Int /\ Congruent(First % M, First, M)
      <4>1. First % M \in Numbers /\ Congruent(First % M, First, M)
        BY <2>1, HeaderForm
      <4>. QED BY <4>1 DEF Numbers
    <3>2. -H <= First - First /\ First - First < H
      BY <2>1
    <3>. QED BY <2>1, <3>1, <3>2, AtIs
  <2>3. At(g % M) = g
    <3>1. g % M \in Int /\ Congruent(g % M, g, M)
      <4>1. g % M \in Numbers /\ Congruent(g % M, g, M)
        BY HeaderForm
      <4>. QED BY <4>1 DEF Numbers
    <3>2. -H <= g - First /\ g - First < H
      BY <1>2, <2>1
    <3>. QED BY <2>1, <3>1, <3>2, AtIs
  <2>4. NextOf({}, d) = First
    <3>1. NextOf({}, d) \in EndsOf(d) /\ \A n \in BytesOf(d) : n < NextOf({}, d) => n \in {}
      <4>1. {} \in SUBSET BytesOf(d)
        OBVIOUS
      <4>. QED BY <4>1, NextIsFirst
    <3>. QED BY <2>1, <3>1 DEF EndsOf, BytesOf
  <2>. QED BY <1>1, <1>2, <2>2, <2>3, <2>4
<1>4. ASSUME NEW d \in Dirs
      PROVE  /\ snd[d].nxt = First /\ snd[d].una = First /\ snd[d].lim = g
             /\ rcv[d].got = {} /\ rcv[d].edge = g /\ rcv[d].dup = None
             /\ l[d] = <<>>
  <2>1. LineOf(cpu[d], up[d]) = <<>>
    BY <1>1 DEF LineOf, Idle
  <2>. QED BY <1>1, <1>2, <2>1, LinesMembers
<1>5. R = {ct} /\ A = {ct}
  <2>1. \A d \in Dirs : cpu[d].at = "idle"
    BY <1>1 DEF Idle
  <2>. QED BY <1>1, <2>1 DEF RecsOf, AllOf
<1>6. EndTypes(snd, rcv) /\ ct \in Records
  BY InitTypes DEF Types, BoxTypes
<1>. HIDE DEF R, A, l
<1>7. ASSUME NEW d \in Dirs, NEW o \in Dirs, o = Other(d)
      PROVE  Agree(snd, rcv, l, R, A, d)
  <2>1. Len(l[d]) = 0 /\ l[d] \in Seq(Packets(d)) /\ ~(\E i \in 1 .. Len(l[d]) : TRUE)
    <3>1. l[d] = <<>>
      BY <1>4
    <3>. QED BY <3>1
  <2>2. GrantAt(R, d, g) /\ WinAt(R, o, MaxWin)
    <3>1. g <= At(ct[d].maxEnd) /\ MaxWin <= ct[o].maxWin
      BY <1>2, <1>3
    <3>. QED BY <1>5, <3>1 DEF GrantAt, WinAt
  <2>3. SenderOk(snd, rcv, R, d)
    <3>1. NextOf(rcv[d].got, d) = First
      BY <1>3, <1>4
    <3>2. snd[d].lim - snd[d].una = MaxWin
      BY <1>2, <1>4
    <3>3. /\ First <= snd[d].una /\ snd[d].una <= First
          /\ snd[d].nxt <= snd[d].lim /\ snd[d].lim <= rcv[d].edge
      BY <1>2, <1>4
    <3>. QED BY <1>4, <1>7, <2>2, <3>1, <3>2, <3>3 DEF SenderOk
  <2>4. ReceiverOk(snd, rcv, R, d)
    <3>1. NextOf(rcv[d].got, d) = First
      BY <1>3, <1>4
    <3>2. g <= First + MaxWin
      BY <1>2
    <3>. QED BY <1>4, <3>1, <3>2 DEF ReceiverOk
  <2>5. LineOk(snd, rcv, l[d], R, d)
    BY <2>1 DEF LineOk
  <2>6. RecordOk(snd, rcv, l[d], R, d, ct)
    BY <1>2, <1>3, <1>4, <2>1 DEF RecordOk
  <2>. QED BY <1>5, <2>1, <2>3, <2>4, <2>5, <2>6 DEF Agree
<1>. QED BY <1>5, <1>6, <1>7, Directions DEF Agreement, Agreed, R, A, l

\* The two ends, their packets and the records of the box always agree.
LEMMA AgreedInvariant ==
  ASSUME Room
  PROVE  Spec => [](Types /\ Agreed)
<1>1. Init => Types /\ Agreed
  BY InitTypes, InitAgrees
<1>2. Types /\ Agreed /\ [Next]_vars => Types' /\ Agreed'
  <2>. SUFFICES ASSUME Types, Agreed, [Next]_vars  PROVE Types' /\ Agreed'
    OBVIOUS
  <2>1. Types'
    BY TypesStep
  <2>2. CASE Next
    <3>1. PICK d \in Dirs :
            \/ Send(d) \/ Forward(d) \/ Sync(d) \/ Miss(d) \/ SlowPath(d) \/ CreateRule(d)
            \/ TimerSync(d) \/ OutOfWindow(d) \/ NotFast(d)
      BY <2>2 DEF Next
    <3>2. Agreed'
      BY <3>1, SendAgrees, ForwardAgrees, SyncAgrees, SlowPathAgrees, CreateAgrees, SameAgrees
    <3>. QED BY <2>1, <3>2
  <2>3. CASE UNCHANGED vars
    BY <2>1, <2>3 DEF vars, Agreed
  <2>. QED BY <2>2, <2>3
<1>. QED BY <1>1, <1>2, PTL DEF Spec

-----------------------------------------------------------------------------
(* What the agreement says of the engine                                    *)

\* A number within the bounds of its connection is at its place from either end.
LEMMA LiftIsAt ==
  ASSUME Room, NEW s, NEW r, EndTypes(s, r), NEW d \in Dirs, NEW x \in Int,
         First <= At(x), At(x) <= First + Bytes[d] + 3 * MaxWin
  PROVE  Lift(x, s[d].nxt) = At(x)
<1>1. /\ Bytes[d] + 3 * MaxWin + AckWindow + 2 < H /\ Bytes[d] \in Nat /\ AckWindow \in Nat
      /\ H \in Nat /\ MaxWin \in Nat /\ First \in Int
  BY Directions, TwoHalves, WindowAssumption DEF Room
<1>2. PICK n \in Int : n = s[d].nxt /\ First <= n /\ n <= First + Bytes[d]
  BY EndNumbers
<1>3. PICK a \in Int : a = At(x) /\ Congruent(x, a, M)
  BY AtType
<1>4. Congruent(n, n, M)
  BY WindowAssumption DEF Congruent
<1>5. -H <= a - n /\ a - n < H
  BY <1>1, <1>2, <1>3
<1>6. Signed(x - n) = a - n
  BY <1>3, <1>4, <1>5, SignedDiff
<1>. QED BY <1>2, <1>3, <1>6 DEF Lift

\* Neither the engine nor conntrack takes a sender to be further than it is
\* (sfe_ipv4_recv_tcp, sfe_ipv4_update_tcp_state and sfe_cm_sync_rule: every end that they
\* write down is the end of a packet).
THEOREM NoEndIsAhead ==
  ASSUME Room
  PROVE  Spec => []EndWasSent
<1>1. Types /\ Agreed => EndWasSent
  <2>. SUFFICES ASSUME Types, Agreed, NEW d \in Dirs, NEW w \in AllOf(ct, win, cpu)
                PROVE  Lift(w[d].end, snd[d].nxt) <= snd[d].nxt
    BY BoxHolds DEF EndWasSent
  <2>. DEFINE R == RecsOf(ct, win, cpu)
              A == AllOf(ct, win, cpu)
              l == LinesOf(cpu, up)
  <2>1. Agreement(snd, rcv, l, R, A) /\ EndTypes(snd, rcv)
    BY DEF Agreed, Agreement
  <2>. HIDE DEF R, A, l
  <2>2. /\ w[d].end \in Int /\ At(w[d].end) \in Int
        /\ First <= At(w[d].end) /\ At(w[d].end) <= First + Bytes[d]
        /\ RecordOk(snd, rcv, l[d], R, d, w)
    BY <2>1, RecordBounds DEF A
  <2>3. At(w[d].end) <= First + Bytes[d] + 3 * MaxWin
    BY <2>2, Directions, WindowAssumption
  <2>4. Lift(w[d].end, snd[d].nxt) = At(w[d].end)
    BY <2>1, <2>2, <2>3, LiftIsAt
  <2>. QED BY <2>2, <2>4 DEF RecordOk
<1>. QED BY <1>1, AgreedInvariant, PTL

\* The engine lets no sender run further ahead of its receiver than the edge that was granted
\* and twice what may be acknowledged selectively (sfe_ipv4_recv_tcp adds that to the ack and
\* to the window).
THEOREM NoGrantIsAhead ==
  ASSUME Room
  PROVE  Spec => []GrantBounded
<1>1. Types /\ Agreed => GrantBounded
  <2>. SUFFICES ASSUME Types, Agreed, win # None, NEW d \in Dirs
                PROVE  /\ Lift(win[d].maxEnd, snd[d].nxt) <= rcv[d].edge + 2 * MaxWin
                       /\ win[d].maxWin <= 2 * MaxWin
    BY DEF GrantBounded
  <2>. DEFINE R == RecsOf(ct, win, cpu)
              A == AllOf(ct, win, cpu)
              l == LinesOf(cpu, up)
  <2>1. Agreement(snd, rcv, l, R, A) /\ EndTypes(snd, rcv) /\ win \in A
    BY BoxHolds DEF Agreed, Agreement
  <2>. HIDE DEF R, A, l
  <2>2. /\ win[d].maxEnd \in Int /\ At(win[d].maxEnd) \in Int
        /\ First <= At(win[d].maxEnd) /\ At(win[d].maxEnd) <= rcv[d].edge + 2 * MaxWin
        /\ rcv[d].edge \in Int /\ rcv[d].edge <= First + Bytes[d] + MaxWin
        /\ win[d].maxWin <= 2 * MaxWin
    BY <2>1, RecordBounds
  <2>3. At(win[d].maxEnd) <= First + Bytes[d] + 3 * MaxWin
    BY <2>2, Directions, WindowAssumption
  <2>4. Lift(win[d].maxEnd, snd[d].nxt) = At(win[d].maxEnd)
    BY <2>1, <2>2, <2>3, LiftIsAt
  <2>. QED BY <2>2, <2>4
<1>. QED BY <1>1, AgreedInvariant, PTL

\* When the rule is gone and its message delivered, conntrack knows of everything that the
\* receivers got by the fast path (sfe_ipv4_flush_connection, sfe_cm_sync_rule).
THEOREM ConntrackKnows ==
  ASSUME Room
  PROVE  Spec => []ConntrackCaughtUp
<1>1. Types /\ Agreed => ConntrackCaughtUp
  <2>. SUFFICES ASSUME Types, Agreed, win = None, \A e \in Dirs : cpu[e].at # "sync",
                       NEW d \in Dirs, NEW n \in rcv[d].got
                PROVE  Lift(ct[d].end, snd[d].nxt) > n
    BY DEF ConntrackCaughtUp
  <2>. DEFINE R == RecsOf(ct, win, cpu)
              A == AllOf(ct, win, cpu)
              l == LinesOf(cpu, up)
  <2>1. /\ Agreement(snd, rcv, l, R, A) /\ EndTypes(snd, rcv) /\ ct \in A
        /\ ReceiverOk(snd, rcv, R, d)
    BY BoxHolds DEF Agreed, Agreement, Agree
  <2>2. R = {ct}
    BY DEF RecsOf
  <2>. HIDE DEF R, A, l
  <2>3. /\ ct[d].end \in Int /\ At(ct[d].end) \in Int
        /\ First <= At(ct[d].end) /\ At(ct[d].end) <= First + Bytes[d]
    BY <2>1, RecordBounds
  <2>4. At(ct[d].end) <= First + Bytes[d] + 3 * MaxWin
    BY <2>3, Directions, WindowAssumption
  <2>5. Lift(ct[d].end, snd[d].nxt) = At(ct[d].end)
    BY <2>1, <2>3, <2>4, LiftIsAt
  <2>6. n + 1 <= At(ct[d].end)
    BY <2>1, <2>2 DEF ReceiverOk, EndAt
  <2>7. n \in Int
    BY <2>1, EndNumbers
  <2>. QED BY <2>3, <2>5, <2>6, <2>7
<1>. QED BY <1>1, AgreedInvariant, PTL

\* Record w is not behind v, by the header's comparisons, nor is it then by the places.
LEMMA ForwardsAhead ==
  ASSUME Room, NEW s, NEW r, NEW l, NEW R, NEW A, Agreement(s, r, l, R, A),
         NEW v \in A, NEW w \in A, Forwards(v, w)
  PROVE  Ahead(v, w)
<1>1. ASSUME NEW d \in Dirs
      PROVE  /\ v[d].maxWin <= w[d].maxWin /\ At(v[d].end) <= At(w[d].end)
             /\ At(v[d].maxEnd) <= At(w[d].maxEnd)
  <2>1. /\ Bytes[d] + 3 * MaxWin + AckWindow + 2 < H /\ Bytes[d] \in Nat /\ AckWindow \in Nat
        /\ H \in Nat /\ MaxWin \in Nat /\ First \in Int
    BY Directions, TwoHalves, WindowAssumption DEF Room
  <2>2. /\ w[d].end \in Int /\ At(w[d].end) \in Int
        /\ First <= At(w[d].end) /\ At(w[d].end) <= First + Bytes[d]
        /\ w[d].maxEnd \in Int /\ At(w[d].maxEnd) \in Int
        /\ First <= At(w[d].maxEnd) /\ At(w[d].maxEnd) <= r[d].edge + 2 * MaxWin
        /\ r[d].edge \in Int /\ r[d].edge <= First + Bytes[d] + MaxWin
    BY RecordBounds
  <2>3. /\ v[d].end \in Int /\ At(v[d].end) \in Int
        /\ First <= At(v[d].end) /\ At(v[d].end) <= First + Bytes[d]
        /\ v[d].maxEnd \in Int /\ At(v[d].maxEnd) \in Int
        /\ First <= At(v[d].maxEnd) /\ At(v[d].maxEnd) <= r[d].edge + 2 * MaxWin
    BY RecordBounds
  <2>4. /\ -H <= At(w[d].end) - At(v[d].end) /\ At(w[d].end) - At(v[d].end) < H
        /\ -H <= At(w[d].maxEnd) - At(v[d].maxEnd) /\ At(w[d].maxEnd) - At(v[d].maxEnd) < H
    BY <2>1, <2>2, <2>3
  <2>5. /\ v[d].maxWin <= w[d].maxWin /\ Signed(w[d].end - v[d].end) >= 0
        /\ Signed(w[d].maxEnd - v[d].maxEnd) >= 0
    BY DEF Forwards
  <2>. QED BY <2>2, <2>3, <2>4, <2>5, ForwardsAt
<1>. QED BY <1>1 DEF Ahead

\* When one record is not behind the others, what they say it says.
LEMMA AheadSays ==
  ASSUME NEW R \in SUBSET Records, NEW w \in Records, \A v \in R : Ahead(v, w),
         NEW d \in Dirs, NEW n \in Int
  PROVE  /\ EndAt(R, d, n) => n <= At(w[d].end)
         /\ GrantAt(R, d, n) => n <= At(w[d].maxEnd)
         /\ WinAt(R, d, n) => n <= w[d].maxWin
<1>1. Grows(R, {w})
  BY DEF Grows
<1>2. {w} \in SUBSET Records
  OBVIOUS
<1>3. /\ EndAt(R, d, n) => EndAt({w}, d, n)
      /\ GrantAt(R, d, n) => GrantAt({w}, d, n)
      /\ WinAt(R, d, n) => WinAt({w}, d, n)
  BY <1>1, <1>2, GrownSays
<1>4. EndAt({w}, d, n) => n <= At(w[d].end)
  BY DEF EndAt
<1>5. GrantAt({w}, d, n) => n <= At(w[d].maxEnd)
  BY DEF GrantAt
<1>6. WinAt({w}, d, n) => n <= w[d].maxWin
  BY DEF WinAt
<1>. QED BY <1>3, <1>4, <1>5, <1>6

\* A number is congruent to itself, and congruent numbers moved by the same are congruent.
LEMMA CongruentShift ==
  ASSUME NEW x \in Int, NEW a \in Int, NEW n \in Int, Congruent(x, a, M)
  PROVE  Congruent(x + n, a + n, M) /\ Congruent(n, n, M)
<1>1. Congruent(n, n, M)
  BY WindowAssumption DEF Congruent
<1>. QED BY <1>1, Congruence

\* The header's comparison of two numbers is that of the ends.
LEMMA SignedOrder ==
  ASSUME NEW x \in Int, NEW y \in Int, NEW m \in Int, NEW n \in Int,
         Congruent(x, m, M), Congruent(y, n, M), -H <= m - n, m - n < H
  PROVE  /\ m <= n => Signed(x - y) <= 0
         /\ n <= m => Signed(x - y) >= 0
<1>1. Signed(x - y) = m - n
  BY SignedDiff
<1>. QED BY <1>1

\* A packet from q to e that acknowledges g is within the window of a record whose ends are
\* a and b, whose grant is c and whose windows are i and j, none of them half of the numbers
\* away.
Checked(q, e, g, a, b, c, i, j, h) ==
  /\ q <= c + 1 /\ -H <= q - (c + 1)
  /\ a - j - 1 <= e /\ e - (a - j - 1) < H
  /\ g <= b + 1 /\ -H <= g - (b + 1)
  /\ b - i - h - 1 <= g /\ g - (b - i - h - 1) < H

\* The header shows the ends a and b, the grant c and the ack g as x1, x2, x3 and z.
Shown(q, e, g, a, b, c, i, j, h, x1, x2, x3, z) ==
  /\ Checked(q, e, g, a, b, c, i, j, h)
  /\ Congruent(x1, a, M) /\ Congruent(x2, b, M) /\ Congruent(x3, c, M) /\ Congruent(z, g, M)

\* The four comparisons of the window check, in the header's numbers.
Passes(q, e, i, j, h, x1, x2, x3, z) ==
  /\ Signed(q - (x3 + 1)) <= 0 /\ Signed(e - (x1 - j - 1)) >= 0
  /\ Signed(z - (x2 + 1)) <= 0 /\ Signed(z - (x2 - i - h - 1)) >= 0

\* So it passes the four comparisons of the window check.
LEMMA CheckedPasses ==
  ASSUME NEW q \in Int, NEW e \in Int, NEW g \in Int, NEW a \in Int, NEW b \in Int, NEW c \in Int,
         NEW i \in Int, NEW j \in Int, NEW h \in Int,
         NEW x1 \in Int, NEW x2 \in Int, NEW x3 \in Int, NEW z \in Int,
         Shown(q, e, g, a, b, c, i, j, h, x1, x2, x3, z)
  PROVE  Passes(q, e, i, j, h, x1, x2, x3, z)
<1>1. H \in Nat \ {0}
  BY TwoHalves
<1>2. /\ q <= c + 1 /\ -H <= q - (c + 1)
      /\ a - j - 1 <= e /\ e - (a - j - 1) < H
      /\ g <= b + 1 /\ -H <= g - (b + 1)
      /\ b - i - h - 1 <= g /\ g - (b - i - h - 1) < H
  BY DEF Checked, Shown
<1>3. Congruent(q, q, M) /\ Congruent(e, e, M)
  BY WindowAssumption DEF Congruent
<1>4. Congruent(x1, a, M) /\ Congruent(x2, b, M) /\ Congruent(x3, c, M) /\ Congruent(z, g, M)
  BY DEF Shown
<1>5. Signed(q - (x3 + 1)) <= 0
  <2>1. q - (c + 1) < H
    BY <1>1, <1>2
  <2>2. Congruent(x3 + 1, c + 1, M)
    <3>1. PICK v \in Int : v = 1
      OBVIOUS
    <3>2. Congruent(x3 + v, c + v, M)
      BY <1>4, CongruentShift
    <3>. QED BY <3>1, <3>2
  <2>. QED BY <1>2, <1>3, <2>1, <2>2, SignedOrder
<1>6. Signed(z - (x2 + 1)) <= 0
  <2>1. g - (b + 1) < H
    BY <1>1, <1>2
  <2>2. Congruent(x2 + 1, b + 1, M)
    <3>1. PICK v \in Int : v = 1
      OBVIOUS
    <3>2. Congruent(x2 + v, b + v, M)
      BY <1>4, CongruentShift
    <3>. QED BY <3>1, <3>2
  <2>. QED BY <1>2, <1>4, <2>1, <2>2, SignedOrder
<1>7. Signed(e - (x1 - j - 1)) >= 0
  <2>1. PICK v \in Int : v = -j - 1 /\ x1 - j - 1 = x1 + v /\ a - j - 1 = a + v
    OBVIOUS
  <2>2. -H <= e - (a + v) /\ e - (a + v) < H /\ a + v <= e
    BY <1>1, <1>2, <2>1
  <2>3. Congruent(x1 + v, a + v, M)
    BY <1>4, CongruentShift
  <2>4. Signed(e - (x1 + v)) >= 0
    BY <1>3, <2>2, <2>3, SignedOrder
  <2>. QED BY <2>1, <2>4
<1>8. Signed(z - (x2 - i - h - 1)) >= 0
  <2>1. PICK v \in Int : v = -i - h - 1 /\ x2 - i - h - 1 = x2 + v /\ b - i - h - 1 = b + v
    OBVIOUS
  <2>2. -H <= g - (b + v) /\ g - (b + v) < H /\ b + v <= g
    BY <1>1, <1>2, <2>1
  <2>3. Congruent(x2 + v, b + v, M)
    BY <1>4, CongruentShift
  <2>4. Signed(z - (x2 + v)) >= 0
    BY <1>4, <2>2, <2>3, SignedOrder
  <2>. QED BY <2>1, <2>4
<1>. QED BY <1>5, <1>6, <1>7, <1>8 DEF Passes

\* A rule that is not behind the other records lets the first packet of a line pass: what is
\* sent was granted, and what is acknowledged was sent.
LEMMA PacketPasses ==
  ASSUME Room, NEW s, NEW r, NEW l, NEW R, NEW A, Agreement(s, r, l, R, A),
         NEW w \in A, \A v \in R : Ahead(v, w), NEW d \in Dirs, l[d] # <<>>
  PROVE  InWindow(w, d, Head(l[d]))
<1>1. PICK o \in Dirs : o = Other(d) /\ Other(o) = d
  BY Directions
<1>2. PICK p \in Packets(d) : p = Head(l[d]) /\ PacketOk(s, r, R, d, p)
  BY FirstPacket
<1>3. /\ EndTypes(s, r) /\ R \in SUBSET Records /\ w \in Records
      /\ SenderOk(s, r, R, d) /\ SenderOk(s, r, R, o) /\ ReceiverOk(s, r, R, o)
      /\ RecordOk(s, r, l[d], R, d, w) /\ RecordOk(s, r, l[o], R, o, w)
  BY DEF Agreement, Agree
<1>4. \A f \in Dirs, n \in Int : /\ EndAt(R, f, n) => n <= At(w[f].end)
                                 /\ GrantAt(R, f, n) => n <= At(w[f].maxEnd)
                                 /\ WinAt(R, f, n) => n <= w[f].maxWin
  BY <1>3, AheadSays
<1>5. PICK a \in Int, b \in Int, c \in Int, i \in Int, j \in Int :
        /\ a = At(w[d].end) /\ b = At(w[o].end) /\ c = At(w[d].maxEnd)
        /\ i = w[d].maxWin /\ j = w[o].maxWin
        /\ w[d].end \in Int /\ w[o].end \in Int /\ w[d].maxEnd \in Int
        /\ Congruent(w[d].end, a, M) /\ Congruent(w[o].end, b, M) /\ Congruent(w[d].maxEnd, c, M)
        /\ First <= a /\ a <= First + Bytes[d] /\ First <= b /\ b <= First + Bytes[o]
        /\ First <= c /\ c <= First + Bytes[d] + 3 * MaxWin
        /\ 0 <= i /\ i <= 2 * MaxWin /\ 0 <= j /\ j <= 2 * MaxWin
  <2>1. /\ w[d].maxWin \in Int /\ 0 <= w[d].maxWin /\ w[d].maxWin <= 2 * MaxWin
        /\ w[d].end \in Int /\ At(w[d].end) \in Int /\ Congruent(w[d].end, At(w[d].end), M)
        /\ First <= At(w[d].end) /\ At(w[d].end) <= First + Bytes[d]
        /\ w[d].maxEnd \in Int /\ At(w[d].maxEnd) \in Int
        /\ Congruent(w[d].maxEnd, At(w[d].maxEnd), M)
        /\ First <= At(w[d].maxEnd) /\ At(w[d].maxEnd) <= r[d].edge + 2 * MaxWin
        /\ r[d].edge \in Int /\ r[d].edge <= First + Bytes[d] + MaxWin
    BY RecordBounds
  <2>2. /\ w[o].maxWin \in Int /\ 0 <= w[o].maxWin /\ w[o].maxWin <= 2 * MaxWin
        /\ w[o].end \in Int /\ At(w[o].end) \in Int /\ Congruent(w[o].end, At(w[o].end), M)
        /\ First <= At(w[o].end) /\ At(w[o].end) <= First + Bytes[o]
    BY RecordBounds
  <2>3. At(w[d].maxEnd) <= First + Bytes[d] + 3 * MaxWin
    BY <2>1, Directions, WindowAssumption, SMTT(30)
  <2>. QED BY <2>1, <2>2, <2>3
<1>6. /\ Bytes[d] + 3 * MaxWin + AckWindow + 2 < H /\ Bytes[d] \in Nat /\ AckWindow \in Nat
      /\ Bytes[o] + 3 * MaxWin + AckWindow + 2 < H /\ Bytes[o] \in Nat
      /\ H \in Nat /\ MaxWin \in Nat /\ First \in Int
  BY Directions, TwoHalves, WindowAssumption DEF Room
<1>7. PICK q \in Int, n \in Int, k \in Int, e \in Int :
        /\ q = p.seq /\ n = p.len /\ k = p.ack /\ e = SegEnd(p) /\ e = q + n /\ 0 <= n
        /\ First - 1 <= q /\ q + n <= First + Bytes[d]
  <2>1. /\ p.seq \in Int /\ p.len \in Nat /\ p.ack \in Int /\ First - 1 <= p.seq
        /\ p.seq + p.len <= First + Bytes[d]
    BY PacketType
  <2>2. SegEnd(p) = p.seq + p.len
    BY <2>1 DEF SegEnd, Room
  <2>. QED BY <2>1, <2>2
<1>8. PICK g \in Int : /\ g \in p.edges \cup {p.ack} /\ SackIn(p) = g % M /\ k <= g
                       /\ g = First \/ g - 1 \in r[o].got
  <2>1. PICK g \in p.edges \cup {p.ack} : SackIn(p) = g % M
    BY SackInPacket
  <2>2. g \in Int
    BY PacketType
  <2>. QED BY <1>1, <1>2, <1>7, <2>1, <2>2 DEF PacketOk
<1>9. SackIn(p) \in Int /\ Congruent(SackIn(p), g, M)
  <2>1. g % M \in Numbers /\ Congruent(g % M, g, M)
    BY HeaderForm
  <2>. QED BY <1>8, <2>1 DEF Numbers
<1>10. PICK t \in Int, u \in Int, x \in Int : t = s[d].nxt /\ u = s[d].lim /\ x = s[o].lim
  BY <1>3, EndNumbers
<1>11. q <= c
  <2>1. q <= t /\ t <= u /\ GrantAt(R, d, u)
    BY <1>2, <1>3, <1>7, <1>10 DEF PacketOk, SenderOk
  <2>2. u <= c
    BY <1>4, <1>5, <2>1
  <2>. QED BY <2>1, <2>2
<1>12. a - j - 1 <= q
  <2>1. WinAt(R, o, a - (q + 1))
    <3>1. p = l[d][1] /\ 1 \in 1 .. Len(l[d])
      <4>. DEFINE P == Packets(d)
                  z == l[d]
      <4>1. z \in Seq(P) /\ z # <<>>
        BY DEF Agreement, Agree
      <4>. HIDE DEF P, z
      <4>2. Head(z) = z[1] /\ 1 \in 1 .. Len(z)
        BY <4>1
      <4>. QED BY <1>2, <4>2 DEF z
    <3>2. \A f \in 1 .. Len(l[d]) : WinAt(R, Other(d), At(w[d].end) - (l[d][f].seq + 1))
      BY <1>3 DEF RecordOk
    <3>3. WinAt(R, Other(d), At(w[d].end) - (p.seq + 1))
      BY <3>1, <3>2
    <3>. QED BY <1>1, <1>5, <1>7, <3>3
  <2>2. PICK m \in Int : m = a - (q + 1)
    OBVIOUS
  <2>3. m <= j
    BY <1>4, <1>5, <2>1, <2>2
  <2>. QED BY <2>2, <2>3
<1>13. g <= b /\ First <= g
  <2>1. CASE g = First
    BY <1>5, <2>1
  <2>2. CASE g - 1 \in r[o].got
    <3>1. g - 1 \in BytesOf(o)
      BY <1>3, <2>2, EndNumbers
    <3>2. EndAt(R, o, g)
      <4>1. EndAt(R, o, (g - 1) + 1)
        BY <1>3, <2>2 DEF ReceiverOk
      <4>2. (g - 1) + 1 = g
        OBVIOUS
      <4>. QED BY <4>1, <4>2
    <3>3. First <= g
      <4>1. First <= g - 1
        BY <3>1 DEF BytesOf
      <4>. QED BY <1>6, <4>1
    <3>. QED BY <1>4, <1>5, <3>2, <3>3
  <2>. QED BY <1>8, <2>1, <2>2
<1>14. b - i <= g
  <2>1. PICK y \in Int : y = s[o].nxt
    BY <1>3, EndNumbers
  <2>2. b <= y /\ y <= x
    BY <1>3, <1>5, <1>10, <2>1 DEF SenderOk, RecordOk
  <2>3. WinAt(R, d, x - k)
    BY <1>1, <1>2, <1>7, <1>10 DEF PacketOk
  <2>4. PICK m \in Int : m = x - k
    OBVIOUS
  <2>5. m <= i
    BY <1>4, <1>5, <2>3, <2>4
  <2>. QED BY <1>8, <2>2, <2>4, <2>5
<1>15. PICK x1 \in Int, x2 \in Int, x3 \in Int :
         /\ x1 = w[d].end /\ x2 = w[o].end /\ x3 = w[d].maxEnd
         /\ Congruent(x1, a, M) /\ Congruent(x2, b, M) /\ Congruent(x3, c, M)
  BY <1>5
<1>16. PICK z \in Int, h \in Int : z = SackIn(p) /\ h = AckWindow /\ Congruent(z, g, M)
  <2>1. AckWindow \in Int
    BY <1>6
  <2>. QED BY <1>9, <2>1
<1>17. Checked(q, e, g, a, b, c, i, j, h)
  <2>1. PICK nd \in Int, y \in Int, m \in Int, f \in Int :
          nd = Bytes[d] /\ y = Bytes[o] /\ m = MaxWin /\ f = First
    <3>1. Bytes[d] \in Int /\ Bytes[o] \in Int /\ MaxWin \in Int /\ First \in Int
      BY <1>6
    <3>. QED BY <3>1
  <2>2. /\ y + 3 * m + h + 2 < H /\ nd + 3 * m + h + 2 < H /\ 0 <= h /\ 0 <= m
        /\ 0 <= nd /\ 0 <= y
    BY <1>6, <1>16, <2>1, SMTT(30)
  <2>3. /\ f <= a /\ a <= f + nd /\ f <= b /\ b <= f + y /\ f <= c /\ c <= f + nd + 3 * m
        /\ 0 <= i /\ i <= 2 * m /\ 0 <= j /\ j <= 2 * m
    BY <1>5, <2>1
  <2>4. 0 <= n /\ f - 1 <= q /\ q + n <= f + nd /\ e = q + n
    BY <1>7, <2>1
  <2>5. q <= c /\ a - j - 1 <= q /\ g <= b /\ f <= g /\ b - i <= g
    BY <1>11, <1>12, <1>13, <1>14, <2>1
  <2>6. H \in Int
    BY <1>6
  <2>. QED BY <2>2, <2>3, <2>4, <2>5, <2>6 DEF Checked
<1>18. Passes(q, e, i, j, h, x1, x2, x3, z)
  <2>1. Shown(q, e, g, a, b, c, i, j, h, x1, x2, x3, z)
    BY <1>15, <1>16, <1>17 DEF Shown
  <2>. QED BY <2>1, CheckedPasses
<1>. QED BY <1>1, <1>2, <1>5, <1>7, <1>15, <1>16, <1>18 DEF InWindow, Passes

\* A packet of an end that follows TCP passes the window check of sfe_ipv4_recv_tcp, wherever
\* the numbers wrap, whatever was lost, sent again or acknowledged selectively, and in
\* whatever order packets, messages and rules came, unless the rule was made from values of
\* conntrack that had been overtaken.
THEOREM HonestPacketsPass ==
  ASSUME Room
  PROVE  Spec => []HonestPass
<1>1. Types /\ Agreed => HonestPass
  <2>. SUFFICES ASSUME Types, Agreed, win # None, UpToDate, NEW d \in Dirs, Ready(d)
                PROVE  InWindow(win, d, Head1(d))
    BY DEF HonestPass
  <2>. DEFINE R == RecsOf(ct, win, cpu)
              A == AllOf(ct, win, cpu)
              l == LinesOf(cpu, up)
  <2>1. Agreement(snd, rcv, l, R, A) /\ R \subseteq A /\ win \in A
    BY BoxHolds DEF Agreed
  <2>2. \A v \in R : Forwards(v, win)
    <3>1. \A v \in R : v = ct \/ v = win \/ IsSis(cpu[d], v) \/ IsSis(cpu[Other(d)], v)
      BY RecsMembers, ZenonT(30)
    <3>2. Forwards(win, win)
      BY ForwardsSame DEF Types, BoxTypes
    <3>. QED BY <3>1, <3>2, Directions DEF UpToDate, IsSis
  <2>3. \A v \in R : Ahead(v, win)
    <3>. HIDE DEF R, A, l
    <3>. QED BY <2>1, <2>2, ForwardsAhead
  <2>4. l[d] = up[d] /\ up[d] # <<>>
    <3>1. cpu[d] = Idle /\ up[d] # <<>> /\ Idle.at = "idle"
      BY DEF Ready, Idle
    <3>. QED BY <3>1, LinesMembers, ZenonT(30) DEF LineOf
  <2>. HIDE DEF R, A, l
  <2>5. InWindow(win, d, Head(l[d]))
    BY <2>1, <2>3, <2>4, PacketPasses
  <2>. QED BY <2>4, <2>5 DEF Head1
<1>. QED BY <1>1, AgreedInvariant, PTL

\* Every number that the box keeps fits its field, no receiver has more than was sent, and
\* nothing is acknowledged before it is sent.
THEOREM WindowTypeCorrect ==
  ASSUME Room
  PROVE  Spec => []TypeOK
<1>1. Types /\ Agreed => TypeOK
  <2>. SUFFICES ASSUME Types, Agreed  PROVE TypeOK
    OBVIOUS
  <2>. DEFINE R == RecsOf(ct, win, cpu)
              A == AllOf(ct, win, cpu)
              l == LinesOf(cpu, up)
  <2>1. Agreement(snd, rcv, l, R, A) /\ EndTypes(snd, rcv) /\ A \subseteq Records
    BY BoxHolds DEF Agreed, Agreement
  <2>. HIDE DEF l
  <2>2. ASSUME NEW w \in A  PROVE w \in Windows
    <3>1. w \in Records
      BY <2>1
    <3>2. ASSUME NEW d \in Dirs  PROVE w[d].maxWin \in Numbers
      <4>1. w[d].maxWin \in Int /\ 0 <= w[d].maxWin /\ w[d].maxWin <= 2 * MaxWin
        BY <2>1, RecordBounds
      <4>2. /\ Bytes[d] + 3 * MaxWin + AckWindow + 2 < H /\ Bytes[d] \in Nat
            /\ AckWindow \in Nat /\ H \in Nat /\ M = 2 * H /\ MaxWin \in Nat /\ M \in Int
        BY Directions, TwoHalves, WindowAssumption DEF Room
      <4>. QED BY <4>1, <4>2 DEF Numbers
    <3>. QED BY <3>1, <3>2 DEF Records, Windows
  <2>3. ct \in Windows /\ (win # None => win \in Windows)
    BY <2>2, BoxHolds, Directions DEF Dirs
  <2>4. ASSUME NEW d \in Dirs
        PROVE  /\ snd[d].una <= snd[d].nxt /\ snd[d].nxt <= First + Bytes[d]
               /\ rcv[d].got \subseteq First .. snd[d].nxt - 1
    <3>1. /\ snd[d].una \in Int /\ snd[d].nxt \in Int /\ First \in Int /\ Bytes[d] \in Nat
          /\ First <= snd[d].nxt /\ snd[d].nxt <= First + Bytes[d]
          /\ rcv[d].got \subseteq BytesOf(d) /\ NextOf(rcv[d].got, d) \in Int
          /\ First <= NextOf(rcv[d].got, d) /\ NextOf(rcv[d].got, d) <= First + Bytes[d]
      BY <2>1, EndNumbers
    <3>2. /\ snd[d].una <= NextOf(rcv[d].got, d)
          /\ \A n \in rcv[d].got : n < snd[d].nxt
      BY <2>1 DEF Agreement, Agree, SenderOk, ReceiverOk
    <3>3. rcv[d].got \subseteq First .. snd[d].nxt - 1
      BY <3>1, <3>2 DEF BytesOf
    <3>4. ~(snd[d].nxt < NextOf(rcv[d].got, d))
      <4>. SUFFICES ASSUME snd[d].nxt < NextOf(rcv[d].got, d)  PROVE FALSE
        OBVIOUS
      <4>1. \A n \in BytesOf(d) : n < NextOf(rcv[d].got, d) => n \in rcv[d].got
        BY <3>1, NextIsFirst
      <4>2. snd[d].nxt \in BytesOf(d)
        BY <3>1 DEF BytesOf
      <4>3. snd[d].nxt \in rcv[d].got
        BY <4>1, <4>2
      <4>. QED BY <3>1, <3>2, <4>3
    <3>. QED BY <3>1, <3>2, <3>3, <3>4
  <2>5. ASSUME NEW d \in Dirs
        PROVE  \/ cpu[d] = Idle \/ cpu[d].at = "slow"
               \/ cpu[d].at = "sync" /\ cpu[d].sis \in Windows
               \/ cpu[d].at = "create" /\ cpu[d].sic \in Windows
    <3>1. /\ cpu[d].at = "sync" => cpu[d].sis \in A
          /\ cpu[d].at = "create" => cpu[d].sic \in A
      BY BoxHolds
    <3>2. cpu[d] \in Steps(d)
      BY DEF Types, BoxTypes
    <3>. QED BY <2>2, <3>1, <3>2 DEF Steps
  <2>. QED BY <2>3, <2>4, <2>5 DEF TypeOK
<1>. QED BY <1>1, AgreedInvariant, PTL

-----------------------------------------------------------------------------
(* Checksums                                                                *)

USE DEF Half, Word, N

\* A number is its high half and its low half: the division and the modulus
\* by the half word, as the C code's shift and mask take it apart.
LEMMA Parts ==
  ASSUME NEW s \in Nat
  PROVE  /\ s % W \in Half /\ s \div W \in Nat
         /\ s = W * (s \div W) + (s % W)
  BY WidthAssumption

\* What is below k * W has a high half below k.
LEMMA HighPart ==
  ASSUME NEW s \in Nat, NEW k \in Nat \ {0}, s < k * W
  PROVE  s \div W \in 0 .. k - 1
<1>1. s = W * (s \div W) + (s % W) /\ s % W \in Nat /\ s \div W \in Nat
  BY Parts
<1>2. ASSUME s \div W >= k PROVE FALSE
  <2> DEFINE q == s \div W
  <2>1. q \in Nat /\ q >= k BY <1>1, <1>2
  <2>2. W * q >= W * k BY <2>1, WidthAssumption
  <2> QED BY <1>1, <2>2, WidthAssumption
<1> QED BY <1>1, <1>2

\* Folding keeps a sum in ones' complement.
LEMMA FoldKeeps ==
  ASSUME NEW s \in Nat
  PROVE  Fold(s) \in Nat /\ s = Fold(s) + (s \div W) * (W - 1)
<1> DEFINE q == s \div W
           r == s % W
<1>1. q \in Nat /\ r \in Nat /\ s = W * q + r BY Parts
<1>2. Fold(s) = r + q BY DEF Fold
<1> HIDE DEF q, r
<1>3. W * q + r = (r + q) + q * (W - 1) BY <1>1, WidthAssumption
<1> QED BY <1>1, <1>2, <1>3 DEF q

\* The sum of two halves needs one fold to be a half: "the addition of 2 16-bit
\* values cannot cause a double wrap-around".
LEMMA FoldTwoHalves ==
  ASSUME NEW a \in Half, NEW b \in Half
  PROVE  Fold(a + b) \in Half
<1>1. a + b \in Nat /\ a + b < 2 * W BY WidthAssumption
<1>2. (a + b) \div W \in 0 .. 1 BY <1>1, HighPart
<1>3. a + b = W * ((a + b) \div W) + ((a + b) % W) /\ (a + b) % W \in Half
  BY <1>1, Parts
<1>4. CASE (a + b) \div W = 0 BY <1>3, <1>4 DEF Fold
<1>5. CASE (a + b) \div W = 1
  <2>1. (a + b) % W = a + b - W BY <1>3, <1>5, WidthAssumption
  <2> QED BY <2>1, <1>5, WidthAssumption DEF Fold
<1> QED BY <1>2, <1>4, <1>5

\* Any word needs two.
LEMMA FoldTwice ==
  ASSUME NEW s \in Word
  PROVE  Fold(Fold(s)) \in Half
<1>1. s \in Nat /\ s < W * W BY WidthAssumption
<1>2. s \div W \in Half BY <1>1, HighPart, WidthAssumption
<1>3. s % W \in Half BY <1>1, Parts
<1> QED BY <1>2, <1>3, FoldTwoHalves DEF Fold

\* Two folds keep a word in ones' complement, too.
LEMMA FoldTwiceKeeps ==
  ASSUME NEW s \in Word
  PROVE  Congruent(s, Fold(Fold(s)), W - 1)
<1>1. s \in Nat BY WidthAssumption
<1>2. Fold(s) \in Nat /\ s = Fold(s) + (s \div W) * (W - 1) BY <1>1, FoldKeeps
<1>3. Fold(Fold(s)) \in Nat /\ Fold(s) = Fold(Fold(s)) + (Fold(s) \div W) * (W - 1)
  BY <1>2, FoldKeeps
<1>4. s \div W \in Nat /\ Fold(s) \div W \in Nat BY <1>1, <1>2, Parts
<1> DEFINE q1 == s \div W
           q2 == Fold(s) \div W
           f2 == Fold(Fold(s))
<1>5. s = f2 + q2 * (W - 1) + q1 * (W - 1) /\ q1 \in Nat /\ q2 \in Nat /\ f2 \in Nat
  BY <1>2, <1>3, <1>4
<1> HIDE DEF q1, q2, f2
<1>6. s = f2 + (q1 + q2) * (W - 1) BY <1>5, WidthAssumption
<1> QED BY <1>5, <1>6 DEF Congruent, f2

\* Division has one answer.
LEMMA PartsUnique ==
  ASSUME NEW q \in Nat, NEW r \in Half
  PROVE  (W * q + r) \div W = q /\ (W * q + r) % W = r
<1> DEFINE s == W * q + r
<1>1. s \in Nat BY WidthAssumption
<1>2. s = W * (s \div W) + (s % W) /\ s % W \in Half /\ s \div W \in Nat BY <1>1, Parts
<1> DEFINE p == s \div W
           t == s % W
<1>3. W * q + r = W * p + t /\ t \in Half /\ p \in Nat BY <1>2
<1> HIDE DEF p, t, s
<1>4. CASE p >= q + 1
  <2>1. W * p >= W * (q + 1) BY <1>4, <1>3, WidthAssumption
  <2>2. W * (q + 1) = W * q + W BY WidthAssumption
  <2> QED BY <2>1, <2>2, <1>3, WidthAssumption
<1>5. CASE q >= p + 1
  <2>1. W * q >= W * (p + 1) BY <1>5, <1>3, WidthAssumption
  <2>2. W * (p + 1) = W * p + W BY <1>3, WidthAssumption
  <2> QED BY <2>1, <2>2, <1>3, WidthAssumption
<1>6. CASE p = q
  <2>1. t = r BY <1>6, <1>3, WidthAssumption
  <2> QED BY <1>6, <2>1 DEF p, t, s
<1> QED BY <1>3, <1>4, <1>5, <1>6

\* A word has two halves; those of its complement are their complements.
LEMMA HalvesOfComplement ==
  ASSUME NEW a \in Word
  PROVE  /\ Hi(a) \in Half /\ Lo(a) \in Half
         /\ a = W * Hi(a) + Lo(a)
         /\ Not32(a) \in Word
         /\ Hi(Not32(a)) = W - 1 - Hi(a)
         /\ Lo(Not32(a)) = W - 1 - Lo(a)
<1>1. a \in Nat /\ a < W * W BY WidthAssumption
<1>2. a \div W \in Half BY <1>1, HighPart, WidthAssumption
<1>3. a = W * (a \div W) + (a % W) /\ a % W \in Half BY <1>1, Parts
<1> DEFINE h == a \div W
           l == a % W
<1>4. h \in Half /\ l \in Half /\ a = W * h + l BY <1>2, <1>3
<1> HIDE DEF h, l
<1>5. Not32(a) = W * (W - 1 - h) + (W - 1 - l) BY <1>4, WidthAssumption DEF Not32
<1>6. W - 1 - h \in Nat /\ W - 1 - l \in Half BY <1>4, WidthAssumption
<1>7. Hi(Not32(a)) = W - 1 - h /\ Lo(Not32(a)) = W - 1 - l
  BY <1>5, <1>6, PartsUnique DEF Hi, Lo
<1>8. Not32(a) \in Word BY <1>1, WidthAssumption DEF Not32
<1> QED BY <1>4, <1>7, <1>8 DEF h, l, Hi, Lo

\* How an adjustment is used: recv_udp and recv_tcp fold once, and lose nothing
\* when the sum is stored in sixteen bits.  A checksum that is not zero stays
\* so: a translated UDP packet never turns into one without a checksum.
THEOREM AdjustOnce ==
  ASSUME NEW check \in Half, NEW adj \in Half
  PROVE  /\ Adjust(check, adj) = Fold(check + adj)
         /\ Adjust(check, adj) \in Half
         /\ Congruent(check + adj, Adjust(check, adj), W - 1)
         /\ check # 0 => Adjust(check, adj) # 0
<1> DEFINE s == check + adj
<1>1. s \in Nat /\ Fold(s) \in Half BY FoldTwoHalves, WidthAssumption
<1>2. Fold(s) % W = Fold(s)
  <2>1. (W * 0 + Fold(s)) % W = Fold(s) BY <1>1, PartsUnique
  <2> QED BY <2>1, <1>1, WidthAssumption
<1>3. Adjust(check, adj) = Fold(s) BY <1>2 DEF Adjust
<1>4. s = Fold(s) + (s \div W) * (W - 1) /\ s \div W \in Nat BY <1>1, FoldKeeps, Parts
<1>5. Congruent(s, Fold(s), W - 1) BY <1>4 DEF Congruent
<1>6. ASSUME check # 0 PROVE Fold(s) # 0
  <2>1. s > 0 BY <1>6, WidthAssumption
  <2>2. s = W * (s \div W) + (s % W) /\ s \div W \in Nat /\ s % W \in Nat BY <1>1, Parts
  <2>3. CASE s \div W = 0 BY <2>1, <2>2, <2>3, WidthAssumption DEF Fold
  <2>4. CASE s \div W > 0 BY <2>2, <2>4 DEF Fold
  <2> QED BY <2>2, <2>3, <2>4
<1> QED BY <1>1, <1>3, <1>5, <1>6

\* sfe_ipv4_connection_match_compute_translations: the adjustment fits its
\* field, and stands for the old address and port less the new ones.
THEOREM AdjustmentRight ==
  ASSUME NEW mi \in Word, NEW xi \in Word, NEW mp \in Half, NEW xp \in Half
  PROVE  /\ Adjustment(mi, mp, xi, xp) \in Half
         /\ Congruent(Hi(mi) + Lo(mi) + mp - Hi(xi) - Lo(xi) - xp,
                      Adjustment(mi, mp, xi, xp), W - 1)
<1> DEFINE s == Hi(mi) + Lo(mi) + mp + Hi(Not32(xi)) + Lo(Not32(xi)) + Not16(xp)
           new == Hi(mi) + Lo(mi) + mp - Hi(xi) - Lo(xi) - xp
           adj == Fold(Fold(s))
<1>1. /\ Hi(mi) \in Half /\ Lo(mi) \in Half /\ Hi(xi) \in Half /\ Lo(xi) \in Half
      /\ Hi(Not32(xi)) = W - 1 - Hi(xi) /\ Lo(Not32(xi)) = W - 1 - Lo(xi)
  BY HalvesOfComplement
<1>2. s = new + 3 * (W - 1) /\ new \in Int BY <1>1, WidthAssumption DEF Not16
<1>3. s \in Nat /\ s <= 6 * (W - 1) BY <1>1, WidthAssumption DEF Not16
<1>4. 6 * (W - 1) < W * W
  <2>1. 10 * W <= W * W BY WidthAssumption
  <2> QED BY <2>1, WidthAssumption
<1> HIDE DEF s, new
<1>5. s \in Word BY <1>3, <1>4, WidthAssumption
<1>6. adj \in Half /\ Congruent(s, adj, W - 1) BY <1>5, FoldTwice, FoldTwiceKeeps
<1>7. PICK k \in Int : s = adj + k * (W - 1) BY <1>6 DEF Congruent
<1>8. new = adj + (k - 3) * (W - 1)
  <2> HIDE DEF adj
  <2> QED BY <1>2, <1>6, <1>7, WidthAssumption
<1>9. Congruent(new, adj, W - 1) BY <1>8, <1>7 DEF Congruent
<1> QED BY <1>6, <1>9 DEF Adjustment, s, new

\* Both together: the checksum of a translated packet whose checksum was right
\* for the old address and port is right for the new ones.
THEOREM TranslatedChecksumRight ==
  ASSUME NEW mi \in Word, NEW xi \in Word, NEW mp \in Half, NEW xp \in Half,
         NEW check \in Half
  PROVE  LET new == Adjust(check, Adjustment(mi, mp, xi, xp))
         IN /\ new \in Half
            /\ Congruent(check + (Hi(mi) + Lo(mi) + mp) - (Hi(xi) + Lo(xi) + xp), new, W - 1)
<1> DEFINE adj == Adjustment(mi, mp, xi, xp)
           new == Adjust(check, adj)
           diff == Hi(mi) + Lo(mi) + mp - Hi(xi) - Lo(xi) - xp
<1>1. adj \in Half /\ Congruent(diff, adj, W - 1) BY AdjustmentRight
<1>2. new \in Half /\ Congruent(check + adj, new, W - 1) BY <1>1, AdjustOnce
<1>3. Hi(mi) \in Int /\ Lo(mi) \in Int /\ Hi(xi) \in Int /\ Lo(xi) \in Int
  BY HalvesOfComplement, WidthAssumption
<1>4. PICK k \in Int : diff = adj + k * (W - 1) BY <1>1 DEF Congruent
<1>5. PICK l \in Int : check + adj = new + l * (W - 1) BY <1>2 DEF Congruent
<1>6. diff \in Int /\ check + (Hi(mi) + Lo(mi) + mp) - (Hi(xi) + Lo(xi) + xp) = check + diff
  BY <1>3, WidthAssumption
<1>7. check + diff = new + (k + l) * (W - 1)
  <2> HIDE DEF adj, new, diff
  <2>1. adj \in Int /\ new \in Int /\ check \in Int BY <1>1, <1>2, WidthAssumption
  <2> QED BY <2>1, <1>4, <1>5, <1>6, WidthAssumption
<1>8. Congruent(check + diff, new, W - 1) BY <1>7 DEF Congruent
<1> QED BY <1>2, <1>6, <1>8

\* Halves and words: the difference of two words, by their halves ...
LEMMA WordDifference ==
  ASSUME NEW hx \in Int, NEW lx \in Int, NEW hm \in Int, NEW lm \in Int
  PROVE  (W * hx + lx) - (W * hm + lm) = (hx - hm) * (W - 1) + (hx + lx - hm - lm)
<1>1. W \in Int BY WidthAssumption
<1>2. (hx - hm) * (W - 1) = W * hx - W * hm - hx + hm BY <1>1
<1> QED BY <1>1, <1>2

\* ... and what is congruent for the word is so for the half word, since
\* W * W - 1 = (W + 1) * (W - 1).
LEMMA WordToHalf ==
  ASSUME NEW e \in Int, NEW f \in Int, NEW d \in Int, NEW adj \in Int,
         NEW j \in Int, NEW k \in Int,
         e = adj + k * (W - 1) + j * (W * W - 1),
         e = f * (W - 1) + d
  PROVE  d = adj + (j * (W + 1) + k - f) * (W - 1)
<1> DEFINE v == W - 1
           g == j * (W + 1)
           u == W * W - 1
<1>1. v \in Int /\ g \in Int /\ u \in Int BY WidthAssumption
<1>2. j * u = g * v
  <2>1. u = (W + 1) * v BY WidthAssumption
  <2>2. W + 1 \in Int BY WidthAssumption
  <2> HIDE DEF v, u
  <2> QED BY <1>1, <2>1, <2>2
<1>3. e = adj + k * v + j * u /\ e = f * v + d OBVIOUS
<1> HIDE DEF v, g, u
<1>4. d = adj + k * v + g * v - f * v BY <1>1, <1>2, <1>3
<1>5. k * v + g * v - f * v = (g + k - f) * v BY <1>1
<1>6. d = adj + (g + k - f) * v BY <1>1, <1>4, <1>5
<1> QED BY <1>6 DEF v, g

\* The adjustment for a checksum that the device will complete
\* (CHECKSUM_PARTIAL) stands for the new address less the old one: the ports
\* are not part of the pseudo header, and that sum is not complemented.
THEOREM PartialAdjustmentRight ==
  ASSUME NEW m \in Word, NEW x \in Word
  PROVE  /\ PartialAdjustment(m, x) \in Half
         /\ Congruent(Hi(x) + Lo(x) - Hi(m) - Lo(m), PartialAdjustment(m, x), W - 1)
<1> DEFINE a0 == (Not32(m) + x) % N
           a1 == IF a0 < x THEN (a0 + 1) % N ELSE a0
           adj == Fold(Fold(a1))
           d == Hi(x) + Lo(x) - Hi(m) - Lo(m)
<1>0. m \in Nat /\ x \in Nat /\ N \in Nat /\ N > 1 /\ m < N /\ x < N
  <2>1. W * W \in Nat /\ W * W >= 10 * W BY WidthAssumption
  <2> QED BY <2>1, WidthAssumption
<1>1. a1 \in Word /\ \E j \in Int : x - m = a1 + j * (N - 1)
  <2>1. CASE x <= m
    <3>1. Not32(m) + x \in 0 .. N - 1 BY <1>0, <2>1 DEF Not32
    <3>2. a0 = N - 1 - m + x BY <1>0, <3>1 DEF Not32
    <3>3. a1 = N - 1 - m + x BY <1>0, <3>2
    <3>4. x - m = a1 + (-1) * (N - 1) BY <1>0, <3>3
    <3> QED BY <1>0, <3>3, <3>4, <2>1
  <2>2. CASE x > m
    <3>1. a0 = x - m - 1
      <4>1. Not32(m) + x = N + (x - m - 1) BY <1>0 DEF Not32
      <4>2. x - m - 1 \in 0 .. N - 1 BY <1>0, <2>2
      <4> HIDE DEF N
      <4>3. (N + (x - m - 1)) % N = x - m - 1 BY <1>0, <4>2
      <4> QED BY <4>1, <4>3
    <3>2. a1 = x - m BY <1>0, <2>2, <3>1
    <3>3. x - m = a1 + 0 * (N - 1) BY <1>0, <3>2
    <3> QED BY <1>0, <2>2, <3>2, <3>3
  <2> QED BY <1>0, <2>1, <2>2
<1>2. PICK j \in Int : x - m = a1 + j * (N - 1) BY <1>1
<1>3. adj \in Half /\ Congruent(a1, adj, W - 1) BY <1>1, FoldTwice, FoldTwiceKeeps
<1>4. PICK k \in Int : a1 = adj + k * (W - 1) BY <1>3 DEF Congruent
<1>5. /\ Hi(m) \in Int /\ Lo(m) \in Int /\ m = W * Hi(m) + Lo(m)
      /\ Hi(x) \in Int /\ Lo(x) \in Int /\ x = W * Hi(x) + Lo(x)
  BY HalvesOfComplement, WidthAssumption
<1>6. d = adj + (j * (W + 1) + k - (Hi(x) - Hi(m))) * (W - 1)
  <2>1. a1 \in Int /\ adj \in Int BY <1>1, <1>3, WidthAssumption
  <2> HIDE DEF a0, a1, adj
  <2>2. x - m = adj + k * (W - 1) + j * (W * W - 1) BY <1>2, <1>4
  <2>3. x - m = (Hi(x) - Hi(m)) * (W - 1) + d
    <3> DEFINE hx == Hi(x)
               lx == Lo(x)
               hm == Hi(m)
               lm == Lo(m)
    <3>1. hx \in Int /\ lx \in Int /\ hm \in Int /\ lm \in Int BY <1>5
    <3>2. x = W * hx + lx /\ m = W * hm + lm /\ d = hx + lx - hm - lm BY <1>5
    <3> HIDE DEF N, d, hx, lx, hm, lm
    <3>3. (W * hx + lx) - (W * hm + lm) = (hx - hm) * (W - 1) + (hx + lx - hm - lm)
      BY <3>1, WordDifference
    <3>4. x - m = (hx - hm) * (W - 1) + d BY <3>2, <3>3
    <3> QED BY <3>4 DEF hx, hm
  <2>4. x - m \in Int /\ Hi(x) - Hi(m) \in Int /\ d \in Int BY <1>0, <1>5
  <2> HIDE DEF d, N
  <2> QED BY <2>1, <2>2, <2>3, <2>4, WordToHalf
<1>7. Congruent(d, adj, W - 1)
  <2>1. j * (W + 1) + k - (Hi(x) - Hi(m)) \in Int BY <1>5, WidthAssumption
  <2> QED BY <1>6, <2>1 DEF Congruent
<1> QED BY <1>3, <1>7 DEF PartialAdjustment

\* sfe_ipv4_gen_ip_csum: the checksum it writes makes the sum of the header
\* zero in ones' complement, and the second fold leaves nothing to fold.
THEOREM IpChecksumRight ==
  ASSUME NEW sum \in 0 .. 10 * (W - 1)
  PROVE  IpChecksum(sum) \in Half /\ Congruent(sum + IpChecksum(sum), 0, W - 1)
<1> DEFINE f == Fold(Fold(sum))
<1>1. sum \in Word
  <2>1. 10 * W <= W * W BY WidthAssumption
  <2> QED BY <2>1, WidthAssumption
<1>2. f \in Half /\ Congruent(sum, f, W - 1) BY <1>1, FoldTwice, FoldTwiceKeeps
<1> HIDE DEF f
<1>3. f % W = f
  <2>1. (W * 0 + f) % W = f BY <1>2, PartsUnique
  <2> QED BY <2>1, <1>2, WidthAssumption
<1>4. IpChecksum(sum) = W - 1 - f BY <1>3 DEF IpChecksum, Not16, f
<1>5. PICK k \in Int : sum = f + k * (W - 1) BY <1>2 DEF Congruent
<1>6. sum + IpChecksum(sum) = 0 + (k + 1) * (W - 1)
  BY <1>1, <1>2, <1>4, <1>5, WidthAssumption
<1>7. Congruent(sum + IpChecksum(sum), 0, W - 1)
  <2>1. k + 1 \in Int OBVIOUS
  <2> HIDE DEF N
  <2> QED BY <1>6, <2>1 DEF Congruent
<1> QED BY <1>2, <1>4, <1>7, WidthAssumption

\* The loop of the IPv6 engine adds the carry of the last word before the next
\* word, and looks for a carry after the second addition only.  No carry is
\* lost: a carry means that the sum is not the greatest word, so the first
\* addition never wraps; and every turn keeps the sum in ones' complement.
THEOREM TurnKeepsSum ==
  ASSUME NEW adj \in Word, NEW carry \in {0, 1}, NEW w \in Word,
         carry = 1 => adj < N - 1
  PROVE  LET t == Turn([adj |-> adj, carry |-> carry], w)
         IN /\ t.adj \in Word /\ t.carry \in {0, 1}
            /\ t.carry = 1 => t.adj < N - 1
            /\ Congruent(adj + carry + w, t.adj + t.carry, N - 1)
<1> DEFINE t == Turn([adj |-> adj, carry |-> carry], w)
           b == adj + carry
<1>0. N \in Nat /\ N > 1
  <2>1. W * W \in Nat /\ W * W >= 10 * W BY WidthAssumption
  <2> QED BY <2>1, WidthAssumption
<1> HIDE DEF N
<1>1. adj \in Nat /\ adj < N /\ w \in Nat /\ w < N BY <1>0
<1>2. b \in 0 .. N - 1 BY <1>0, <1>1
<1>3. b % N = b BY <1>0, <1>2
<1>4. t = [adj |-> (b + w) % N, carry |-> IF w > (b + w) % N THEN 1 ELSE 0]
  BY <1>3 DEF Turn
<1> HIDE DEF b
<1>5. CASE b + w < N
  <2>1. (b + w) % N = b + w BY <1>0, <1>1, <1>2, <1>5
  <2>2. t.adj = b + w /\ t.carry = 0 BY <1>1, <1>2, <1>4, <2>1
  <2>3. b + w = t.adj + t.carry + 0 * (N - 1) BY <1>0, <1>1, <1>2, <2>2
  <2>4. Congruent(b + w, t.adj + t.carry, N - 1) BY <2>3 DEF Congruent
  <2>5. t.adj \in Word /\ t.carry \in {0, 1} /\ t.carry # 1
    BY <1>0, <1>1, <1>2, <1>5, <2>2
  <2> HIDE DEF t
  <2> QED BY <2>4, <2>5 DEF b, t
<1>6. CASE b + w >= N
  <2>1. b + w - N \in 0 .. N - 1 BY <1>0, <1>1, <1>2, <1>6
  <2>2. (N + (b + w - N)) % N = b + w - N BY <1>0, <2>1
  <2>3. N + (b + w - N) = b + w BY <1>0, <1>1, <1>2
  <2>4. t.adj = b + w - N /\ t.carry = 1 BY <1>0, <1>1, <1>2, <1>4, <2>2, <2>3
  <2>5. b + w = t.adj + t.carry + 1 * (N - 1) BY <1>0, <1>1, <1>2, <2>4
  <2>6. Congruent(b + w, t.adj + t.carry, N - 1) BY <2>5 DEF Congruent
  <2>7. t.adj \in Word /\ t.carry \in {0, 1} /\ t.adj < N - 1
    BY <1>0, <1>1, <1>2, <2>1, <2>4
  <2> HIDE DEF t
  <2> QED BY <2>6, <2>7 DEF b, t
<1> QED BY <1>0, <1>1, <1>2, <1>5, <1>6

-----------------------------------------------------------------------------
(* The loop of the IPv6 engine                                              *)

\* The loop starts with an empty sum.
Start == [adj |-> 0, carry |-> 0]

\* g is what the loop has summed, for each subset of the places S of words.
IsLoop(g, words, S) ==
  g = [s \in SUBSET S |->
        IF s = {} THEN Start ELSE Turn(g[s \ {Max(s)}], words[Max(s)])]

\* What the loop gives is the value of that function for all places.
LEMMA LoopIsValue ==
  ASSUME NEW words
  PROVE  Adjustment6(words)
           = LET s == (CHOOSE g : IsLoop(g, words, DOMAIN words))[DOMAIN words]
             IN Fold(Fold((s.adj + s.carry) % N)) % W
  BY DEF Adjustment6, FoldLeft, MapThenFoldSet, IsLoop, Start, Max

\* P is the places of a sequence.
Places(P) == \E n \in Nat : P = 1 .. n

\* Some places have a last one.
LEMMA MaxIn ==
  ASSUME NEW P, Places(P), NEW s \in SUBSET P, s # {}
  PROVE  Max(s) \in s /\ \A y \in s : Max(s) >= y
<1>. PICK n \in Nat : P = 1 .. n
  BY DEF Places
<1>. DEFINE T == {k \in Nat : \A y \in s : y <= k}
<1>1. n \in T
  OBVIOUS
<1>2. PICK k \in T : \A m \in T : k <= m
  <2>. HIDE DEF T
  <2>1. T \in SUBSET Nat
    BY DEF T
  <2>. QED BY <1>1, <2>1, LeastNumber
<1>3. k \in s
  <2>. SUFFICES ASSUME k \notin s PROVE FALSE
    OBVIOUS
  <2>. PICK y \in s : y \in 1 .. n
    OBVIOUS
  <2>1. k \in Nat /\ k - 1 \in Nat
    OBVIOUS
  <2>2. k - 1 \in T
    BY <2>1
  <2>. QED BY <1>2, <2>1, <2>2
<1>4. \E x \in s : \A y \in s : x >= y
  BY <1>3
<1>. QED BY <1>4 DEF Max

\* Two such functions agree on the places that both know.
LEMMA LoopUnique ==
  ASSUME NEW words, NEW P, Places(P), NEW S \in SUBSET P, NEW R \in SUBSET S,
         NEW g, IsLoop(g, words, S), NEW h, IsLoop(h, words, R)
  PROVE  \A s \in SUBSET R : g[s] = h[s]
<1>. DEFINE T == {s \in SUBSET R : g[s] = h[s]}
<1>1. IsFiniteSet(R)
  <2>1. IsFiniteSet(P) /\ R \in SUBSET P
    BY FS_Interval DEF Places
  <2>. QED BY <2>1, FS_Subset
<1>2. ASSUME NEW s \in SUBSET R, \A x \in s : s \ {x} \in T
      PROVE  s \in T
  <2>1. CASE s = {}
    <3>1. g[s] = Start /\ h[s] = Start
      BY <2>1 DEF IsLoop
    <3>. QED BY <3>1
  <2>2. CASE s # {}
    <3>1. Max(s) \in s
      BY <2>2, MaxIn
    <3>2. g[s \ {Max(s)}] = h[s \ {Max(s)}]
      BY <1>2, <3>1
    <3>3. g[s] = Turn(g[s \ {Max(s)}], words[Max(s)])
      BY <2>2 DEF IsLoop
    <3>4. h[s] = Turn(h[s \ {Max(s)}], words[Max(s)])
      BY <2>2 DEF IsLoop
    <3>. QED BY <3>2, <3>3, <3>4
  <2>. QED BY <2>1, <2>2
<1>3. T = SUBSET R
  <2>. HIDE DEF T
  <2>1. T \in SUBSET SUBSET R
    BY DEF T
  <2>. QED BY <1>1, <1>2, <2>1, SubsetInduction
<1>. QED BY <1>3

\* Such a function exists, for any places.
LEMMA LoopExists ==
  ASSUME NEW words, NEW P, Places(P), NEW S \in SUBSET P
  PROVE  \E g : IsLoop(g, words, S)
<1>0. ASSUME NEW q \in SUBSET P, NEW p \in SUBSET q,
             NEW a, IsLoop(a, words, q), NEW b, IsLoop(b, words, p)
      PROVE  a[p] = b[p]
  <2>1. \A s \in SUBSET p : a[s] = b[s]
    BY <1>0, LoopUnique
  <2>. QED BY <2>1
<1>. DEFINE T == {s \in SUBSET S : \E g : IsLoop(g, words, s)}
<1>1. ASSUME NEW s \in SUBSET S, \A x \in s : s \ {x} \in T
      PROVE  s \in T
  <2>. DEFINE G(r) == CHOOSE g : IsLoop(g, words, r)
              Rest(r) == r \ {Max(r)}
              Value(r) == IF r = {} THEN Start ELSE Turn(G(Rest(r))[Rest(r)], words[Max(r)])
              g == [r \in SUBSET s |-> Value(r)]
  <2>1. ASSUME NEW r \in SUBSET s, r # {}
        PROVE  Rest(r) \in SUBSET s /\ Rest(r) # s /\ Rest(r) # r /\ Rest(r) \in SUBSET r
    BY <2>1, MaxIn
  <2>2. ASSUME NEW r \in SUBSET s, r # s  PROVE IsLoop(G(r), words, r)
    <3>. PICK x \in s : x \notin r
      BY <2>2
    <3>. PICK h : IsLoop(h, words, s \ {x})
      BY <1>1
    <3>. DEFINE k == [q \in SUBSET r |-> h[q]]
    <3>1. ASSUME NEW q \in SUBSET r
          PROVE  k[q] = IF q = {} THEN Start ELSE Turn(k[q \ {Max(q)}], words[Max(q)])
      <4>1. q \in SUBSET (s \ {x}) /\ q \ {Max(q)} \in SUBSET r
        OBVIOUS
      <4>2. h[q] = IF q = {} THEN Start ELSE Turn(h[q \ {Max(q)}], words[Max(q)])
        <5>. HIDE DEF G, T, g, Value, k, Rest
        <5>. QED BY <4>1 DEF IsLoop
      <4>3. k[q] = h[q] /\ k[q \ {Max(q)}] = h[q \ {Max(q)}]
        BY <4>1
      <4>. QED BY <4>2, <4>3
    <3>2. k = [q \in SUBSET r |-> IF q = {} THEN Start ELSE Turn(k[q \ {Max(q)}], words[Max(q)])]
      <4>1. k = [q \in SUBSET r |-> k[q]]
        OBVIOUS
      <4>. HIDE DEF k
      <4>. QED BY <3>1, <4>1
    <3>3. IsLoop(k, words, r)
      <4>. HIDE DEF k
      <4>. QED BY <3>2 DEF IsLoop
    <3>. QED BY <3>3
  <2>3. ASSUME NEW r \in SUBSET s
        PROVE  g[r] = IF r = {} THEN Start ELSE Turn(g[Rest(r)], words[Max(r)])
    <3>1. CASE r = {}
      BY <3>1
    <3>2. CASE r # {}
      <4>. DEFINE q == Rest(r)
      <4>1. q \in SUBSET s /\ q # s
        BY <2>1, <3>2
      <4>2. IsLoop(G(q), words, q)
        <5>. HIDE DEF G, q
        <5>. QED BY <2>2, <4>1
      <4>3. g[q] = G(q)[q]
        <5>1. CASE q = {}
          <6>1. G(q)[q] = Start
            <7>. HIDE DEF G, q, g, Value
            <7>. QED BY <4>2, <5>1 DEF IsLoop
          <6>. QED BY <4>1, <5>1, <6>1
        <5>2. CASE q # {}
          <6>. DEFINE p == Rest(q)
          <6>1. p \in SUBSET s /\ p # s /\ p \in SUBSET q
            <7>. HIDE DEF q, Rest
            <7>. QED BY <2>1, <4>1, <5>2
          <6>2. IsLoop(G(p), words, p)
            <7>. HIDE DEF G, p
            <7>. QED BY <2>2, <6>1
          <6>3. G(q)[p] = G(p)[p]
            <7>1. q \in SUBSET P
              BY <4>1
            <7>. HIDE DEF G, p, q, T, g, Rest
            <7>. QED BY <1>0, <4>2, <6>1, <6>2, <7>1
          <6>4. G(q)[q] = Turn(G(q)[p], words[Max(q)])
            <7>1. p = q \ {Max(q)}
              OBVIOUS
            <7>. HIDE DEF G, p, q
            <7>. QED BY <4>2, <5>2, <7>1 DEF IsLoop
          <6>5. g[q] = Turn(G(p)[p], words[Max(q)])
            <7>. HIDE DEF G, q, Rest
            <7>. QED BY <4>1, <5>2
          <6>. HIDE DEF G, p, q, g
          <6>. QED BY <6>3, <6>4, <6>5
        <5>. QED BY <5>1, <5>2
      <4>4. g[r] = Turn(G(q)[q], words[Max(r)])
        <5>. HIDE DEF G, Rest
        <5>. QED BY <3>2
      <4>. HIDE DEF g, G, q, Rest
      <4>5. g[r] = Turn(g[q], words[Max(r)])
        BY <4>3, <4>4
      <4>. QED BY <3>2, <4>5 DEF q
    <3>. QED BY <3>1, <3>2
  <2>4. IsLoop(g, words, s)
    <3>1. g = [r \in SUBSET s |-> g[r]]
      <4>. HIDE DEF Value
      <4>. QED OBVIOUS
    <3>. HIDE DEF g
    <3>. QED BY <2>3, <3>1 DEF IsLoop
  <2>. QED BY <2>4
<1>2. T = SUBSET S
  <2>. HIDE DEF T
  <2>1. T \in SUBSET SUBSET S
    BY DEF T
  <2>2. IsFiniteSet(S)
    <3>1. IsFiniteSet(P)
      BY FS_Interval DEF Places
    <3>. QED BY <3>1, FS_Subset
  <2>. QED BY <1>1, <2>1, <2>2, SubsetInduction
<1>. QED BY <1>2

\* Numbers that are equal in ones' complement have sums that are.
LEMMA CongruentSum ==
  ASSUME NEW m \in Int, NEW a \in Int, NEW b \in Int, NEW c \in Int, NEW d \in Int,
         Congruent(a, b, m), Congruent(c, d, m)
  PROVE  Congruent(a + c, b + d, m)
<1>. PICK k \in Int : a = b + k * m
  BY DEF Congruent
<1>. PICK l \in Int : c = d + l * m
  BY DEF Congruent
<1>1. (k + l) * m = k * m + l * m /\ k * m \in Int /\ l * m \in Int /\ k + l \in Int
  OBVIOUS
<1>2. a + c = (b + d) + (k + l) * m
  BY <1>1
<1>. QED BY <1>1, <1>2 DEF Congruent

\* Equal to the same is equal.
LEMMA CongruentChain ==
  ASSUME NEW m \in Int, NEW a \in Int, NEW b \in Int, NEW c \in Int,
         Congruent(a, b, m), Congruent(b, c, m)
  PROVE  Congruent(a, c, m)
<1>. PICK k \in Int : a = b + k * m
  BY DEF Congruent
<1>. PICK l \in Int : b = c + l * m
  BY DEF Congruent
<1>1. (k + l) * m = k * m + l * m /\ k * m \in Int /\ l * m \in Int /\ k + l \in Int
  OBVIOUS
<1>2. a = c + (k + l) * m
  BY <1>1
<1>. QED BY <1>1, <1>2 DEF Congruent

\* What is equal for words is so for half words: N - 1 = (W + 1) * (W - 1).
LEMMA CongruentHalf ==
  ASSUME NEW a \in Int, NEW b \in Int, Congruent(a, b, N - 1)
  PROVE  Congruent(a, b, W - 1)
<1>. PICK k \in Int : a = b + k * (N - 1)
  BY DEF Congruent
<1>1. k * (N - 1) = (k * (W + 1)) * (W - 1)
  BY WidthAssumption
<1>2. k * (W + 1) \in Int
  BY WidthAssumption
<1>. QED BY <1>1, <1>2 DEF Congruent

\* What the loop has summed after each word.
LEMMA LoopTurns ==
  ASSUME NEW words \in Seq(Word), NEW g, IsLoop(g, words, 1 .. Len(words)),
         NEW k \in 1 .. Len(words)
  PROVE  g[1 .. k] = Turn(g[1 .. k - 1], words[k])
<1>0. Len(words) \in Nat
  OBVIOUS
<1>1. Places(1 .. Len(words)) /\ 1 .. k \in SUBSET (1 .. Len(words)) /\ 1 .. k # {}
  <2>1. Places(1 .. Len(words))
    BY <1>0 DEF Places
  <2>2. k \in 1 .. k /\ 1 .. k \subseteq 1 .. Len(words)
    BY <1>0
  <2>. QED BY <2>1, <2>2
<1>2. Max(1 .. k) \in 1 .. k /\ \A y \in 1 .. k : Max(1 .. k) >= y
  BY <1>1, MaxIn
<1>3. Max(1 .. k) = k
  BY <1>2
<1>4. (1 .. k) \ {k} = 1 .. k - 1
  OBVIOUS
<1>5. g[1 .. k] = Turn(g[(1 .. k) \ {Max(1 .. k)}], words[Max(1 .. k)])
  BY <1>1 DEF IsLoop
<1>. QED BY <1>3, <1>4, <1>5

\* The sum of the words up to a place.
LEMMA SumNext ==
  ASSUME NEW words \in Seq(Word), NEW k \in 1 .. Len(words)
  PROVE  /\ SumFunctionOnSet(words, 1 .. k - 1) \in Int
         /\ SumFunctionOnSet(words, 1 .. k) = SumFunctionOnSet(words, 1 .. k - 1) + words[k]
<1>0. Len(words) \in Nat /\ k \in Int /\ k >= 1
  OBVIOUS
<1>1. \A i \in 1 .. k : words[i] \in Int
  <2>1. \A i \in 1 .. Len(words) : words[i] \in Word
    <3>. HIDE DEF Word
    <3>. QED BY ElementOfSeq
  <2>. QED BY <1>0, <2>1, WidthAssumption
<1>2. IsFiniteSet(1 .. k) /\ IsFiniteSet(1 .. k - 1) /\ (1 .. k) \ {k} = 1 .. k - 1 /\ k \in 1 .. k
  <2>1. IsFiniteSet(1 .. k) /\ IsFiniteSet(1 .. k - 1)
    BY <1>0, FS_Interval
  <2>. QED BY <1>0, <2>1
<1>3. SumFunctionOnSet(words, 1 .. k - 1) \in Int
  BY <1>1, <1>2, SumType
<1>4. SumFunctionOnSet(words, 1 .. k) = words[k] + SumFunctionOnSet(words, 1 .. k - 1)
  <2>1. SumFunctionOnSet(words, 1 .. k) = words[k] + SumFunctionOnSet(words, (1 .. k) \ {k})
    BY <1>1, <1>2, SumRemove
  <2>. QED BY <1>2, <2>1
<1> DEFINE w == words[k]
           s == SumFunctionOnSet(words, 1 .. k - 1)
<1>5. w \in Int /\ s \in Int /\ SumFunctionOnSet(words, 1 .. k) = w + s
  BY <1>1, <1>2, <1>3, <1>4
<1>6. w + s = s + w
  <2> HIDE DEF w, s
  <2> QED BY <1>5
<1>. QED BY <1>5, <1>6

\* After each word the loop has the sum of the words so far, its carry beside
\* it, and a carry leaves room for itself.
Summed(t, words, k) ==
  /\ t = [adj |-> t.adj, carry |-> t.carry]
  /\ t.adj \in Word /\ t.carry \in {0, 1}
  /\ t.carry = 1 => t.adj < N - 1
  /\ Congruent(SumFunctionOnSet(words, 1 .. k), t.adj + t.carry, N - 1)

\* One word keeps that.
LEMMA LoopStep ==
  ASSUME NEW words \in Seq(Word), NEW k \in 1 .. Len(words),
         NEW t, Summed(t, words, k - 1)
  PROVE  Summed(Turn(t, words[k]), words, k)
<1>. DEFINE w == words[k]
            u == Turn(t, w)
            old == SumFunctionOnSet(words, 1 .. k - 1)
            new == SumFunctionOnSet(words, 1 .. k)
<1>0. Len(words) \in Nat /\ k \in Int /\ k >= 1
  OBVIOUS
<1>1. w \in Word /\ \A i \in 1 .. k : words[i] \in Word
  <2>. HIDE DEF Word
  <2>1. \A i \in 1 .. Len(words) : words[i] \in Word
    BY ElementOfSeq
  <2>. QED BY <1>0, <2>1
<1>2. /\ t.adj \in Word /\ t.carry \in {0, 1}
      /\ t.carry = 1 => t.adj < N - 1
      /\ t = [adj |-> t.adj, carry |-> t.carry]
      /\ Congruent(old, t.adj + t.carry, N - 1)
  BY DEF Summed
<1>3. /\ u.adj \in Word /\ u.carry \in {0, 1}
      /\ u.carry = 1 => u.adj < N - 1
      /\ Congruent(t.adj + t.carry + w, u.adj + u.carry, N - 1)
  <2>. HIDE DEF N, Word
  <2>1. LET v == Turn([adj |-> t.adj, carry |-> t.carry], w)
        IN /\ v.adj \in Word /\ v.carry \in {0, 1}
           /\ v.carry = 1 => v.adj < N - 1
           /\ Congruent(t.adj + t.carry + w, v.adj + v.carry, N - 1)
    <3>. HIDE DEF w, u, old, new
    <3>. QED BY <1>1, <1>2, TurnKeepsSum
  <2>. QED BY <1>2, <2>1
<1>4. new = old + w /\ old \in Int
  <2>. HIDE DEF Word
  <2>. QED BY SumNext
<1>5. /\ N - 1 \in Int /\ w \in Int /\ t.adj \in Int /\ t.carry \in Int
      /\ u.adj \in Int /\ u.carry \in Int
  <2>1. N \in Int /\ \A x \in Word : x \in Int
    BY WidthAssumption
  <2>. HIDE DEF N, Word, u, w, old, new
  <2>. QED BY <1>1, <1>2, <1>3, <2>1
<1>6. Congruent(old + w, t.adj + t.carry + w, N - 1)
  <2>1. w = w + 0 * (N - 1)
    BY <1>5
  <2>2. Congruent(w, w, N - 1)
    BY <2>1 DEF Congruent
  <2>3. t.adj + t.carry \in Int
    BY <1>5
  <2>. HIDE DEF N, w, old
  <2>. QED BY <1>2, <2>3, <1>4, <1>5, <2>2, CongruentSum
<1>7. Congruent(new, u.adj + u.carry, N - 1)
  <2>. HIDE DEF N, w, old, new, u
  <2>1. new = old + w /\ new \in Int /\ t.adj + t.carry + w \in Int /\ u.adj + u.carry \in Int
    BY <1>4, <1>5
  <2>. QED BY <1>3, <1>4, <1>5, <1>6, <2>1, CongruentChain
<1>8. u = [adj |-> u.adj, carry |-> u.carry]
  BY DEF Turn
<1>. HIDE DEF u, N
<1>9. Summed(u, words, k)
  BY <1>3, <1>7, <1>8 DEF Summed, new
<1>. QED BY <1>9 DEF u

\* The whole loop.
LEMMA LoopSums ==
  ASSUME NEW words \in Seq(Word), NEW g, IsLoop(g, words, 1 .. Len(words))
  PROVE  Summed(g[1 .. Len(words)], words, Len(words))
<1>. DEFINE n == Len(words)
            T == {k \in 0 .. n : ~Summed(g[1 .. k], words, k)}
<1>1. n \in Nat
  OBVIOUS
<1>2. Summed(g[1 .. 0], words, 0)
  <2>1. 1 .. 0 = {}
    OBVIOUS
  <2>2. g[{}] = Start
    BY DEF IsLoop
  <2>3. SumFunctionOnSet(words, {}) = 0
    BY SumEmpty
  <2>4. 0 = (0 + 0) + 0 * (N - 1)
    BY WidthAssumption
  <2>5. Congruent(0, 0 + 0, N - 1)
    BY <2>4 DEF Congruent
  <2>6. Start.adj = 0 /\ Start.carry = 0 /\ Start = [adj |-> Start.adj, carry |-> Start.carry]
    BY DEF Start
  <2>7. 0 \in Word
    <3>1. W * W >= 10 * W
      BY WidthAssumption
    <3>. QED BY <3>1, WidthAssumption
  <2>. HIDE DEF N, Word
  <2>. QED BY <2>1, <2>2, <2>3, <2>5, <2>6, <2>7 DEF Summed
<1>3. ASSUME T # {} PROVE FALSE
  <2>1. T \in SUBSET Nat
    OBVIOUS
  <2>2. PICK k \in T : \A m \in T : k <= m
    <3>. HIDE DEF T
    <3>. QED BY <1>3, <2>1, LeastNumber
  <2>3. k \in 0 .. n /\ ~Summed(g[1 .. k], words, k)
    OBVIOUS
  <2>4. k # 0
    BY <1>2, <2>3
  <2>5. k \in 1 .. n /\ k - 1 \in 0 .. n /\ k - 1 \notin T
    BY <1>1, <2>2, <2>3, <2>4
  <2>6. Summed(g[1 .. k - 1], words, k - 1)
    BY <2>5
  <2>7. Summed(Turn(g[1 .. k - 1], words[k]), words, k)
    BY <2>5, <2>6, LoopStep
  <2>8. g[1 .. k] = Turn(g[1 .. k - 1], words[k])
    BY <2>5, LoopTurns
  <2>. QED BY <2>3, <2>7, <2>8
<1>4. n \in 0 .. n
  BY <1>1
<1>. QED BY <1>3, <1>4

\* The loop of the IPv6 engine loses no carry, however many words it adds: the
\* adjustment that it leaves is the sum of the words, in ones' complement.
THEOREM Adjustment6Right ==
  ASSUME NEW words \in Seq(Word)
  PROVE  /\ Adjustment6(words) \in Half
         /\ Congruent(SumFunction(words), Adjustment6(words), W - 1)
<1>. DEFINE S == 1 .. Len(words)
            g == CHOOSE h : IsLoop(h, words, S)
            s == g[S]
            v == s.adj + s.carry
            f == Fold(Fold(v))
<1>1. DOMAIN words = S /\ Len(words) \in Nat
  OBVIOUS
<1>2. IsLoop(g, words, S)
  <2>1. Places(S) /\ S \in SUBSET S
    BY <1>1 DEF Places
  <2>2. \E h : IsLoop(h, words, S)
    <3>. HIDE DEF S
    <3>. QED BY <2>1, LoopExists
  <2>. QED BY <2>2
<1>3. Adjustment6(words) = Fold(Fold(v % N)) % W
  <2>1. Adjustment6(words)
           = LET t == (CHOOSE h : IsLoop(h, words, DOMAIN words))[DOMAIN words]
             IN Fold(Fold((t.adj + t.carry) % N)) % W
    BY LoopIsValue
  <2>. QED BY <1>1, <2>1
<1>4. Summed(s, words, Len(words))
  <2>. HIDE DEF g
  <2>. QED BY <1>2, LoopSums
<1>. HIDE DEF s, g
<1>5. N \in Nat /\ N > 1
  <2>1. W * W \in Nat /\ W * W >= 10 * W
    BY WidthAssumption
  <2>. QED BY <2>1, WidthAssumption
<1>6. v \in Word /\ v % N = v
  <2>1. v \in 0 .. N - 1
    <3>. HIDE DEF N
    <3>. QED BY <1>4, <1>5 DEF Summed
  <2>. HIDE DEF v, N
  <2>. QED BY <1>5, <2>1
<1>7. f \in Half /\ Congruent(v, f, W - 1)
  BY <1>6, FoldTwice, FoldTwiceKeeps
<1>8. Adjustment6(words) = f
  <2>1. f % W = f
    <3>. HIDE DEF f
    <3>1. (W * 0 + f) % W = f
      BY <1>7, PartsUnique
    <3>. QED BY <3>1, <1>7, WidthAssumption
  <2>. QED BY <1>3, <1>6, <2>1
<1>9. SumFunction(words) = SumFunctionOnSet(words, S) /\ SumFunction(words) \in Int
  <2>1. IsFiniteSet(S)
    BY <1>1, FS_Interval
  <2>2. \A i \in S : words[i] \in Int
    BY WidthAssumption
  <2>3. SumFunctionOnSet(words, S) \in Int
    <3>. HIDE DEF S
    <3>. QED BY <2>1, <2>2, SumType
  <2>. QED BY <1>1, <2>3 DEF SumFunction
<1>10. Congruent(SumFunction(words), v, N - 1)
  BY <1>4, <1>9 DEF Summed
<1>11. v \in Int /\ f \in Int /\ W - 1 \in Int
  <2>. HIDE DEF f, v
  <2>. QED BY <1>6, <1>7, WidthAssumption
<1>12. Congruent(SumFunction(words), v, W - 1)
  BY <1>9, <1>10, <1>11, CongruentHalf
<1>13. Congruent(SumFunction(words), f, W - 1)
  <2>. HIDE DEF f, v
  <2>. QED BY <1>7, <1>9, <1>11, <1>12, CongruentChain
<1>. QED BY <1>7, <1>8, <1>13

\* A word is the sum of its halves, and its complement stands for the word less.
LEMMA HalvesOfWord ==
  ASSUME NEW a \in Word
  PROVE  /\ Hi(a) \in Int /\ Lo(a) \in Int
         /\ Congruent(Hi(a) + Lo(a), a, W - 1)
         /\ Congruent(-(Hi(a) + Lo(a)), Not32(a), W - 1)
<1> DEFINE h == Hi(a)
           l == Lo(a)
           v == W - 1
<1>1. /\ h \in Int /\ l \in Int /\ a = W * h + l
      /\ Not32(a) = N - 1 - a
  <2>1. h \in Half /\ l \in Half /\ a = W * h + l
    BY HalvesOfComplement
  <2> HIDE DEF h, l
  <2> QED BY <2>1, WidthAssumption DEF Not32
<1>2. v \in Int /\ W = v + 1 /\ N = (v + 1) * (v + 1)
  BY WidthAssumption
<1> HIDE DEF h, l, v
<1>3. h + l = a + (-h) * v /\ -h \in Int
  BY <1>1, <1>2
<1>4. -(h + l) = Not32(a) + (h - v - 2) * v /\ h - v - 2 \in Int
  <2>1. (v + 1) * (v + 1) - 1 = (v + 2) * v
    BY <1>2
  <2>2. W * h = h * v + h
    BY <1>1, <1>2
  <2>3. Not32(a) = (v + 2) * v - h * v - h - l
    BY <1>1, <1>2, <2>1, <2>2
  <2>4. (h - v - 2) * v = h * v - (v + 2) * v
    BY <1>1, <1>2
  <2> DEFINE p == (v + 2) * v
             q == h * v
             r == (h - v - 2) * v
  <2>5. p \in Int /\ q \in Int /\ r = q - p /\ Not32(a) = p - q - h - l
    BY <1>1, <1>2, <2>3, <2>4
  <2> HIDE DEF p, q, r
  <2>6. -(h + l) = Not32(a) + r
    BY <1>1, <2>5
  <2> QED BY <1>1, <1>2, <2>6 DEF r
<1>5. Congruent(h + l, a, v) /\ Congruent(-(h + l), Not32(a), v)
  BY <1>3, <1>4 DEF Congruent
<1> QED BY <1>1, <1>5 DEF h, l, v

\* The word of the two ports, whichever half is the high one.
LEMMA PortsWord ==
  ASSUME NEW mp \in Half, NEW xp \in Half,
         NEW ports \in {W * mp + Not16(xp), W * Not16(xp) + mp}
  PROVE  ports \in Word /\ Congruent(mp - xp, ports, W - 1)
<1> DEFINE v == W - 1
           y == Not16(xp)
<1>1. v \in Int /\ v >= 9 /\ W = v + 1 /\ y = v - xp /\ y \in 0 .. v /\ mp \in 0 .. v /\ xp \in Int
  BY WidthAssumption DEF Not16
<1>2. N - 1 = W * v + v
  BY WidthAssumption
<1> HIDE DEF v, y
<1>3. \A a, b \in 0 .. v : W * a + b \in Word
  <2> TAKE a, b \in 0 .. v
  <2>1. W * a <= W * v /\ W * a \in Nat /\ W * v \in Nat
    BY <1>1
  <2> HIDE DEF N
  <2>2. N \in Int
    BY <1>1 DEF N
  <2> QED BY <1>1, <1>2, <2>1, <2>2
<1>4. CASE ports = W * mp + y
  <2>1. W * mp = mp * v + mp /\ mp * v \in Int
    BY <1>1
  <2>2. (-(mp + 1)) * v = -(mp * v) - v
    BY <1>1
  <2>3. mp - xp = ports + (-(mp + 1)) * v /\ -(mp + 1) \in Int
    BY <1>1, <1>4, <2>1, <2>2
  <2>4. Congruent(mp - xp, ports, v)
    BY <2>3, Zenon DEF Congruent
  <2> QED BY <1>1, <1>3, <1>4, <2>4 DEF v
<1>5. CASE ports = W * y + mp
  <2>1. W * y = y * v + y /\ y * v \in Int
    BY <1>1
  <2>2. (-(y + 1)) * v = -(y * v) - v
    BY <1>1
  <2>3. mp - xp = ports + (-(y + 1)) * v /\ -(y + 1) \in Int
    BY <1>1, <1>5, <2>1, <2>2
  <2>4. Congruent(mp - xp, ports, v)
    BY <2>3, Zenon DEF Congruent
  <2> QED BY <1>1, <1>3, <1>5, <2>4 DEF v
<1> QED BY <1>4, <1>5 DEF y

\* The IPv6 engine: the adjustment stands for the old address and port less the
\* new ones, and the checksum of a translated packet whose checksum was right
\* for the old ones is right for the new ones.
THEOREM TranslatedChecksum6Right ==
  ASSUME NEW m \in [1 .. 4 -> Word], NEW x \in [1 .. 4 -> Word],
         NEW mp \in Half, NEW xp \in Half, NEW check \in Half,
         NEW ports \in {W * mp + Not16(xp), W * Not16(xp) + mp}
  PROVE  LET diff   == <<m[1], m[2], m[3], m[4], ports,
                         Not32(x[1]), Not32(x[2]), Not32(x[3]), Not32(x[4])>>
             adj    == Adjustment6(diff)
             new    == Adjust(check, adj)
             sum(a) == Hi(a) + Lo(a)
         IN /\ adj \in Half /\ new \in Half
            /\ Congruent(check + (sum(m[1]) + sum(m[2]) + sum(m[3]) + sum(m[4]) + mp)
                           - (sum(x[1]) + sum(x[2]) + sum(x[3]) + sum(x[4]) + xp),
                         new, W - 1)
<1> DEFINE d == <<m[1], m[2], m[3], m[4], ports,
                  Not32(x[1]), Not32(x[2]), Not32(x[3]), Not32(x[4])>>
           adj == Adjustment6(d)
           new == Adjust(check, adj)
           Halves(a) == Hi(a) + Lo(a)
           S(k) == SumFunctionOnSet(d, 1 .. k)
           v == W - 1
<1>1. /\ \A i \in 1 .. 4 : m[i] \in Word /\ x[i] \in Word /\ Not32(x[i]) \in Word
      /\ ports \in Word /\ Congruent(mp - xp, ports, v)
  <2> HIDE DEF Word, Half
  <2> QED BY HalvesOfComplement, PortsWord
<1>2. d \in Seq(Word) /\ Len(d) = 9 /\ 1 .. 9 = DOMAIN d
  <2> HIDE DEF Word
  <2>1. /\ m[1] \in Word /\ m[2] \in Word /\ m[3] \in Word /\ m[4] \in Word
        /\ Not32(x[1]) \in Word /\ Not32(x[2]) \in Word
        /\ Not32(x[3]) \in Word /\ Not32(x[4]) \in Word
    BY <1>1
  <2> QED BY <1>1, <2>1
<1>3. v \in Int /\ \A a \in Word : a \in Int
  BY WidthAssumption
<1>4. \A i \in 1 .. 4 : /\ Halves(m[i]) \in Int /\ m[i] \in Int
                        /\ Congruent(Halves(m[i]), m[i], v)
                        /\ Halves(x[i]) \in Int /\ Not32(x[i]) \in Int
                        /\ Congruent(-Halves(x[i]), Not32(x[i]), v)
  <2>1. \A a \in Word : /\ Halves(a) \in Int
                        /\ Congruent(Halves(a), a, v) /\ Congruent(-Halves(a), Not32(a), v)
    BY HalvesOfWord
  <2> HIDE DEF Word, N, Halves, v
  <2> QED BY <1>1, <1>3, <2>1
<1> DEFINE h == <<Halves(m[1]), Halves(m[2]), Halves(m[3]), Halves(m[4]), mp - xp,
                  -Halves(x[1]), -Halves(x[2]), -Halves(x[3]), -Halves(x[4])>>
<1>5. \A k \in 1 .. 9 : h[k] \in Int /\ d[k] \in Int /\ Congruent(h[k], d[k], v)
  <2>1. mp - xp \in Int /\ ports \in Int
    BY <1>1, <1>3, WidthAssumption
  <2>2. \A k \in 1 .. 9 : \/ k = 1 \/ k = 2 \/ k = 3 \/ k = 4
                          \/ k = 5 \/ k = 6 \/ k = 7 \/ k = 8 \/ k = 9
    OBVIOUS
  <2> HIDE DEF Halves, v, N, Word, Half
  <2>3. \A i \in {1, 2, 3, 4} :
           /\ Halves(m[i]) \in Int /\ m[i] \in Int /\ Congruent(Halves(m[i]), m[i], v)
           /\ -Halves(x[i]) \in Int /\ Not32(x[i]) \in Int /\ Congruent(-Halves(x[i]), Not32(x[i]), v)
    BY <1>4
  <2> QED BY <1>1, <2>1, <2>2, <2>3
<1>6. ASSUME NEW k \in 1 .. 9  PROVE S(k - 1) \in Int /\ S(k) = S(k - 1) + d[k]
  <2> HIDE DEF d, Word
  <2> QED BY <1>2, SumNext
<1>7. S(0) = 0
  <2> HIDE DEF d
  <2>1. 1 .. 0 = {}
    OBVIOUS
  <2> QED BY <2>1, SumEmpty
<1>8. ASSUME NEW k \in 1 .. 9, NEW t \in Int, Congruent(t, S(k - 1), v)
      PROVE  Congruent(t + h[k], S(k), v)
  <2>1. S(k - 1) \in Int /\ S(k) = S(k - 1) + d[k]
    BY <1>6
  <2>2. h[k] \in Int /\ d[k] \in Int /\ Congruent(h[k], d[k], v)
    BY <1>5
  <2> HIDE DEF S, d, h, v
  <2> QED BY <1>3, <1>8, <2>1, <2>2, CongruentSum
<1>9. Congruent(0, S(0), v)
  <2>1. 0 = 0 + 0 * v
    BY <1>3
  <2> HIDE DEF v
  <2> QED BY <1>7, <2>1 DEF Congruent
<1> DEFINE t == h[1] + h[2] + h[3] + h[4] + h[5] + h[6] + h[7] + h[8] + h[9]
<1>10. Congruent(t, S(9), v) /\ t \in Int
  <2>0. \A k \in 1 .. 9 : h[k] \in Int
    BY <1>5
  <2>1. \A k \in 1 .. 9 : \A u \in Int : Congruent(u, S(k - 1), v) => Congruent(u + h[k], S(k), v)
    BY <1>8
  <2> HIDE DEF h, S, v
  <2>2. Congruent(h[1], S(1), v) BY <1>9, <2>0, <2>1
  <2>3. Congruent(h[1] + h[2], S(2), v) BY <2>0, <2>1, <2>2
  <2>4. Congruent(h[1] + h[2] + h[3], S(3), v) BY <2>0, <2>1, <2>3
  <2>5. Congruent(h[1] + h[2] + h[3] + h[4], S(4), v) BY <2>0, <2>1, <2>4
  <2>6. Congruent(h[1] + h[2] + h[3] + h[4] + h[5], S(5), v) BY <2>0, <2>1, <2>5
  <2>7. Congruent(h[1] + h[2] + h[3] + h[4] + h[5] + h[6], S(6), v) BY <2>0, <2>1, <2>6
  <2>8. Congruent(h[1] + h[2] + h[3] + h[4] + h[5] + h[6] + h[7], S(7), v)
    BY <2>0, <2>1, <2>7
  <2>9. Congruent(h[1] + h[2] + h[3] + h[4] + h[5] + h[6] + h[7] + h[8], S(8), v)
    BY <2>0, <2>1, <2>8
  <2> QED BY <2>0, <2>1, <2>9
<1>11. adj \in Half /\ Congruent(S(9), adj, v) /\ S(9) \in Int /\ adj \in Int
  <2>1. SumFunction(d) = S(9)
    BY <1>2 DEF SumFunction
  <2>2. S(9) \in Int
    <3> HIDE DEF d, S
    <3>1. 9 \in 1 .. 9 /\ d[9] \in Int
      BY <1>5
    <3>2. S(9 - 1) \in Int /\ S(9) = S(9 - 1) + d[9]
      BY <1>6, <3>1
    <3> QED BY <3>1, <3>2
  <2>3. adj \in Half /\ Congruent(SumFunction(d), adj, W - 1)
    <3> HIDE DEF d, Word, Half
    <3> QED BY <1>2, Adjustment6Right
  <2>4. adj \in Int
    BY <2>3, WidthAssumption
  <2> HIDE DEF S, d, adj
  <2> QED BY <2>1, <2>2, <2>3, <2>4
<1>12. new \in Half /\ Congruent(check + adj, new, v) /\ new \in Int /\ check \in Int
  <2>1. new \in Half /\ Congruent(check + adj, new, W - 1)
    <3> HIDE DEF adj, Half
    <3> QED BY <1>11, AdjustOnce
  <2> HIDE DEF new, adj
  <2> QED BY <2>1, WidthAssumption
<1>13. Congruent(t, adj, v)
  <2> HIDE DEF t, S, adj, v
  <2> QED BY <1>3, <1>10, <1>11, CongruentChain
<1>14. Congruent(check + t, new, v)
  <2>1. Congruent(check, check, v)
    <3>1. check = check + 0 * v
      BY <1>3, <1>12
    <3> HIDE DEF v
    <3> QED BY <3>1 DEF Congruent
  <2> HIDE DEF t, adj, v, new
  <2>2. Congruent(check + t, check + adj, v)
    BY <1>3, <1>10, <1>11, <1>12, <1>13, <2>1, CongruentSum
  <2>3. check + t \in Int /\ check + adj \in Int
    BY <1>10, <1>11, <1>12
  <2> QED BY <1>3, <1>12, <2>2, <2>3, CongruentChain
<1>15. check + t = check + (Halves(m[1]) + Halves(m[2]) + Halves(m[3]) + Halves(m[4]) + mp)
                    - (Halves(x[1]) + Halves(x[2]) + Halves(x[3]) + Halves(x[4]) + xp)
  <2>1. /\ Halves(m[1]) \in Int /\ Halves(m[2]) \in Int /\ Halves(m[3]) \in Int /\ Halves(m[4]) \in Int
        /\ Halves(x[1]) \in Int /\ Halves(x[2]) \in Int /\ Halves(x[3]) \in Int /\ Halves(x[4]) \in Int
        /\ mp \in Int /\ xp \in Int
    BY <1>4, WidthAssumption
  <2> HIDE DEF Halves
  <2> QED BY <1>12, <2>1
<1> HIDE DEF t, d, v
<1> QED BY <1>11, <1>12, <1>14, <1>15 DEF d, v
=============================================================================
