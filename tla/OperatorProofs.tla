--------------------------- MODULE OperatorProofs ---------------------------
(***************************************************************************)
(* What the operators that the models are built from give: the lists of    *)
(* Lists, with Append and Tail, and the sums of the community modules'     *)
(* SumFunctionOnSet, whatever order it takes the elements in.  Facts about *)
(* sums are proved by induction on the set, from the least number of       *)
(* elements of a counterexample.                                           *)
(***************************************************************************)
EXTENDS Lists, FiniteSets, Functions, SequenceTheorems, FiniteSetTheorems,
        WellFoundedInduction, TLAPS

-----------------------------------------------------------------------------
(* Lists                                                                    *)

\* A list of S has its elements in S.
LEMMA ElemsInSet ==
  ASSUME NEW S, NEW s \in Seq(S)
  PROVE  /\ Elems(s) \subseteq S
         /\ \A x : x \in Elems(s) <=> \E i \in 1 .. Len(s) : s[i] = x
  BY ElementOfSeq, LenProperties DEF Elems

\* The empty list.
LEMMA EmptyList == Elems(<<>>) = {} /\ Distinct(<<>>)
  BY DEF Elems, Distinct

\* Append adds its element and keeps a list distinct when the element is new.
LEMMA AppendList ==
  ASSUME NEW S, NEW s \in Seq(S), NEW x \in S
  PROVE  /\ Append(s, x) \in Seq(S)
         /\ Elems(Append(s, x)) = Elems(s) \cup {x}
         /\ Distinct(s) /\ x \notin Elems(s) => Distinct(Append(s, x))
<1>. DEFINE t == Append(s, x)
<1>1. /\ t \in Seq(S) /\ Len(t) = Len(s) + 1 /\ t[Len(s) + 1] = x
      /\ \A i \in 1 .. Len(s) : t[i] = s[i]
  BY AppendProperties
<1>2. /\ Len(s) \in Nat /\ DOMAIN s = 1 .. Len(s) /\ DOMAIN t = 1 .. Len(s) + 1
  BY <1>1, LenProperties
<1>. HIDE DEF t
<1>3. Elems(t) = Elems(s) \cup {x}
  BY <1>1, <1>2 DEF Elems
<1>4. ASSUME Distinct(s), x \notin Elems(s)  PROVE Distinct(t)
  <2>. SUFFICES ASSUME NEW i \in 1 .. Len(s) + 1, NEW j \in 1 .. Len(s) + 1, t[i] = t[j]
                PROVE  i = j
    BY <1>2 DEF Distinct
  <2>1. CASE i \in 1 .. Len(s) /\ j \in 1 .. Len(s)
    BY <2>1, <1>1, <1>2, <1>4 DEF Distinct
  <2>2. CASE i \in 1 .. Len(s) /\ j = Len(s) + 1
    BY <2>2, <1>1, <1>2, <1>4 DEF Elems
  <2>3. CASE i = Len(s) + 1 /\ j \in 1 .. Len(s)
    BY <2>3, <1>1, <1>2, <1>4 DEF Elems
  <2>4. CASE i = Len(s) + 1 /\ j = Len(s) + 1
    BY <2>4
  <2>. QED BY <2>1, <2>2, <2>3, <2>4, <1>2
<1>. QED BY <1>1, <1>3, <1>4 DEF t

\* Tail drops the head, and from a distinct list all of it.
LEMMA TailList ==
  ASSUME NEW S, NEW s \in Seq(S), s # <<>>
  PROVE  /\ Head(s) \in S /\ Head(s) \in Elems(s)
         /\ Tail(s) \in Seq(S)
         /\ Elems(s) = Elems(Tail(s)) \cup {Head(s)}
         /\ Distinct(s) => Distinct(Tail(s)) /\ Head(s) \notin Elems(Tail(s))
<1>. DEFINE t == Tail(s)
<1>1. /\ t \in Seq(S) /\ Len(t) = Len(s) - 1 /\ Head(s) \in S
      /\ \A i \in 1 .. Len(t) : t[i] = s[i + 1]
  BY HeadTailProperties
<1>2. /\ Len(s) \in Nat \ {0} /\ DOMAIN s = 1 .. Len(s) /\ DOMAIN t = 1 .. Len(s) - 1
  BY <1>1, LenProperties, EmptySeq
<1>3. Head(s) = s[1]
  OBVIOUS
<1>. HIDE DEF t
<1>4. Elems(s) = Elems(t) \cup {s[1]}
  <2>1. ASSUME NEW y \in Elems(s)  PROVE y \in Elems(t) \cup {s[1]}
    <3>1. PICK i \in 1 .. Len(s) : s[i] = y
      BY <1>2 DEF Elems
    <3>2. CASE i = 1
      BY <3>1, <3>2
    <3>3. CASE i # 1
      <4>1. i - 1 \in 1 .. Len(s) - 1 /\ t[i - 1] = s[i]
        BY <1>1, <1>2, <3>3
      <4>. QED BY <4>1, <3>1, <1>2 DEF Elems
    <3>. QED BY <3>2, <3>3
  <2>2. ASSUME NEW y \in Elems(t)  PROVE y \in Elems(s)
    BY <1>1, <1>2 DEF Elems
  <2>3. s[1] \in Elems(s)
    BY <1>2 DEF Elems
  <2>. QED BY <2>1, <2>2, <2>3
<1>5. ASSUME Distinct(s)  PROVE Distinct(t) /\ s[1] \notin Elems(t)
  <2>1. \A i, j \in 1 .. Len(s) : s[i] = s[j] => i = j
    BY <1>2, <1>5 DEF Distinct
  <2>2. Distinct(t)
    <3>. SUFFICES ASSUME NEW i \in 1 .. Len(s) - 1, NEW j \in 1 .. Len(s) - 1, t[i] = t[j]
                  PROVE  i = j
      BY <1>2 DEF Distinct
    <3>1. i + 1 \in 1 .. Len(s) /\ j + 1 \in 1 .. Len(s) /\ s[i + 1] = s[j + 1]
      BY <1>1, <1>2
    <3>. QED BY <3>1, <2>1, <1>2
  <2>3. ASSUME s[1] \in Elems(t)  PROVE FALSE
    <3>1. PICK i \in 1 .. Len(s) - 1 : t[i] = s[1]
      BY <2>3, <1>2 DEF Elems
    <3>2. i + 1 \in 1 .. Len(s) /\ s[i + 1] = s[1] /\ i + 1 # 1 /\ 1 \in 1 .. Len(s)
      BY <3>1, <1>1, <1>2
    <3>. QED BY <3>2, <2>1
  <2>. QED BY <2>2, <2>3
<1>. QED BY <1>1, <1>3, <1>4, <1>5, <1>2 DEF t, Elems

\* Unlink removes its element, and only that, and keeps a list distinct.
LEMMA UnlinkList ==
  ASSUME NEW S, NEW s \in Seq(S), NEW x
  PROVE  /\ Unlink(s, x) \in Seq(S)
         /\ Distinct(s) => /\ Elems(Unlink(s, x)) = Elems(s) \ {x}
                           /\ Distinct(Unlink(s, x))
<1>1. Len(s) \in Nat /\ DOMAIN s = 1 .. Len(s) /\ \A i \in 1 .. Len(s) : s[i] \in S
  BY LenProperties, ElementOfSeq
<1>2. CASE x \notin Elems(s)
  BY <1>2 DEF Unlink
<1>3. CASE x \in Elems(s)
  <2>. DEFINE p == CHOOSE i \in DOMAIN s : s[i] = x
              t == [i \in 1 .. Len(s) - 1 |-> IF i < p THEN s[i] ELSE s[i + 1]]
  <2>1. p \in 1 .. Len(s) /\ s[p] = x
    BY <1>1, <1>3 DEF Elems
  <2>2. Unlink(s, x) = t
    BY <1>3 DEF Unlink
  <2>. HIDE DEF p
  <2>3. Len(s) - 1 \in Nat
    BY <1>1, <2>1
  <2>4. \A i \in 1 .. Len(s) - 1 : t[i] \in S
    BY <1>1, <2>1
  <2>5. t \in [1 .. Len(s) - 1 -> S]
    BY <2>4
  <2>6. t \in Seq(S) /\ DOMAIN t = 1 .. Len(s) - 1
    BY <2>3, <2>5, SeqDef
  <2>7. ASSUME Distinct(s)  PROVE Elems(t) = Elems(s) \ {x} /\ Distinct(t)
    <3>1. ASSUME NEW y \in Elems(t)  PROVE y \in Elems(s) \ {x}
      <4>1. PICK i \in 1 .. Len(s) - 1 : t[i] = y
        BY <2>6 DEF Elems
      <4>2. CASE i < p
        BY <4>1, <4>2, <2>1, <2>7, <1>1 DEF Distinct, Elems
      <4>3. CASE ~(i < p)
        <5>1. i + 1 \in 1 .. Len(s) /\ i + 1 # p /\ y = s[i + 1]
          BY <4>1, <4>3, <2>1, <1>1
        <5>. QED BY <5>1, <2>1, <2>7, <1>1 DEF Distinct, Elems
      <4>. QED BY <4>2, <4>3
    <3>2. ASSUME NEW y \in Elems(s) \ {x}  PROVE y \in Elems(t)
      <4>1. PICK i \in 1 .. Len(s) : s[i] = y
        BY <1>1 DEF Elems
      <4>2. CASE i < p
        <5>1. i \in 1 .. Len(s) - 1 /\ t[i] = y
          BY <4>1, <4>2, <2>1, <1>1
        <5>. QED BY <5>1, <2>6 DEF Elems
      <4>3. CASE i > p
        <5>1. i - 1 \in 1 .. Len(s) - 1 /\ t[i - 1] = y
          BY <4>1, <4>3, <2>1, <1>1
        <5>. QED BY <5>1, <2>6 DEF Elems
      <4>4. i # p
        BY <4>1, <2>1
      <4>. QED BY <4>2, <4>3, <4>4, <2>1, <1>1
    <3>3. Distinct(t)
      <4>. SUFFICES ASSUME NEW i \in 1 .. Len(s) - 1, NEW j \in 1 .. Len(s) - 1, t[i] = t[j]
                    PROVE  i = j
        BY <2>6 DEF Distinct
      <4>. DEFINE at(k) == IF k < p THEN k ELSE k + 1
      <4>1. at(i) \in 1 .. Len(s) /\ at(j) \in 1 .. Len(s) /\ s[at(i)] = s[at(j)]
        BY <1>1, <2>1
      <4>2. at(i) = at(j)
        BY <4>1, <2>7, <1>1 DEF Distinct
      <4>. QED BY <4>2, <2>1, <1>1
    <3>. QED BY <3>1, <3>2, <3>3
  <2>. QED BY <2>2, <2>6, <2>7
<1>. QED BY <1>2, <1>3

-----------------------------------------------------------------------------
(* Induction over the subsets of a finite set                               *)

\* A set of natural numbers that is not empty has a least element.
LEMMA LeastNumber ==
  ASSUME NEW T \in SUBSET Nat, T # {}
  PROVE  \E n \in T : \A m \in T : n <= m
<1>1. \E n \in T : \A m \in T : ~(<<m, n>> \in OpToRel(<, Nat))
  BY WFMin, NatLessThanWellFounded, Zenon
<1>2. \E n \in T : \A m \in T : ~(m < n)
  BY <1>1, Zenon DEF OpToRel
<1>. QED BY <1>2

\* Induction over the subsets of a finite set: what holds of a set when it holds of
\* the set without any one of its elements holds of all.
LEMMA SubsetInduction ==
  ASSUME NEW S, IsFiniteSet(S), NEW T \in SUBSET SUBSET S,
         \A s \in SUBSET S : (\A x \in s : s \ {x} \in T) => s \in T
  PROVE  T = SUBSET S
<1>. DEFINE Sizes == {Cardinality(s) : s \in (SUBSET S) \ T}
<1>1. \A s \in SUBSET S : IsFiniteSet(s) /\ Cardinality(s) \in Nat
  BY FS_Subset, FS_CardinalityType
<1>. SUFFICES ASSUME (SUBSET S) \ T # {}  PROVE FALSE
  OBVIOUS
<1>2. Sizes \in SUBSET Nat /\ Sizes # {}
  BY <1>1
<1>3. PICK n \in Sizes : \A m \in Sizes : n <= m
  <2>. HIDE DEF Sizes
  <2>. QED BY <1>2, LeastNumber
<1>4. PICK s \in (SUBSET S) \ T : n = Cardinality(s)
  OBVIOUS
<1>5. PICK x \in s : s \ {x} \notin T
  BY <1>4
<1>6. Cardinality(s \ {x}) = Cardinality(s) - 1 /\ Cardinality(s) \in Nat
  BY <1>1, <1>4, <1>5, FS_RemoveElement
<1>7. Cardinality(s \ {x}) \in Sizes
  BY <1>5
<1>8. Cardinality(s) <= Cardinality(s \ {x})
  <2>. HIDE DEF Sizes
  <2>. QED BY <1>3, <1>4, <1>7
<1>. QED BY <1>6, <1>8

-----------------------------------------------------------------------------
(* The recursive function behind a sum                                      *)

Chosen(s) == CHOOSE x \in s : TRUE

\* g is the sum of f over each subset of S.
IsSum(g, f, S) ==
  g = [s \in SUBSET S |-> IF s = {} THEN 0 ELSE f[Chosen(s)] + g[s \ {Chosen(s)}]]

\* The element that is taken is one of the set.
LEMMA ChosenIn == ASSUME NEW s, s # {}  PROVE Chosen(s) \in s
  BY DEF Chosen

\* A sum is the value of that function, whichever it is.
LEMMA SumIsValue ==
  ASSUME NEW f, NEW S
  PROVE  SumFunctionOnSet(f, S) = (CHOOSE g : IsSum(g, f, S))[S]
  BY DEF SumFunctionOnSet, FoldFunctionOnSet, MapThenFoldSet, IsSum, Chosen

\* What the equation says of each subset.
LEMMA SumOfEmpty ==
  ASSUME NEW f, NEW S, NEW g, IsSum(g, f, S)
  PROVE  g[{}] = 0
  BY DEF IsSum

\* The same for a subset with elements.
LEMMA SumOfSome ==
  ASSUME NEW f, NEW S, NEW g, IsSum(g, f, S), NEW s \in SUBSET S, s # {}
  PROVE  g[s] = f[Chosen(s)] + g[s \ {Chosen(s)}]
  BY DEF IsSum

\* Two such functions agree on the subsets that both know.
LEMMA SumUnique ==
  ASSUME NEW f, NEW S, IsFiniteSet(S), NEW R \in SUBSET S,
         NEW g, IsSum(g, f, S), NEW h, IsSum(h, f, R)
  PROVE  \A s \in SUBSET R : g[s] = h[s]
<1>. DEFINE T == {s \in SUBSET R : g[s] = h[s]}
<1>1. IsFiniteSet(R)
  BY FS_Subset
<1>2. ASSUME NEW s \in SUBSET R, \A x \in s : s \ {x} \in T
      PROVE  s \in T
  <2>1. CASE s = {}
    BY <2>1, SumOfEmpty
  <2>2. CASE s # {}
    <3>1. g[s \ {Chosen(s)}] = h[s \ {Chosen(s)}]
      BY <1>2, <2>2, ChosenIn
    <3>2. g[s] = f[Chosen(s)] + g[s \ {Chosen(s)}]
      BY <2>2, SumOfSome
    <3>3. h[s] = f[Chosen(s)] + h[s \ {Chosen(s)}]
      BY <2>2, SumOfSome
    <3>. QED BY <3>1, <3>2, <3>3
  <2>. QED BY <2>1, <2>2
<1>3. T = SUBSET R
  <2>. HIDE DEF T
  <2>1. T \in SUBSET SUBSET R
    BY DEF T
  <2>. QED BY <1>1, <1>2, <2>1, SubsetInduction
<1>. QED BY <1>3

\* A subset with one element more than R has a function when all without it have.
LEMMA SumExists ==
  ASSUME NEW f, NEW S, IsFiniteSet(S)
  PROVE  \E g : IsSum(g, f, S)
<1>. DEFINE T == {s \in SUBSET S : \E g : IsSum(g, f, s)}
<1>1. ASSUME NEW s \in SUBSET S, \A x \in s : s \ {x} \in T
      PROVE  s \in T
  <2>1. IsFiniteSet(s)
    BY FS_Subset
  <2>. DEFINE G(r) == CHOOSE g : IsSum(g, f, r)
              Value(r) == IF r = {} THEN 0 ELSE f[Chosen(r)] + G(r \ {Chosen(r)})[r \ {Chosen(r)}]
              g == [r \in SUBSET s |-> Value(r)]
  <2>2. ASSUME NEW r \in SUBSET s, r # s  PROVE IsSum(G(r), f, r)
    <3>. PICK x \in s : x \notin r
      BY <2>2
    <3>. PICK h : IsSum(h, f, s \ {x})
      BY <1>1
    <3>1. r \subseteq s \ {x} /\ IsFiniteSet(s \ {x})
      BY <2>1, FS_Subset
    <3>. DEFINE k == [q \in SUBSET r |-> h[q]]
    <3>2. k = [q \in SUBSET r |-> IF q = {} THEN 0 ELSE f[Chosen(q)] + k[q \ {Chosen(q)}]]
      <4>1. ASSUME NEW q \in SUBSET r
            PROVE  k[q] = IF q = {} THEN 0 ELSE f[Chosen(q)] + k[q \ {Chosen(q)}]
        <5>1. q \in SUBSET (s \ {x}) /\ q \ {Chosen(q)} \in SUBSET r
          BY <3>1
        <5>2. /\ h[{}] = 0
              /\ q # {} => h[q] = f[Chosen(q)] + h[q \ {Chosen(q)}]
          <6>. HIDE DEF G, T, g, Value, k
          <6>1. h[{}] = 0
            BY SumOfEmpty
          <6>2. q # {} => h[q] = f[Chosen(q)] + h[q \ {Chosen(q)}]
            BY <5>1, SumOfSome
          <6>. QED BY <6>1, <6>2
        <5>. QED BY <5>1, <5>2
      <4>. QED BY <4>1
    <3>3. IsSum(k, f, r)
      BY <3>2 DEF IsSum
    <3>. QED BY <3>3
  <2>3. ASSUME NEW r \in SUBSET s
        PROVE  g[r] = IF r = {} THEN 0 ELSE f[Chosen(r)] + g[r \ {Chosen(r)}]
    <3>1. CASE r = {}
      BY <3>1
    <3>2. CASE r # {}
      <4>. DEFINE q == r \ {Chosen(r)}
      <4>1. q \in SUBSET s /\ q # s /\ q \in SUBSET q
        BY <3>2, ChosenIn
      <4>2. g[q] = G(q)[q]
        <5>1. CASE q = {}
          <6>1. IsSum(G(q), f, q)
            BY <2>2, <4>1
          <6>. QED BY <4>1, <5>1, <6>1, SumOfEmpty
        <5>2. CASE q # {}
          <6>. DEFINE p == q \ {Chosen(q)}
          <6>1. p \in SUBSET s /\ p # s /\ p \in SUBSET q /\ p \in SUBSET p
            BY <4>1, <5>2, ChosenIn
          <6>2. IsSum(G(q), f, q) /\ IsSum(G(p), f, p)
            <7>. HIDE DEF G
            <7>. QED BY <2>2, <4>1, <6>1
          <6>3. IsFiniteSet(q)
            BY <2>1, <4>1, FS_Subset
          <6>4. G(q)[p] = G(p)[p]
            <7>. HIDE DEF G, p, q
            <7>. QED BY <6>1, <6>2, <6>3, SumUnique
          <6>5. G(q)[q] = f[Chosen(q)] + G(q)[p]
            <7>. HIDE DEF G, q
            <7>. QED BY <4>1, <5>2, <6>2, SumOfSome
          <6>6. g[q] = f[Chosen(q)] + G(p)[p]
            <7>. HIDE DEF G
            <7>. QED BY <4>1, <5>2
          <6>. QED BY <6>4, <6>5, <6>6
        <5>. QED BY <5>1, <5>2
      <4>3. g[r] = f[Chosen(r)] + G(q)[q]
        <5>. HIDE DEF G
        <5>. QED BY <3>2
      <4>. QED BY <3>2, <4>2, <4>3
    <3>. QED BY <3>1, <3>2
  <2>4. IsSum(g, f, s)
    <3>1. g = [r \in SUBSET s |-> g[r]]
      OBVIOUS
    <3>. HIDE DEF g
    <3>. QED BY <2>3, <3>1 DEF IsSum
  <2>. QED BY <2>4
<1>2. T = SUBSET S
  <2>. HIDE DEF T
  <2>1. T \in SUBSET SUBSET S
    BY DEF T
  <2>. QED BY <1>1, <2>1, SubsetInduction
<1>. QED BY <1>2

\* The sum over a subset is the value of the function for the whole set.
LEMMA SumOfSubset ==
  ASSUME NEW f, NEW S, IsFiniteSet(S), NEW g, IsSum(g, f, S), NEW R \in SUBSET S
  PROVE  SumFunctionOnSet(f, R) = g[R]
<1>. DEFINE h == CHOOSE k : IsSum(k, f, R)
<1>1. IsFiniteSet(R)
  BY FS_Subset
<1>2. \E k : IsSum(k, f, R)
  BY <1>1, SumExists
<1>3. IsSum(h, f, R)
  BY <1>2
<1>4. SumFunctionOnSet(f, R) = h[R]
  BY SumIsValue
<1>5. ASSUME NEW k, IsSum(k, f, R)  PROVE g[R] = k[R]
  <2>1. \A s \in SUBSET R : g[s] = k[s]
    BY <1>5, SumUnique
  <2>. QED BY <2>1
<1>6. g[R] = h[R]
  <2>. HIDE DEF h
  <2>. QED BY <1>3, <1>5
<1>. QED BY <1>4, <1>6

-----------------------------------------------------------------------------
(* The facts that proofs use                                                *)

\* The sum over no elements.
LEMMA SumEmpty == ASSUME NEW f  PROVE SumFunctionOnSet(f, {}) = 0
<1>1. IsFiniteSet({})
  BY FS_EmptySet
<1>. PICK g : IsSum(g, f, {})
  BY <1>1, SumExists
<1>2. SumFunctionOnSet(f, {}) = g[{}]
  BY <1>1, SumOfSubset
<1>. QED BY <1>2, SumOfEmpty

\* The sum takes the chosen element and goes on.
LEMMA SumTakes ==
  ASSUME NEW f, NEW S, IsFiniteSet(S), S # {}
  PROVE  SumFunctionOnSet(f, S) = f[Chosen(S)] + SumFunctionOnSet(f, S \ {Chosen(S)})
<1>. PICK g : IsSum(g, f, S)
  BY SumExists
<1>1. SumFunctionOnSet(f, S) = g[S]
  BY SumOfSubset
<1>2. SumFunctionOnSet(f, S \ {Chosen(S)}) = g[S \ {Chosen(S)}]
  BY SumOfSubset
<1>3. g[S] = f[Chosen(S)] + g[S \ {Chosen(S)}]
  BY SumOfSome
<1>. QED BY <1>1, <1>2, <1>3

\* A sum of integers is an integer.
LEMMA SumType ==
  ASSUME NEW S, IsFiniteSet(S), NEW f, \A x \in S : f[x] \in Int
  PROVE  SumFunctionOnSet(f, S) \in Int
<1>. DEFINE T == {s \in SUBSET S : SumFunctionOnSet(f, s) \in Int}
<1>1. ASSUME NEW s \in SUBSET S, \A x \in s : s \ {x} \in T
      PROVE  s \in T
  <2>1. CASE s = {}
    BY <2>1, SumEmpty
  <2>2. CASE s # {}
    <3>1. Chosen(s) \in s /\ IsFiniteSet(s)
      BY <2>2, ChosenIn, FS_Subset
    <3>2. SumFunctionOnSet(f, s) = f[Chosen(s)] + SumFunctionOnSet(f, s \ {Chosen(s)})
      BY <2>2, <3>1, SumTakes
    <3>3. SumFunctionOnSet(f, s \ {Chosen(s)}) \in Int /\ f[Chosen(s)] \in Int
      BY <1>1, <3>1
    <3>. QED BY <3>2, <3>3
  <2>. QED BY <2>1, <2>2
<1>2. T = SUBSET S
  <2>. HIDE DEF T
  <2>1. T \in SUBSET SUBSET S
    BY DEF T
  <2>. QED BY <1>1, <2>1, SubsetInduction
<1>. QED BY <1>2

\* Whichever element is taken first, the sum is the same.
LEMMA SumRemove ==
  ASSUME NEW S, IsFiniteSet(S), NEW f, \A x \in S : f[x] \in Int, NEW a \in S
  PROVE  SumFunctionOnSet(f, S) = f[a] + SumFunctionOnSet(f, S \ {a})
<1>. DEFINE T == {s \in SUBSET S :
                    \A x \in s : SumFunctionOnSet(f, s) = f[x] + SumFunctionOnSet(f, s \ {x})}
<1>1. ASSUME NEW s \in SUBSET S, \A x \in s : s \ {x} \in T
      PROVE  s \in T
  <2>. SUFFICES ASSUME NEW x \in s
                PROVE  SumFunctionOnSet(f, s) = f[x] + SumFunctionOnSet(f, s \ {x})
    OBVIOUS
  <2>. DEFINE p == Chosen(s)
  <2>1. p \in s /\ IsFiniteSet(s)
    BY ChosenIn, FS_Subset
  <2>2. SumFunctionOnSet(f, s) = f[p] + SumFunctionOnSet(f, s \ {p})
    BY <2>1, SumTakes
  <2>. HIDE DEF p
  <2>3. CASE x = p
    BY <2>2, <2>3
  <2>4. CASE x # p
    <3>1. SumFunctionOnSet(f, s \ {p}) = f[x] + SumFunctionOnSet(f, (s \ {p}) \ {x})
      BY <1>1, <2>1, <2>4
    <3>2. SumFunctionOnSet(f, s \ {x}) = f[p] + SumFunctionOnSet(f, (s \ {x}) \ {p})
      BY <1>1, <2>1, <2>4
    <3>3. (s \ {p}) \ {x} = (s \ {x}) \ {p}
      OBVIOUS
    <3>4. SumFunctionOnSet(f, (s \ {p}) \ {x}) \in Int
      <4>1. IsFiniteSet((s \ {p}) \ {x})
        BY <2>1, FS_Subset
      <4>. QED BY <4>1, SumType
    <3>5. ASSUME NEW rest \in Int, NEW sum, NEW sumP, NEW sumX,
                 sum = f[p] + sumP, sumP = f[x] + rest, sumX = f[p] + rest
          PROVE  sum = f[x] + sumX
      <4>1. f[p] \in Int /\ f[x] \in Int
        BY <2>1
      <4>. QED BY <3>5, <4>1
    <3>6. SumFunctionOnSet(f, s \ {x}) = f[p] + SumFunctionOnSet(f, (s \ {p}) \ {x})
      BY <3>2, <3>3
    <3>. QED BY <2>2, <3>1, <3>4, <3>5, <3>6
  <2>. QED BY <2>3, <2>4
<1>2. T = SUBSET S
  <2>. HIDE DEF T
  <2>1. T \in SUBSET SUBSET S
    BY DEF T
  <2>. QED BY <1>1, <2>1, SubsetInduction
<1>3. S \in T
  BY <1>2
<1>. QED BY <1>3

\* The sum depends on the values over its set, and nothing else.
LEMMA SumSame ==
  ASSUME NEW S, IsFiniteSet(S), NEW f, NEW g, \A x \in S : f[x] = g[x]
  PROVE  SumFunctionOnSet(f, S) = SumFunctionOnSet(g, S)
<1>. DEFINE T == {s \in SUBSET S : SumFunctionOnSet(f, s) = SumFunctionOnSet(g, s)}
<1>1. ASSUME NEW s \in SUBSET S, \A x \in s : s \ {x} \in T
      PROVE  s \in T
  <2>1. CASE s = {}
    BY <2>1, SumEmpty
  <2>2. CASE s # {}
    <3>1. Chosen(s) \in s /\ IsFiniteSet(s)
      BY <2>2, ChosenIn, FS_Subset
    <3>2. SumFunctionOnSet(f, s) = f[Chosen(s)] + SumFunctionOnSet(f, s \ {Chosen(s)})
      BY <2>2, <3>1, SumTakes
    <3>3. SumFunctionOnSet(g, s) = g[Chosen(s)] + SumFunctionOnSet(g, s \ {Chosen(s)})
      BY <2>2, <3>1, SumTakes
    <3>4. /\ SumFunctionOnSet(f, s \ {Chosen(s)}) = SumFunctionOnSet(g, s \ {Chosen(s)})
          /\ f[Chosen(s)] = g[Chosen(s)]
      BY <1>1, <3>1
    <3>. QED BY <3>2, <3>3, <3>4
  <2>. QED BY <2>1, <2>2
<1>2. T = SUBSET S
  <2>. HIDE DEF T
  <2>1. T \in SUBSET SUBSET S
    BY DEF T
  <2>. QED BY <1>1, <2>1, SubsetInduction
<1>. QED BY <1>2

\* A change of one value changes the sum by as much, and only when it is in the set.
LEMMA SumUpdate ==
  ASSUME NEW S, IsFiniteSet(S), NEW f, NEW g, NEW a,
         \A x \in S : f[x] \in Int /\ g[x] \in Int,
         \A x \in S : x # a => f[x] = g[x]
  PROVE  SumFunctionOnSet(g, S)
           = SumFunctionOnSet(f, S) + (IF a \in S THEN g[a] - f[a] ELSE 0)
<1>1. SumFunctionOnSet(f, S) \in Int
  BY SumType
<1>2. CASE a \notin S
  <2>1. SumFunctionOnSet(f, S) = SumFunctionOnSet(g, S)
    BY <1>2, SumSame
  <2>. QED BY <1>1, <1>2, <2>1
<1>3. CASE a \in S
  <2>1. IsFiniteSet(S \ {a}) /\ \A x \in S \ {a} : f[x] = g[x] /\ f[x] \in Int
    BY FS_Subset
  <2>2. SumFunctionOnSet(f, S \ {a}) = SumFunctionOnSet(g, S \ {a})
    BY <2>1, SumSame
  <2>3. SumFunctionOnSet(f, S \ {a}) \in Int
    BY <2>1, SumType
  <2>4. /\ SumFunctionOnSet(f, S) = f[a] + SumFunctionOnSet(f, S \ {a})
        /\ SumFunctionOnSet(g, S) = g[a] + SumFunctionOnSet(g, S \ {a})
    BY <1>3, SumRemove
  <2>. QED BY <1>3, <2>2, <2>3, <2>4
<1>. QED BY <1>2, <1>3

\* A new element adds its value.
LEMMA SumInsert ==
  ASSUME NEW S, IsFiniteSet(S), NEW f, \A x \in S : f[x] \in Int, NEW a, a \notin S, f[a] \in Int
  PROVE  SumFunctionOnSet(f, S \cup {a}) = f[a] + SumFunctionOnSet(f, S)
<1>1. IsFiniteSet(S \cup {a}) /\ (S \cup {a}) \ {a} = S
  BY FS_AddElement
<1>. QED BY <1>1, SumRemove

\* Where all values are zero, the sum is.
LEMMA SumZero ==
  ASSUME NEW S, IsFiniteSet(S), NEW f, \A x \in S : f[x] = 0
  PROVE  SumFunctionOnSet(f, S) = 0
<1>. DEFINE T == {s \in SUBSET S : SumFunctionOnSet(f, s) = 0}
<1>1. ASSUME NEW s \in SUBSET S, \A x \in s : s \ {x} \in T
      PROVE  s \in T
  <2>1. CASE s = {}
    BY <2>1, SumEmpty
  <2>2. CASE s # {}
    <3>1. Chosen(s) \in s /\ IsFiniteSet(s)
      BY <2>2, ChosenIn, FS_Subset
    <3>2. SumFunctionOnSet(f, s) = f[Chosen(s)] + SumFunctionOnSet(f, s \ {Chosen(s)})
      BY <2>2, <3>1, SumTakes
    <3>3. SumFunctionOnSet(f, s \ {Chosen(s)}) = 0 /\ f[Chosen(s)] = 0
      BY <1>1, <3>1
    <3>. QED BY <3>2, <3>3
  <2>. QED BY <2>1, <2>2
<1>2. T = SUBSET S
  <2>. HIDE DEF T
  <2>1. T \in SUBSET SUBSET S
    BY DEF T
  <2>. QED BY <1>1, <2>1, SubsetInduction
<1>. QED BY <1>2

\* A sum of natural numbers is one, and none of them exceeds it.
LEMMA SumBounds ==
  ASSUME NEW S, IsFiniteSet(S), NEW f, \A x \in S : f[x] \in Nat
  PROVE  /\ SumFunctionOnSet(f, S) \in Nat
         /\ \A x \in S : f[x] <= SumFunctionOnSet(f, S)
<1>. DEFINE T == {s \in SUBSET S : SumFunctionOnSet(f, s) \in Nat}
<1>1. ASSUME NEW s \in SUBSET S, \A x \in s : s \ {x} \in T
      PROVE  s \in T
  <2>1. CASE s = {}
    BY <2>1, SumEmpty
  <2>2. CASE s # {}
    <3>1. Chosen(s) \in s /\ IsFiniteSet(s)
      BY <2>2, ChosenIn, FS_Subset
    <3>2. SumFunctionOnSet(f, s) = f[Chosen(s)] + SumFunctionOnSet(f, s \ {Chosen(s)})
      BY <2>2, <3>1, SumTakes
    <3>3. SumFunctionOnSet(f, s \ {Chosen(s)}) \in Nat /\ f[Chosen(s)] \in Nat
      BY <1>1, <3>1
    <3>. QED BY <3>2, <3>3
  <2>. QED BY <2>1, <2>2
<1>2. T = SUBSET S
  <2>. HIDE DEF T
  <2>1. T \in SUBSET SUBSET S
    BY DEF T
  <2>. QED BY <1>1, <2>1, SubsetInduction
<1>3. ASSUME NEW x \in S  PROVE f[x] <= SumFunctionOnSet(f, S)
  <2>1. SumFunctionOnSet(f, S) = f[x] + SumFunctionOnSet(f, S \ {x})
    BY SumRemove
  <2>2. SumFunctionOnSet(f, S \ {x}) \in Nat
    BY <1>2
  <2>. QED BY <2>1, <2>2
<1>. QED BY <1>2, <1>3
=============================================================================
