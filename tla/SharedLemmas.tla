----------------------------- MODULE SharedLemmas -----------------------------
(***************************************************************************)
(* Facts about naturals and sequences that the proofs of several           *)
(* components cite.  A nonempty set of naturals has a least element: that  *)
(* takes the place of an induction, since a claim about every number holds *)
(* when no number is the least to refute it.  Ranks are how a list in the  *)
(* order of some key is known to hold each item once.                      *)
(***************************************************************************)
EXTENDS Naturals, Sequences, FiniteSetTheorems, SequenceTheorems, TLAPS

\* By the well-founded order of strict inclusion on the subsets of 0 .. k.
LEMMA LeastElement ==
    ASSUME NEW T \in SUBSET Nat, NEW k \in T
    PROVE  \E n \in T : \A m \in T : n <= m
<1> DEFINE S == 0 .. k
           below == {U \in SUBSET S : \E n \in T : U = 0 .. n}
           O == StrictSubsetOrdering(S)
<1>1. IsFiniteSet(S) BY FS_Interval
<1>2. FiniteSubsetsOf(S) = SUBSET S BY <1>1, FS_FiniteSubsetsOfFinite
<1>3. IsWellFoundedOn(O, SUBSET S)
  BY <1>2, FS_StrictSubsetOrderingWellFounded
<1>4. S \in below /\ below \subseteq SUBSET S OBVIOUS
<1> HIDE DEF below, O
<1>5. PICK U \in below : \A V \in below : <<V, U>> \notin O
  BY <1>3, <1>4, WFMin
<1>6. PICK n \in T : U = 0 .. n /\ U \subseteq S BY DEF below
<1>7. ASSUME NEW m \in T, m < n PROVE FALSE
  <2>1. 0 .. m \in below
    <3>1. 0 .. m \subseteq S BY <1>6, <1>7
    <3>2. QED BY <3>1 DEF below
  <2>2. 0 .. m \subseteq U /\ 0 .. m # U
    <3>1. n \in 0 .. n /\ n \notin 0 .. m BY <1>7
    <3>2. QED BY <1>6, <1>7, <3>1
  <2>3. <<0 .. m, U>> \in O
    <3>1. 0 .. m \subseteq S /\ U \subseteq S BY <1>4, <2>1 DEF below
    <3>2. QED BY <2>2, <3>1 DEF O, StrictSubsetOrdering
  <2>4. QED BY <1>5, <2>1, <2>3
<1>8. QED BY <1>7

\* By the least of its upper bounds.
LEMMA GreatestElement ==
    ASSUME NEW bound \in Nat, NEW S \in SUBSET (1 .. bound), S # {}
    PROVE  \E n \in S : \A m \in S : m <= n
<1> DEFINE above == {n \in Nat : \A m \in S : m <= n}
<1>1. bound \in above /\ above \in SUBSET Nat OBVIOUS
<1>2. PICK n \in above : \A m \in above : n <= m
  <2> HIDE DEF above
  <2>1. QED BY <1>1, LeastElement
<1>3. n \in S
  <2> SUFFICES ASSUME n \notin S PROVE FALSE OBVIOUS
  <2>1. PICK k \in S : TRUE OBVIOUS
  <2>2. n \in Nat /\ 1 <= k /\ k <= n BY <2>1
  <2>3. n - 1 \in Nat BY <2>2
  <2>4. \A m \in S : m <= n - 1
    <3> TAKE m \in S
    <3>1. m \in Nat /\ m <= n /\ m # n OBVIOUS
    <3>2. QED BY <2>2, <3>1
  <2>5. n - 1 \in above BY <2>3, <2>4
  <2>6. n <= n - 1 BY <1>2, <2>5
  <2>7. QED BY <2>2, <2>6
<1>4. QED BY <1>3

\* A sequence that grew by one element begins with what it was.
LEMMA AppendedPrefix ==
    ASSUME NEW S, NEW s \in Seq(S), NEW t \in Seq(S),
           Len(t) = Len(s) + 1, \A i \in 1 .. Len(s) : t[i] = s[i]
    PROVE  SubSeq(t, 1, Len(s)) = s
<1>1. Len(s) \in Nat
  OBVIOUS
<1>2. \A i \in 1 .. Len(s) : t[i] \in S
  OBVIOUS
<1> DEFINE u == SubSeq(t, 1, Len(s))
<1>3. /\ u \in Seq(S)
      /\ Len(u) = IF 1 <= Len(s) THEN Len(s) - 1 + 1 ELSE 0
      /\ \A i \in 1 .. Len(s) - 1 + 1 : u[i] = t[1 + i - 1]
  BY <1>1, <1>2, SubSeqProperties
<1> HIDE DEF u
<1>4. Len(u) = Len(s)
  BY <1>1, <1>3
<1>5. \A i \in 1 .. Len(u) : u[i] = s[i]
  BY <1>1, <1>3, <1>4
<1>6. u = s
  BY <1>3, <1>4, <1>5, SeqEqual
<1>7. QED BY <1>6 DEF u

\* An interval from one says where it ends.
LEMMA SameInterval ==
    ASSUME NEW m \in Nat, NEW n \in Nat, 1 .. m = 1 .. n
    PROVE  m = n
<1>1. m = 0 \/ m \in 1 .. m OBVIOUS
<1>2. n = 0 \/ n \in 1 .. n OBVIOUS
<1>3. m = 0 \/ m <= n BY <1>1
<1>4. n = 0 \/ n <= m BY <1>2
<1>5. QED BY <1>3, <1>4

-----------------------------------------------------------------------------
(* Ranks. *)

\* A finite set whose items a key tells apart.
Keyed(S, key) ==
    IsFiniteSet(S) /\ key \in [S -> Nat] /\ \A m, n \in S : key[m] = key[n] => m = n

Below(S, key, m) == {n \in S : key[n] < key[m]}
Rank(S, key, m) == Cardinality(Below(S, key, m))

LEMMA RankBounds ==
    ASSUME NEW S, NEW key, Keyed(S, key), NEW m \in S
    PROVE  Rank(S, key, m) \in 0 .. Cardinality(S) - 1
<1>1. Below(S, key, m) \in SUBSET S /\ m \notin Below(S, key, m) BY DEF Below, Keyed
<1>2. IsFiniteSet(S) BY DEF Keyed
<1>3. /\ IsFiniteSet(Below(S, key, m)) /\ Cardinality(Below(S, key, m)) <= Cardinality(S)
      /\ Cardinality(Below(S, key, m)) # Cardinality(S)
  BY <1>1, <1>2, FS_Subset
<1>4. Cardinality(S) \in Nat /\ Cardinality(Below(S, key, m)) \in Nat
  BY <1>2, <1>3, FS_CardinalityType
<1>5. QED BY <1>3, <1>4 DEF Rank

LEMMA RankIncreases ==
    ASSUME NEW S, NEW key, Keyed(S, key), NEW m \in S, NEW n \in S, key[m] < key[n]
    PROVE  Rank(S, key, m) < Rank(S, key, n)
<1>1. /\ Below(S, key, m) \in SUBSET Below(S, key, n) /\ Below(S, key, n) \in SUBSET S
      /\ m \in Below(S, key, n) /\ m \notin Below(S, key, m)
  BY DEF Below, Keyed
<1>2. IsFiniteSet(S) BY DEF Keyed
<1>3. IsFiniteSet(Below(S, key, n)) BY <1>1, <1>2, FS_Subset
<1>4. /\ IsFiniteSet(Below(S, key, m))
      /\ Cardinality(Below(S, key, m)) <= Cardinality(Below(S, key, n))
      /\ Cardinality(Below(S, key, m)) # Cardinality(Below(S, key, n))
  BY <1>1, <1>3, FS_Subset
<1>5. Cardinality(Below(S, key, m)) \in Nat /\ Cardinality(Below(S, key, n)) \in Nat
  BY <1>3, <1>4, FS_CardinalityType
<1>6. QED BY <1>4, <1>5 DEF Rank

LEMMA RankDecides ==
    ASSUME NEW S, NEW key, Keyed(S, key), NEW m \in S, NEW n \in S
    PROVE  /\ Rank(S, key, m) = Rank(S, key, n) => m = n
           /\ Rank(S, key, m) < Rank(S, key, n) => key[m] < key[n]
<1>1. key[m] \in Nat /\ key[n] \in Nat BY DEF Keyed
<1>2. Rank(S, key, m) \in Nat /\ Rank(S, key, n) \in Nat
  <2>1. /\ Rank(S, key, m) \in 0 .. Cardinality(S) - 1
        /\ Rank(S, key, n) \in 0 .. Cardinality(S) - 1
    BY RankBounds
  <2>2. QED BY <2>1
<1>3. key[m] < key[n] => Rank(S, key, m) < Rank(S, key, n) BY RankIncreases
<1>4. key[n] < key[m] => Rank(S, key, n) < Rank(S, key, m) BY RankIncreases
<1>5. key[m] = key[n] => m = n BY DEF Keyed
<1>6. QED BY <1>1, <1>2, <1>3, <1>4, <1>5

\* Every rank is taken: else they were fewer than the items.
LEMMA RanksAreTaken ==
    ASSUME NEW S, NEW key, Keyed(S, key), NEW k \in 0 .. Cardinality(S) - 1
    PROVE  \E m \in S : Rank(S, key, m) = k
<1> SUFFICES ASSUME \A m \in S : Rank(S, key, m) # k PROVE FALSE
  OBVIOUS
<1> DEFINE T == (0 .. Cardinality(S) - 1) \ {k}
           f == [m \in S |-> Rank(S, key, m)]
<1>1. IsFiniteSet(S) /\ Cardinality(S) \in Nat BY FS_CardinalityType DEF Keyed
<1>2. /\ IsFiniteSet(0 .. Cardinality(S) - 1)
      /\ Cardinality(0 .. Cardinality(S) - 1) = Cardinality(S)
  <2>1. 0 \in Int /\ Cardinality(S) - 1 \in Int /\ ~(0 > Cardinality(S) - 1)
        /\ (Cardinality(S) - 1) - 0 + 1 = Cardinality(S)
    BY <1>1
  <2>2. QED BY <2>1, FS_Interval
<1>3. IsFiniteSet(T) /\ Cardinality(T) = Cardinality(S) - 1
  BY <1>2, FS_RemoveElement
<1>4. Cardinality(T) < Cardinality(S) BY <1>1, <1>3
<1>5. f \in [S -> T] BY RankBounds
<1> HIDE DEF T
<1>6. PICK m \in S, n \in S : m # n /\ f[m] = f[n]
  <2> HIDE DEF f
  <2>1. \E m, n \in S : m # n /\ f[m] = f[n] BY <1>1, <1>3, <1>4, <1>5, FS_PigeonHole
  <2>2. QED BY <2>1
<1>7. Rank(S, key, m) = Rank(S, key, n) /\ m # n BY <1>6
<1>8. QED BY <1>7, RankDecides

\* The list that has at each place the item of that rank holds every item once, in
\* the order of the key.
Ranked(S, key) == [i \in 1 .. Cardinality(S) |-> CHOOSE m \in S : Rank(S, key, m) = i - 1]

InOrderOf(key, S, s) ==
    /\ s \in Seq(S) /\ Len(s) = Cardinality(S) /\ DOMAIN s = 1 .. Cardinality(S)
    /\ \A m \in S : \E i \in DOMAIN s : s[i] = m
    /\ \A i, j \in DOMAIN s : i < j => key[s[i]] < key[s[j]]
    /\ \A i, j \in DOMAIN s : s[i] = s[j] => i = j

LEMMA RankedList ==
    ASSUME NEW S, NEW key, Keyed(S, key)
    PROVE  InOrderOf(key, S, Ranked(S, key))
<1> DEFINE s == Ranked(S, key)
           N == Cardinality(S)
           At(i) == CHOOSE m \in S : Rank(S, key, m) = i - 1
<1>1. N \in Nat BY FS_CardinalityType DEF Keyed
<1>2. \A i \in 1 .. N : At(i) \in S /\ Rank(S, key, At(i)) = i - 1
  <2> SUFFICES ASSUME NEW i \in 1 .. N PROVE At(i) \in S /\ Rank(S, key, At(i)) = i - 1
    OBVIOUS
  <2>1. i - 1 \in 0 .. N - 1 BY <1>1
  <2>2. \E m \in S : Rank(S, key, m) = i - 1 BY <2>1, RanksAreTaken
  <2>3. QED BY <2>2
<1>3. s = [i \in 1 .. N |-> At(i)] BY DEF Ranked
<1> HIDE DEF At, N, s
<1>4. /\ DOMAIN s = 1 .. N
      /\ \A i \in 1 .. N : s[i] \in S /\ Rank(S, key, s[i]) = i - 1
  BY <1>2, <1>3
<1>5. s \in Seq(S)
  <2>1. s \in [1 .. N -> S] BY <1>2, <1>3
  <2>2. QED BY <1>1, <2>1, SeqDef
<1>6. Len(s) = N
  <2>1. DOMAIN s = 1 .. Len(s) /\ Len(s) \in Nat BY <1>5, LenProperties
  <2>2. QED BY <1>1, <1>4, <2>1, SameInterval
<1>7. ASSUME NEW m \in S PROVE \E i \in 1 .. N : s[i] = m
  <2>1. Rank(S, key, m) \in 0 .. N - 1 BY RankBounds DEF N
  <2>2. Rank(S, key, m) + 1 \in 1 .. N /\ (Rank(S, key, m) + 1) - 1 = Rank(S, key, m)
    BY <1>1, <2>1
  <2>3. PICK i \in 1 .. N : i - 1 = Rank(S, key, m) BY <2>2
  <2>4. s[i] = m BY <1>4, <2>3, RankDecides
  <2>5. QED BY <2>4
<1>8. ASSUME NEW i \in 1 .. N, NEW j \in 1 .. N
      PROVE  /\ i < j => key[s[i]] < key[s[j]]
             /\ s[i] = s[j] => i = j
  <2>1. /\ s[i] \in S /\ Rank(S, key, s[i]) = i - 1
        /\ s[j] \in S /\ Rank(S, key, s[j]) = j - 1
    BY <1>4
  <2>2. i < j => Rank(S, key, s[i]) < Rank(S, key, s[j]) BY <1>1, <2>1
  <2>3. s[i] = s[j] => i - 1 = j - 1 BY <2>1
  <2>4. i \in Nat /\ j \in Nat BY <1>1
  <2>5. i < j => key[s[i]] < key[s[j]] BY <2>1, <2>2, RankDecides
  <2>6. QED BY <2>3, <2>4, <2>5
<1>9. InOrderOf(key, S, s) BY <1>4, <1>5, <1>6, <1>7, <1>8 DEF N, InOrderOf
<1>10. QED BY <1>9 DEF s
-----------------------------------------------------------------------------
(* Functions that gather what is own to an element and to all it leads to. *)

\* What f gathers at x, if it has done so at the elements x leads to.
Gathered(own, next, f, x) == {own[x]} \union UNION {f[y] : y \in next[x]}

Gathers(own, next, f, D) == f = [x \in D |-> Gathered(own, next, f, x)]

\* Each element leads to elements of a lower rank.
Descends(D, bound, rank, next) ==
    /\ bound \in Nat /\ rank \in [D -> 0 .. bound]
    /\ \A x \in D : \A y \in next[x] : y \in D /\ rank[y] < rank[x]

LEMMA LowestExists ==
    ASSUME NEW D, NEW bound, NEW rank, NEW next, Descends(D, bound, rank, next),
           NEW S \in SUBSET D, S # {}
    PROVE  \E x \in S : \A y \in next[x] : y \in D /\ y \notin S
<1> DEFINE T == {rank[x] : x \in S}
<1>1. /\ rank \in [D -> 0 .. bound] /\ bound \in Nat
      /\ \A x \in D : \A y \in next[x] : y \in D /\ rank[y] < rank[x]
  BY DEF Descends
<1>2. PICK z : z \in S OBVIOUS
<1>3. \A x \in D : rank[x] \in Nat BY <1>1
<1>4. T \in SUBSET Nat /\ rank[z] \in T BY <1>2, <1>3
<1>5. PICK n \in T : \A m \in T : n <= m
  <2> HIDE DEF T
  <2>1. QED BY <1>4, LeastElement
<1>6. PICK x \in S : n = rank[x] BY <1>5
<1>7. ASSUME NEW y \in next[x], y \in S PROVE FALSE
  <2>1. rank[y] \in Nat /\ rank[x] \in Nat /\ rank[y] < rank[x] BY <1>1, <1>3, <1>6
  <2>2. rank[x] <= rank[y] BY <1>5, <1>6, <1>7
  <2>3. QED BY <2>1, <2>2
<1>8. QED BY <1>1, <1>6, <1>7

LEMMA GathererExists ==
    ASSUME NEW D, NEW bound, NEW rank, NEW next, Descends(D, bound, rank, next), NEW own
    PROVE  \E f : Gathers(own, next, f, D)
<1> DEFINE Part(k) == {x \in D : rank[x] < k}
           Some(k) == \E f : Gathers(own, next, f, Part(k))
           T == {k \in Nat : ~Some(k)}
<1>1. /\ bound \in Nat /\ \A x \in D : rank[x] \in Nat /\ rank[x] <= bound
      /\ \A x \in D : \A y \in next[x] : y \in D /\ rank[y] < rank[x]
  BY DEF Descends
<1>2. Some(0)
  <2>1. Part(0) = {} BY <1>1
  <2> DEFINE f == [x \in {} |-> x]
  <2>2. f = [x \in {} |-> Gathered(own, next, f, x)] OBVIOUS
  <2>3. QED BY <2>1, <2>2 DEF Gathers
<1>3. ASSUME NEW k \in Nat, Some(k) PROVE Some(k + 1)
  <2>1. PICK f : Gathers(own, next, f, Part(k)) BY <1>3
  <2> DEFINE g == [x \in Part(k + 1) |-> IF x \in Part(k) THEN f[x] ELSE Gathered(own, next, f, x)]
  <2>2. \A x \in Part(k + 1) : \A y \in next[x] : y \in Part(k) /\ y \in Part(k + 1)
    <3> SUFFICES ASSUME NEW x \in Part(k + 1), NEW y \in next[x]
                 PROVE  y \in D /\ rank[y] < k /\ rank[y] < k + 1
      OBVIOUS
    <3>1. x \in D /\ rank[x] \in Nat /\ rank[x] < k + 1 BY <1>1
    <3>2. y \in D /\ rank[y] \in Nat /\ rank[y] < rank[x] BY <1>1, <3>1
    <3>3. QED BY <3>1, <3>2
  <2> HIDE DEF Part
  <2>3. \A x \in Part(k) : f[x] = Gathered(own, next, f, x) BY <2>1 DEF Gathers
  <2>4. \A x \in Part(k + 1) : g[x] = Gathered(own, next, f, x) BY <2>3
  <2>5. \A y \in Part(k) : y \in Part(k + 1) => g[y] = f[y] OBVIOUS
  <2> HIDE DEF g
  <2>6. \A x \in Part(k + 1) : Gathered(own, next, g, x) = Gathered(own, next, f, x)
    BY <2>2, <2>5 DEF Gathered
  <2>7. g = [x \in Part(k + 1) |-> g[x]] BY DEF g
  <2>8. g = [x \in Part(k + 1) |-> Gathered(own, next, g, x)] BY <2>4, <2>6, <2>7
  <2>9. QED BY <2>8 DEF Gathers
<1>4. \A k \in Nat : Some(k)
  <2> SUFFICES ASSUME NEW j \in T PROVE FALSE
    OBVIOUS
  <2> HIDE DEF Some
  <2>1. T \in SUBSET Nat OBVIOUS
  <2>2. PICK k \in T : \A m \in T : k <= m
    <3> HIDE DEF T
    <3>1. QED BY <2>1, LeastElement
  <2>3. k # 0 BY <1>2
  <2>4. k - 1 \in Nat /\ ~(k <= k - 1) /\ (k - 1) + 1 = k BY <2>3
  <2>5. Some(k - 1) BY <2>2, <2>4
  <2>6. Some((k - 1) + 1) BY <1>3, <2>4, <2>5
  <2>7. QED BY <2>4, <2>6
<1>5. Part(bound + 1) = D BY <1>1
<1>6. Some(bound + 1)
  <2>1. bound + 1 \in Nat BY <1>1
  <2> HIDE DEF Some
  <2>2. QED BY <1>4, <2>1
<1>7. QED BY <1>5, <1>6

\* Whatever is gathered is somebody's own.
LEMMA GatheredWithin ==
    ASSUME NEW D, NEW bound, NEW rank, NEW next, Descends(D, bound, rank, next), NEW own,
           NEW f, Gathers(own, next, f, D), NEW T, \A x \in D : own[x] \in T
    PROVE  \A x \in D : f[x] \subseteq T
<1> DEFINE S == {x \in D : ~(f[x] \subseteq T)}
<1> SUFFICES ASSUME S # {} PROVE FALSE
  OBVIOUS
<1>1. S \in SUBSET D OBVIOUS
<1>2. PICK x \in S : \A y \in next[x] : y \in D /\ y \notin S
  <2> HIDE DEF S
  <2>1. QED BY <1>1, LowestExists
<1>3. \A y \in next[x] : f[y] \subseteq T BY <1>2
<1>4. f[x] = Gathered(own, next, f, x) BY DEF Gathers
<1>5. QED BY <1>3, <1>4 DEF Gathered

\* What is gathered at an element is its own, or it comes next to what is gathered.
LEMMA GatheredFrom ==
    ASSUME NEW D, NEW bound, NEW rank, NEW next, Descends(D, bound, rank, next), NEW own,
           NEW f, Gathers(own, next, f, D), NEW v \in D, NEW z \in f[v]
    PROVE  z = own[v] \/ \E u \in D : own[u] \in f[v] /\ \E y \in next[u] : z = own[y]
<1> DEFINE Comes(x) == \A a \in f[x] :
               a = own[x] \/ \E u \in D : own[u] \in f[x] /\ \E y \in next[u] : a = own[y]
           S == {x \in D : ~Comes(x)}
<1> SUFFICES ASSUME S # {} PROVE FALSE
  OBVIOUS
<1>1. S \in SUBSET D OBVIOUS
<1>2. PICK x \in S : \A y \in next[x] : y \in D /\ y \notin S
  <2> HIDE DEF S
  <2>1. QED BY <1>1, LowestExists
<1>3. x \in D /\ ~Comes(x) OBVIOUS
<1>4. \A y \in next[x] : Comes(y) BY <1>2
<1>5. f[x] = Gathered(own, next, f, x) BY <1>3 DEF Gathers
<1>6. own[x] \in f[x] /\ \A y \in next[x] : f[y] \subseteq f[x] BY <1>5 DEF Gathered
<1>7. ASSUME NEW a \in f[x], a # own[x]
      PROVE  \E u \in D : own[u] \in f[x] /\ \E y \in next[u] : a = own[y]
  <2>1. PICK y \in next[x] : a \in f[y] BY <1>5, <1>7 DEF Gathered
  <2>2. CASE a = own[y] BY <1>3, <1>6, <2>1, <2>2
  <2>3. CASE a # own[y] BY <1>4, <1>6, <2>1, <2>3
  <2>4. QED BY <2>2, <2>3
<1>8. QED BY <1>3, <1>7

===========================================================================
