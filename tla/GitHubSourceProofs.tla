-------------------------- MODULE GitHubSourceProofs --------------------------
(***************************************************************************)
(* Proofs about GitHubSource, for any repositories and items, any sizes of *)
(* pages and any limits.                                                   *)
(*                                                                         *)
(* CursorIsOfItsRemote is inductive as it stands.  ConfirmedIsCurrent      *)
(* needs the fetch in progress: as long as GitHub sends the first page     *)
(* that was read and has lost nothing since, nobody has done anything      *)
(* (FirstPageTells), so what has been read begins what is there.           *)
(* QuietItemsAreThere needs that an untouched item moves to an earlier     *)
(* place only when one before it is removed, and then by one (PeopleLeave):*)
(* it is on a page read or yet to come, or it is the one that moved over   *)
(* the end of the pages read.                                              *)
(* TypeOK needs that the pull requests whose commits are asked for are      *)
(* still listed (ReadSoFar): nobody can remove one (PullsStay).             *)
(***************************************************************************)
EXTENDS GitHubSource, SequenceTheorems, FiniteSetTheorems, TLAPS

-----------------------------------------------------------------------------
(* Cursors and remotes. *)

\* All of a contribution is of one repository.
OfOne(c) ==
    c.source.cursor # Absent \/ c.source.freshness = "fresh" =>
        \A x \in c.records \union c.edges : x.of = c.source.of

\* What is built of items of a repository is of that repository.
LEMMA BuiltOfOne ==
    ASSUME NEW r, NEW items, NEW commitsOf
    PROVE  LET part == BuildEvidence(r, items, commitsOf)
           IN  \A x \in part.records \union part.edges : x.of = r
<1>1. \A x \in BuildEvidence(r, items, commitsOf).records : x.of = r
  BY DEF BuildEvidence, Record
<1>2. \A x \in BuildEvidence(r, items, commitsOf).edges : x.of = r
  BY DEF BuildEvidence, Edge
<1>3. QED BY <1>1, <1>2

\* What is retained has a cursor only if it is of the remote that is asked.
LEMMA PriorOfOne ==
    ASSUME CursorIsOfItsRemote, PriorCursor # Absent
    PROVE  /\ current # Absent
           /\ \A x \in Prior.records \union Prior.edges : x.of = target
BY DEF CursorIsOfItsRemote, PriorCursor, Prior

LEMMA CursorStep == CursorIsOfItsRemote /\ [Next]_vars => CursorIsOfItsRemote'
<1> SUFFICES ASSUME CursorIsOfItsRemote, [Next]_vars PROVE CursorIsOfItsRemote'
  OBVIOUS
<1>0. /\ current # Absent => OfOne(current)
      /\ result # Absent => OfOne(result)
  BY DEF CursorIsOfItsRemote, OfOne
<1> DEFINE Goal == /\ current' # Absent => OfOne(current')
                   /\ result' # Absent => OfOne(result')
<1> SUFFICES Goal
  BY DEF CursorIsOfItsRemote, OfOne
<1>1. CASE UNCHANGED <<current, result>>
  BY <1>1, <1>0
<1>2. ASSUME NEW part, NEW s, NEW since, result' = Contribution(part, s, since),
             UNCHANGED current,
             s.cursor # Absent \/ s.freshness = "fresh" =>
                 \A x \in part.records \union part.edges : x.of = s.of
      PROVE  Goal
  BY <1>2, <1>0 DEF OfOne, Contribution
<1>3. CASE People
  BY <1>3, <1>1 DEF People, Touch, Delete, ChangeRemote, ClientIdle
<1>4. CASE Begin \/ NextPage
  BY <1>4, <1>1 DEF Begin, NextPage
<1>5. CASE NotModified
  <2> DEFINE s == Source("fresh", PriorCursor)
  <2>1. result' = Contribution(Prior, s, PriorSince) /\ UNCHANGED current
    BY <1>5 DEF NotModified, Keep
  <2>2. \A x \in Prior.records \union Prior.edges : x.of = s.of
    BY <1>5, PriorOfOne DEF NotModified, Source
  <2>3. QED BY <2>1, <2>2, <1>2
<1>6. ASSUME NEW i, NEW items, NEW commitsOf, Continue(i, items, commitsOf)
      PROVE  Goal
  <2>1. CASE result' = result
    BY <2>1, <1>6, <1>1 DEF Continue
  <2> DEFINE part == BuildEvidence(target, ToSet(items), commitsOf)
             s == Source("fresh", FirstETag)
  <2>2. CASE result' = Contribution(part, s, FirstSeen)
    <3>1. UNCHANGED current BY <1>6 DEF Continue
    <3>2. s.of = target BY DEF Source
    <3>3. \A x \in part.records \union part.edges : x.of = s.of
      BY <3>2, BuiltOfOne
    <3> HIDE DEF part, s
    <3>4. QED BY <2>2, <3>1, <3>3, <1>2
  <2>3. QED BY <1>6, <2>1, <2>2 DEF Continue
<1>7. CASE IssuesComplete \/ CommitsComplete
  BY <1>7, <1>6 DEF IssuesComplete, CommitsComplete
<1>8. CASE RefreshFails
  <2> DEFINE s == Source("stale", PriorCursor)
  <2>1. result' = Contribution(Prior, s, PriorSince) /\ UNCHANGED current
    BY <1>8 DEF RefreshFails, Keep
  <2>2. s.cursor # Absent \/ s.freshness = "fresh" =>
            \A x \in Prior.records \union Prior.edges : x.of = s.of
    BY PriorOfOne DEF Source
  <2> HIDE DEF s
  <2>3. QED BY <2>1, <2>2, <1>2
<1>9. CASE Publish
  BY <1>9, <1>0 DEF Publish, Reset
<1>10. CASE Abandon
  BY <1>10, <1>0 DEF Abandon, Reset
<1>11. CASE UNCHANGED vars
  BY <1>11, <1>1 DEF vars
<1>12. QED BY <1>3, <1>4, <1>5, <1>7, <1>8, <1>9, <1>10, <1>11 DEF Next, Sync

\* A contribution that could be confirmed by a 304 is of its source's repository
\* alone, however often `origin` is changed and refreshes fail.
THEOREM CursorsAreOfTheirRemote == Spec => []CursorIsOfItsRemote
<1>1. Init => CursorIsOfItsRemote
  BY DEF Init, CursorIsOfItsRemote
<1>2. QED BY <1>1, CursorStep, PTL DEF Spec

-----------------------------------------------------------------------------
(* Lists of items, and what people do to them. *)

Unique(s) == \A i, j \in DOMAIN s : s[i].number = s[j].number => i = j

Without(s, n) ==
    IF n \in {item.number : item \in ToSet(s)}
    THEN RemoveAt(s, CHOOSE i \in DOMAIN s : s[i].number = n)
    ELSE s

\* Where it was, or behind the end.
Place(s, n) ==
    IF n \in {item.number : item \in ToSet(s)}
    THEN CHOOSE i \in DOMAIN s : s[i].number = n
    ELSE Len(s) + 1

LEMMA ItemFields ==
    ASSUME NEW x \in Items
    PROVE  /\ x.number \in Numbers /\ x.stamp \in 0 .. MaxChanges
           /\ x.number \in Pulls => x.commits \in Seq(AllCommits)
<1>1. PICK n \in Numbers, t \in 0 .. MaxChanges : \E c \in Contents[n] : x = Item(n, t, c)
  BY DEF Items
<1>2. PICK c \in Contents[n] : x = Item(n, t, c)
  BY <1>1
<1>3. x.number = n /\ x.stamp = t /\ x.commits = c.commits
  BY <1>2 DEF Item
<1>4. QED BY <1>3, ForgeAssumption

\* What is left without an item, position by position.
LEMMA WithoutOne ==
    ASSUME NEW s \in Seq(Items), Unique(s), NEW n
    PROVE  LET o == Without(s, n)
               p == Place(s, n)
           IN  /\ o \in Seq(Items) /\ Len(o) \in Nat /\ DOMAIN o = 1 .. Len(o)
               /\ p \in Nat \ {0} /\ p <= Len(s) + 1
               /\ p <= Len(s) => Len(o) = Len(s) - 1
               /\ p > Len(s) => Len(o) = Len(s)
               /\ \A j \in 1 .. Len(o) : /\ j < p => o[j] = s[j]
                                         /\ j >= p => o[j] = s[j + 1]
               /\ \A k \in 1 .. Len(s) : s[k].number = n <=> k = p
<1>0. /\ Len(s) \in Nat /\ DOMAIN s = 1 .. Len(s)
      /\ \A i \in 1 .. Len(s) : s[i] \in Items
  BY LenProperties, ElementOfSeq
<1>1. CASE n \in {item.number : item \in ToSet(s)}
  <2> DEFINE p == CHOOSE i \in DOMAIN s : s[i].number = n
             a == SubSeq(s, 1, p - 1)
             b == SubSeq(s, p + 1, Len(s))
  <2>1. p \in 1 .. Len(s) /\ s[p].number = n
    BY <1>0, <1>1 DEF ToSet
  <2>2. Without(s, n) = a \o b /\ Place(s, n) = p
    BY <1>1 DEF Without, RemoveAt, Place
  <2> HIDE DEF p
  <2>3. /\ a \in Seq(Items) /\ Len(a) = p - 1
        /\ \A i \in 1 .. p - 1 : a[i] = s[i]
    <3>1. \A i \in 1 .. p - 1 : s[i] \in Items BY <1>0, <2>1
    <3>2. QED BY <3>1, <2>1, SubSeqProperties, SMT
  <2>4. /\ b \in Seq(Items) /\ Len(b) = Len(s) - p
        /\ \A i \in 1 .. Len(s) - p : b[i] = s[p + i]
    <3>1. \A i \in p + 1 .. Len(s) : s[i] \in Items BY <1>0, <2>1
    <3>2. /\ b \in Seq(Items)
          /\ Len(b) = IF p + 1 <= Len(s) THEN Len(s) - (p + 1) + 1 ELSE 0
          /\ \A i \in 1 .. Len(s) - (p + 1) + 1 : b[i] = s[p + 1 + i - 1]
      BY <3>1, <1>0, <2>1, SubSeqProperties
    <3>3. Len(s) \in Nat /\ p \in Nat /\ p <= Len(s) BY <1>0, <2>1
    <3>4. Len(b) = Len(s) - p BY <3>2, <3>3
    <3>5. \A i \in 1 .. Len(s) - p : /\ i \in 1 .. Len(s) - (p + 1) + 1
                                    /\ p + 1 + i - 1 = p + i
      BY <3>3
    <3>6. QED BY <3>2, <3>4, <3>5
  <2> HIDE DEF a, b
  <2>5. /\ a \o b \in Seq(Items) /\ Len(a \o b) = Len(s) - 1
        /\ \A j \in 1 .. Len(s) - 1 : /\ j < p => (a \o b)[j] = s[j]
                                      /\ j >= p => (a \o b)[j] = s[j + 1]
    <3>1. /\ a \o b \in Seq(Items) /\ Len(a \o b) = Len(a) + Len(b)
          /\ \A j \in 1 .. Len(a) + Len(b) :
                (a \o b)[j] = IF j <= Len(a) THEN a[j] ELSE b[j - Len(a)]
      BY <2>3, <2>4, ConcatProperties
    <3>2. Len(a) + Len(b) = Len(s) - 1 BY <2>3, <2>4, <1>0, <2>1
    <3>3. ASSUME NEW j \in 1 .. Len(s) - 1
          PROVE  /\ j < p => (a \o b)[j] = s[j]
                 /\ j >= p => (a \o b)[j] = s[j + 1]
      <4>1. CASE j < p
        BY <4>1, <3>1, <3>2, <2>1, <2>3, <1>0
      <4>2. CASE ~(j < p)
        <5>1. (a \o b)[j] = b[j - (p - 1)] BY <4>2, <3>1, <3>2, <2>1, <2>3, <1>0
        <5>2. j - (p - 1) \in 1 .. Len(s) - p /\ p + (j - (p - 1)) = j + 1
          BY <4>2, <2>1, <1>0
        <5>3. QED BY <4>2, <5>1, <5>2, <2>4
      <4>3. QED BY <4>1, <4>2
    <3>4. QED BY <3>1, <3>2, <3>3
  <2>6. \A k \in 1 .. Len(s) : s[k].number = n <=> k = p
    BY <2>1, <1>0 DEF Unique
  <2> DEFINE o == a \o b
  <2>7. Len(o) = Len(s) - 1 /\ Len(o) \in Nat /\ DOMAIN o = 1 .. Len(o)
    BY <2>5, <2>1, <1>0, LenProperties
  <2> HIDE DEF o
  <2>8. \A j \in 1 .. Len(o) : /\ j < p => o[j] = s[j]
                               /\ j >= p => o[j] = s[j + 1]
    BY <2>5, <2>7 DEF o
  <2>9. p \in Nat \ {0} /\ p <= Len(s) /\ Place(s, n) = p /\ Without(s, n) = o
    BY <2>1, <2>2, <1>0 DEF o
  <2>10. o \in Seq(Items) BY <2>5 DEF o
  <2>11. QED BY <2>6, <2>7, <2>8, <2>9, <2>10, <1>0
<1>2. CASE n \notin {item.number : item \in ToSet(s)}
  <2>1. Without(s, n) = s /\ Place(s, n) = Len(s) + 1 BY <1>2 DEF Without, Place
  <2>2. \A k \in 1 .. Len(s) : s[k].number # n
    BY <1>2, <1>0 DEF ToSet
  <2>3. \A j \in 1 .. Len(s) : j < Len(s) + 1 /\ ~(j >= Len(s) + 1) /\ j # Len(s) + 1
    BY <1>0
  <2>4. /\ Len(s) + 1 \in Nat \ {0} /\ Len(s) + 1 <= Len(s) + 1
        /\ ~(Len(s) + 1 <= Len(s)) /\ Len(s) + 1 > Len(s)
    BY <1>0
  <2>5. QED BY <2>1, <2>2, <2>3, <2>4, <1>0
<1>3. QED BY <1>1, <1>2

\* Deleting an item keeps the others, none of them at a later place.
LEMMA Deleted ==
    ASSUME NEW s \in Seq(Items), Unique(s), NEW n
    PROVE  /\ Without(s, n) \in Seq(Items) /\ Unique(Without(s, n))
           /\ \A j \in DOMAIN Without(s, n) : \E k \in DOMAIN s :
                 Without(s, n)[j] = s[k] /\ s[k].number # n
<1>0. Len(s) \in Nat /\ DOMAIN s = 1 .. Len(s)
  BY LenProperties
<1> DEFINE o == Without(s, n)
           p == Place(s, n)
<1>s. o \in Seq(Items) /\ DOMAIN o = 1 .. Len(o)
  BY WithoutOne
<1>n. Len(s) \in Nat
  BY <1>0
<1>1. /\ Len(o) \in Nat
      /\ p \in Nat \ {0} /\ p <= Len(s) + 1
      /\ p <= Len(s) => Len(o) = Len(s) - 1
      /\ p > Len(s) => Len(o) = Len(s)
  BY WithoutOne
<1>a. \A j \in 1 .. Len(o) : /\ j < p => o[j] = s[j]
                             /\ j >= p => o[j] = s[j + 1]
  BY WithoutOne
<1>b. \A k \in 1 .. Len(s) : s[k].number = n <=> k = p
  BY WithoutOne
<1> HIDE DEF o, p
<1> DEFINE From(j) == IF j < p THEN j ELSE j + 1
<1>2. \A j \in 1 .. Len(o) : From(j) \in 1 .. Len(s) /\ From(j) # p
  BY <1>n, <1>1
<1>3. \A j \in 1 .. Len(o) : o[j] = s[From(j)]
  BY <1>1, <1>a
<1>4. \A i, j \in 1 .. Len(o) : From(i) = From(j) => i = j
  BY <1>n, <1>1
<1> HIDE DEF From
<1>5. Unique(o)
  BY <1>0, <1>s, <1>2, <1>3, <1>4 DEF Unique
<1>6. \A j \in DOMAIN o : \E k \in DOMAIN s : o[j] = s[k] /\ s[k].number # n
  BY <1>0, <1>s, <1>2, <1>3, <1>b
<1>7. QED BY <1>s, <1>5, <1>6 DEF o

\* Touching an item puts it in front; the others keep their places or move back.
LEMMA Touched ==
    ASSUME NEW s \in Seq(Items), Unique(s), NEW x \in Items
    PROVE  LET t == <<x>> \o Without(s, x.number)
           IN  /\ t \in Seq(Items) /\ Unique(t)
               /\ Len(t) > 0 /\ t[1] = x
               /\ \A j \in 2 .. Len(t) :
                     /\ t[j].number # x.number
                     /\ \E k \in DOMAIN s : k <= j /\ t[j] = s[k]
               /\ \A k \in DOMAIN s : s[k].number # x.number =>
                     \E j \in DOMAIN t : t[j] = s[k]
<1>0. Len(s) \in Nat /\ DOMAIN s = 1 .. Len(s)
  BY LenProperties
<1> DEFINE o == Without(s, x.number)
           p == Place(s, x.number)
<1>s. o \in Seq(Items) /\ DOMAIN o = 1 .. Len(o)
  BY WithoutOne
<1>n. Len(s) \in Nat
  BY <1>0
<1>1. /\ Len(o) \in Nat
      /\ p \in Nat \ {0} /\ p <= Len(s) + 1
      /\ p <= Len(s) => Len(o) = Len(s) - 1
      /\ p > Len(s) => Len(o) = Len(s)
  BY WithoutOne
<1>a. \A j \in 1 .. Len(o) : /\ j < p => o[j] = s[j]
                             /\ j >= p => o[j] = s[j + 1]
  BY WithoutOne
<1>b. \A k \in 1 .. Len(s) : s[k].number = x.number <=> k = p
  BY WithoutOne
<1> HIDE DEF o, p
<1> DEFINE t == <<x>> \o o
<1>2. /\ t \in Seq(Items) /\ Len(t) = Len(o) + 1 /\ Len(t) \in Nat /\ DOMAIN t = 1 .. Len(t)
      /\ t[1] = x /\ \A j \in 2 .. Len(t) : j - 1 \in 1 .. Len(o) /\ t[j] = o[j - 1]
  <2>1. <<x>> \in Seq(Items) /\ Len(<<x>>) = 1 /\ <<x>>[1] = x OBVIOUS
  <2> DEFINE h == <<x>>
  <2> HIDE DEF h
  <2>2. /\ h \o o \in Seq(Items) /\ Len(h \o o) = Len(h) + Len(o)
        /\ \A j \in 1 .. Len(h) + Len(o) :
              (h \o o)[j] = IF j <= Len(h) THEN h[j] ELSE o[j - Len(h)]
    BY <2>1, <1>s, ConcatProperties DEF h
  <2>3. Len(h) = 1 /\ h[1] = x /\ t = h \o o BY <2>1 DEF h
  <2> HIDE DEF t
  <2>4. Len(o) \in Nat /\ DOMAIN t = 1 .. Len(t)
    BY <1>1, <1>s, <2>2, <2>3, LenProperties
  <2>5. QED BY <2>2, <2>3, <2>4
<1> HIDE DEF t
<1>m. Len(t) = Len(o) + 1
  BY <1>2
<1> DEFINE From(j) == IF j - 1 < p THEN j - 1 ELSE j
<1>c. \A j \in 2 .. Len(t) : From(j) \in 1 .. Len(s) /\ From(j) # p /\ From(j) <= j
  BY <1>n, <1>1, <1>m
<1>3. \A j \in 2 .. Len(t) : t[j] = s[From(j)]
  <2> SUFFICES ASSUME NEW j \in 2 .. Len(t) PROVE t[j] = s[From(j)]
    OBVIOUS
  <2>1. j - 1 \in 1 .. Len(o) /\ t[j] = o[j - 1] BY <1>2
  <2>2. j - 1 >= p => j - 1 + 1 = j BY <1>1
  <2>3. CASE j - 1 < p BY <2>1, <2>3, <1>a
  <2>4. CASE ~(j - 1 < p)
    <3>1. j - 1 >= p BY <2>4, <1>1
    <3>2. t[j] = s[j - 1 + 1] BY <3>1, <2>1, <1>a
    <3>3. QED BY <3>1, <3>2, <2>2, <2>4
  <2>5. QED BY <2>3, <2>4
<1>4. \A i, j \in 2 .. Len(t) : From(i) = From(j) => i = j
  BY <1>n, <1>1, <1>m
<1>5. \A k \in 1 .. Len(s) : k # p => \E j \in 2 .. Len(t) : From(j) = k
  <2> SUFFICES ASSUME NEW k \in 1 .. Len(s), k # p PROVE \E j \in 2 .. Len(t) : From(j) = k
    OBVIOUS
  <2>1. CASE k < p BY <2>1, <1>n, <1>1, <1>m
  <2>2. CASE k > p BY <2>2, <1>n, <1>1, <1>m
  <2>3. QED BY <2>1, <2>2, <1>1, <1>n
<1> HIDE DEF From
<1>6. \A j \in 2 .. Len(t) : t[j].number # x.number
  BY <1>b, <1>c, <1>3
<1>7. Unique(t)
  <2> SUFFICES ASSUME NEW i \in 1 .. Len(t), NEW j \in 1 .. Len(t), t[i].number = t[j].number
               PROVE  i = j
    BY <1>2 DEF Unique
  <2>1. CASE i = 1 BY <2>1, <1>2, <1>6
  <2>2. CASE j = 1 BY <2>2, <1>2, <1>6
  <2>3. CASE i # 1 /\ j # 1
    <3>1. i \in 2 .. Len(t) /\ j \in 2 .. Len(t) BY <2>3
    <3>2. s[From(i)].number = s[From(j)].number BY <3>1, <1>3
    <3>3. From(i) = From(j) BY <3>1, <3>2, <1>0, <1>c DEF Unique
    <3>4. QED BY <3>1, <3>3, <1>4
  <2>4. QED BY <2>1, <2>2, <2>3
<1>8. \A j \in 2 .. Len(t) : \E k \in DOMAIN s : k <= j /\ t[j] = s[k]
  BY <1>0, <1>3, <1>c
<1>9. \A k \in DOMAIN s : s[k].number # x.number => \E j \in DOMAIN t : t[j] = s[k]
  <2> SUFFICES ASSUME NEW k \in 1 .. Len(s), s[k].number # x.number
               PROVE  \E j \in 1 .. Len(t) : t[j] = s[k]
    BY <1>0, <1>2
  <2>1. PICK j \in 2 .. Len(t) : From(j) = k BY <1>1, <1>5, <1>b
  <2>2. t[j] = s[k] BY <2>1, <1>3
  <2>3. QED BY <2>2
<1>10. Len(t) > 0
  BY <1>n, <1>1, <1>m
<1>11. QED BY <1>2, <1>6, <1>7, <1>8, <1>9, <1>10 DEF t, o

-----------------------------------------------------------------------------
(* Pages. *)

\* What it leaves behind the item in front.
Behind(s, x, u) ==
    /\ u \in Seq(Items) /\ u[1] = x
    /\ \A j \in 2 .. Len(u) :
          u[j].number # x.number /\ \E k \in DOMAIN s : k <= j /\ u[j] = s[k]

LEMMA TouchedBehind ==
    ASSUME NEW s \in Seq(Items), Unique(s), NEW x \in Items
    PROVE  Behind(s, x, <<x>> \o Without(s, x.number))
<1> DEFINE t == <<x>> \o Without(s, x.number)
<1>1. /\ t \in Seq(Items) /\ t[1] = x
      /\ \A j \in 2 .. Len(t) :
            /\ t[j].number # x.number
            /\ \E k \in DOMAIN s : k <= j /\ t[j] = s[k]
  BY Touched
<1> HIDE DEF t
<1>2. Behind(s, x, t) BY <1>1 DEF Behind
<1>3. QED BY <1>2 DEF t

\* The first k pages of a list that does not end there.
Begins(read, list, k) ==
    /\ read = SubSeq(list, 1, k * PageSize)
    /\ k = 0 \/ HasNext(list, k)

LEMMA PageSizes ==
    ASSUME NEW k \in Nat \ {0}
    PROVE  /\ (k - 1) * PageSize \in Nat /\ k * PageSize \in Nat
           /\ k * PageSize = (k - 1) * PageSize + PageSize
           /\ PageSize > 0 /\ PageSize \in Nat
<1>1. PageSize \in Nat \ {0} BY GitHubAssumption
<1>2. k - 1 \in Nat /\ k \in Nat OBVIOUS
<1>3. \A m, n \in Nat : m * n \in Nat BY SMT
<1>4. k * PageSize = (k - 1) * PageSize + PageSize BY <1>1, SMT
<1>5. QED BY <1>1, <1>2, <1>3, <1>4

\* What is on a page.
LEMMA PageHolds ==
    ASSUME NEW S, NEW list \in Seq(S), NEW k \in Nat \ {0}
    PROVE  /\ Page(list, k) \in Seq(S)
           /\ \A i \in 1 .. Len(list) :
                 (k - 1) * PageSize < i /\ (HasNext(list, k) => i <= k * PageSize) =>
                     i - (k - 1) * PageSize \in 1 .. Len(Page(list, k))
                     /\ Page(list, k)[i - (k - 1) * PageSize] = list[i]
<1> DEFINE first == (k - 1) * PageSize
           last == IF HasNext(list, k) THEN k * PageSize ELSE Len(list)
           u == SubSeq(list, first + 1, last)
<1>1. /\ first \in Nat /\ k * PageSize \in Nat
  BY PageSizes
<1>2. Len(list) \in Nat /\ \A i \in 1 .. Len(list) : list[i] \in S
  BY LenProperties, ElementOfSeq
<1>3. /\ last \in Nat /\ last <= Len(list)
      /\ \A i \in 1 .. Len(list) : (HasNext(list, k) => i <= k * PageSize) => i <= last
  BY <1>1, <1>2 DEF HasNext
<1>4. Page(list, k) = u
  BY DEF Page
<1> HIDE DEF first, last
<1>5. /\ u \in Seq(S)
      /\ Len(u) = IF first + 1 <= last THEN last - (first + 1) + 1 ELSE 0
      /\ \A i \in 1 .. last - (first + 1) + 1 : u[i] = list[first + 1 + i - 1]
  <2>1. \A i \in first + 1 .. last : list[i] \in S BY <1>1, <1>2, <1>3
  <2>2. first + 1 \in Int /\ last \in Int BY <1>1, <1>3
  <2>3. QED BY <2>1, <2>2, SubSeqProperties
<1> HIDE DEF u
<1>6. ASSUME NEW i \in 1 .. Len(list), first < i, i <= last
      PROVE  i - first \in 1 .. Len(u) /\ u[i - first] = list[i]
  <2>1. i - first \in 1 .. last - (first + 1) + 1 /\ first + 1 + (i - first) - 1 = i
    BY <1>1, <1>2, <1>3, <1>6
  <2>2. Len(u) = last - (first + 1) + 1 BY <1>1, <1>3, <1>5, <1>6
  <2>3. QED BY <2>1, <2>2, <1>5
<1>7. QED BY <1>3, <1>4, <1>5, <1>6 DEF first

\* The pages of a list that stays as it is add up to it.
LEMMA PagesAddUp ==
    ASSUME NEW S, NEW list \in Seq(S), NEW k \in Nat \ {0}, NEW read, Begins(read, list, k - 1)
    PROVE  /\ HasNext(list, k) => Begins(read \o Page(list, k), list, k)
           /\ ~HasNext(list, k) => read \o Page(list, k) = list
<1> DEFINE first == (k - 1) * PageSize
           next == k * PageSize
<1>1. first \in Nat /\ next \in Nat /\ first < next
  <2>1. /\ first \in Nat /\ next \in Nat /\ next = first + PageSize
        /\ PageSize > 0 /\ PageSize \in Nat
    BY PageSizes
  <2> HIDE DEF first, next
  <2>2. QED BY <2>1
<1>2. Len(list) \in Nat
  BY LenProperties
<1>3. read = SubSeq(list, 1, first) /\ first <= Len(list)
  <2>1. CASE k = 1
    <3>1. first = 0 BY <2>1, GitHubAssumption
    <3>2. QED BY <3>1, <1>2 DEF Begins
  <2>2. CASE k # 1 BY <2>2, <1>1, <1>2 DEF Begins, HasNext
  <2>3. QED BY <2>1, <2>2
<1>4. HasNext(list, k) <=> next < Len(list)
  BY DEF HasNext
<1>5. Page(list, k) = SubSeq(list, first + 1, IF HasNext(list, k) THEN next ELSE Len(list))
  BY DEF Page
<1>6. Begins(read \o Page(list, k), list, k)
          <=> read \o Page(list, k) = SubSeq(list, 1, next) /\ (k = 0 \/ HasNext(list, k))
  BY DEF Begins
<1> HIDE DEF first, next
<1>7. ASSUME NEW n \in Nat, first <= n, n <= Len(list)
      PROVE  SubSeq(list, 1, first) \o SubSeq(list, first + 1, n) = SubSeq(list, 1, n)
  <2>1. 1 \in 1 .. Len(list) + 1 /\ first \in 1 - 1 .. Len(list) /\ n \in first .. Len(list)
    BY <1>1, <1>2, <1>7
  <2>2. QED BY <2>1, ConcatAdjacentSubSeq
<1>8. CASE HasNext(list, k)
  BY <1>8, <1>1, <1>2, <1>3, <1>4, <1>5, <1>6, <1>7
<1>9. CASE ~HasNext(list, k)
  <2>1. Len(list) <= next BY <1>9, <1>1, <1>2, <1>4
  <2>2. read \o Page(list, k) = SubSeq(list, 1, Len(list))
    <3>1. Page(list, k) = SubSeq(list, first + 1, Len(list)) BY <1>9, <1>5
    <3>2. SubSeq(list, 1, first) \o SubSeq(list, first + 1, Len(list)) = SubSeq(list, 1, Len(list))
      <4>1. first <= Len(list) /\ Len(list) <= Len(list) BY <1>2, <1>3
      <4>2. QED BY <4>1, <1>2, <1>7, Zenon
    <3>3. QED BY <3>1, <3>2, <1>3
  <2>3. QED BY <1>9, <2>2, SubSeqFull
<1>10. QED BY <1>8, <1>9

\* Nothing is read before the first page.
LEMMA BeginsEmpty ==
    ASSUME NEW list
    PROVE  Begins(<<>>, list, 0)
<1>1. 0 * PageSize = 0 BY GitHubAssumption
<1>2. SubSeq(list, 1, 0) = <<>> BY SubSeqEmpty
<1>3. QED BY <1>1, <1>2 DEF Begins
-----------------------------------------------------------------------------
(* GitHub. *)

Before(list, time) == \A i \in DOMAIN list : list[i].stamp <= time

LEMMA BeforeLater ==
    ASSUME NEW list \in Seq(Items), NEW t \in Nat, Before(list, t)
    PROVE  Before(list, t + 1)
<1> SUFFICES ASSUME NEW i \in DOMAIN list PROVE list[i].stamp <= t + 1
  BY DEF Before
<1>1. list[i] \in Items BY LenProperties, ElementOfSeq
<1>2. list[i].stamp \in Nat BY <1>1, ItemFields, GitHubAssumption
<1>3. list[i].stamp <= t BY DEF Before
<1>4. QED BY <1>2, <1>3

\* What is so of GitHub, and of where the sync stands.
ForgeInv ==
    /\ forge \in [Repositories -> Seq(Items)]
    /\ \A r \in Repositories : Unique(forge[r]) /\ Before(forge[r], changes)
    /\ changes \in Nat /\ removals \in [Repositories -> Nat]
    /\ origin \in Remotes
    /\ pc \in {"idle", "reading", "publish"}
    /\ target \in Repositories \union {Absent} /\ (target = Absent <=> pc = "idle")
    /\ page \in Nat \ {0}

\* What a step of people does to the repositories: one that is not as it was has
\* a new item in front or has lost one.
Moved ==
    /\ forge' \in [Repositories -> Seq(Items)]
    /\ changes' = changes + 1 /\ removals' \in [Repositories -> Nat]
    /\ origin' \in Remotes
    /\ \A r \in Repositories :
          /\ Unique(forge'[r]) /\ Before(forge'[r], changes')
          /\ removals'[r] >= removals[r]
          /\ \/ forge'[r] = forge[r] /\ removals'[r] = removals[r]
             \/ Len(forge'[r]) > 0 /\ forge'[r][1].stamp = changes'
             \/ removals'[r] > removals[r]

LEMMA TouchIs ==
    ASSUME ForgeInv, NEW r \in Repositories, NEW n \in Numbers, NEW c \in Contents[n],
           Touch(r, n, c)
    PROVE  /\ Item(n, changes', c) \in Items
           /\ Item(n, changes', c).number = n /\ Item(n, changes', c).stamp = changes'
           /\ changes' = changes + 1
           /\ forge' = [forge EXCEPT ![r] =
                           <<Item(n, changes', c)>> \o Without(forge[r], n)]
<1>1. changes' = changes + 1 /\ changes' \in 0 .. MaxChanges
  BY GitHubAssumption DEF Touch, ForgeInv
<1>2. Others(r, n) = Without(forge[r], n)
  BY DEF Others, Without, Listed, PlaceOf
<1>3. Item(n, changes', c) \in Items
  BY <1>1 DEF Items
<1>4. QED BY <1>1, <1>2, <1>3 DEF Touch, Item

LEMMA TouchMoves ==
    ASSUME ForgeInv, NEW r \in Repositories, NEW n \in Numbers, NEW c \in Contents[n],
           Touch(r, n, c)
    PROVE  Moved
<1> DEFINE x == Item(n, changes', c)
           t == <<x>> \o Without(forge[r], n)
<1>1. /\ x \in Items /\ x.number = n /\ x.stamp = changes' /\ changes' = changes + 1
      /\ forge' = [forge EXCEPT ![r] = t]
  BY TouchIs
<1> HIDE DEF x
<1>2. /\ forge[r] \in Seq(Items) /\ Unique(forge[r]) /\ Before(forge[r], changes)
      /\ changes \in Nat
  BY DEF ForgeInv
<1>3. /\ t \in Seq(Items) /\ Unique(t) /\ Len(t) > 0 /\ t[1] = x
      /\ \A j \in 2 .. Len(t) : \E k \in DOMAIN forge[r] : k <= j /\ t[j] = forge[r][k]
  <2> DEFINE u == <<x>> \o Without(forge[r], x.number)
  <2>1. t = u BY <1>1
  <2>2. /\ u \in Seq(Items) /\ Unique(u) /\ Len(u) > 0 /\ u[1] = x
        /\ \A j \in 2 .. Len(u) :
              /\ u[j].number # x.number
              /\ \E k \in DOMAIN forge[r] : k <= j /\ u[j] = forge[r][k]
    <3>1. x \in Items /\ forge[r] \in Seq(Items) /\ Unique(forge[r]) BY <1>1, <1>2
    <3> HIDE DEF t
    <3>2. QED BY <3>1, Touched, SMTT(60)
  <2> HIDE DEF t, u
  <2>3. QED BY <2>1, <2>2
<1> HIDE DEF t
<1>4. Before(t, changes')
  <2> SUFFICES ASSUME NEW j \in DOMAIN t PROVE t[j].stamp <= changes'
    BY DEF Before
  <2>1. CASE j = 1
    <3>1. t[j].stamp = changes' BY <2>1, <1>1, <1>3
    <3>2. QED BY <3>1, <1>1, <1>2
  <2>2. CASE j # 1
    <3>1. j \in 2 .. Len(t) BY <2>2, <1>3, LenProperties
    <3>2. PICK k \in DOMAIN forge[r] : t[j] = forge[r][k] BY <3>1, <1>3
    <3>3. forge[r][k].stamp <= changes BY <1>2 DEF Before
    <3>4. forge[r][k].stamp \in Nat
      <4>1. forge[r][k] \in Items BY <1>2, LenProperties, ElementOfSeq
      <4>2. QED BY <4>1, ItemFields, GitHubAssumption
    <3>5. QED BY <3>2, <3>3, <3>4, <1>1, <1>2
  <2>3. QED BY <2>1, <2>2
<1>5. UNCHANGED <<removals, origin>>
  BY DEF Touch
<1>6. forge' \in [Repositories -> Seq(Items)] /\ forge'[r] = t
      /\ \A q \in Repositories \ {r} : forge'[q] = forge[q]
  BY <1>1, <1>3 DEF ForgeInv
<1>7. \A q \in Repositories : removals'[q] \in Nat /\ removals'[q] = removals[q]
  BY <1>5 DEF ForgeInv
<1>8. ASSUME NEW q \in Repositories
      PROVE  /\ Unique(forge'[q]) /\ Before(forge'[q], changes')
             /\ removals'[q] >= removals[q]
             /\ \/ forge'[q] = forge[q] /\ removals'[q] = removals[q]
                \/ Len(forge'[q]) > 0 /\ forge'[q][1].stamp = changes'
                \/ removals'[q] > removals[q]
  <2>0. removals'[q] >= removals[q] BY <1>7
  <2>1. CASE q = r BY <2>0, <2>1, <1>1, <1>3, <1>4, <1>6
  <2>2. CASE q # r
    <3>1. forge'[q] = forge[q] BY <2>2, <1>6
    <3>2. Before(forge[q], changes') BY <1>1, <1>2, BeforeLater DEF ForgeInv
    <3>3. QED BY <2>0, <3>1, <3>2, <1>7 DEF ForgeInv
  <2>3. QED BY <2>1, <2>2
<1>9. QED BY <1>1, <1>5, <1>6, <1>8 DEF Moved, ForgeInv

LEMMA DeleteMoves ==
    ASSUME ForgeInv, NEW r \in Repositories, NEW n, Delete(r, n)
    PROVE  Moved
<1> DEFINE t == Without(forge[r], n)
<1>1. /\ changes' = changes + 1 /\ UNCHANGED origin
      /\ removals' = [removals EXCEPT ![r] = @ + 1]
      /\ forge' = [forge EXCEPT ![r] = t]
  BY DEF Delete, Others, Without, Listed, PlaceOf
<1>2. /\ forge[r] \in Seq(Items) /\ Unique(forge[r]) /\ Before(forge[r], changes)
      /\ changes \in Nat
  BY DEF ForgeInv
<1>3. /\ t \in Seq(Items) /\ Unique(t)
      /\ \A j \in DOMAIN t : \E k \in DOMAIN forge[r] : t[j] = forge[r][k]
  BY <1>2, Deleted
<1> HIDE DEF t
<1>4. Before(t, changes)
  BY <1>2, <1>3 DEF Before
<1>5. forge' \in [Repositories -> Seq(Items)] /\ forge'[r] = t
      /\ \A q \in Repositories \ {r} : forge'[q] = forge[q]
  BY <1>1, <1>3 DEF ForgeInv
<1>6. /\ removals' \in [Repositories -> Nat] /\ removals'[r] > removals[r]
      /\ removals'[r] >= removals[r]
      /\ \A q \in Repositories \ {r} : removals'[q] = removals[q] /\ removals'[q] >= removals[q]
  BY <1>1 DEF ForgeInv
<1>7. ASSUME NEW q \in Repositories
      PROVE  /\ Unique(forge'[q]) /\ Before(forge'[q], changes')
             /\ removals'[q] >= removals[q]
             /\ \/ forge'[q] = forge[q] /\ removals'[q] = removals[q]
                \/ Len(forge'[q]) > 0 /\ forge'[q][1].stamp = changes'
                \/ removals'[q] > removals[q]
  <2>1. CASE q = r
    <3>1. t \in Seq(Items) /\ Before(t, changes') BY <1>1, <1>2, <1>3, <1>4, BeforeLater
    <3>2. QED BY <2>1, <3>1, <1>3, <1>5, <1>6
  <2>2. CASE q # r
    <3>1. forge'[q] = forge[q] BY <2>2, <1>5
    <3>2. Before(forge[q], changes') BY <1>1, <1>2, BeforeLater DEF ForgeInv
    <3>3. QED BY <2>2, <3>1, <3>2, <1>6 DEF ForgeInv
  <2>3. QED BY <2>1, <2>2
<1>8. QED BY <1>1, <1>5, <1>6, <1>7 DEF Moved, ForgeInv

LEMMA PeopleMove ==
    ASSUME ForgeInv, People
    PROVE  Moved
<1>1. ASSUME NEW remote \in Remotes, ChangeRemote(remote)
      PROVE  Moved
  <2>1. UNCHANGED <<forge, removals>> /\ changes' = changes + 1 /\ origin' \in Remotes
    BY <1>1 DEF ChangeRemote
  <2>2. \A q \in Repositories : removals[q] >= removals[q] BY DEF ForgeInv
  <2>3. \A q \in Repositories : Before(forge[q], changes')
    BY <2>1, BeforeLater DEF ForgeInv
  <2>4. QED BY <2>1, <2>2, <2>3 DEF Moved, ForgeInv
<1>2. ASSUME NEW r \in Repositories, NEW n \in Numbers, NEW c \in Contents[n], Touch(r, n, c)
      PROVE  Moved
  BY <1>2, TouchMoves
<1>3. ASSUME NEW r \in Repositories, NEW n \in Numbers, Delete(r, n)
      PROVE  Moved
  BY <1>3, DeleteMoves
<1>4. QED BY <1>1, <1>2, <1>3 DEF People

LEMMA ForgeInit == Init => ForgeInv
<1> SUFFICES ASSUME Init PROVE ForgeInv
  OBVIOUS
<1>1. \A r \in Repositories : Unique(forge[r]) /\ Before(forge[r], changes)
  BY ForgeAssumption DEF Init, Unique, Before
<1>2. QED BY <1>1, ForgeAssumption, GitHubAssumption DEF Init, ForgeInv

LEMMA ForgeStep == ForgeInv /\ [Next]_vars => ForgeInv'
<1> SUFFICES ASSUME ForgeInv, [Next]_vars PROVE ForgeInv'
  OBVIOUS
<1>1. CASE People
  <2>1. Moved BY <1>1, PeopleMove
  <2>2. UNCHANGED <<pc, target, page>>
    BY <1>1 DEF People, Touch, Delete, ChangeRemote, ClientIdle, fetch
  <2>3. changes' \in Nat BY <2>1 DEF Moved, ForgeInv
  <2>4. QED BY <2>1, <2>2, <2>3 DEF Moved, ForgeInv
<1>2. CASE UNCHANGED world /\ UNCHANGED target /\ page' \in Nat \ {0}
           /\ target # Absent /\ pc' \in {"reading", "publish"}
  BY <1>2 DEF ForgeInv, world
<1>3. CASE Begin
  BY <1>3, ForgeAssumption, GitHubAssumption DEF Begin, ForgeInv, world, fetch
<1>4. CASE Reset
  BY <1>4, GitHubAssumption DEF ForgeInv, Reset, world
<1>5. CASE NotModified \/ RefreshFails
  BY <1>5, <1>2 DEF NotModified, RefreshFails, Keep, ForgeInv, fetch
<1>6. CASE NextPage
  BY <1>6, <1>2 DEF NextPage, Answered, ForgeInv
<1>7. ASSUME NEW i, NEW items, NEW commitsOf, pc = "reading", Continue(i, items, commitsOf)
      PROVE  ForgeInv'
  BY <1>7, <1>2 DEF Continue, ForgeInv
<1>8. CASE IssuesComplete \/ CommitsComplete
  BY <1>8, <1>7 DEF IssuesComplete, CommitsComplete, Complete, Answered
<1>9. CASE Publish \/ Abandon
  BY <1>9, <1>4 DEF Publish, Abandon
<1>10. CASE UNCHANGED vars
  BY <1>10 DEF vars, ForgeInv, world, fetch
<1>11. QED BY <1>1, <1>3, <1>5, <1>6, <1>8, <1>9, <1>10 DEF Next, Sync

\* An item of GitHub is the one of its number.
LEMMA ItemOfIs ==
    ASSUME ForgeInv, NEW r \in Repositories, NEW i \in DOMAIN forge[r]
    PROVE  ItemOf(r, forge[r][i].number) = forge[r][i]
<1>1. \A x \in ToSet(forge[r]) : x.number = forge[r][i].number => x = forge[r][i]
  BY DEF ForgeInv, Unique, ToSet
<1>2. forge[r][i] \in ToSet(forge[r]) BY DEF ToSet
<1>3. QED BY <1>1, <1>2 DEF ItemOf

\* A page has nothing newer than the list.
LEMMA PageBefore ==
    ASSUME NEW list \in Seq(Items), NEW k \in Nat \ {0}, NEW time, Before(list, time)
    PROVE  Before(Page(list, k), time)
<1> DEFINE first == (k - 1) * PageSize
           last == IF HasNext(list, k) THEN k * PageSize ELSE Len(list)
<1>1. first \in Nat /\ k * PageSize \in Nat
  BY PageSizes
<1>2. Len(list) \in Nat /\ DOMAIN list = 1 .. Len(list)
  BY LenProperties
<1>3. last \in Nat /\ last <= Len(list)
  BY <1>1, <1>2 DEF HasNext
<1>4. Page(list, k) = SubSeq(list, first + 1, last)
  BY DEF Page
<1> HIDE DEF first, last
<1>5. DOMAIN Page(list, k) = 1 .. last - first
      /\ \A i \in 1 .. last - first : Page(list, k)[i] = list[first + i]
  <2>1. \A i \in 1 .. last - (first + 1) + 1 : first + 1 + i - 1 = first + i
    BY <1>1, <1>3
  <2>2. last - (first + 1) + 1 = last - first BY <1>1, <1>3
  <2>3. \A i \in first + 1 .. last : list[i] \in Items
    BY <1>1, <1>2, <1>3, ElementOfSeq
  <2> DEFINE u == SubSeq(list, first + 1, last)
  <2>4. /\ u \in Seq(Items)
        /\ Len(u) = IF first + 1 <= last THEN last - (first + 1) + 1 ELSE 0
        /\ \A i \in 1 .. last - (first + 1) + 1 : u[i] = list[first + 1 + i - 1]
    <3>1. first + 1 \in Int /\ last \in Int BY <1>1, <1>3
    <3>2. QED BY <2>3, <3>1, SubSeqProperties
  <2>5. DOMAIN u = 1 .. Len(u) BY <2>4, LenProperties
  <2> HIDE DEF u
  <2>6. 1 .. Len(u) = 1 .. last - first BY <2>4, <1>1, <1>3
  <2>7. \A i \in 1 .. last - first : u[i] = list[first + i] BY <2>1, <2>2, <2>4
  <2>8. QED BY <1>4, <2>5, <2>6, <2>7 DEF u
<1>6. \A i \in 1 .. last - first : first + i \in DOMAIN list
  BY <1>1, <1>2, <1>3
<1>7. QED BY <1>5, <1>6 DEF Before

LEMMA FirstOfPage ==
    ASSUME NEW list \in Seq(Items), Len(list) > 0
    PROVE  1 \in DOMAIN Page(list, 1) /\ Page(list, 1)[1] = list[1]
<1> DEFINE zero == (1 - 1) * PageSize
           size == 1 * PageSize
           first == Page(list, 1)
<1>1. first \in Seq(Items)
      /\ \A i \in 1 .. Len(list) :
            zero < i /\ (HasNext(list, 1) => i <= size) =>
                i - zero \in 1 .. Len(first) /\ first[i - zero] = list[i]
  BY PageHolds
<1>2. zero = 0 /\ size >= 1
  BY GitHubAssumption
<1>3. 1 \in 1 .. Len(list) /\ 1 - zero = 1 /\ zero < 1
  BY <1>2, LenProperties
<1>4. DOMAIN first = 1 .. Len(first)
  BY <1>1, LenProperties
<1> HIDE DEF zero, size, first
<1>5. 1 \in 1 .. Len(first) /\ first[1] = list[1]
  BY <1>1, <1>2, <1>3
<1>6. QED BY <1>4, <1>5 DEF first

\* The first page tells that something was done, unless items were removed.
LEMMA FirstPageTells ==
    ASSUME ForgeInv, Moved, NEW r \in Repositories, NEW e, Before(e, changes),
           NEW since \in Nat, since <= removals[r],
           e = ETag(r)', since = removals'[r]
    PROVE  forge'[r] = forge[r] /\ removals'[r] = removals[r]
<1>1. CASE Len(forge'[r]) > 0 /\ forge'[r][1].stamp = changes'
  <2>1. forge'[r] \in Seq(Items) BY DEF Moved
  <2>2. e = Page(forge'[r], 1) BY DEF ETag
  <2>3. 1 \in DOMAIN e /\ e[1] = forge'[r][1]
    BY <1>1, <2>1, <2>2, FirstOfPage
  <2>4. e[1].stamp <= changes BY <2>3 DEF Before
  <2>5. e[1].stamp = changes + 1 /\ changes \in Nat
    BY <1>1, <2>3 DEF Moved, ForgeInv
  <2>6. QED BY <2>4, <2>5
<1>2. CASE removals'[r] > removals[r]
  BY <1>2 DEF ForgeInv, Moved
<1>3. QED BY <1>1, <1>2 DEF Moved

-----------------------------------------------------------------------------
(* What a 304 confirms. *)

Evidence(r) == BuildEvidence(r, ToSet(forge[r]), CommitsNow(r))

\* GitHub's first page of the repository is the one that was read then, and
\* nothing was removed since.
Confirms(e, since, r) == e = ETag(r) /\ since = removals[r]

\* A page that was read at some time.
ReadPage(e, since, r) ==
    e \in Seq(Items) /\ since \in Nat /\ since <= removals[r] /\ Before(e, changes)

Sound(c) ==
    LET r == c.source.of
        e == c.source.cursor
    IN  /\ r \in Repositories
        /\ e # Absent => /\ ReadPage(e, c.since, r)
                         /\ Confirms(e, c.since, r) => Part(c) = Evidence(r)

\* The commits of the pull requests before a place have been read.
CommitsRead(items, place, commitsOf) ==
    \A i \in DOMAIN items :
        i < place /\ items[i].number \in Pulls => commitsOf[items[i].number] = items[i].commits

\* Where the sync stands, if GitHub still is as it was when the sync began.
Abreast ==
    IF reading = 0
    THEN Begins(got, forge[target], page - 1)
    ELSE /\ issues = forge[target]
         /\ reading \in DOMAIN issues /\ issues[reading].number \in Pulls
         /\ CommitsRead(issues, reading, commits)
         /\ Begins(got, issues[reading].commits, page - 1)

FetchInv ==
    /\ commits = [n \in Pulls |-> commits[n]]
    /\ pc = "idle" => reading = 0 /\ page = 1
    /\ reading = 0 /\ page = 1 => got = <<>>
    /\ pc = "reading" /\ ~(reading = 0 /\ page = 1) =>
          /\ ReadPage(etag, seen, target)
          /\ Confirms(etag, seen, target) => Abreast

SoundInv ==
    /\ current # Absent => Sound(current)
    /\ result # Absent => Sound(result)

ConfirmInv == ForgeInv /\ SoundInv /\ FetchInv

\* What is built depends on the commits of the items alone.
LEMMA BuildSame ==
    ASSUME NEW r, NEW items, NEW c, NEW d,
           \A x \in items : x.number \in Pulls => c[x.number] = d[x.number]
    PROVE  BuildEvidence(r, items, c) = BuildEvidence(r, items, d)
<1> DEFINE pulls == {x \in items : x.number \in Pulls}
           numbers == {x.number : x \in items \ pulls}
           OwnRecords(f) == {{Record(Commit(h), r) : h \in ToSet(f[x.number])} : x \in pulls}
           OwnEdges(f) ==
               {{Edge("ResolvesIssue", Pull(x.number), Issue(n), r) :
                    n \in ClosingReferences(x.body, r) \intersect numbers}
                \union {Edge("IncludedInPr", Commit(h), Pull(x.number), r) :
                        h \in ToSet(f[x.number])} : x \in pulls}
<1>1. \A x \in pulls : c[x.number] = d[x.number]
  OBVIOUS
<1>2. OwnRecords(c) = OwnRecords(d)
  BY <1>1
<1>3. OwnEdges(c) = OwnEdges(d)
  BY <1>1
<1>4. \A f : BuildEvidence(r, items, f) =
                [records |-> {Record(ItemId(x.number), r) : x \in items}
                                 \union UNION OwnRecords(f),
                 edges |-> UNION OwnEdges(f)]
  BY DEF BuildEvidence
<1> HIDE DEF OwnRecords, OwnEdges, pulls, numbers
<1>5. QED BY <1>2, <1>3, <1>4

\* With all commits read, what is built is all that GitHub has.
LEMMA AllRead ==
    ASSUME ForgeInv, NEW r \in Repositories, NEW commitsOf,
           \A i \in DOMAIN forge[r] : forge[r][i].number \in Pulls =>
               commitsOf[forge[r][i].number] = forge[r][i].commits
    PROVE  BuildEvidence(r, ToSet(forge[r]), commitsOf) = Evidence(r)
<1>1. ASSUME NEW x \in ToSet(forge[r]), x.number \in Pulls
      PROVE  commitsOf[x.number] = CommitsNow(r)[x.number]
  <2>1. PICK i \in DOMAIN forge[r] : x = forge[r][i] BY DEF ToSet
  <2>2. ItemOf(r, x.number) = x BY <2>1, ItemOfIs
  <2>3. x.number \in Listed(r) BY DEF Listed
  <2>4. CommitsNow(r)[x.number] = x.commits BY <1>1, <2>2, <2>3 DEF CommitsNow
  <2>5. QED BY <1>1, <2>1, <2>4
<1>2. QED BY <1>1, BuildSame DEF Evidence

LEMMA PeopleKeepPage ==
    ASSUME ForgeInv, Moved, NEW r \in Repositories, NEW e, NEW since, ReadPage(e, since, r)
    PROVE  /\ ReadPage(e, since, r)'
           /\ Confirms(e, since, r)' =>
                 /\ Confirms(e, since, r)
                 /\ forge'[r] = forge[r]
                 /\ Evidence(r)' = Evidence(r)
<1>1. /\ e \in Seq(Items) /\ since \in Nat /\ since <= removals[r] /\ Before(e, changes)
      /\ removals[r] \in Nat /\ removals'[r] \in Nat /\ removals'[r] >= removals[r]
      /\ changes \in Nat /\ changes' = changes + 1
  BY DEF ReadPage, Moved, ForgeInv
<1>2. since <= removals'[r] BY <1>1
<1>3. Before(e, changes') BY <1>1, BeforeLater
<1>4. ReadPage(e, since, r)' BY <1>1, <1>2, <1>3 DEF ReadPage, Before
<1>5. ASSUME Confirms(e, since, r)'
      PROVE  /\ Confirms(e, since, r) /\ forge'[r] = forge[r] /\ Evidence(r)' = Evidence(r)
  <2>1. forge'[r] = forge[r] /\ removals'[r] = removals[r]
    BY <1>1, <1>5, FirstPageTells DEF Confirms
  <2>2. Confirms(e, since, r) BY <1>5, <2>1 DEF Confirms, ETag
  <2>3. Evidence(r)' = Evidence(r)
    BY <2>1 DEF Evidence, CommitsNow, Listed, ItemOf
  <2>4. QED BY <2>1, <2>2, <2>3
<1>6. QED BY <1>4, <1>5

LEMMA PeopleConfirm ==
    ASSUME ConfirmInv, People
    PROVE  SoundInv' /\ FetchInv'
<1>1. ForgeInv /\ Moved
  BY PeopleMove DEF ConfirmInv
<1>2. UNCHANGED <<current, result, pc, target, fetch>>
  BY DEF People, Touch, Delete, ChangeRemote, ClientIdle
<1>3. ASSUME NEW c, Sound(c)
      PROVE  Sound(c)'
  <2> DEFINE r == c.source.of
             e == c.source.cursor
  <2>1. r \in Repositories BY <1>3 DEF Sound
  <2>2. CASE e = Absent BY <2>1, <2>2 DEF Sound
  <2>3. CASE e # Absent
    <3>1. ReadPage(e, c.since, r) /\ (Confirms(e, c.since, r) => Part(c) = Evidence(r))
      BY <1>3, <2>3 DEF Sound
    <3>2. /\ ReadPage(e, c.since, r)'
          /\ Confirms(e, c.since, r)' => Confirms(e, c.since, r) /\ Evidence(r)' = Evidence(r)
      BY <3>1, <2>1, <1>1, PeopleKeepPage
    <3>3. QED BY <2>1, <3>1, <3>2 DEF Sound, Part
  <2>4. QED BY <2>2, <2>3
<1>4. SoundInv'
  <2>1. /\ current # Absent => Sound(current)
        /\ result # Absent => Sound(result)
    BY DEF ConfirmInv, SoundInv
  <2>2. \A c : Sound(c) => Sound(c)' BY <1>3
  <2>3. /\ current' # Absent => Sound(current)'
        /\ result' # Absent => Sound(result)'
    BY <1>2, <2>1, <2>2
  <2>4. QED BY <2>3 DEF SoundInv
<1>5. FetchInv'
  <2>0. FetchInv BY DEF ConfirmInv
  <2>2. /\ reading' = reading /\ page' = page /\ got' = got /\ issues' = issues
        /\ etag' = etag /\ commits' = commits /\ seen' = seen /\ target' = target
    BY <1>2 DEF fetch
  <2>3. ASSUME pc = "reading", ~(reading = 0 /\ page = 1)
        PROVE  ReadPage(etag, seen, target)' /\ (Confirms(etag, seen, target)' => Abreast')
    <3>1. ReadPage(etag, seen, target) /\ (Confirms(etag, seen, target) => Abreast)
      BY <2>0, <2>3 DEF FetchInv
    <3>0. target \in Repositories BY <1>1, <2>3, GitHubAssumption DEF ForgeInv
    <3>2. /\ ReadPage(etag, seen, target)'
          /\ Confirms(etag, seen, target)' =>
                Confirms(etag, seen, target) /\ forge'[target] = forge[target]
      <4>0. PICK e, since : e = etag /\ since = seen OBVIOUS
      <4>r. PICK r \in Repositories : r = target BY <3>0
      <4>1. e = etag /\ since = seen /\ r = target BY <4>0, <4>r
      <4>2. /\ ReadPage(e, since, r)'
            /\ Confirms(e, since, r)' => Confirms(e, since, r) /\ forge'[r] = forge[r]
        BY <1>1, <3>1, <4>1, PeopleKeepPage
      <4>3. ReadPage(e, since, r)' <=> ReadPage(etag, seen, target)'
        BY <4>1, <2>2 DEF ReadPage, Before
      <4>4. Confirms(e, since, r)' <=> Confirms(etag, seen, target)'
        BY <4>1, <2>2 DEF Confirms, ETag
      <4>5. QED BY <4>1, <4>2, <4>3, <4>4
    <3>3. Confirms(etag, seen, target)' => Abreast'
      BY <3>1, <3>2, <2>2 DEF Abreast
    <3>4. QED BY <3>2, <3>3
  <2>4. commits' = [n \in Pulls |-> commits'[n]] BY <2>0, <2>2 DEF FetchInv
  <2>5. QED BY <1>2, <2>0, <2>2, <2>3, <2>4 DEF FetchInv
<1>6. QED BY <1>4, <1>5

\* As long as nobody does anything, what was sound stays so.
LEMMA WorldKeepsSound ==
    ASSUME UNCHANGED world, NEW c, Sound(c)
    PROVE  Sound(c)'
<1>1. \A r : Evidence(r)' = Evidence(r) /\ ETag(r)' = ETag(r)
  BY DEF world, Evidence, CommitsNow, Listed, ItemOf, ETag
<1>2. UNCHANGED removals /\ UNCHANGED changes
  BY DEF world
<1>3. QED BY <1>1, <1>2 DEF Sound, ReadPage, Confirms, Before, Part

\* What is kept of the former contribution is as sound as it was.
LEMMA RetainedSound ==
    ASSUME ForgeInv, SoundInv, pc = "reading", NEW freshness
    PROVE  Sound(Contribution(Prior, Source(freshness, PriorCursor), PriorSince))
<1> DEFINE c == Contribution(Prior, Source(freshness, PriorCursor), PriorSince)
<1>1. /\ c.source.of = target /\ c.source.cursor = PriorCursor /\ c.since = PriorSince
      /\ Part(c) = [records |-> Prior.records, edges |-> Prior.edges]
  BY DEF Contribution, Source, Part
<1> SUFFICES Sound(c)
  OBVIOUS
<1> HIDE DEF c
<1>2. target \in Repositories
  BY GitHubAssumption DEF ForgeInv
<1>3. CASE PriorCursor = Absent
  BY <1>1, <1>2, <1>3 DEF Sound
<1>4. CASE PriorCursor # Absent
  <2>1. /\ current # Absent /\ current.source.of = target
        /\ current.source.cursor = PriorCursor
        /\ Prior = current /\ PriorSince = current.since
    BY <1>4 DEF PriorCursor, Prior, PriorSince
  <2>2. Part(c) = Part(current) BY <1>1, <2>1 DEF Part
  <2>3. Sound(current) BY <2>1 DEF SoundInv
  <2>4. QED BY <1>1, <2>1, <2>2, <2>3 DEF Sound
<1>5. QED BY <1>3, <1>4

\* The page that is answered is of a list that the pages so far begin, unless
\* the first page tells.
LEMMA AnswerAbreast ==
    ASSUME ForgeInv, FetchInv, pc = "reading"
    PROVE  /\ ReadPage(FirstETag, FirstSeen, target)
           /\ Confirms(FirstETag, FirstSeen, target) => Abreast
<1>1. target \in Repositories
  BY GitHubAssumption DEF ForgeInv
<1>2. CASE reading = 0 /\ page = 1
  <2>1. FirstETag = Page(forge[target], 1) /\ FirstSeen = removals[target]
    BY <1>2 DEF FirstETag, FirstSeen, ETag
  <2>2. forge[target] \in Seq(Items) /\ Before(forge[target], changes)
        /\ removals[target] \in Nat
    BY <1>1 DEF ForgeInv
  <2>3. Page(forge[target], 1) \in Seq(Items) BY <2>2, PageHolds
  <2>4. Before(Page(forge[target], 1), changes) BY <2>2, PageBefore
  <2>5. ReadPage(FirstETag, FirstSeen, target)
    BY <2>1, <2>2, <2>3, <2>4 DEF ReadPage
  <2>6. got = <<>> /\ page - 1 = 0 BY <1>2 DEF FetchInv
  <2>7. Abreast BY <1>2, <2>6, BeginsEmpty DEF Abreast
  <2>8. QED BY <2>5, <2>7
<1>3. CASE ~(reading = 0 /\ page = 1)
  <2>1. FirstETag = etag /\ FirstSeen = seen BY <1>3 DEF FirstETag, FirstSeen
  <2>2. QED BY <1>3, <2>1 DEF FetchInv
<1>4. QED BY <1>2, <1>3

LEMMA ReceivedAbreast ==
    ASSUME ForgeInv, Abreast, pc = "reading"
    PROVE  /\ reading # 0 => List = issues[reading].commits
           /\ HasNext(List, page) => Begins(Received, List, page)
           /\ ~HasNext(List, page) => Received = List
<1>1. target \in Repositories /\ forge[target] \in Seq(Items) /\ page \in Nat \ {0}
  BY GitHubAssumption DEF ForgeInv
<1>2. CASE reading = 0
  <2>1. List = forge[target] /\ Begins(got, forge[target], page - 1)
    BY <1>2 DEF List, Abreast
  <2>2. QED BY <1>1, <1>2, <2>1, PagesAddUp DEF Received
<1>3. CASE reading # 0
  <2>1. /\ issues = forge[target] /\ reading \in DOMAIN issues
        /\ issues[reading].number \in Pulls
        /\ Begins(got, issues[reading].commits, page - 1)
    BY <1>3 DEF Abreast
  <2>2. ItemOf(target, issues[reading].number) = issues[reading]
    BY <1>1, <2>1, ItemOfIs
  <2>3. List = issues[reading].commits BY <1>3, <2>2 DEF List
  <2>4. issues[reading] \in Items BY <1>1, <2>1, LenProperties, ElementOfSeq
  <2>5. List \in Seq(AllCommits) BY <2>1, <2>3, <2>4, ItemFields
  <2>6. QED BY <1>1, <2>1, <2>3, <2>5, PagesAddUp DEF Received
<1>4. QED BY <1>2, <1>3

\* A collection is complete.
LEMMA ContinueConfirms ==
    ASSUME ForgeInv, SoundInv, FetchInv, pc = "reading",
           NEW i, NEW items, NEW commitsOf, Continue(i, items, commitsOf),
           commitsOf = [n \in Pulls |-> commitsOf[n]],
           Confirms(FirstETag, FirstSeen, target) =>
               i \in Nat /\ items = forge[target] /\ CommitsRead(items, i + 1, commitsOf)
    PROVE  SoundInv' /\ FetchInv'
<1>1. /\ UNCHANGED world /\ UNCHANGED current /\ UNCHANGED target
      /\ page' = 1 /\ got' = <<>> /\ commits' = commitsOf /\ issues' = items
      /\ etag' = FirstETag /\ seen' = FirstSeen
  BY DEF Continue
<1>2. target \in Repositories /\ forge[target] \in Seq(Items)
  BY GitHubAssumption DEF ForgeInv
<1>3. ReadPage(FirstETag, FirstSeen, target)
  BY AnswerAbreast
<1>4. current' # Absent => Sound(current)'
  <2>1. \A c : Sound(c) => Sound(c)' BY <1>1, WorldKeepsSound
  <2>2. QED BY <1>1, <2>1 DEF SoundInv
<1>5. CASE /\ PullsAfter(i, items) = {} /\ pc' = "publish" /\ UNCHANGED reading
           /\ result' = Contribution(BuildEvidence(target, ToSet(items), commitsOf),
                                     Source("fresh", FirstETag), FirstSeen)
  <2> DEFINE c == Contribution(BuildEvidence(target, ToSet(items), commitsOf),
                               Source("fresh", FirstETag), FirstSeen)
  <2>1. /\ c.source.of = target /\ c.source.cursor = FirstETag /\ c.since = FirstSeen
        /\ Part(c) = BuildEvidence(target, ToSet(items), commitsOf)
    BY DEF Contribution, Source, Part, BuildEvidence
  <2>2. result' = c BY <1>5
  <2> HIDE DEF c
  <2>3. ASSUME Confirms(FirstETag, FirstSeen, target)
        PROVE  Part(c) = Evidence(target)
    <3>1. /\ i \in Nat /\ items = forge[target] /\ CommitsRead(items, i + 1, commitsOf)
          /\ DOMAIN items = 1 .. Len(items)
      BY <2>3, <1>2, LenProperties
    <3>2. \A j \in DOMAIN items : items[j].number \in Pulls => j < i + 1
      BY <3>1, <1>5 DEF PullsAfter
    <3>3. \A j \in DOMAIN items : items[j].number \in Pulls =>
              commitsOf[items[j].number] = items[j].commits
      BY <3>1, <3>2 DEF CommitsRead
    <3>4. QED BY <1>2, <2>1, <3>1, <3>3, AllRead
  <2>4. Sound(c) BY <1>2, <1>3, <2>1, <2>3 DEF Sound
  <2>5. Sound(result)'
    <3>1. \A d : Sound(d) => Sound(d)' BY <1>1, WorldKeepsSound
    <3>2. QED BY <2>2, <2>4, <3>1
  <2>6. FetchInv' BY <1>1, <1>5 DEF FetchInv
  <2>7. QED BY <1>4, <2>5, <2>6 DEF SoundInv
<1>6. CASE /\ reading' \in PullsAfter(i, items)
           /\ \A j \in PullsAfter(i, items) : reading' <= j
           /\ UNCHANGED <<pc, result>>
  <2>1. result' # Absent => Sound(result)'
    <3>1. \A c : Sound(c) => Sound(c)' BY <1>1, WorldKeepsSound
    <3>2. QED BY <1>6, <3>1 DEF SoundInv
  <2>2. ReadPage(etag, seen, target)'
    BY <1>1, <1>3 DEF ReadPage, world, Before
  <2>3. ASSUME Confirms(etag, seen, target)'
        PROVE  Abreast'
    <3>1. Confirms(FirstETag, FirstSeen, target)
      BY <1>1, <2>3 DEF Confirms, ETag, world
    <3>2. /\ i \in Nat /\ items = forge[target] /\ CommitsRead(items, i + 1, commitsOf)
          /\ DOMAIN items = 1 .. Len(items)
      BY <3>1, <1>2, LenProperties
    <3>3. /\ reading' \in DOMAIN items /\ reading' \in Nat \ {0} /\ items[reading'].number \in Pulls
          /\ \A j \in DOMAIN items : items[j].number \in Pulls /\ j < reading' => j < i + 1
      BY <3>2, <1>6 DEF PullsAfter
    <3>4. CommitsRead(items, reading', commitsOf)
      BY <3>2, <3>3 DEF CommitsRead
    <3>5. Begins(got', items[reading'].commits, page' - 1)
      BY <1>1, BeginsEmpty
    <3>6. issues' = forge'[target'] BY <1>1, <3>2 DEF world
    <3>7. QED BY <1>1, <3>3, <3>4, <3>5, <3>6 DEF Abreast, CommitsRead
  <2>4. FetchInv' BY <1>1, <1>6, <2>2, <2>3 DEF FetchInv
  <2>5. QED BY <1>4, <2>1, <2>4 DEF SoundInv
<1>7. QED BY <1>5, <1>6 DEF Continue

LEMMA IssuesConfirm ==
    ASSUME ForgeInv, SoundInv, FetchInv, IssuesComplete
    PROVE  SoundInv' /\ FetchInv'
<1>1. /\ pc = "reading" /\ reading = 0 /\ ~HasNext(List, page)
      /\ Continue(0, Received, commits)
  BY DEF IssuesComplete, Complete, Answered
<1>2. ASSUME Confirms(FirstETag, FirstSeen, target)
      PROVE  Received = forge[target] /\ CommitsRead(Received, 0 + 1, commits)
  <2>1. target \in Repositories /\ forge[target] \in Seq(Items)
    BY <1>1, GitHubAssumption DEF ForgeInv
  <2>2. Received = forge[target]
    BY <1>1, <1>2, AnswerAbreast, ReceivedAbreast DEF List
  <2>3. DOMAIN forge[target] = 1 .. Len(forge[target]) BY <2>1, LenProperties
  <2>4. \A j \in DOMAIN forge[target] : ~(j < 0 + 1) BY <2>3
  <2>5. QED BY <2>2, <2>4 DEF CommitsRead
<1>3. commits = [n \in Pulls |-> commits[n]]
  BY DEF FetchInv
<1>4. QED BY <1>1, <1>2, <1>3, ContinueConfirms

LEMMA CommitsConfirm ==
    ASSUME ForgeInv, SoundInv, FetchInv, CommitsComplete
    PROVE  SoundInv' /\ FetchInv'
<1> DEFINE n == issues[reading].number
           read == [commits EXCEPT ![n] = Received]
<1>1. /\ pc = "reading" /\ reading # 0 /\ ~HasNext(List, page)
      /\ Continue(reading, issues, read)
  BY DEF CommitsComplete, Complete, Answered
<1>2. ASSUME Confirms(FirstETag, FirstSeen, target)
      PROVE  reading \in Nat /\ issues = forge[target] /\ CommitsRead(issues, reading + 1, read)
  <2>1. target \in Repositories /\ forge[target] \in Seq(Items)
    BY <1>1, GitHubAssumption DEF ForgeInv
  <2>2. /\ issues = forge[target] /\ reading \in DOMAIN issues /\ n \in Pulls
        /\ CommitsRead(issues, reading, commits)
        /\ Received = issues[reading].commits
    BY <1>1, <1>2, AnswerAbreast, ReceivedAbreast DEF Abreast
  <2>3. DOMAIN issues = 1 .. Len(issues) BY <2>1, <2>2, LenProperties
  <2>4. commits = [m \in Pulls |-> commits[m]] BY DEF FetchInv
  <2>5. \A m \in Pulls : read[m] = IF m = n THEN Received ELSE commits[m]
    BY <2>4
  <2>6. \A j \in DOMAIN issues : issues[j].number = n => j = reading
    BY <2>1, <2>2 DEF ForgeInv, Unique
  <2> HIDE DEF read
  <2>7. ASSUME NEW j \in DOMAIN issues, j < reading + 1, issues[j].number \in Pulls
        PROVE  read[issues[j].number] = issues[j].commits
    <3>1. CASE j = reading BY <3>1, <2>2, <2>5
    <3>2. CASE j # reading
      <4>1. j < reading BY <2>2, <2>3, <2>7, <3>2
      <4>2. issues[j].number # n BY <3>2, <2>6
      <4>3. commits[issues[j].number] = issues[j].commits
        BY <4>1, <2>2, <2>7 DEF CommitsRead
      <4>4. QED BY <4>2, <4>3, <2>5, <2>7
    <3>3. QED BY <3>1, <3>2
  <2>8. CommitsRead(issues, reading + 1, read) BY <2>7 DEF CommitsRead
  <2>9. reading \in Nat BY <2>2, <2>3
  <2>10. QED BY <2>2, <2>8, <2>9
<1>3. read = [m \in Pulls |-> read[m]]
  BY DEF FetchInv
<1> HIDE DEF read
<1>4. QED BY <1>1, <1>2, <1>3, ContinueConfirms

LEMMA NextPageConfirms ==
    ASSUME ForgeInv, SoundInv, FetchInv, NextPage
    PROVE  SoundInv' /\ FetchInv'
<1>1. /\ pc = "reading" /\ HasNext(List, page) /\ UNCHANGED world
      /\ got' = Received /\ page' = page + 1 /\ etag' = FirstETag /\ seen' = FirstSeen
      /\ UNCHANGED <<current, pc, target, reading, issues, commits, result>>
  BY DEF NextPage, Answered
<1>2. SoundInv'
  <2>1. \A c : Sound(c) => Sound(c)' BY <1>1, WorldKeepsSound
  <2>2. QED BY <1>1, <2>1 DEF SoundInv
<1>3. page \in Nat \ {0} /\ page' # 1 /\ page' - 1 = page
  BY <1>1 DEF ForgeInv
<1>4. ReadPage(etag, seen, target)'
  <2>1. ReadPage(FirstETag, FirstSeen, target) BY <1>1, AnswerAbreast
  <2>2. QED BY <1>1, <2>1 DEF ReadPage, world, Before
<1>5. ASSUME Confirms(etag, seen, target)'
      PROVE  Abreast'
  <2>1. Confirms(FirstETag, FirstSeen, target)
    BY <1>1, <1>5 DEF Confirms, ETag, world
  <2>2. Abreast BY <1>1, <2>1, AnswerAbreast
  <2>3. Begins(got', List, page' - 1) BY <1>1, <1>3, <2>2, ReceivedAbreast
  <2>4. CASE reading = 0
    <3>1. List = forge'[target'] BY <1>1, <2>4 DEF List, world
    <3>2. QED BY <1>1, <2>3, <2>4, <3>1 DEF Abreast
  <2>5. CASE reading # 0
    <3>1. List = issues'[reading'].commits BY <1>1, <2>2, <2>5, ReceivedAbreast
    <3>2. QED BY <1>1, <2>2, <2>3, <2>5, <3>1 DEF Abreast, CommitsRead, world
  <2>6. QED BY <2>4, <2>5
<1>6. FetchInv' BY <1>1, <1>3, <1>4, <1>5 DEF FetchInv
<1>7. QED BY <1>2, <1>6

LEMMA ConfirmInit == Init => ConfirmInv
<1> SUFFICES ASSUME Init PROVE ConfirmInv
  OBVIOUS
<1>1. ForgeInv BY ForgeInit
<1>2. SoundInv BY DEF Init, SoundInv
<1>3. FetchInv BY DEF Init, FetchInv
<1>4. QED BY <1>1, <1>2, <1>3 DEF ConfirmInv

LEMMA ConfirmStep == ConfirmInv /\ [Next]_vars => ConfirmInv'
<1> SUFFICES ASSUME ConfirmInv, [Next]_vars PROVE ConfirmInv'
  OBVIOUS
<1>0. ForgeInv /\ SoundInv /\ FetchInv /\ ForgeInv'
  BY ForgeStep DEF ConfirmInv
<1> SUFFICES SoundInv' /\ FetchInv'
  BY <1>0 DEF ConfirmInv
<1>1. CASE People
  BY <1>1, PeopleConfirm
<1>2. CASE IssuesComplete
  BY <1>0, <1>2, IssuesConfirm
<1>3. CASE CommitsComplete
  BY <1>0, <1>3, CommitsConfirm
<1>4. CASE NextPage
  BY <1>0, <1>4, NextPageConfirms
<1>5. ASSUME UNCHANGED world PROVE \A c : Sound(c) => Sound(c)'
  BY <1>5, WorldKeepsSound
<1>6. CASE Begin
  <2>1. UNCHANGED <<world, current, result, fetch>> /\ pc = "idle"
    BY <1>6 DEF Begin
  <2>2. SoundInv' BY <1>0, <1>5, <2>1 DEF SoundInv
  <2>3. FetchInv' BY <1>0, <1>6, <2>1 DEF Begin, FetchInv, fetch
  <2>4. QED BY <2>2, <2>3
<1>7. CASE NotModified \/ RefreshFails
  <2>1. PICK freshness :
            /\ pc = "reading"
            /\ Keep(Contribution(Prior, Source(freshness, PriorCursor), PriorSince))
    BY <1>7 DEF NotModified, RefreshFails
  <2> DEFINE c == Contribution(Prior, Source(freshness, PriorCursor), PriorSince)
  <2>2. Sound(c) BY <1>0, <2>1, RetainedSound
  <2> HIDE DEF c
  <2>3. /\ UNCHANGED <<world, current, fetch>> /\ result' = c /\ pc' = "publish"
    BY <2>1 DEF Keep, c
  <2>4. SoundInv' BY <1>0, <1>5, <2>2, <2>3 DEF SoundInv
  <2>5. FetchInv' BY <1>0, <2>1, <2>3 DEF FetchInv, fetch
  <2>6. QED BY <2>4, <2>5
<1>8. ASSUME Reset, current' \in {current, result}
      PROVE  SoundInv' /\ FetchInv'
  <2>1. UNCHANGED world /\ result' = Absent BY <1>8 DEF Reset
  <2>2. SoundInv' BY <1>0, <1>5, <1>8, <2>1 DEF SoundInv
  <2>3. FetchInv' BY <1>8 DEF Reset, FetchInv
  <2>4. QED BY <2>2, <2>3
<1>9. CASE Publish \/ Abandon
  BY <1>8, <1>9 DEF Publish, Abandon
<1>10. CASE UNCHANGED vars
  <2>1. UNCHANGED <<world, current, result, fetch, pc, target>> BY <1>10 DEF vars
  <2>2. SoundInv' BY <1>0, <1>5, <2>1 DEF SoundInv
  <2>3. FetchInv'
    BY <1>0, <2>1 DEF FetchInv, fetch, world, ReadPage, Confirms, ETag, Abreast, Before,
                      CommitsRead
  <2>4. QED BY <2>2, <2>3
<1>11. QED BY <1>1, <1>2, <1>3, <1>4, <1>6, <1>7, <1>9, <1>10 DEF Next, Sync

\* A contribution that a 304 would confirm is all that GitHub has, unless an item
\* was removed: however its pages were read between what people did.
THEOREM ConfirmedIsAll == Spec => []ConfirmedIsCurrent
<1>1. ConfirmInv => ConfirmedIsCurrent
  BY DEF ConfirmInv, SoundInv, Sound, Confirms, ConfirmedIsCurrent, Evidence
<1>2. QED BY <1>1, ConfirmInit, ConfirmStep, PTL DEF Spec

-----------------------------------------------------------------------------
(* What nobody touches. *)

Quietly(item) == item.number \in quiet
Still == {item \in ToSet(forge[target]) : Quietly(item)}

AtMost(S, n) == IsFiniteSet(S) /\ Cardinality(S) <= n

ReadUpTo == (page - 1) * PageSize

\* What nobody touches on the pages that have been read, but was not on them then.
Slipped ==
    {forge[target][i] : i \in {j \in DOMAIN forge[target] :
        j <= ReadUpTo /\ Quietly(forge[target][j])}} \ ToSet(got)

\* The commits of a pull request that nobody touches are read, or what has been
\* read of them is how they begin.
CommitsFollow(item) ==
    /\ \A i \in DOMAIN issues :
          i < reading /\ issues[i].number = item.number => commits[item.number] = item.commits
    /\ issues[reading].number = item.number => Begins(got, item.commits, page - 1)

QuietFetch ==
    /\ reading \in Nat /\ issues \in Seq(Items)
    /\ commits = [n \in Pulls |-> commits[n]]
    /\ shifts \in Nat
    /\ pc = "idle" => reading = 0 /\ page = 1 /\ got = <<>> /\ etag = Absent /\ result = Absent
    /\ pc = "reading" /\ reading = 0 =>
          /\ page = 1 => etag = Absent
          /\ got \in Seq(Items)
          /\ AtMost(Slipped, shifts)
    /\ pc = "reading" /\ reading # 0 =>
          /\ AtMost(Still \ ToSet(issues), shifts)
          /\ \A item \in Still : item.number \in Pulls => CommitsFollow(item)

\* Of some items all that they say is in a contribution.
IsThere(items, r, commitsOf, c) ==
    LET part == BuildEvidence(r, items, commitsOf)
    IN  part.records \subseteq c.records /\ part.edges \subseteq c.edges

QuietResult ==
    pc = "publish" /\ result.source.freshness = "fresh" /\ result.source.cursor = etag =>
        \E missed \in SUBSET Still :
            AtMost(missed, shifts) /\ IsThere(Still \ missed, target, CommitsNow(target), result)

QuietInv == ForgeInv /\ QuietFetch /\ QuietResult

LEMMA AtMostWithin ==
    ASSUME NEW T, NEW n \in Nat, AtMost(T, n), NEW S \in SUBSET T, NEW m \in Nat, n <= m
    PROVE  AtMost(S, m)
<1>1. IsFiniteSet(S) /\ Cardinality(S) <= Cardinality(T) BY FS_Subset DEF AtMost
<1>2. Cardinality(S) \in Nat /\ Cardinality(T) \in Nat BY <1>1, FS_CardinalityType DEF AtMost
<1>3. QED BY <1>1, <1>2 DEF AtMost

LEMMA AtMostOneMore ==
    ASSUME NEW T, NEW n \in Nat, AtMost(T, n), NEW x, NEW S \in SUBSET (T \union {x})
    PROVE  AtMost(S, n + 1)
<1>1. /\ IsFiniteSet(T \union {x})
      /\ Cardinality(T \union {x}) = IF x \in T THEN Cardinality(T) ELSE Cardinality(T) + 1
  BY FS_AddElement DEF AtMost
<1>2. Cardinality(T) \in Nat BY FS_CardinalityType DEF AtMost
<1>3. AtMost(T \union {x}, n + 1) BY <1>1, <1>2 DEF AtMost
<1>4. n + 1 \in Nat /\ n + 1 <= n + 1 OBVIOUS
<1>5. QED BY <1>3, <1>4, AtMostWithin

\* More items, and the same commits of each, make no less.
LEMMA BuildMore ==
    ASSUME NEW r, NEW items, NEW more, items \subseteq more, NEW c, NEW d,
           \A x \in items : x.number \in Pulls => c[x.number] = d[x.number]
    PROVE  /\ BuildEvidence(r, items, c).records \subseteq BuildEvidence(r, more, d).records
           /\ BuildEvidence(r, items, c).edges \subseteq BuildEvidence(r, more, d).edges
<1> DEFINE pulls(s) == {x \in s : x.number \in Pulls}
           numbers(s) == {x.number : x \in s \ pulls(s)}
           Own(s) == {Record(ItemId(x.number), r) : x \in s}
           OwnCommits(s, f) == {{Record(Commit(h), r) : h \in ToSet(f[x.number])} : x \in pulls(s)}
           EdgesOf(x, s, f) ==
               {Edge("ResolvesIssue", Pull(x.number), Issue(n), r) :
                   n \in ClosingReferences(x.body, r) \intersect numbers(s)}
               \union {Edge("IncludedInPr", Commit(h), Pull(x.number), r) :
                       h \in ToSet(f[x.number])}
           OwnEdges(s, f) == {EdgesOf(x, s, f) : x \in pulls(s)}
<1>1. \A s, f : BuildEvidence(r, s, f) =
                   [records |-> Own(s) \union UNION OwnCommits(s, f),
                    edges |-> UNION OwnEdges(s, f)]
  BY DEF BuildEvidence
<1>2. pulls(items) \subseteq pulls(more) /\ numbers(items) \subseteq numbers(more)
  OBVIOUS
<1>3. \A x \in pulls(items) : c[x.number] = d[x.number]
  OBVIOUS
<1>4. Own(items) \subseteq Own(more)
  OBVIOUS
<1>5. OwnCommits(items, c) \subseteq OwnCommits(more, d)
  BY <1>2, <1>3
<1>6. \A x \in pulls(items) : EdgesOf(x, items, c) \subseteq EdgesOf(x, more, d)
  BY <1>2, <1>3
<1>7. UNION OwnEdges(items, c) \subseteq UNION OwnEdges(more, d)
  <2> HIDE DEF EdgesOf, numbers
  <2>1. \A x \in pulls(items) : EdgesOf(x, more, d) \subseteq UNION OwnEdges(more, d)
    BY <1>2
  <2>2. QED BY <1>6, <2>1
<1> HIDE DEF Own, OwnCommits, OwnEdges
<1>8. QED BY <1>1, <1>4, <1>5, <1>7

\* What nobody touches is as it was, at no earlier place; or at the one before,
\* where that is beyond what has been read or the removal counts.
LEMMA PeopleLeave ==
    ASSUME ForgeInv, People, target \in Repositories, shifts \in Nat
    PROVE  /\ target' = target /\ shifts' \in {shifts, shifts + 1}
           /\ \A j \in DOMAIN forge'[target] : forge'[target][j].number \in quiet' =>
                 \E k \in DOMAIN forge[target] :
                    /\ forge'[target][j] = forge[target][k] /\ Quietly(forge[target][k])
                    /\ \/ k <= j
                       \/ /\ k = j + 1
                          /\ pc = "reading" /\ reading = 0 /\ j <= ReadUpTo =>
                                shifts' = shifts + 1
<1> DEFINE s == forge[target]
           t == forge'[target]
           Counts(j) == pc = "reading" /\ reading = 0 /\ j <= ReadUpTo => shifts' = shifts + 1
           Leave == \A j \in DOMAIN t : t[j].number \in quiet' =>
                       \E k \in DOMAIN s :
                          /\ t[j] = s[k] /\ Quietly(s[k])
                          /\ \/ k <= j
                             \/ k = j + 1 /\ Counts(j)
<1>1. s \in Seq(Items) /\ Unique(s) /\ DOMAIN s = 1 .. Len(s)
  BY LenProperties DEF ForgeInv
<1>2. target' = target /\ shifts' \in {shifts, shifts + 1}
  BY DEF People, Touch, Delete, ChangeRemote, ClientIdle
<1>3. ASSUME t = s, quiet' = quiet
      PROVE  Leave
  <2>1. \A j \in DOMAIN s : j <= j BY <1>1
  <2> HIDE DEF s, t, Counts
  <2>2. QED BY <1>3, <2>1 DEF Quietly
<1>4. ASSUME NEW r \in Repositories, NEW n \in Numbers, NEW c \in Contents[n], Touch(r, n, c)
      PROVE  Leave
  <2>1. CASE r # target
    <3>1. t = s /\ quiet' = quiet BY <1>4, <2>1 DEF Touch, ForgeInv
    <3>2. QED BY <3>1, <1>3
  <2>2. CASE r = target
    <3> DEFINE x == Item(n, changes', c)
               u == <<x>> \o Without(s, x.number)
    <3>1. x \in Items /\ x.number = n /\ t = u /\ quiet' = quiet \ {n}
      <4>1. /\ x \in Items /\ x.number = n
            /\ forge' = [forge EXCEPT ![r] = <<x>> \o Without(s, n)]
        BY <1>4, <2>2, TouchIs
      <4>2. quiet' = quiet \ {n} BY <1>4, <2>2 DEF Touch
      <4>3. t = <<x>> \o Without(s, n) BY <4>1, <2>2 DEF ForgeInv
      <4>4. QED BY <4>1, <4>2, <4>3
    <3> HIDE DEF x, s, t, Counts
    <3>2. Behind(s, x, u) BY <1>1, <3>1, TouchedBehind
    <3> HIDE DEF u
    <3>3. \A j \in DOMAIN u : j = 1 \/ j \in 2 .. Len(u) BY <3>2, LenProperties DEF Behind
    <3>4. QED BY <3>1, <3>2, <3>3 DEF Behind, Quietly
  <2>3. QED BY <2>1, <2>2
<1>5. ASSUME NEW r \in Repositories, NEW n, Delete(r, n)
      PROVE  Leave
  <2>1. CASE r # target
    <3>1. t = s /\ quiet' = quiet BY <1>5, <2>1 DEF Delete, ForgeInv
    <3>2. QED BY <3>1, <1>3
  <2>2. CASE r = target
    <3> DEFINE o == Without(s, n)
               p == Place(s, n)
    <3>1. /\ t = o /\ quiet' = quiet \ {n}
          /\ pc = "reading" /\ reading = 0 /\ p <= ReadUpTo => shifts' = shifts + 1
      <4>1. n \in Listed(target) /\ forge' = [forge EXCEPT ![target] = Others(target, n)]
        BY <1>5, <2>2 DEF Delete
      <4>2. Others(target, n) = o /\ p = PlaceOf(target, n)
        BY <4>1 DEF Others, Without, Place, PlaceOf, Listed
      <4>3. t = o BY <4>1, <4>2 DEF ForgeInv
      <4>4. QED BY <1>5, <2>2, <4>2, <4>3 DEF Delete, ReadUpTo
    <3>2. /\ Len(o) \in Nat /\ DOMAIN o = 1 .. Len(o)
          /\ p \in Nat \ {0} /\ p <= Len(s) + 1
          /\ p <= Len(s) => Len(o) = Len(s) - 1
          /\ p > Len(s) => Len(o) = Len(s)
          /\ \A j \in 1 .. Len(o) : /\ j < p => o[j] = s[j]
                                    /\ j >= p => o[j] = s[j + 1]
      BY <1>1, WithoutOne
    <3>3. Len(s) \in Nat /\ ReadUpTo \in Int
      <4>1. page \in Nat /\ PageSize \in Nat BY GitHubAssumption DEF ForgeInv
      <4>2. QED BY <1>1, <4>1, LenProperties DEF ReadUpTo
    <3> HIDE DEF o, p, s, t
    <3>4. ASSUME NEW j \in 1 .. Len(o), j < p
          PROVE  j \in 1 .. Len(s) /\ j <= j /\ o[j] = s[j]
      BY <3>2, <3>3, <3>4
    <3>5. ASSUME NEW j \in 1 .. Len(o), ~(j < p)
          PROVE  j + 1 \in 1 .. Len(s) /\ o[j] = s[j + 1] /\ Counts(j)
      <4>1. j + 1 \in 1 .. Len(s) /\ o[j] = s[j + 1] /\ p <= j /\ j \in Int BY <3>2, <3>3, <3>5
      <4>2. j <= ReadUpTo => p <= ReadUpTo BY <3>2, <3>3, <4>1
      <4>3. QED BY <3>1, <4>1, <4>2
    <3> HIDE DEF Counts
    <3>6. QED BY <1>1, <3>1, <3>2, <3>4, <3>5 DEF Quietly
  <2>3. QED BY <2>1, <2>2
<1>6. ASSUME NEW remote, ChangeRemote(remote)
      PROVE  Leave
  <2>1. t = s /\ quiet' = quiet BY <1>6 DEF ChangeRemote
  <2>2. QED BY <2>1, <1>3
<1>7. Leave
  <2> HIDE DEF Leave
  <2>1. QED BY <1>4, <1>5, <1>6 DEF People
<1>8. QED BY <1>2, <1>7, Zenon

LEMMA TheOneOfItsNumber ==
    ASSUME NEW s, Unique(s), NEW x \in ToSet(s)
    PROVE  (CHOOSE y \in ToSet(s) : y.number = x.number) = x
BY DEF Unique, ToSet

LEMMA CommitsOfListed ==
    ASSUME ForgeInv, NEW r \in Repositories, NEW x \in ToSet(forge[r]), x.number \in Pulls
    PROVE  CommitsNow(r)[x.number] = x.commits
<1>1. PICK i \in DOMAIN forge[r] : x = forge[r][i] BY DEF ToSet
<1>2. ItemOf(r, x.number) = x BY <1>1, ItemOfIs
<1>3. x.number \in Listed(r) BY DEF Listed
<1>4. QED BY <1>2, <1>3 DEF CommitsNow

LEMMA PeopleKeepQuiet ==
    ASSUME QuietInv, People
    PROVE  QuietFetch' /\ QuietResult'
<1>1. /\ ForgeInv /\ QuietFetch /\ QuietResult /\ shifts \in Nat
      /\ UNCHANGED <<current, pc, target, fetch, result>>
  BY DEF QuietInv, QuietFetch, People, Touch, Delete, ChangeRemote, ClientIdle
<1>2. /\ reading' = reading /\ page' = page /\ got' = got /\ issues' = issues
      /\ etag' = etag /\ commits' = commits
  BY <1>1 DEF fetch
<1>3. shifts' \in {shifts, shifts + 1} /\ shifts' \in Nat /\ shifts <= shifts'
  <2>1. shifts' \in {shifts, shifts + 1}
    BY DEF People, Touch, Delete, ChangeRemote
  <2>2. QED BY <1>1, <2>1
<1>4. CASE pc = "idle"
  <2>1. pc' = "idle" BY <1>1, <1>4
  <2>2. QuietFetch' BY <1>1, <1>2, <1>3, <1>4, <2>1 DEF QuietFetch
  <2>3. QuietResult' BY <2>1 DEF QuietResult
  <2>4. QED BY <2>2, <2>3
<1>5. CASE pc # "idle"
  <2>1. target \in Repositories BY <1>1, <1>5 DEF ForgeInv
  <2> DEFINE s == forge[target]
             t == forge'[target]
  <2>2. \A j \in DOMAIN t : t[j].number \in quiet' =>
            \E k \in DOMAIN s :
               /\ t[j] = s[k] /\ Quietly(s[k])
               /\ \/ k <= j
                  \/ /\ k = j + 1
                     /\ pc = "reading" /\ reading = 0 /\ j <= ReadUpTo => shifts' = shifts + 1
    BY <1>1, <2>1, PeopleLeave
  <2>3. s \in Seq(Items) /\ t \in Seq(Items)
    <3>1. Moved BY <1>1, PeopleMove
    <3>2. QED BY <2>1, <3>1, <1>1 DEF Moved, ForgeInv
  <2>4. Still' \subseteq Still
    BY <1>1, <2>2 DEF Still, Quietly, ToSet
  <2>5. ASSUME pc = "reading", reading = 0
        PROVE  AtMost(Slipped', shifts')
    <3> DEFINE next == s[ReadUpTo + 1]
    <3>1. AtMost(Slipped, shifts) BY <1>1, <2>5 DEF QuietFetch
    <3>2. DOMAIN s = 1 .. Len(s) /\ DOMAIN t = 1 .. Len(t) BY <2>3, LenProperties
    <3>3. ReadUpTo \in Nat
      <4>1. page \in Nat \ {0} BY <1>1 DEF ForgeInv
      <4>2. QED BY <4>1, PageSizes DEF ReadUpTo
    <3>4. \A x \in Slipped' : \E j \in DOMAIN t :
              x = t[j] /\ j <= ReadUpTo /\ t[j].number \in quiet' /\ x \notin ToSet(got)
      BY <1>1, <1>2 DEF Slipped, Quietly, ReadUpTo
    <3>5. \A k \in DOMAIN s : k <= ReadUpTo /\ Quietly(s[k]) /\ s[k] \notin ToSet(got) =>
              s[k] \in Slipped
      BY DEF Slipped
    <3> HIDE DEF s, t
    <3>6. ASSUME NEW x \in Slipped'
          PROVE  x \in Slipped \/ (shifts' = shifts + 1 /\ x = next)
      <4>1. PICK j \in DOMAIN t :
                x = t[j] /\ j <= ReadUpTo /\ t[j].number \in quiet' /\ x \notin ToSet(got)
        BY <3>4
      <4>2. PICK k \in DOMAIN s :
                /\ t[j] = s[k] /\ Quietly(s[k])
                /\ k <= j \/ (k = j + 1 /\ shifts' = shifts + 1)
        BY <2>2, <2>5, <4>1
      <4>3. j \in Nat /\ k \in Nat BY <3>2
      <4>4. CASE k <= ReadUpTo BY <3>5, <4>1, <4>2, <4>4
      <4>5. CASE ~(k <= ReadUpTo)
        <5>1. k = ReadUpTo + 1 /\ shifts' = shifts + 1 BY <3>3, <4>1, <4>2, <4>3, <4>5
        <5>2. QED BY <4>1, <4>2, <5>1
      <4>6. QED BY <4>4, <4>5
    <3> HIDE DEF next
    <3>7. CASE shifts' = shifts
      <4>1. Slipped' \in SUBSET Slipped BY <1>1, <3>6, <3>7
      <4>2. QED BY <1>1, <1>3, <3>1, <4>1, AtMostWithin
    <3>8. CASE shifts' = shifts + 1
      <4>1. Slipped' \in SUBSET (Slipped \union {next}) BY <3>6
      <4>2. AtMost(Slipped', shifts + 1) BY <1>1, <3>1, <4>1, AtMostOneMore
      <4>3. QED BY <3>8, <4>2
    <3>9. QED BY <1>3, <3>7, <3>8
  <2>6. ASSUME pc = "reading", reading # 0
        PROVE  /\ AtMost(Still' \ ToSet(issues'), shifts')
               /\ \A item \in Still' : item.number \in Pulls => CommitsFollow(item)'
    <3>1. /\ AtMost(Still \ ToSet(issues), shifts)
          /\ \A item \in Still : item.number \in Pulls => CommitsFollow(item)
      BY <1>1, <2>6 DEF QuietFetch
    <3>2. \A item : CommitsFollow(item)' <=> CommitsFollow(item)
      BY <1>2 DEF CommitsFollow
    <3>3. Still' \ ToSet(issues') \in SUBSET (Still \ ToSet(issues)) BY <1>2, <2>4
    <3>4. AtMost(Still' \ ToSet(issues'), shifts')
      BY <1>1, <1>3, <3>1, <3>3, AtMostWithin
    <3>5. QED BY <2>4, <3>1, <3>2, <3>4
  <2>7. QuietFetch'
    BY <1>1, <1>2, <1>3, <1>5, <2>5, <2>6 DEF QuietFetch
  <2>8. QuietResult'
    <3> SUFFICES ASSUME /\ pc' = "publish" /\ result'.source.freshness = "fresh"
                        /\ result'.source.cursor = etag'
                 PROVE  \E missed \in SUBSET Still' :
                           /\ AtMost(missed, shifts')
                           /\ IsThere(Still' \ missed, target', CommitsNow(target)', result')
      BY <1>1 DEF QuietResult, CommitsNow, Listed, ItemOf
    <3>1. PICK missed \in SUBSET Still :
              /\ AtMost(missed, shifts)
              /\ IsThere(Still \ missed, target, CommitsNow(target), result)
      BY <1>1, <1>2 DEF QuietResult
    <3> DEFINE lacking == missed \intersect Still'
    <3>2. Still' \ lacking \subseteq Still \ missed BY <2>4
    <3>3. ASSUME NEW item \in Still' \ lacking, item.number \in Pulls
          PROVE  CommitsNow(target)'[item.number] = CommitsNow(target)[item.number]
      <4>1. item \in ToSet(t) /\ item \in ToSet(s)
        BY <1>1, <2>4, <3>3 DEF Still
      <4>2. CommitsNow(target)[item.number] = item.commits
        BY <1>1, <2>1, <3>3, <4>1, CommitsOfListed
      <4>3. CommitsNow(target)'[item.number] = item.commits
        <5>1. Moved BY <1>1, PeopleMove
        <5>2. Unique(t) BY <2>1, <5>1 DEF Moved
        <5>3. (CHOOSE x \in ToSet(t) : x.number = item.number) = item
          BY <4>1, <5>2, TheOneOfItsNumber
        <5>4. item.number \in {x.number : x \in ToSet(t)} BY <4>1
        <5>5. target' = target BY <1>1
        <5>6. QED BY <3>3, <5>3, <5>4, <5>5 DEF CommitsNow, Listed, ItemOf
      <4>4. QED BY <4>2, <4>3
    <3> DEFINE now == BuildEvidence(target, Still \ missed, CommitsNow(target))
               later == BuildEvidence(target, Still' \ lacking, CommitsNow(target)')
    <3>4. later.records \subseteq now.records /\ later.edges \subseteq now.edges
      <4> HIDE DEF lacking
      <4>1. QED BY <3>2, <3>3, BuildMore
    <3>5. now.records \subseteq result.records /\ now.edges \subseteq result.edges
      BY <3>1 DEF IsThere
    <3>6. IsThere(Still' \ lacking, target', CommitsNow(target)', result')
      <4>1. target' = target /\ result' = result BY <1>1
      <4> HIDE DEF now, lacking
      <4>2. QED BY <3>4, <3>5, <4>1 DEF IsThere
    <3>7. lacking \in SUBSET missed /\ lacking \in SUBSET Still' OBVIOUS
    <3> HIDE DEF lacking
    <3>8. AtMost(lacking, shifts') BY <1>1, <1>3, <3>1, <3>7, AtMostWithin
    <3>9. QED BY <3>6, <3>7, <3>8
  <2>9. QED BY <2>7, <2>8
<1>6. QED BY <1>4, <1>5

LEMMA ConcatHolds ==
    ASSUME NEW S, NEW a \in Seq(S), NEW b \in Seq(S)
    PROVE  a \o b \in Seq(S) /\ ToSet(a) \union ToSet(b) \subseteq ToSet(a \o b)
<1> DEFINE w == a \o b
<1>1. /\ w \in Seq(S) /\ Len(w) = Len(a) + Len(b)
      /\ \A i \in 1 .. Len(a) + Len(b) : w[i] = IF i <= Len(a) THEN a[i] ELSE b[i - Len(a)]
  BY ConcatProperties
<1>2. /\ DOMAIN w = 1 .. Len(w) /\ DOMAIN a = 1 .. Len(a) /\ DOMAIN b = 1 .. Len(b)
  BY <1>1, LenProperties
<1>3. Len(a) \in Nat /\ Len(b) \in Nat
  BY LenProperties
<1> HIDE DEF w
<1>4. \A i \in 1 .. Len(a) : i \in 1 .. Len(w) /\ w[i] = a[i]
  BY <1>1, <1>3
<1>5. ASSUME NEW i \in 1 .. Len(b)
      PROVE  Len(a) + i \in 1 .. Len(w) /\ w[Len(a) + i] = b[i]
  <2>1. Len(a) + i \in 1 .. Len(a) + Len(b) /\ ~(Len(a) + i <= Len(a)) /\ Len(a) + i - Len(a) = i
    BY <1>3
  <2>2. QED BY <2>1, <1>1
<1>6. ToSet(a) \subseteq ToSet(w)
  BY <1>2, <1>4 DEF ToSet
<1>7. ToSet(b) \subseteq ToSet(w)
  BY <1>2, <1>5 DEF ToSet
<1>8. QED BY <1>1, <1>6, <1>7 DEF w

\* With the page that is answered, what nobody touches is there up to its end,
\* unless it slipped.
LEMMA IssuesFollow ==
    ASSUME ForgeInv, QuietFetch, pc = "reading", reading = 0
    PROVE  /\ Received \in Seq(Items)
           /\ \A i \in DOMAIN forge[target] :
                 Quietly(forge[target][i]) /\ (HasNext(List, page) => i <= page * PageSize) =>
                     forge[target][i] \in ToSet(Received) \union Slipped
<1> DEFINE s == forge[target]
           first == (page - 1) * PageSize
           here == Page(s, page)
<1>1. s \in Seq(Items) /\ page \in Nat \ {0}
  BY GitHubAssumption DEF ForgeInv
<1>2. List = s /\ Received = got \o here
  BY DEF List, Received
<1>3. /\ got \in Seq(Items)
      /\ \A i \in DOMAIN s : i <= first /\ Quietly(s[i]) => s[i] \in ToSet(got) \union Slipped
  BY DEF QuietFetch, Slipped, ReadUpTo
<1>4. /\ here \in Seq(Items)
      /\ \A i \in 1 .. Len(s) :
            first < i /\ (HasNext(s, page) => i <= page * PageSize) =>
                i - first \in 1 .. Len(here) /\ here[i - first] = s[i]
  BY <1>1, PageHolds
<1>5. first \in Nat
  BY <1>1, PageSizes
<1> HIDE DEF first, here, s
<1>6. DOMAIN s = 1 .. Len(s) /\ DOMAIN here = 1 .. Len(here) /\ Len(s) \in Nat
  BY <1>1, <1>4, LenProperties
<1>7. Received \in Seq(Items) /\ ToSet(got) \union ToSet(here) \subseteq ToSet(Received)
  BY <1>2, <1>3, <1>4, ConcatHolds
<1>8. ASSUME NEW i \in DOMAIN s, Quietly(s[i]), HasNext(s, page) => i <= page * PageSize
      PROVE  s[i] \in ToSet(Received) \union Slipped
  <2>1. CASE i <= first BY <1>3, <1>7, <1>8, <2>1
  <2>2. CASE ~(i <= first)
    <3>1. first < i /\ i \in 1 .. Len(s) BY <2>2, <1>5, <1>6
    <3>2. i - first \in 1 .. Len(here) /\ here[i - first] = s[i] BY <3>1, <1>4, <1>8
    <3>3. s[i] \in ToSet(here) BY <3>2, <1>6 DEF ToSet
    <3>4. QED BY <3>3, <1>7
  <2>3. QED BY <2>1, <2>2
<1>9. QED BY <1>2, <1>7, <1>8 DEF s

LEMMA PullFollows ==
    ASSUME ForgeInv, QuietFetch, pc = "reading", reading # 0,
           NEW item \in Still, item.number \in Pulls, issues[reading].number = item.number
    PROVE  /\ HasNext(List, page) => Begins(Received, item.commits, page)
           /\ ~HasNext(List, page) => Received = item.commits
<1>1. target \in Repositories /\ forge[target] \in Seq(Items) /\ page \in Nat \ {0}
  BY GitHubAssumption DEF ForgeInv
<1>2. PICK i \in DOMAIN forge[target] : item = forge[target][i]
  BY DEF Still, ToSet
<1>3. List = item.commits
  <2>1. ItemOf(target, item.number) = item BY <1>1, <1>2, ItemOfIs
  <2>2. QED BY <2>1 DEF List
<1>4. item \in Items BY <1>1, <1>2, LenProperties, ElementOfSeq
<1>5. item.commits \in Seq(AllCommits) BY <1>4, ItemFields
<1>6. Begins(got, item.commits, page - 1) BY DEF QuietFetch, CommitsFollow
<1>7. QED BY <1>1, <1>3, <1>5, <1>6, PagesAddUp DEF Received

LEMMA ContinueQuietly ==
    ASSUME ForgeInv, QuietFetch, pc = "reading",
           NEW i \in Nat, NEW items \in Seq(Items), NEW commitsOf,
           commitsOf = [n \in Pulls |-> commitsOf[n]],
           Continue(i, items, commitsOf), AtMost(Still \ ToSet(items), shifts),
           \A x \in Still : x.number \in Pulls =>
               \A j \in DOMAIN items : j < i + 1 /\ items[j].number = x.number =>
                   commitsOf[x.number] = x.commits
    PROVE  QuietFetch' /\ QuietResult'
<1>1. /\ UNCHANGED world /\ UNCHANGED <<target, quiet, shifts>>
      /\ page' = 1 /\ got' = <<>> /\ commits' = commitsOf /\ issues' = items
      /\ etag' = FirstETag
  BY DEF Continue
<1>2. target \in Repositories /\ forge[target] \in Seq(Items)
  BY GitHubAssumption DEF ForgeInv
<1>3. Still' = Still /\ CommitsNow(target)' = CommitsNow(target)
  BY <1>1 DEF Still, Quietly, world, CommitsNow, Listed, ItemOf
<1>4. DOMAIN items = 1 .. Len(items)
  BY LenProperties
<1>5. CASE /\ PullsAfter(i, items) = {} /\ pc' = "publish" /\ UNCHANGED reading
           /\ result' = Contribution(BuildEvidence(target, ToSet(items), commitsOf),
                                     Source("fresh", FirstETag), FirstSeen)
  <2> DEFINE missed == Still \ ToSet(items)
             all == BuildEvidence(target, ToSet(items), commitsOf)
             now == BuildEvidence(target, Still \ missed, CommitsNow(target))
  <2>1. QuietFetch' BY <1>1, <1>5 DEF QuietFetch
  <2>2. ASSUME NEW x \in Still \ missed, x.number \in Pulls
        PROVE  CommitsNow(target)[x.number] = commitsOf[x.number]
    <3>1. PICK j \in DOMAIN items : items[j] = x BY DEF ToSet
    <3>2. j < i + 1 BY <1>4, <1>5, <2>2, <3>1 DEF PullsAfter
    <3>3. commitsOf[x.number] = x.commits BY <2>2, <3>1, <3>2
    <3>4. x \in ToSet(forge[target]) BY DEF Still
    <3>5. QED BY <1>2, <2>2, <3>3, <3>4, CommitsOfListed
  <2>3. now.records \subseteq all.records /\ now.edges \subseteq all.edges
    <3>1. Still \ missed \subseteq ToSet(items) OBVIOUS
    <3> HIDE DEF missed
    <3>2. QED BY <2>2, <3>1, BuildMore
  <2>4. result'.records = all.records /\ result'.edges = all.edges
    <3> HIDE DEF all
    <3>1. result' = Contribution(all, Source("fresh", FirstETag), FirstSeen) BY <1>5 DEF all
    <3>2. QED BY <3>1 DEF Contribution
  <2>5. missed \in SUBSET Still /\ AtMost(missed, shifts) OBVIOUS
  <2> HIDE DEF all, missed
  <2>6. IsThere(Still \ missed, target, CommitsNow(target), result')
    <3> HIDE DEF now
    <3>1. now.records \subseteq result'.records /\ now.edges \subseteq result'.edges
      BY <2>3, <2>4
    <3>2. QED BY <3>1 DEF IsThere, now
  <2>7. /\ missed \in SUBSET Still' /\ AtMost(missed, shifts')
        /\ IsThere(Still' \ missed, target', CommitsNow(target)', result')
    BY <1>1, <1>3, <2>5, <2>6
  <2>8. QuietResult'
    BY <1>1, <2>7 DEF QuietResult, CommitsNow, Listed, ItemOf
  <2>9. QED BY <2>1, <2>8
<1>6. CASE /\ reading' \in PullsAfter(i, items)
           /\ \A j \in PullsAfter(i, items) : reading' <= j
           /\ UNCHANGED <<pc, result>>
  <2>1. /\ reading' \in Nat \ {0} /\ reading' \in DOMAIN items
        /\ \A j \in DOMAIN items : items[j].number \in Pulls /\ j < reading' => j < i + 1
    BY <1>4, <1>6 DEF PullsAfter
  <2>2. ASSUME NEW x \in Still, x.number \in Pulls
        PROVE  CommitsFollow(x)'
    <3>1. \A j \in DOMAIN items : j < reading' /\ items[j].number = x.number =>
              commitsOf[x.number] = x.commits
      BY <2>1, <2>2
    <3>2. Begins(got', x.commits, page' - 1) BY <1>1, BeginsEmpty
    <3>3. QED BY <1>1, <3>1, <3>2 DEF CommitsFollow
  <2>3. QuietFetch' BY <1>1, <1>3, <1>6, <2>1, <2>2 DEF QuietFetch
  <2>4. QuietResult' BY <1>6 DEF QuietResult
  <2>5. QED BY <2>3, <2>4
<1>7. QED BY <1>5, <1>6 DEF Continue

LEMMA IssuesQuietly ==
    ASSUME ForgeInv, QuietFetch, IssuesComplete
    PROVE  QuietFetch' /\ QuietResult'
<1>1. /\ pc = "reading" /\ reading = 0 /\ ~HasNext(List, page)
      /\ Continue(0, Received, commits)
  BY DEF IssuesComplete, Complete, Answered
<1>2. Received \in Seq(Items) /\ AtMost(Still \ ToSet(Received), shifts)
  <2>1. Received \in Seq(Items) /\ Still \ ToSet(Received) \in SUBSET Slipped
    BY <1>1, IssuesFollow DEF Still, ToSet
  <2>2. shifts \in Nat /\ shifts <= shifts /\ AtMost(Slipped, shifts)
    BY <1>1 DEF QuietFetch
  <2>3. QED BY <2>1, <2>2, AtMostWithin
<1>3. \A j \in DOMAIN Received : ~(j < 0 + 1)
  BY <1>2, LenProperties
<1>4. commits = [n \in Pulls |-> commits[n]]
  BY DEF QuietFetch
<1>5. QED BY <1>1, <1>2, <1>3, <1>4, ContinueQuietly

LEMMA CommitsQuietly ==
    ASSUME ForgeInv, QuietFetch, CommitsComplete
    PROVE  QuietFetch' /\ QuietResult'
<1> DEFINE n == issues[reading].number
           read == [commits EXCEPT ![n] = Received]
<1>1. /\ pc = "reading" /\ reading # 0 /\ ~HasNext(List, page)
      /\ Continue(reading, issues, read)
  BY DEF CommitsComplete, Complete, Answered
<1>2. /\ reading \in Nat /\ issues \in Seq(Items) /\ AtMost(Still \ ToSet(issues), shifts)
      /\ commits = [m \in Pulls |-> commits[m]]
  BY <1>1 DEF QuietFetch
<1>3. DOMAIN issues = 1 .. Len(issues)
  BY <1>2, LenProperties
<1>4. \A m \in Pulls : read[m] = IF m = n THEN Received ELSE commits[m]
  BY <1>2
<1>5. read = [m \in Pulls |-> read[m]]
  BY <1>2
<1> HIDE DEF read, n
<1>6. ASSUME NEW x \in Still, x.number \in Pulls,
             NEW j \in DOMAIN issues, j < reading + 1, issues[j].number = x.number
      PROVE  read[x.number] = x.commits
  <2>1. CASE x.number = n
    <3>1. Received = x.commits BY <1>1, <1>6, <2>1, PullFollows DEF n
    <3>2. QED BY <3>1, <1>4, <1>6, <2>1
  <2>2. CASE x.number # n
    <3>1. j < reading BY <1>2, <1>3, <1>6, <2>2 DEF n
    <3>2. CommitsFollow(x) BY <1>1, <1>6 DEF QuietFetch
    <3>3. commits[x.number] = x.commits BY <3>1, <3>2, <1>6 DEF CommitsFollow
    <3>4. QED BY <3>3, <1>4, <1>6, <2>2
  <2>3. QED BY <2>1, <2>2
<1>7. \A x \in Still : x.number \in Pulls =>
          \A j \in DOMAIN issues : j < reading + 1 /\ issues[j].number = x.number =>
              read[x.number] = x.commits
  BY <1>6
<1>8. QED BY <1>1, <1>2, <1>5, <1>7, ContinueQuietly, SMTT(60)

LEMMA NextPageQuietly ==
    ASSUME ForgeInv, QuietFetch, NextPage
    PROVE  QuietFetch' /\ QuietResult'
<1>1. /\ pc = "reading" /\ HasNext(List, page) /\ UNCHANGED world
      /\ got' = Received /\ page' = page + 1
      /\ UNCHANGED <<pc, target, reading, issues, commits, quiet, shifts>>
  BY DEF NextPage, Answered
<1>2. page' # 1 /\ page' - 1 = page
  BY <1>1 DEF ForgeInv
<1>3. Still' = Still /\ forge' = forge
  BY <1>1 DEF Still, Quietly, world
<1>4. QuietResult'
  BY <1>1 DEF QuietResult
<1>5. CASE reading = 0
  <2>1. /\ Received \in Seq(Items)
        /\ \A i \in DOMAIN forge[target] :
              Quietly(forge[target][i]) /\ i <= page * PageSize =>
                  forge[target][i] \in ToSet(Received) \union Slipped
    BY <1>1, <1>5, IssuesFollow
  <2>2. Slipped' \in SUBSET Slipped
    BY <1>1, <1>2, <1>3, <2>1 DEF Slipped, ReadUpTo, Quietly
  <2>3. QuietFetch'
    <3>1. shifts \in Nat /\ shifts <= shifts /\ AtMost(Slipped, shifts)
      BY <1>1, <1>5 DEF QuietFetch
    <3>2. AtMost(Slipped', shifts') BY <1>1, <2>2, <3>1, AtMostWithin
    <3>3. QED BY <1>1, <1>2, <1>5, <2>1, <3>2 DEF QuietFetch
  <2>4. QED BY <1>4, <2>3
<1>6. CASE reading # 0
  <2>1. AtMost(Still \ ToSet(issues), shifts)
        /\ \A x \in Still : x.number \in Pulls => CommitsFollow(x)
    BY <1>1, <1>6 DEF QuietFetch
  <2>2. ASSUME NEW x \in Still, x.number \in Pulls
        PROVE  CommitsFollow(x)'
    <3>1. CommitsFollow(x) BY <2>1, <2>2
    <3>2. issues[reading].number = x.number => Begins(got', x.commits, page' - 1)
      BY <1>1, <1>2, <1>6, <2>2, PullFollows
    <3>3. QED BY <1>1, <3>1, <3>2 DEF CommitsFollow
  <2>3. QuietFetch'
    BY <1>1, <1>3, <1>6, <2>1, <2>2 DEF QuietFetch
  <2>4. QED BY <1>4, <2>3
<1>7. QED BY <1>5, <1>6

LEMMA QuietInit == Init => QuietInv
<1> SUFFICES ASSUME Init PROVE QuietInv
  OBVIOUS
<1>1. ForgeInv BY ForgeInit
<1>2. QuietFetch BY DEF Init, QuietFetch
<1>3. QuietResult BY DEF Init, QuietResult
<1>4. QED BY <1>1, <1>2, <1>3 DEF QuietInv

LEMMA QuietStep == QuietInv /\ [Next]_vars => QuietInv'
<1> SUFFICES ASSUME QuietInv, [Next]_vars PROVE QuietInv'
  OBVIOUS
<1>0. ForgeInv /\ QuietFetch /\ QuietResult /\ ForgeInv'
  BY ForgeStep DEF QuietInv
<1> SUFFICES QuietFetch' /\ QuietResult'
  BY <1>0 DEF QuietInv
<1>1. CASE People
  BY <1>1, PeopleKeepQuiet
<1>2. CASE IssuesComplete
  BY <1>0, <1>2, IssuesQuietly
<1>3. CASE CommitsComplete
  BY <1>0, <1>3, CommitsQuietly
<1>4. CASE NextPage
  BY <1>0, <1>4, NextPageQuietly
<1>5. CASE Begin
  <2>1. /\ pc = "idle" /\ pc' = "reading" /\ UNCHANGED <<world, fetch, shifts>>
        /\ target' \in Repositories
    BY <1>0, <1>5, GitHubAssumption DEF Begin, ForgeInv
  <2>2. /\ reading' = 0 /\ page' = 1 /\ got' = <<>> /\ etag' = Absent
        /\ reading' = reading /\ issues' = issues /\ commits' = commits
    BY <1>0, <2>1 DEF QuietFetch, fetch
  <2>3. (page' - 1) * PageSize = 0
    BY <2>2, GitHubAssumption
  <2>4. \A i \in DOMAIN forge'[target'] : ~(i <= (page' - 1) * PageSize)
    <3>1. forge'[target'] \in Seq(Items) BY <1>0, <2>1 DEF ForgeInv
    <3>2. \A i \in DOMAIN forge'[target'] : i \in Nat \ {0} BY <3>1, LenProperties
    <3>3. QED BY <2>3, <3>2
  <2>5. got' \in Seq(Items) BY <2>2
  <2>6. QuietFetch'
    <3>1. Slipped' = {} BY <2>4 DEF Slipped, ReadUpTo
    <3>2. IsFiniteSet({}) /\ Cardinality({}) = 0 BY FS_EmptySet
    <3>3. shifts' \in Nat BY <1>0, <2>1 DEF QuietFetch
    <3>4. AtMost(Slipped', shifts') BY <3>1, <3>2, <3>3 DEF AtMost
    <3>5. QED BY <1>0, <2>1, <2>2, <2>5, <3>3, <3>4 DEF QuietFetch
  <2>7. QuietResult' BY <2>1 DEF QuietResult
  <2>8. QED BY <2>6, <2>7
<1>6. CASE NotModified
  <2>1. /\ pc = "reading" /\ reading = 0 /\ page = 1 /\ PriorCursor # Absent
        /\ result' = Contribution(Prior, Source("fresh", PriorCursor), PriorSince)
        /\ pc' = "publish" /\ UNCHANGED fetch /\ UNCHANGED shifts
    BY <1>6 DEF NotModified, Keep
  <2>2. etag' = Absent BY <1>0, <2>1 DEF QuietFetch, fetch
  <2>3. result'.source.cursor # Absent BY <2>1 DEF Contribution, Source
  <2>4. QuietResult' BY <2>2, <2>3 DEF QuietResult
  <2>5. QuietFetch' BY <1>0, <2>1 DEF QuietFetch, fetch
  <2>6. QED BY <2>4, <2>5
<1>7. CASE RefreshFails
  <2>1. /\ result' = Contribution(Prior, Source("stale", PriorCursor), PriorSince)
        /\ pc' = "publish" /\ UNCHANGED fetch /\ UNCHANGED shifts
    BY <1>7 DEF RefreshFails, Keep
  <2>2. result'.source.freshness = "stale" BY <2>1 DEF Contribution, Source
  <2>3. QuietResult' BY <2>2 DEF QuietResult
  <2>4. QuietFetch' BY <1>0, <2>1 DEF QuietFetch, fetch
  <2>5. QED BY <2>3, <2>4
<1>8. CASE Publish \/ Abandon
  <2>1. Reset BY <1>8 DEF Publish, Abandon
  <2>2. issues' \in Seq(Items) BY <2>1 DEF Reset
  <2>3. QuietFetch' BY <2>1, <2>2 DEF Reset, QuietFetch
  <2>4. QuietResult' BY <2>1 DEF Reset, QuietResult
  <2>5. QED BY <2>3, <2>4
<1>9. CASE UNCHANGED vars
  <2>1. UNCHANGED <<world, result, fetch, pc, target, quiet, shifts>> BY <1>9 DEF vars
  <2>2. Still' = Still /\ CommitsNow(target)' = CommitsNow(target)
    BY <2>1 DEF Still, Quietly, world, CommitsNow, Listed, ItemOf
  <2>3. QuietFetch'
    <3>1. Slipped' = Slipped BY <2>1 DEF Slipped, ReadUpTo, Quietly, fetch, world
    <3>2. QED BY <1>0, <2>1, <2>2, <3>1 DEF QuietFetch, fetch, world, CommitsFollow
  <2>4. QuietResult'
    BY <1>0, <2>1, <2>2 DEF QuietResult, fetch, CommitsNow, Listed, ItemOf
  <2>5. QED BY <2>3, <2>4
<1>10. QED BY <1>1, <1>2, <1>3, <1>4, <1>5, <1>6, <1>7, <1>8, <1>9 DEF Next, Sync

\* A new contribution has what nobody touched while it was fetched, though the
\* items move from page to page, except for at most one item for each that was
\* removed from a page already read: only then does one move to an earlier place.
THEOREM QuietItemsAreFetched == Spec => []QuietItemsAreThere
<1>1. QuietInv => QuietItemsAreThere
  BY DEF QuietInv, QuietResult, QuietItemsAreThere, AtMost, IsThere, Still, Quietly
<1>2. QED BY <1>1, QuietInit, QuietStep, PTL DEF Spec

-----------------------------------------------------------------------------
(* Types. *)

\* Both ends of every relationship are there.
Closed(c) ==
    \A e \in c.edges : {Record(e.source, e.of), Record(e.target, e.of)} \subseteq c.records

\* A pull request that was read is still listed: nobody can remove it.
PullsListed(s) ==
    \A i \in DOMAIN s : s[i].number \in Pulls => s[i].number \in Listed(target)

\* What the pages so far hold: items, or commits of a pull request among them.
ReadSoFar ==
    IF reading = 0 THEN got \in Seq(Items) /\ PullsListed(got)
    ELSE /\ got \in Seq(AllCommits)
         /\ issues[reading].number \in Pulls /\ PullsListed(issues)

TypeInv ==
    /\ ForgeInv /\ TypeOK
    /\ shifts <= changes /\ \A r \in Repositories : removals[r] <= changes
    /\ current # Absent => Closed(current)
    /\ pc = "idle" => reading = 0 /\ got = <<>>
    /\ pc = "reading" => ReadSoFar

\* What is built of items and commits is evidence, and closed.
LEMMA BuiltTypes ==
    ASSUME NEW r \in Repositories, NEW items \in SUBSET Items,
           NEW commitsOf \in [Pulls -> Seq(AllCommits)]
    PROVE  LET part == BuildEvidence(r, items, commitsOf)
           IN  part.records \subseteq Records /\ part.edges \subseteq Edges /\ Closed(part)
<1> DEFINE part == BuildEvidence(r, items, commitsOf)
           pulls == {x \in items : x.number \in Pulls}
           numbers == {x.number : x \in items \ pulls}
<1>1. /\ part.records = {Record(ItemId(x.number), r) : x \in items}
                            \union UNION {{Record(Commit(h), r) : h \in ToSet(commitsOf[x.number])} :
                                          x \in pulls}
      /\ part.edges = UNION {
                {Edge("ResolvesIssue", Pull(x.number), Issue(n), r) :
                    n \in ClosingReferences(x.body, r) \intersect numbers}
                \union {Edge("IncludedInPr", Commit(h), Pull(x.number), r) :
                        h \in ToSet(commitsOf[x.number])} :
                x \in pulls}
  BY DEF BuildEvidence
<1> HIDE DEF part
<1>2. \A x \in items : x.number \in Numbers BY ItemFields
<1>3. \A x \in pulls : \A h \in ToSet(commitsOf[x.number]) : h \in AllCommits
  <2> SUFFICES ASSUME NEW x \in pulls, NEW h \in ToSet(commitsOf[x.number])
               PROVE  h \in AllCommits
    OBVIOUS
  <2>1. commitsOf[x.number] \in Seq(AllCommits) OBVIOUS
  <2>2. PICK i \in DOMAIN commitsOf[x.number] : h = commitsOf[x.number][i] BY DEF ToSet
  <2>3. i \in 1 .. Len(commitsOf[x.number]) BY <2>1, <2>2, LenProperties
  <2>4. QED BY <2>1, <2>2, <2>3, ElementOfSeq
<1>4. \A x \in pulls : ItemId(x.number) = Pull(x.number) BY DEF ItemId
<1>5. \A n \in numbers : n \in Numbers /\ ItemId(n) = Issue(n) /\ \E x \in items : x.number = n
  BY <1>2 DEF ItemId
<1>6. \A n \in Numbers : ItemId(n) \in Ids BY DEF Ids
<1>7. \A h \in AllCommits : Commit(h) \in Ids BY DEF Ids
<1>8. part.records \subseteq Records
  <2>1. \A x \in items : Record(ItemId(x.number), r) \in Records
    BY <1>2, <1>6 DEF Record, Records
  <2>2. \A x \in pulls : \A h \in ToSet(commitsOf[x.number]) : Record(Commit(h), r) \in Records
    BY <1>3, <1>7 DEF Record, Records
  <2> HIDE DEF pulls
  <2>3. QED BY <1>1, <2>1, <2>2
<1>9. \A e \in part.edges :
         \/ \E x \in pulls, n \in numbers : e = Edge("ResolvesIssue", Pull(x.number), Issue(n), r)
         \/ \E x \in pulls : \E h \in ToSet(commitsOf[x.number]) :
               e = Edge("IncludedInPr", Commit(h), Pull(x.number), r)
  <2> HIDE DEF pulls, numbers
  <2>1. QED BY <1>1
<1>10. ASSUME NEW x \in pulls, NEW n \in numbers, NEW e,
              e = Edge("ResolvesIssue", Pull(x.number), Issue(n), r)
       PROVE  /\ e \in Edges
              /\ {Record(e.source, e.of), Record(e.target, e.of)} \subseteq part.records
  <2>1. e = [kind |-> "ResolvesIssue", source |-> ItemId(x.number), target |-> ItemId(n), of |-> r]
    BY <1>4, <1>5, <1>10 DEF Edge
  <2>2. x \in items /\ x.number \in Numbers /\ n \in Numbers BY <1>2, <1>5
  <2>3. ItemId(x.number) \in Ids /\ ItemId(n) \in Ids BY <1>6, <2>2
  <2>4. e \in Edges BY <2>1, <2>3 DEF Edges
  <2>5. PICK y \in items : y.number = n BY <1>5
  <2> HIDE DEF pulls, numbers
  <2>6. Record(ItemId(x.number), r) \in part.records /\ Record(ItemId(y.number), r) \in part.records
    BY <1>1, <2>2, <2>5
  <2>7. QED BY <2>1, <2>4, <2>5, <2>6
<1>11. ASSUME NEW x \in pulls, NEW h \in ToSet(commitsOf[x.number]), NEW e,
              e = Edge("IncludedInPr", Commit(h), Pull(x.number), r)
       PROVE  /\ e \in Edges
              /\ {Record(e.source, e.of), Record(e.target, e.of)} \subseteq part.records
  <2>1. e = [kind |-> "IncludedInPr", source |-> Commit(h), target |-> ItemId(x.number), of |-> r]
    BY <1>4, <1>11 DEF Edge
  <2>2. x \in items /\ x.number \in Numbers /\ h \in AllCommits BY <1>2, <1>3
  <2>3. ItemId(x.number) \in Ids /\ Commit(h) \in Ids BY <1>6, <1>7, <2>2
  <2>4. e \in Edges BY <2>1, <2>3 DEF Edges
  <2> HIDE DEF pulls, numbers
  <2>5. Record(ItemId(x.number), r) \in part.records /\ Record(Commit(h), r) \in part.records
    BY <1>1, <2>2
  <2>6. QED BY <2>1, <2>4, <2>5
<1> HIDE DEF pulls, numbers
<1>12. QED BY <1>8, <1>9, <1>10, <1>11 DEF Closed, part

\* Nobody removes a pull request.
LEMMA PullsStay ==
    ASSUME ForgeInv, People, NEW r \in Repositories, NEW n \in Listed(r) \cap Pulls
    PROVE  n \in Listed(r)'
<1> DEFINE s == forge[r]
           t == forge'[r]
<1>1. s \in Seq(Items) /\ Unique(s) /\ DOMAIN s = 1 .. Len(s)
  BY LenProperties DEF ForgeInv
<1>2. PICK k \in DOMAIN s : s[k].number = n
  <2>1. PICK x \in ToSet(s) : x.number = n BY DEF Listed
  <2>2. QED BY <2>1 DEF ToSet
<1> DEFINE Stays == \E j \in DOMAIN t : t[j].number = n
<1>3. t = s => Stays
  <2> HIDE DEF s, t
  <2>1. QED BY <1>2
<1>4. ASSUME NEW q \in Repositories, NEW m \in Numbers, NEW c \in Contents[m], Touch(q, m, c)
      PROVE  Stays
  <2>1. CASE q # r
    <3>1. t = s BY <1>4, <2>1 DEF Touch, ForgeInv
    <3> HIDE DEF s, t
    <3>2. QED BY <1>3, <3>1
  <2>2. CASE q = r
    <3> DEFINE x == Item(m, changes', c)
               u == <<x>> \o Without(s, x.number)
    <3>1. x \in Items /\ x.number = m /\ t = u
      <4>1. /\ x \in Items /\ x.number = m
            /\ forge' = [forge EXCEPT ![q] = <<x>> \o Without(s, m)]
        BY <1>4, <2>2, TouchIs
      <4>2. t = <<x>> \o Without(s, m) BY <4>1, <2>2 DEF ForgeInv
      <4>3. QED BY <4>1, <4>2
    <3> HIDE DEF x, s, t
    <3>2. /\ u \in Seq(Items) /\ Len(u) > 0 /\ u[1] = x
          /\ \A i \in DOMAIN s : s[i].number # x.number => \E j \in DOMAIN u : u[j] = s[i]
      <4>1. x \in Items /\ s \in Seq(Items) /\ Unique(s) BY <1>1, <3>1
      <4>2. QED BY <4>1, Touched
    <3> HIDE DEF u
    <3>3. 1 \in DOMAIN u BY <3>2, LenProperties
    <3>4. CASE n = m BY <3>1, <3>2, <3>3, <3>4
    <3>5. CASE n # m BY <1>2, <3>1, <3>2, <3>5
    <3>6. QED BY <3>4, <3>5
  <2>3. QED BY <2>1, <2>2
<1>5. ASSUME NEW q \in Repositories, NEW m \in Numbers, Delete(q, m)
      PROVE  Stays
  <2>1. CASE q # r
    <3>1. t = s BY <1>5, <2>1 DEF Delete, ForgeInv
    <3> HIDE DEF s, t
    <3>2. QED BY <1>3, <3>1
  <2>2. CASE q = r
    <3>1. m \notin Pulls BY <1>5 DEF Delete
    <3>2. t = Without(s, m) BY <1>5, <2>2 DEF Delete, Others, Without, Listed, PlaceOf, ForgeInv
    <3> DEFINE o == Without(s, m)
               p == Place(s, m)
    <3> HIDE DEF s, t
    <3>3. /\ Len(o) \in Nat /\ DOMAIN o = 1 .. Len(o)
          /\ p \in Nat \ {0} /\ p <= Len(s) + 1
          /\ p <= Len(s) => Len(o) = Len(s) - 1
          /\ p > Len(s) => Len(o) = Len(s)
          /\ \A j \in 1 .. Len(o) : /\ j < p => o[j] = s[j]
                                    /\ j >= p => o[j] = s[j + 1]
          /\ \A i \in 1 .. Len(s) : s[i].number = m <=> i = p
      BY <1>1, WithoutOne
    <3> HIDE DEF o, p
    <3>4. k \in 1 .. Len(s) /\ k # p /\ Len(s) \in Nat
      BY <1>1, <1>2, <3>1, <3>3, LenProperties
    <3>5. CASE k < p
      <4>1. k \in 1 .. Len(o) BY <3>3, <3>4, <3>5
      <4>2. o[k] = s[k] BY <3>3, <3>5, <4>1
      <4>3. QED BY <1>2, <3>2, <3>3, <4>1, <4>2 DEF o
    <3>6. CASE k > p
      <4>1. k - 1 \in 1 .. Len(o) /\ k - 1 >= p /\ (k - 1) + 1 = k BY <3>3, <3>4, <3>6
      <4>2. o[k - 1] = s[k] BY <3>3, <4>1
      <4>3. QED BY <1>2, <3>2, <3>3, <4>1, <4>2 DEF o
    <3>7. QED BY <3>3, <3>4, <3>5, <3>6
  <2>3. QED BY <2>1, <2>2
<1>6. ASSUME NEW remote, ChangeRemote(remote)
      PROVE  Stays
  <2>1. t = s BY <1>6 DEF ChangeRemote
  <2>2. QED BY <1>3, <2>1
<1>7. Stays BY <1>4, <1>5, <1>6 DEF People
<1>8. PICK j \in DOMAIN t : t[j].number = n BY <1>7
<1>9. t[j] \in ToSet(t) BY DEF ToSet
<1>10. QED BY <1>8, <1>9 DEF Listed

\* An item whose commits can be asked for.
Reachables == {x \in Items : x.number \in Pulls => x.number \in Listed(target)}

LEMMA ListedItems ==
    ASSUME NEW s \in Seq(Items)
    PROVE  PullsListed(s) <=> s \in Seq(Reachables)
<1>1. /\ DOMAIN s = 1 .. Len(s) /\ Len(s) \in Nat
      /\ \A i \in 1 .. Len(s) : s[i] \in Items
  BY LenProperties, ElementOfSeq
<1>2. ASSUME PullsListed(s) PROVE s \in Seq(Reachables)
  <2>1. \A i \in 1 .. Len(s) : s[i] \in Reachables
    BY <1>1, <1>2 DEF PullsListed, Reachables
  <2>2. s \in [1 .. Len(s) -> Reachables]
    <3>1. s \in [1 .. Len(s) -> Items] BY LenProperties
    <3>2. QED BY <2>1, <3>1
  <2>3. QED BY <1>1, <2>2, SeqDef
<1>3. ASSUME s \in Seq(Reachables) PROVE PullsListed(s)
  <2>1. \A i \in 1 .. Len(s) : s[i] \in Reachables BY <1>3, ElementOfSeq
  <2>2. QED BY <1>1, <2>1 DEF PullsListed, Reachables
<1>4. QED BY <1>2, <1>3

LEMMA ContributionTypes ==
    ASSUME NEW part, part.records \subseteq Records, part.edges \subseteq Edges, Closed(part),
           NEW r \in Repositories, NEW f \in {"fresh", "stale"},
           NEW cursor \in Seq(Items) \union {Absent}, NEW since \in 0 .. MaxChanges
    PROVE  LET c == Contribution(part, [of |-> r, freshness |-> f, cursor |-> cursor], since)
           IN  c \in Contributions /\ c # Absent /\ Closed(c)
<1> DEFINE c == Contribution(part, [of |-> r, freshness |-> f, cursor |-> cursor], since)
<1>1. c \in Contributions BY DEF Contribution, Contributions
<1>2. c.records = part.records /\ c.edges = part.edges BY DEF Contribution
<1>3. c # Absent BY <1>1, AbsentAssumption
<1>4. QED BY <1>1, <1>2, <1>3 DEF Closed

\* What the store has of GitHub.
LEMMA PriorTypes ==
    ASSUME TypeInv
    PROVE  /\ Prior.records \subseteq Records /\ Prior.edges \subseteq Edges /\ Closed(Prior)
           /\ PriorCursor \in Seq(Items) \union {Absent}
           /\ PriorSince \in 0 .. MaxChanges
<1>1. CASE current = Absent
  <2>1. Prior = Nothing /\ PriorCursor = Absent /\ PriorSince = 0
    BY <1>1 DEF Prior, PriorCursor, PriorSince
  <2>2. 0 \in 0 .. MaxChanges BY GitHubAssumption
  <2>3. QED BY <2>1, <2>2 DEF Nothing, Closed
<1>2. CASE current # Absent
  <2>1. current \in Contributions /\ Closed(current) BY <1>2 DEF TypeInv, TypeOK
  <2>2. /\ Prior = current /\ PriorSince = current.since
        /\ PriorCursor = current.source.cursor \/ PriorCursor = Absent
    BY <1>2 DEF Prior, PriorCursor, PriorSince
  <2>3. /\ current.records \subseteq Records /\ current.edges \subseteq Edges
        /\ current.source.cursor \in Seq(Items) \union {Absent}
        /\ current.since \in 0 .. MaxChanges
    BY <2>1 DEF Contributions
  <2>4. QED BY <2>1, <2>2, <2>3
<1>3. QED BY <1>1, <1>2

\* What a page adds to what was read.
LEMMA ReceivedTypes ==
    ASSUME TypeInv, pc = "reading"
    PROVE  /\ target \in Repositories
           /\ reading = 0 => Received \in Seq(Items) /\ PullsListed(Received)
           /\ reading # 0 => Received \in Seq(AllCommits)
           /\ FirstETag \in Seq(Items) \union {Absent}
           /\ FirstSeen \in 0 .. MaxChanges
<1>1. /\ target \in Repositories /\ forge[target] \in Seq(Items) /\ page \in Nat \ {0}
      /\ etag \in Seq(Items) \union {Absent} /\ seen \in 0 .. MaxChanges
      /\ removals[target] \in 0 .. MaxChanges
  BY GitHubAssumption DEF TypeInv, TypeOK, ForgeInv
<1>2. Page(forge[target], 1) \in Seq(Items)
  <2>1. 1 \in Nat \ {0} OBVIOUS
  <2>2. QED BY <1>1, <2>1, PageHolds
<1>3. FirstETag \in Seq(Items) \union {Absent} /\ FirstSeen \in 0 .. MaxChanges
  BY <1>1, <1>2 DEF FirstETag, FirstSeen, ETag
<1>4. ASSUME reading = 0 PROVE Received \in Seq(Items) /\ PullsListed(Received)
  <2>1. got \in Seq(Items) /\ PullsListed(got) BY <1>4 DEF TypeInv, ReadSoFar
  <2>2. PullsListed(forge[target]) BY DEF PullsListed, Listed, ToSet
  <2>3. got \in Seq(Reachables) /\ forge[target] \in Seq(Reachables)
    BY <1>1, <2>1, <2>2, ListedItems
  <2>4. Page(forge[target], page) \in Seq(Reachables) BY <1>1, <2>3, PageHolds
  <2>5. Received = got \o Page(forge[target], page) BY <1>4 DEF Received, List
  <2>6. Received \in Seq(Reachables) BY <2>3, <2>4, <2>5, ConcatProperties
  <2>7. Page(forge[target], page) \in Seq(Items) BY <1>1, PageHolds
  <2>8. Received \in Seq(Items) BY <2>1, <2>5, <2>7, ConcatProperties
  <2>9. QED BY <2>6, <2>8, ListedItems
<1>5. ASSUME reading # 0 PROVE Received \in Seq(AllCommits)
  <2> DEFINE n == issues[reading].number
             x == ItemOf(target, n)
  <2>1. /\ got \in Seq(AllCommits) /\ n \in Pulls /\ PullsListed(issues)
        /\ reading \in 0 .. Len(issues) /\ issues \in Seq(Items)
    BY <1>5 DEF TypeInv, TypeOK, ReadSoFar
  <2>2. reading \in DOMAIN issues BY <1>5, <2>1, LenProperties
  <2>3. n \in Listed(target) BY <2>1, <2>2 DEF PullsListed
  <2>4. x \in ToSet(forge[target]) /\ x.number = n
    <3>1. PICK y \in ToSet(forge[target]) : y.number = n BY <2>3 DEF Listed
    <3>2. QED BY <3>1 DEF ItemOf
  <2> HIDE DEF n, x
  <2>5. x \in Items BY <1>1, <2>4, LenProperties, ElementOfSeq DEF ToSet
  <2>6. x.commits \in Seq(AllCommits) BY <2>1, <2>4, <2>5, ItemFields
  <2>7. List = x.commits BY <1>5 DEF List, x, n
  <2>8. Page(List, page) \in Seq(AllCommits) BY <1>1, <2>6, <2>7, PageHolds
  <2>9. QED BY <2>1, <2>8, ConcatProperties DEF Received
<1>6. QED BY <1>1, <1>3, <1>4, <1>5

\* What is to be published ends the reading.
LEMMA KeepTypes ==
    ASSUME TypeInv, NEW outcome \in Contributions, Closed(outcome), pc = "reading", Keep(outcome)
    PROVE  TypeInv'
<1>1. ForgeInv'
  BY DEF TypeInv, Keep, ForgeInv, world, fetch
<1>2. outcome # Absent BY AbsentAssumption
<1>3. TypeOK'
  BY <1>2 DEF TypeInv, TypeOK, Keep, world, fetch, Closed
<1>4. QED BY <1>1, <1>3 DEF TypeInv, Keep, world, fetch, Closed

\* A collection that is complete leads to the next one or to the end.
LEMMA ContinueTypes ==
    ASSUME TypeInv, pc = "reading", requests < MaxRequests,
           NEW i, NEW items \in Seq(Items), PullsListed(items), Len(items) <= MaxRecords,
           reading \in 0 .. Len(items),
           NEW commitsOf \in [Pulls -> Seq(AllCommits)], Continue(i, items, commitsOf)
    PROVE  TypeInv'
<1>1. /\ UNCHANGED <<world, current, target, quiet, shifts>>
      /\ page' = 1 /\ got' = <<>> /\ requests' = requests + 1
      /\ etag' = FirstETag /\ seen' = FirstSeen /\ issues' = items /\ commits' = commitsOf
      /\ \/ /\ pc' = "publish" /\ UNCHANGED reading
            /\ result' = Contribution(BuildEvidence(target, ToSet(items), commitsOf),
                                      Source("fresh", FirstETag), FirstSeen)
         \/ /\ reading' \in PullsAfter(i, items)
            /\ UNCHANGED <<pc, result>>
  BY DEF Continue
<1>2. /\ target \in Repositories /\ FirstETag \in Seq(Items) \union {Absent}
      /\ FirstSeen \in 0 .. MaxChanges
  BY ReceivedTypes
<1>3. ForgeInv'
  BY <1>1 DEF TypeInv, ForgeInv, world
<1>4. /\ requests' \in 0 .. MaxRequests /\ page' \in 1 .. MaxPages /\ Len(got') <= MaxRecords
  BY <1>1, GitHubAssumption DEF TypeInv, TypeOK
<1>5. CASE /\ pc' = "publish" /\ UNCHANGED reading
           /\ result' = Contribution(BuildEvidence(target, ToSet(items), commitsOf),
                                     Source("fresh", FirstETag), FirstSeen)
  <2> DEFINE part == BuildEvidence(target, ToSet(items), commitsOf)
  <2>1. ToSet(items) \in SUBSET Items BY LenProperties, ElementOfSeq DEF ToSet
  <2>2. part.records \subseteq Records /\ part.edges \subseteq Edges /\ Closed(part)
    BY <1>2, <2>1, BuiltTypes
  <2> HIDE DEF part
  <2>3. result' = Contribution(part, [of |-> target, freshness |-> "fresh", cursor |-> FirstETag],
                               FirstSeen)
    BY <1>5 DEF Source, part
  <2>4. result' \in Contributions /\ result' # Absent /\ Closed(result')
    BY <1>2, <2>2, <2>3, ContributionTypes
  <2>5. TypeOK'
    BY <1>1, <1>2, <1>3, <1>4, <1>5, <2>4 DEF TypeInv, TypeOK, world, Closed
  <2>6. QED BY <1>1, <1>3, <1>5, <2>5 DEF TypeInv, world, Closed
<1>6. CASE reading' \in PullsAfter(i, items) /\ UNCHANGED <<pc, result>>
  <2>1. /\ reading' \in 1 .. Len(items) /\ items[reading'].number \in Pulls
        /\ Len(items) \in Nat /\ reading' \in 0 .. Len(items) /\ reading' # 0
    BY <1>6, LenProperties DEF PullsAfter
  <2>2. TypeOK'
    BY <1>1, <1>2, <1>3, <1>4, <1>6, <2>1 DEF TypeInv, TypeOK, world
  <2>3. ReadSoFar'
    <3>1. got' \in Seq(AllCommits) BY <1>1
    <3>2. PullsListed(issues)' BY <1>1 DEF PullsListed, Listed, world
    <3>3. QED BY <1>1, <2>1, <3>1, <3>2 DEF ReadSoFar
  <2>4. QED BY <1>1, <1>3, <1>6, <2>2, <2>3 DEF TypeInv, world
<1>7. QED BY <1>1, <1>5, <1>6

LEMMA PeopleKeepTypes ==
    ASSUME TypeInv, People
    PROVE  TypeInv'
<1>1. ForgeInv /\ ForgeInv' /\ Moved
  BY ForgeStep, PeopleMove DEF TypeInv, Next
<1>2. /\ UNCHANGED <<current, pc, target, fetch, result>>
      /\ changes' = changes + 1 /\ changes < MaxChanges /\ changes' \in 0 .. MaxChanges
  <2>1. /\ UNCHANGED <<current, pc, target, fetch, result>>
        /\ changes' = changes + 1 /\ changes < MaxChanges
    BY DEF People, Touch, Delete, ChangeRemote, ClientIdle
  <2>2. QED BY <2>1, GitHubAssumption DEF TypeInv, TypeOK
<1>3. quiet' \subseteq Numbers /\ shifts' \in 0 .. MaxChanges /\ shifts' <= changes'
  <2>1. quiet' \subseteq Numbers
    BY DEF People, Touch, Delete, ChangeRemote, TypeInv, TypeOK
  <2>2. shifts' = shifts \/ shifts' = shifts + 1
    BY DEF People, Touch, Delete, ChangeRemote
  <2>3. shifts \in 0 .. MaxChanges /\ shifts <= changes /\ changes \in Nat
    BY <1>1 DEF TypeInv, TypeOK, ForgeInv
  <2>4. QED BY <1>2, <2>1, <2>2, <2>3, GitHubAssumption
<1>4. removals' \in [Repositories -> Nat] /\ \A r \in Repositories : removals'[r] <= changes'
  <2>1. \A r \in Repositories : removals[r] <= changes /\ removals[r] \in Nat
    BY <1>1 DEF TypeInv, ForgeInv
  <2>2. ASSUME NEW r \in Repositories PROVE removals'[r] \in {removals[r], removals[r] + 1}
    <3>1. removals' = removals \/ \E q \in Repositories : removals' = [removals EXCEPT ![q] = @ + 1]
      BY DEF People, Touch, Delete, ChangeRemote
    <3>2. removals \in [Repositories -> Nat] BY <1>1 DEF ForgeInv
    <3>3. QED BY <3>1, <3>2
  <2>3. changes \in Nat BY <1>1 DEF ForgeInv
  <2>4. \A r \in Repositories : removals'[r] <= changes + 1
    <3> SUFFICES ASSUME NEW r \in Repositories PROVE removals'[r] <= changes + 1
      OBVIOUS
    <3>1. removals[r] <= changes /\ removals[r] \in Nat BY <2>1
    <3>2. removals'[r] = removals[r] \/ removals'[r] = removals[r] + 1 BY <2>2
    <3>3. QED BY <2>3, <3>1, <3>2
  <2>5. removals' \in [Repositories -> Nat] BY <1>1 DEF Moved
  <2>6. QED BY <1>2, <2>4, <2>5
<1>5. removals' \in [Repositories -> 0 .. MaxChanges]
  <2>1. \A r \in Repositories : removals'[r] \in 0 .. MaxChanges
    BY <1>2, <1>4, GitHubAssumption
  <2>2. QED BY <1>4, <2>1
<1>6. TypeOK'
  BY <1>1, <1>2, <1>3, <1>5 DEF TypeInv, TypeOK, ForgeInv, fetch
<1>7. ASSUME pc' = "reading" PROVE ReadSoFar'
  <2>1. target \in Repositories /\ ReadSoFar
    BY <1>1, <1>2, <1>7, GitHubAssumption DEF TypeInv, ForgeInv
  <2>2. \A n \in Listed(target) \cap Pulls : n \in Listed(target)'
    <3>1. \A n \in Listed(target) \cap Pulls : \E x \in ToSet(forge'[target]) : x.number = n
      <4> SUFFICES ASSUME NEW n \in Listed(target) \cap Pulls
                   PROVE  \E x \in ToSet(forge'[target]) : x.number = n
        OBVIOUS
      <4>1. PICK r : r = target OBVIOUS
      <4>2. n \in Listed(r)' BY <1>1, <2>1, <4>1, PullsStay
      <4>3. \E x \in ToSet(forge'[r]) : x.number = n BY <4>2 DEF Listed
      <4>4. QED BY <4>1, <4>3
    <3>2. QED BY <3>1, <1>2 DEF Listed
  <2>3. QED BY <1>2, <2>1, <2>2 DEF ReadSoFar, PullsListed, fetch
<1>8. QED BY <1>1, <1>2, <1>3, <1>4, <1>6, <1>7 DEF TypeInv, fetch

LEMMA ResetTypes ==
    ASSUME TypeInv, Reset, current' \in Contributions \union {Absent},
           current' # Absent => Closed(current')
    PROVE  TypeInv'
<1>1. ForgeInv'
  BY GitHubAssumption DEF TypeInv, ForgeInv, Reset, world
<1>2. TypeOK'
  <2>1. /\ <<>> \in Seq(Items) /\ Len(<<>>) = 0 /\ 0 \in 0 .. 0
        /\ 0 \in 0 .. MaxRequests /\ 1 \in 1 .. MaxPages /\ 0 <= MaxRecords /\ 0 \in 0 .. MaxChanges
    BY GitHubAssumption
  <2>2. [n \in Pulls |-> <<>>] \in [Pulls -> Seq(AllCommits)] OBVIOUS
  <2>3. QED BY <1>1, <2>1, <2>2 DEF TypeInv, TypeOK, Reset, world
<1>3. shifts' <= changes'
  BY DEF TypeInv, ForgeInv, Reset, world
<1>4. QED BY <1>1, <1>2, <1>3 DEF TypeInv, Reset, world, Closed

LEMMA TypeInit == Init => TypeInv
<1> SUFFICES ASSUME Init PROVE TypeInv
  OBVIOUS
<1>1. ForgeInv BY ForgeInit
<1>2. TypeOK
  <2>1. /\ <<>> \in Seq(Items) /\ Len(<<>>) = 0 /\ 0 \in 0 .. 0
        /\ 0 \in 0 .. MaxRequests /\ 1 \in 1 .. MaxPages /\ 0 <= MaxRecords /\ 0 \in 0 .. MaxChanges
    BY GitHubAssumption
  <2>2. [n \in Pulls |-> <<>>] \in [Pulls -> Seq(AllCommits)] OBVIOUS
  <2>3. QED BY <1>1, <2>1, <2>2 DEF Init, TypeOK, ForgeInv
<1>3. QED BY <1>1, <1>2 DEF Init, TypeInv

LEMMA TypeStep == TypeInv /\ [Next]_vars => TypeInv'
<1> SUFFICES ASSUME TypeInv, [Next]_vars PROVE TypeInv'
  OBVIOUS
<1>1. CASE People
  BY <1>1, PeopleKeepTypes
<1>2. CASE Begin
  <2>1. ForgeInv' BY ForgeStep DEF TypeInv
  <2>2. target' \in Repositories /\ quiet' \subseteq Numbers
    <3>1. target' \in Repositories BY <1>2, ForgeAssumption DEF Begin, TypeInv, ForgeInv
    <3>2. forge[target'] \in Seq(Items) BY <3>1 DEF TypeInv, ForgeInv
    <3>3. \A x \in ToSet(forge[target']) : x.number \in Numbers
      BY <3>2, LenProperties, ElementOfSeq, ItemFields DEF ToSet
    <3>4. forge' = forge /\ quiet' = {x.number : x \in ToSet(forge[target'])}
      BY <1>2 DEF Begin, Listed, world
    <3>5. QED BY <3>1, <3>3, <3>4
  <2>3. /\ pc = "idle" /\ pc' = "reading" /\ UNCHANGED <<world, current, fetch, result, shifts>>
        /\ target' # Absent
    BY <1>2 DEF Begin
  <2>4. TypeOK' BY <2>1, <2>2, <2>3 DEF TypeInv, TypeOK, world, fetch
  <2>5. reading' = 0 /\ got' = <<>> BY <2>3 DEF TypeInv, fetch
  <2>6. ReadSoFar' BY <2>5 DEF ReadSoFar, PullsListed
  <2>7. QED BY <2>1, <2>3, <2>4, <2>6 DEF TypeInv, world
<1>3. CASE NotModified
  <2>1. target \in Repositories BY <1>3, ReceivedTypes DEF NotModified
  <2>2. Contribution(Prior, Source("fresh", PriorCursor), PriorSince) \in Contributions
        /\ Closed(Contribution(Prior, Source("fresh", PriorCursor), PriorSince))
    BY <2>1, PriorTypes, ContributionTypes DEF Source
  <2>3. QED BY <1>3, <2>2, KeepTypes DEF NotModified
<1>4. CASE RefreshFails
  <2>1. target \in Repositories BY <1>4, ReceivedTypes DEF RefreshFails
  <2>2. Contribution(Prior, Source("stale", PriorCursor), PriorSince) \in Contributions
        /\ Closed(Contribution(Prior, Source("stale", PriorCursor), PriorSince))
    BY <2>1, PriorTypes, ContributionTypes DEF Source
  <2>3. QED BY <1>4, <2>2, KeepTypes DEF RefreshFails
<1>5. CASE NextPage
  <2>1. /\ pc = "reading" /\ requests < MaxRequests /\ Len(Received) <= MaxRecords
        /\ page < MaxPages /\ got' = Received /\ page' = page + 1 /\ requests' = requests + 1
        /\ etag' = FirstETag /\ seen' = FirstSeen
        /\ UNCHANGED <<world, current, pc, target, reading, issues, commits, result, quiet,
                       shifts>>
    BY <1>5 DEF NextPage, Answered
  <2>2. ForgeInv' BY <1>5, ForgeStep DEF TypeInv
  <2>3. /\ reading = 0 => Received \in Seq(Items) /\ PullsListed(Received)
        /\ reading # 0 => Received \in Seq(AllCommits)
        /\ FirstETag \in Seq(Items) \union {Absent} /\ FirstSeen \in 0 .. MaxChanges
    BY <2>1, ReceivedTypes
  <2>4. page' \in 1 .. MaxPages /\ requests' \in 0 .. MaxRequests
    BY <2>1, GitHubAssumption DEF TypeInv, TypeOK
  <2>5. TypeOK' BY <2>1, <2>2, <2>3, <2>4 DEF TypeInv, TypeOK, world
  <2>6. ReadSoFar'
    BY <2>1, <2>3 DEF TypeInv, ReadSoFar, PullsListed, Listed, world
  <2>7. QED BY <2>1, <2>2, <2>5, <2>6 DEF TypeInv, world
<1>6. CASE IssuesComplete
  <2>1. /\ pc = "reading" /\ requests < MaxRequests /\ Len(Received) <= MaxRecords /\ reading = 0
        /\ Continue(0, Received, commits)
    BY <1>6 DEF IssuesComplete, Complete, Answered
  <2>2. Received \in Seq(Items) /\ PullsListed(Received) BY <2>1, ReceivedTypes
  <2>3. reading \in 0 .. Len(Received) BY <2>1, <2>2, LenProperties
  <2>4. commits \in [Pulls -> Seq(AllCommits)] BY DEF TypeInv, TypeOK
  <2>5. QED BY <2>1, <2>2, <2>3, <2>4, ContinueTypes
<1>7. CASE CommitsComplete
  <2> DEFINE n == issues[reading].number
             read == [commits EXCEPT ![n] = Received]
  <2>1. /\ pc = "reading" /\ requests < MaxRequests /\ reading # 0
        /\ Continue(reading, issues, read)
    BY <1>7 DEF CommitsComplete, Complete, Answered
  <2>2. Received \in Seq(AllCommits) BY <2>1, ReceivedTypes
  <2>3. read \in [Pulls -> Seq(AllCommits)] BY <2>2 DEF TypeInv, TypeOK
  <2>4. /\ issues \in Seq(Items) /\ PullsListed(issues) /\ Len(issues) <= MaxRecords
        /\ reading \in 0 .. Len(issues)
    BY <2>1 DEF TypeInv, TypeOK, ReadSoFar
  <2> HIDE DEF read
  <2>5. QED BY <2>1, <2>3, <2>4, ContinueTypes
<1>8. CASE Publish
  BY <1>8, ResetTypes DEF Publish, TypeInv, TypeOK, Closed
<1>9. CASE Abandon
  BY <1>9, ResetTypes DEF Abandon, TypeInv, TypeOK, Closed
<1>10. CASE UNCHANGED vars
  BY <1>10 DEF vars, TypeInv, TypeOK, ForgeInv, ReadSoFar, PullsListed, Listed, Closed, world, fetch
<1>11. QED BY <1>1, <1>2, <1>3, <1>4, <1>5, <1>6, <1>7, <1>8, <1>9, <1>10 DEF Next, Sync

\* TypeOK: whatever GitHub answers and people do meanwhile, a sync stays within
\* its limits and publishes relationships only with both of their ends.
THEOREM EvidenceIsClosed == Spec => []TypeOK
<1>1. TypeInv => TypeOK BY DEF TypeInv
<1>2. QED BY <1>1, TypeInit, TypeStep, PTL DEF Spec
=============================================================================
