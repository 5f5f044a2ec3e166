-------------------------- MODULE LocalSourcesProofs --------------------------
(***************************************************************************)
(* Proofs about LocalSources.                                              *)
(***************************************************************************)
EXTENDS LocalSources, SharedLemmas

-----------------------------------------------------------------------------
(* Sequences that hold nothing twice. *)

Distinct(s) == \A i, j \in DOMAIN s : s[i] = s[j] => i = j

LEMMA FirstAndRest ==
    ASSUME NEW S, NEW s \in Seq(S), s # <<>>
    PROVE  /\ Head(s) \in S /\ Tail(s) \in Seq(S)
           /\ ToSet(s) = {Head(s)} \union ToSet(Tail(s))
           /\ Distinct(s) => Distinct(Tail(s)) /\ Head(s) \notin ToSet(Tail(s))
<1> DEFINE t == Tail(s)
<1>1. /\ Head(s) \in S /\ t \in Seq(S) /\ Head(s) = s[1] /\ Len(t) = Len(s) - 1
      /\ \A i \in 1 .. Len(t) : t[i] = s[i + 1]
  BY HeadTailProperties
<1>2. Len(s) \in Nat \ {0} /\ DOMAIN s = 1 .. Len(s) /\ DOMAIN t = 1 .. Len(t)
  BY <1>1, EmptySeq, LenProperties
<1> HIDE DEF t
<1>3. \A i \in 1 .. Len(t) : i + 1 \in 1 .. Len(s) /\ i + 1 # 1 BY <1>1, <1>2
<1>4. \A i \in 1 .. Len(s) : i = 1 \/ \E j \in 1 .. Len(t) : i = j + 1
  <2> SUFFICES ASSUME NEW i \in 1 .. Len(s), i # 1 PROVE \E j \in 1 .. Len(t) : i = j + 1
    OBVIOUS
  <2>1. i - 1 \in 1 .. Len(t) /\ i = (i - 1) + 1 BY <1>1, <1>2
  <2>2. QED BY <2>1
<1>5. 1 \in 1 .. Len(s) BY <1>2
<1>6. ToSet(s) = {s[1]} \union ToSet(t)
  <2>1. \A i \in 1 .. Len(s) : s[i] \in {s[1]} \union ToSet(t)
    <3> SUFFICES ASSUME NEW i \in 1 .. Len(s), i # 1 PROVE s[i] \in ToSet(t)
      OBVIOUS
    <3>1. PICK j \in 1 .. Len(t) : i = j + 1 BY <1>4
    <3>2. s[i] = t[j] BY <1>1, <3>1
    <3>3. QED BY <1>2, <3>2 DEF ToSet
  <2>2. \A i \in 1 .. Len(t) : t[i] \in ToSet(s) BY <1>1, <1>2, <1>3 DEF ToSet
  <2>3. s[1] \in ToSet(s) BY <1>2, <1>5 DEF ToSet
  <2>4. QED BY <1>2, <2>1, <2>2, <2>3 DEF ToSet
<1>7. ASSUME Distinct(s) PROVE Distinct(t) /\ s[1] \notin ToSet(t)
  <2>1. ASSUME NEW i \in 1 .. Len(t), NEW j \in 1 .. Len(t), t[i] = t[j] PROVE i = j
    <3>1. s[i + 1] = s[j + 1] BY <1>1, <2>1
    <3>2. i + 1 = j + 1 BY <1>2, <1>3, <1>7, <3>1 DEF Distinct
    <3>3. QED BY <3>2
  <2>2. ASSUME NEW i \in 1 .. Len(t), t[i] = s[1] PROVE FALSE
    <3>1. s[i + 1] = s[1] BY <1>1, <2>2
    <3>2. QED BY <1>2, <1>3, <1>5, <1>7, <3>1 DEF Distinct
  <2>3. QED BY <1>2, <2>1, <2>2 DEF Distinct, ToSet
<1>8. QED BY <1>1, <1>6, <1>7 DEF t

LEMMA OneMore ==
    ASSUME NEW S, NEW s \in Seq(S), NEW x \in S
    PROVE  /\ Append(s, x) \in Seq(S)
           /\ \E i \in DOMAIN Append(s, x) : Append(s, x)[i] = x
           /\ \A i \in DOMAIN s : \E j \in DOMAIN Append(s, x) : Append(s, x)[j] = s[i]
           /\ \A i \in DOMAIN Append(s, x) :
                 \/ i \in DOMAIN s /\ Append(s, x)[i] = s[i]
                 \/ i = Len(s) + 1 /\ Append(s, x)[i] = x
<1> DEFINE t == Append(s, x)
<1>1. /\ t \in Seq(S) /\ Len(t) = Len(s) + 1 /\ t[Len(s) + 1] = x
      /\ \A i \in 1 .. Len(s) : t[i] = s[i]
  BY AppendProperties
<1>2. Len(s) \in Nat /\ DOMAIN s = 1 .. Len(s) /\ DOMAIN t = 1 .. Len(t)
  BY <1>1, LenProperties
<1> HIDE DEF t
<1>3. Len(s) + 1 \in 1 .. Len(t) /\ \A i \in 1 .. Len(s) : i \in 1 .. Len(t) BY <1>1, <1>2
<1>4. \A i \in 1 .. Len(t) : i \in 1 .. Len(s) \/ i = Len(s) + 1 BY <1>1, <1>2
<1>5. QED BY <1>1, <1>2, <1>3, <1>4 DEF t

LEMMA ReverseHolds ==
    ASSUME NEW S, NEW s \in Seq(S), Distinct(s)
    PROVE  Reverse(s) \in Seq(S) /\ Distinct(Reverse(s)) /\ ToSet(Reverse(s)) = ToSet(s)
<1> DEFINE t == Reverse(s)
           At(i) == (Len(s) - i) + 1
<1>1. Len(s) \in Nat /\ DOMAIN s = 1 .. Len(s) /\ \A i \in 1 .. Len(s) : s[i] \in S
  BY LenProperties, ElementOfSeq
<1>2. \A i \in 1 .. Len(s) : At(i) \in 1 .. Len(s) /\ At(At(i)) = i BY <1>1
<1>3. \A i, j \in 1 .. Len(s) : At(i) = At(j) => i = j BY <1>1
<1>4. DOMAIN t = 1 .. Len(s) /\ \A i \in 1 .. Len(s) : t[i] = s[At(i)] BY DEF Reverse
<1>5. t \in [1 .. Len(s) -> S]
  <2>1. t = [i \in 1 .. Len(s) |-> s[At(i)]] BY DEF Reverse
  <2> HIDE DEF t, At
  <2>2. QED BY <1>1, <1>2, <2>1
<1>6. t \in Seq(S) BY <1>1, <1>5, SeqDef
<1> HIDE DEF t, At
<1>7. Distinct(t) BY <1>1, <1>2, <1>3, <1>4 DEF Distinct
<1>8. ToSet(t) = ToSet(s)
  <2>1. \A i \in 1 .. Len(s) : t[At(i)] = s[i] BY <1>2, <1>4
  <2>2. QED BY <1>1, <1>2, <1>4, <2>1 DEF ToSet
<1>9. QED BY <1>6, <1>7, <1>8 DEF t

\* Names in their order: each once, and none before a lesser one.
LEMMA InOrderHolds ==
    ASSUME NEW n \in Nat, NEW S \in SUBSET (1 .. n)
    PROVE  /\ InOrder(S) \in Seq(S) /\ Distinct(InOrder(S)) /\ ToSet(InOrder(S)) = S
           /\ \A i, j \in DOMAIN InOrder(S) : i < j => InOrder(S)[i] < InOrder(S)[j]
<1> DEFINE s == InOrder(S)
           key == [m \in S |-> m]
           Rest(m) == {k \in S : k < m}
<1>1. Keyed(S, key)
  <2>1. IsFiniteSet(1 .. n) BY FS_Interval
  <2>2. IsFiniteSet(S) BY <2>1, FS_Subset
  <2>3. QED BY <2>2 DEF Keyed
<1>2. \A m \in S : Below(S, key, m) = Rest(m) BY DEF Below
<1>3. s = [i \in 1 .. Cardinality(S) |-> CHOOSE m \in S : Cardinality(Rest(m)) = i - 1]
  BY DEF InOrder
<1> HIDE DEF Rest
<1>4. \A m \in S : Rank(S, key, m) = Cardinality(Rest(m)) BY <1>2 DEF Rank
<1>5. s = Ranked(S, key)
  <2>1. \A i \in 1 .. Cardinality(S) : (CHOOSE m \in S : Cardinality(Rest(m)) = i - 1)
                                          = CHOOSE m \in S : Rank(S, key, m) = i - 1
    BY <1>4
  <2> HIDE DEF s, key
  <2>2. QED BY <1>3, <2>1 DEF Ranked
<1> HIDE DEF s
<1>6. InOrderOf(key, S, s)
  <2> HIDE DEF key
  <2>1. QED BY <1>1, <1>5, RankedList
<1>7. \A i \in DOMAIN s : s[i] \in S BY <1>6 DEF InOrderOf
<1>8. \A i, j \in DOMAIN s : i < j => s[i] < s[j] BY <1>6, <1>7 DEF InOrderOf
<1>9. s \in Seq(S) /\ Distinct(s) BY <1>6 DEF InOrderOf, Distinct
<1>10. \A m \in S : \E i \in DOMAIN s : s[i] = m BY <1>6 DEF InOrderOf
<1>11. ToSet(s) = S BY <1>7, <1>10 DEF ToSet
<1>12. QED BY <1>8, <1>9, <1>11 DEF s

-----------------------------------------------------------------------------
(* The types, and what a scan keeps. *)

Inputs == [path : Paths, file : UNION {Files[p] : p \in Paths}]

\* A document has been read, and as it is now.
IsRead(p) ==
    IF documents[p].form \in {"large", "not_utf8"}
    THEN Diagnostic(File(p), documents[p].form) \in scanned
    ELSE \E i \in DOMAIN collected : collected[i] = [path |-> p, file |-> documents[p]]

\* No path is in two places; those that were left alone are in one.
ScanInv ==
    /\ collected \in Seq(Inputs)
    /\ \A i \in DOMAIN collected : collected[i].file.form \in Forms(collected[i].path)
    /\ Distinct(directories) /\ Distinct(entries)
    /\ \A p \in ToSet(entries) : DirectoryOf[p] \notin ToSet(directories)
    /\ \A i \in DOMAIN collected : /\ collected[i].path \notin ToSet(entries)
                                   /\ DirectoryOf[collected[i].path] \notin ToSet(directories)
    /\ pc # "scan" => directories = <<>> /\ entries = <<>> /\ collected = <<>> /\ scanned = {}
    /\ pc = "scan" => \A p \in quiet : documents[p] # Absent =>
          DirectoryOf[p] \in ToSet(directories) \/ p \in ToSet(entries) \/ IsRead(p)

QueryStages == {"status", "read", "walk", "answered"}
Outcomes ==
    {"attributed", "invalid_revision", "missing", "unattributed", "line_out_of_range", "git"}

\* The parts of TypeOK.
WorldTypes ==
    /\ head \in Commits /\ shallow \in BOOLEAN /\ edits \in 0 .. MaxEdits
    /\ documents \in Worktrees /\ task \in {"sync", "query"}
    /\ sources \in [1 .. Names -> Texts \union {Absent}]
ScanTypes ==
    /\ directories \in Seq(1 .. Directories) /\ entries \in Seq(Paths)
    /\ \A i \in DOMAIN collected : collected[i].file \in Files[collected[i].path]
    /\ \A i, j \in DOMAIN collected : collected[i].path = collected[j].path => i = j
    /\ quiet \subseteq Paths
    /\ pc # "prepared" => evidence = Absent
    /\ pc = "prepared" => \A l \in evidence.links :
          {l.source, l.target} \subseteq DOMAIN evidence.records
QueryTypes ==
    /\ raced \in BOOLEAN
    /\ query \in IF pc \in QueryStages THEN Queries ELSE {Absent}
    /\ commit \in Commits \union {Absent}
    /\ state \in {"committed", "working_copy", Absent}
    /\ pc # "walk" => trail = Absent
    /\ pc \notin {"walk", "answered"} => answer = Absent
    /\ pc = "walk" => answer.outcome = "attributed"
    /\ pc = "answered" => answer.outcome \in Outcomes

Types == pc \in Stages /\ WorldTypes /\ ScanTypes /\ QueryTypes

LEMMA TypesAre == TypeOK <=> Types
BY DEF TypeOK, Types, WorldTypes, ScanTypes, QueryTypes, QueryStages, Outcomes

LEMMA PathsAre == Paths = 1 .. Len(DirectoryOf) /\ Len(DirectoryOf) \in Nat
                  /\ \A p \in Paths : DirectoryOf[p] \in 1 .. Directories
<1>1. DirectoryOf \in Seq(1 .. Directories) BY SourcesAssumption
<1>2. QED BY <1>1, LenProperties, ElementOfSeq DEF Paths

LEMMA InitIsSound == Init => Types /\ ScanInv
<1> SUFFICES ASSUME Init PROVE Types /\ ScanInv
  OBVIOUS
<1>1. documents \in Worktrees
  <2>1. CASE task = "sync" BY <2>1 DEF Init
  <2>2. CASE task # "sync"
    <3>1. documents = [p \in Paths |-> Absent] BY <2>2 DEF Init
    <3>2. QED BY <3>1 DEF Worktrees
  <2>3. QED BY <2>1, <2>2
<1>2. WorldTypes
  <2>1. head \in Commits /\ sources = Trees[head] BY DEF Init, Present
  <2>2. sources \in [1 .. Names -> Texts \union {Absent}] BY <2>1, SourcesAssumption
  <2>3. edits \in 0 .. MaxEdits BY SourcesAssumption DEF Init
  <2>4. QED BY <1>1, <2>1, <2>2, <2>3 DEF Init, WorldTypes
<1>3. directories = <<>> /\ entries = <<>> /\ collected = <<>> /\ scanned = {} /\ pc = "idle"
  BY DEF Init
<1>4. directories \in Seq(1 .. Directories) /\ entries \in Seq(Paths) /\ collected \in Seq(Inputs)
  BY <1>3
<1>5. DOMAIN directories = {} /\ DOMAIN entries = {} /\ DOMAIN collected = {}
  <2>1. Len(<<>>) = 0 /\ DOMAIN <<>> = 1 .. 0 OBVIOUS
  <2>2. 1 .. 0 = {} OBVIOUS
  <2>3. QED BY <1>3, <2>1, <2>2
<1>6. ScanTypes BY <1>3, <1>4, <1>5 DEF Init, ScanTypes
<1>7. QueryTypes BY DEF Init, QueryTypes, QueryStages
<1>8. Distinct(directories) /\ Distinct(entries) BY <1>5 DEF Distinct
<1>9. ToSet(entries) = {} BY <1>5 DEF ToSet
<1>10. pc # "scan" BY <1>3
<1>11. ScanInv BY <1>3, <1>4, <1>5, <1>8, <1>9, <1>10 DEF ScanInv
<1>12. QED BY <1>2, <1>3, <1>6, <1>7, <1>11 DEF Types, Stages

LEMMA EditDocumentKeeps ==
    ASSUME Types, ScanInv, NEW p \in Paths, NEW file \in Files[p] \union {Absent},
           EditDocument(p, file)
    PROVE  Types' /\ ScanInv'
<1>1. /\ edits < MaxEdits /\ edits' = edits + 1
      /\ documents' = [documents EXCEPT ![p] = file] /\ quiet' = quiet \ {p}
      /\ UNCHANGED <<head, sources, raced, shallow, task, pc, directories, entries, collected,
                     scanned, history, evidence, query, commit, state, trail, answer>>
  BY DEF EditDocument, Edit
<1>2. edits' \in 0 .. MaxEdits BY <1>1, SourcesAssumption DEF Types, WorldTypes
<1>3. documents' \in Worktrees
  BY <1>1 DEF Types, WorldTypes, Worktrees
<1>4. WorldTypes' BY <1>1, <1>2, <1>3 DEF Types, WorldTypes
<1>5. ScanTypes' BY <1>1 DEF Types, ScanTypes
<1>6. QueryTypes' BY <1>1 DEF Types, QueryTypes
<1>7. \A q \in quiet' : q \in quiet /\ documents'[q] = documents[q]
  <2>1. documents \in [Paths -> {Absent} \union UNION {Files[q] : q \in Paths}]
    BY DEF Types, WorldTypes, Worktrees
  <2>2. \A q \in quiet : q \in Paths BY DEF Types, ScanTypes
  <2>3. QED BY <1>1, <2>1, <2>2
<1>8. \A q \in quiet' : IsRead(q) => IsRead(q)' BY <1>1, <1>7 DEF IsRead
<1>9. ScanInv' BY <1>1, <1>7, <1>8 DEF ScanInv
<1>10. QED BY <1>1, <1>4, <1>5, <1>6, <1>9 DEF Types

LEMMA EditSourceKeeps ==
    ASSUME Types, ScanInv, NEW n \in 1 .. Names, NEW text \in Texts \union {Absent},
           EditSource(n, text)
    PROVE  Types' /\ ScanInv'
<1>1. /\ edits < MaxEdits /\ edits' = edits + 1
      /\ sources' = [sources EXCEPT ![n] = text] /\ raced' \in BOOLEAN
      /\ UNCHANGED <<head, documents, quiet, shallow, task, pc, directories, entries, collected,
                     scanned, history, evidence, query, commit, state, trail, answer>>
  BY DEF EditSource, Edit, Types, QueryTypes
<1>2. edits' \in 0 .. MaxEdits BY <1>1, SourcesAssumption DEF Types, WorldTypes
<1>3. WorldTypes' BY <1>1, <1>2 DEF Types, WorldTypes
<1>4. ScanTypes' BY <1>1 DEF Types, ScanTypes
<1>5. QueryTypes' BY <1>1 DEF Types, QueryTypes
<1>6. ScanInv' BY <1>1 DEF ScanInv, IsRead
<1>7. QED BY <1>1, <1>3, <1>4, <1>5, <1>6 DEF Types

LEMMA MoveHeadKeeps ==
    ASSUME Types, ScanInv, NEW c \in Commits, MoveHead(c)
    PROVE  Types' /\ ScanInv'
<1>1. /\ edits < MaxEdits /\ edits' = edits + 1
      /\ head' = c /\ sources' = Trees[c] /\ raced' \in BOOLEAN
      /\ UNCHANGED <<documents, quiet, shallow, task, pc, directories, entries, collected,
                     scanned, history, evidence, query, commit, state, trail, answer>>
  BY DEF MoveHead, Edit, Types, QueryTypes
<1>2. edits' \in 0 .. MaxEdits BY <1>1, SourcesAssumption DEF Types, WorldTypes
<1>3. sources' \in [1 .. Names -> Texts \union {Absent}] BY <1>1, SourcesAssumption
<1>4. WorldTypes' BY <1>1, <1>2, <1>3 DEF Types, WorldTypes
<1>5. ScanTypes' BY <1>1 DEF Types, ScanTypes
<1>6. QueryTypes' BY <1>1 DEF Types, QueryTypes
<1>7. ScanInv' BY <1>1 DEF ScanInv, IsRead
<1>8. QED BY <1>1, <1>4, <1>5, <1>6, <1>7 DEF Types

\* The steps of a sync leave what a query keeps.
LEMMA StayKeeps ==
    ASSUME Types, Stay, pc \notin QueryStages, pc' \notin QueryStages
    PROVE  WorldTypes' /\ QueryTypes'
<1>1. WorldTypes' BY DEF Types, WorldTypes, Stay, world
<1>2. QueryTypes' BY DEF Types, QueryTypes, QueryStages, Stay, querying
<1>3. QED BY <1>1, <1>2

LEMMA BeginSyncKeeps ==
    ASSUME Types, ScanInv, NEW walk, BeginSync(walk)
    PROVE  Types' /\ ScanInv'
<1>1. /\ pc = "idle" /\ pc' = "scan" /\ quiet' = Paths
      /\ directories' = [i \in 1 .. Directories |-> i] /\ Stay
      /\ UNCHANGED <<entries, collected, scanned, evidence>>
  BY DEF BeginSync
<1>2. WorldTypes' /\ QueryTypes' BY <1>1, StayKeeps DEF QueryStages
<1>3. /\ directories' \in Seq(1 .. Directories) /\ Distinct(directories')
      /\ ToSet(directories') = 1 .. Directories
  <2>1. Directories \in Nat BY SourcesAssumption
  <2>2. directories' \in [1 .. Directories -> 1 .. Directories] BY <1>1
  <2>3. QED BY <1>1, <2>1, <2>2, SeqDef DEF Distinct, ToSet
<1>4. ScanTypes' BY <1>1, <1>3 DEF Types, ScanTypes
<1>5. entries = <<>> /\ collected = <<>> BY <1>1 DEF ScanInv
<1>6. ToSet(entries) = {} /\ DOMAIN collected = {}
  <2>1. Len(<<>>) = 0 /\ DOMAIN <<>> = 1 .. 0 /\ 1 .. 0 = {} OBVIOUS
  <2>2. QED BY <1>5, <2>1 DEF ToSet
<1>7. \A p \in Paths : DirectoryOf[p] \in ToSet(directories') BY <1>3, PathsAre
<1>8. ScanInv' BY <1>1, <1>3, <1>6, <1>7 DEF ScanInv
<1>9. QED BY <1>1, <1>2, <1>4, <1>8 DEF Types, Stages

LEMMA ListDirectoryKeeps ==
    ASSUME Types, ScanInv, ListDirectory
    PROVE  Types' /\ ScanInv'
<1> DEFINE d == Head(directories)
           S == {p \in Paths : DirectoryOf[p] = d /\ documents[p] # Absent}
<1>1. /\ pc = "scan" /\ pc' = "scan" /\ entries = <<>> /\ directories # <<>> /\ Stay
      /\ entries' = Reverse(InOrder(S)) /\ directories' = Tail(directories)
      /\ UNCHANGED <<collected, scanned, history, evidence, quiet>>
  BY DEF ListDirectory
<1>2. WorldTypes' /\ QueryTypes' BY <1>1, StayKeeps DEF QueryStages
<1>3. /\ directories' \in Seq(1 .. Directories) /\ Distinct(directories')
      /\ d \notin ToSet(directories')
      /\ ToSet(directories) = {d} \union ToSet(directories')
  BY <1>1, FirstAndRest DEF Types, ScanTypes, ScanInv
<1>4. entries' \in Seq(Paths) /\ Distinct(entries') /\ ToSet(entries') = S
  <2>1. S \in SUBSET (1 .. Len(DirectoryOf)) /\ Paths = 1 .. Len(DirectoryOf) BY PathsAre
  <2> HIDE DEF S
  <2>2. InOrder(S) \in Seq(S) /\ Distinct(InOrder(S)) /\ ToSet(InOrder(S)) = S
    BY <2>1, PathsAre, InOrderHolds
  <2>3. InOrder(S) \in Seq(Paths)
    <3>1. InOrder(S) \in [1 .. Len(InOrder(S)) -> S] BY <2>2, LenProperties
    <3>2. \A i \in 1 .. Len(InOrder(S)) : InOrder(S)[i] \in Paths BY <2>1, <3>1
    <3>3. InOrder(S) \in [1 .. Len(InOrder(S)) -> Paths] BY <3>1, <3>2
    <3>4. Len(InOrder(S)) \in Nat BY <2>2, LenProperties
    <3>5. QED BY <3>3, <3>4, SeqDef
  <2>4. QED BY <1>1, <2>2, <2>3, ReverseHolds
<1> HIDE DEF S, d
<1>5. ScanTypes' BY <1>1, <1>3, <1>4 DEF Types, ScanTypes
<1>6. ToSet(entries) = {}
  <2>1. Len(<<>>) = 0 /\ DOMAIN <<>> = 1 .. 0 /\ 1 .. 0 = {} OBVIOUS
  <2>2. QED BY <1>1, <2>1 DEF ToSet
<1>7. \A p \in ToSet(entries') : DirectoryOf[p] = d BY <1>4 DEF S
<1>8. \A i \in DOMAIN collected : /\ collected[i].path \notin ToSet(entries')
                                  /\ DirectoryOf[collected[i].path] \notin ToSet(directories')
  BY <1>3, <1>7 DEF ScanInv
<1>9. \A p \in quiet : documents[p] # Absent =>
          DirectoryOf[p] \in ToSet(directories') \/ p \in ToSet(entries') \/ IsRead(p)
  BY <1>1, <1>3, <1>4, <1>6 DEF Types, ScanTypes, ScanInv, S
<1>10. documents' = documents BY <1>1 DEF Stay, world
<1>11. ScanInv' BY <1>1, <1>3, <1>4, <1>7, <1>8, <1>9, <1>10 DEF ScanInv, IsRead
<1>12. QED BY <1>1, <1>2, <1>5, <1>11 DEF Types, Stages

LEMMA EmptyHolds ==
    /\ \A S : <<>> \in Seq(S) 
    /\ Distinct(<<>>) /\ ToSet(<<>>) = {} /\ DOMAIN <<>> = {}
<1>1. Len(<<>>) = 0 /\ DOMAIN <<>> = 1 .. 0 /\ 1 .. 0 = {} OBVIOUS
<1>2. DOMAIN <<>> = {} BY <1>1
<1>3. QED BY <1>2 DEF Distinct, ToSet

LEMMA FileIsGoneKeeps ==
    ASSUME Types, ScanInv, FileIsGone
    PROVE  Types' /\ ScanInv'
<1>1. /\ pc = "scan" /\ pc' = "failed" /\ Stay
      /\ entries' = <<>> /\ directories' = <<>> /\ collected' = <<>> /\ scanned' = {}
      /\ UNCHANGED <<history, evidence, quiet>>
  BY DEF FileIsGone
<1>2. WorldTypes' /\ QueryTypes' BY <1>1, StayKeeps DEF QueryStages
<1>3. ScanTypes' BY <1>1, EmptyHolds DEF Types, ScanTypes
<1>4. ScanInv' BY <1>1, EmptyHolds DEF ScanInv
<1>5. QED BY <1>1, <1>2, <1>3, <1>4 DEF Types, Stages

\* The file that is read, and what becomes of the others.
LEMMA ReadDocumentKeeps ==
    ASSUME Types, ScanInv, ReadDocument,
           NEW p, p = Head(entries), NEW file, file = documents[p]
    PROVE  Types' /\ ScanInv'
<1> DEFINE odd == file.form \in {"large", "not_utf8"}
           input == [path |-> p, file |-> file]
<1>1. /\ pc = "scan" /\ pc' = "scan" /\ entries # <<>> /\ file # Absent /\ Stay
      /\ entries' = Tail(entries)
      /\ odd => scanned' = scanned \union {Diagnostic(File(p), file.form)} /\ collected' = collected
      /\ ~odd => collected' = Append(collected, input) /\ scanned' = scanned
      /\ UNCHANGED <<directories, history, evidence, quiet>>
  BY DEF ReadDocument
<1>2. WorldTypes' /\ QueryTypes' BY <1>1, StayKeeps DEF QueryStages
<1>3. /\ p \in Paths /\ entries' \in Seq(Paths) /\ Distinct(entries') /\ p \notin ToSet(entries')
      /\ ToSet(entries) = {p} \union ToSet(entries')
  BY <1>1, FirstAndRest DEF Types, ScanTypes, ScanInv
<1>4. /\ \A q \in Paths : documents[q] \in Files[q] \union {Absent}
      /\ documents' = documents
  BY <1>1 DEF Types, WorldTypes, Worktrees, Stay, world
<1>5. file \in Files[p] BY <1>1, <1>3, <1>4
<1>6. input \in Inputs BY <1>3, <1>5 DEF Inputs
<1>7. ~odd => file.form \in Forms(p)
  <2>1. file.form \in Forms(p) \union {"large", "not_utf8"} BY <1>3, <1>5, SourcesAssumption
  <2>2. QED BY <2>1
<1> HIDE DEF odd
<1>8. \A i \in DOMAIN collected : collected[i].path # p
  BY <1>3 DEF ScanInv
<1>9. input.path = p /\ input.file = file OBVIOUS
<1> HIDE DEF input
<1>10. /\ collected' \in Seq(Inputs)
       /\ \A i \in DOMAIN collected' :
             \/ i \in DOMAIN collected /\ collected'[i] = collected[i]
             \/ ~odd /\ i = Len(collected) + 1 /\ collected'[i] = input
       /\ \A i \in DOMAIN collected : \E j \in DOMAIN collected' : collected'[j] = collected[i]
       /\ ~odd => \E j \in DOMAIN collected' : collected'[j] = input
  <2>1. collected \in Seq(Inputs) BY DEF ScanInv
  <2>2. CASE odd BY <1>1, <2>1, <2>2
  <2>3. CASE ~odd
    <3> DEFINE s == Append(collected, input)
    <3>1. /\ s \in Seq(Inputs)
          /\ \E i \in DOMAIN s : s[i] = input
          /\ \A i \in DOMAIN collected : \E j \in DOMAIN s : s[j] = collected[i]
          /\ \A i \in DOMAIN s : \/ i \in DOMAIN collected /\ s[i] = collected[i]
                                 \/ i = Len(collected) + 1 /\ s[i] = input
      BY <1>6, <2>1, OneMore
    <3>2. collected' = s BY <1>1, <2>3
    <3> HIDE DEF s
    <3>3. QED BY <2>3, <3>1, <3>2
  <2>4. QED BY <2>2, <2>3
<1>11. \A i \in DOMAIN collected' :
          \/ i \in DOMAIN collected /\ collected'[i] = collected[i]
          \/ ~odd /\ i = Len(collected) + 1 /\ collected'[i].path = p /\ collected'[i].file = file
  BY <1>9, <1>10
<1>12. \A i \in DOMAIN collected' : /\ collected'[i].file \in Files[collected'[i].path]
                                    /\ collected'[i].file.form \in Forms(collected'[i].path)
  BY <1>5, <1>7, <1>11 DEF Types, ScanTypes, ScanInv
<1>13. \A i, j \in DOMAIN collected' : collected'[i].path = collected'[j].path => i = j
  BY <1>8, <1>11 DEF Types, ScanTypes
<1>14. ScanTypes' BY <1>1, <1>3, <1>12, <1>13 DEF Types, ScanTypes
<1>15. \A i \in DOMAIN collected' :
          /\ collected'[i].path \notin ToSet(entries')
          /\ DirectoryOf[collected'[i].path] \notin ToSet(directories')
  BY <1>1, <1>3, <1>11 DEF ScanInv
<1>16. IsRead(p)'
  <2>1. CASE odd BY <1>1, <1>4, <2>1 DEF IsRead, odd
  <2>2. CASE ~odd BY <1>4, <1>10, <2>2 DEF IsRead, odd, input
  <2>3. QED BY <2>1, <2>2
<1>17. \A q \in quiet : IsRead(q) => IsRead(q)'
  <2>1. scanned \subseteq scanned' BY <1>1
  <2>2. QED BY <1>4, <1>10, <2>1 DEF IsRead
<1>18. \A q \in quiet' : documents'[q] # Absent =>
           DirectoryOf[q] \in ToSet(directories') \/ q \in ToSet(entries') \/ IsRead(q)'
  BY <1>1, <1>3, <1>4, <1>16, <1>17 DEF ScanInv
<1>19. ScanInv' BY <1>1, <1>3, <1>10, <1>12, <1>15, <1>18 DEF ScanInv
<1>20. QED BY <1>1, <1>2, <1>14, <1>19 DEF Types, Stages

LEMMA PrepareKeeps ==
    ASSUME Types, ScanInv, Prepare
    PROVE  Types' /\ ScanInv'
<1>1. /\ pc = "scan" /\ pc' = "prepared" /\ entries = <<>> /\ directories = <<>> /\ Stay
      /\ collected' = <<>> /\ scanned' = {}
      /\ \E commits, ingested : evidence' = PrepareEvidence(commits, ingested, scanned)
      /\ UNCHANGED <<directories, entries, history, quiet>>
  BY DEF Prepare
<1>2. WorldTypes' /\ QueryTypes' BY <1>1, StayKeeps DEF QueryStages
<1>3. \A l \in evidence'.links : {l.source, l.target} \subseteq DOMAIN evidence'.records
  BY <1>1 DEF PrepareEvidence, Ingested
<1>4. ScanTypes' BY <1>1, <1>3, EmptyHolds DEF Types, ScanTypes
<1>5. ScanInv' BY <1>1, EmptyHolds DEF ScanInv
<1>6. QED BY <1>1, <1>2, <1>4, <1>5 DEF Types, Stages

\* The steps of a query leave what a sync keeps.
LEMMA AskKeeps ==
    ASSUME Types, ScanInv, Ask, pc \notin {"scan", "prepared"}, pc' \notin {"scan", "prepared"}
    PROVE  WorldTypes' /\ ScanTypes' /\ ScanInv'
<1>1. WorldTypes' BY DEF Types, WorldTypes, Ask, world
<1>2. ScanTypes' BY DEF Types, ScanTypes, Ask, syncing
<1>3. ScanInv' BY DEF ScanInv, IsRead, Ask, syncing
<1>4. QED BY <1>1, <1>2, <1>3

LEMMA AttributionsAre ==
    ASSUME NEW blamed, NEW q
    PROVE  Attributions(blamed, q).outcome \in Outcomes
BY DEF Attributions, Attributed, Refused, Outcomes

LEMMA BlameIs ==
    ASSUME NEW content, NEW c, NEW st, NEW q, NEW result \in Blame(content, c, st, q)
    PROVE  result.outcome \in Outcomes
<1>1. \/ result \in {Refused("line_out_of_range"), Refused("git")}
      \/ \E f : result = Attributions(f, q)
  BY DEF Blame
<1>2. CASE result \in {Refused("line_out_of_range"), Refused("git")}
  BY <1>2 DEF Refused, Outcomes
<1>3. QED BY <1>1, <1>2, AttributionsAre

\* An answer, to which the path's history may be added.
LEMMA FinishIs ==
    ASSUME NEW result, result.outcome \in Outcomes, NEW q, NEW c, trail = Absent,
           Finish(result, q, c)
    PROVE  /\ answer' = result /\ pc' \in {"walk", "answered"}
           /\ pc' = "walk" => answer'.outcome = "attributed"
           /\ pc' # "walk" => trail' = Absent
           /\ answer'.outcome \in Outcomes
BY DEF Finish

LEMMA BeginQueryKeeps ==
    ASSUME Types, ScanInv, NEW q \in Queries, BeginQuery(q)
    PROVE  Types' /\ ScanInv'
<1>1. pc = "idle" /\ task = "query" /\ query' = q /\ Ask /\ raced' = raced
  BY DEF BeginQuery
<1>2. trail = Absent /\ answer = Absent /\ raced \in BOOLEAN /\ head \in Commits
      /\ state \in {"committed", "working_copy", Absent}
  BY <1>1 DEF Types, WorldTypes, QueryTypes
<1>3. CASE q.revision = Absent
  <2>1. /\ commit' = head /\ pc' = "status" /\ UNCHANGED <<state, trail, answer>>
    BY <1>3 DEF BeginQuery
  <2>2. WorldTypes' /\ ScanTypes' /\ ScanInv' BY <1>1, <2>1, AskKeeps
  <2>3. QueryTypes' BY <1>1, <1>2, <2>1 DEF QueryTypes, QueryStages
  <2>4. QED BY <2>1, <2>2, <2>3 DEF Types, Stages
<1>4. CASE q.revision # Absent
  <2>1. q.revision \in Commits BY <1>4, SourcesAssumption DEF Queries
  <2>2. /\ commit' = q.revision /\ state' = "committed"
        /\ LET text == Trees[q.revision][q.name] IN
           \E result \in {Refused("invalid_revision"), Refused("missing")}
                         \union Blame(text, q.revision, "committed", q) :
              Finish(result, q, q.revision)
    BY <1>4 DEF BeginQuery
  <2>3. PICK result : result.outcome \in Outcomes /\ Finish(result, q, q.revision)
    BY <2>2, BlameIs DEF Refused, Outcomes
  <2>4. /\ answer' = result /\ pc' \in {"walk", "answered"}
        /\ pc' = "walk" => answer'.outcome = "attributed"
        /\ pc' # "walk" => trail' = Absent
        /\ answer'.outcome \in Outcomes
    BY <1>2, <2>3, FinishIs
  <2>5. WorldTypes' /\ ScanTypes' /\ ScanInv' BY <1>1, <2>4, AskKeeps
  <2>6. QueryTypes' BY <1>1, <1>2, <2>1, <2>2, <2>4 DEF QueryTypes, QueryStages
  <2>7. QED BY <2>4, <2>5, <2>6 DEF Types, Stages
<1>5. QED BY <1>3, <1>4

LEMMA CheckStatusKeeps ==
    ASSUME Types, ScanInv, CheckStatus
    PROVE  Types' /\ ScanInv'
<1>1. /\ pc = "status" /\ Ask /\ UNCHANGED <<query, commit, raced>>
      /\ \/ /\ \E result \in {Refused("missing"), Refused("unattributed")} :
                   Finish(result, query, commit)
            /\ UNCHANGED state
         \/ /\ state' \in {"committed", "working_copy"} /\ pc' = "read"
            /\ UNCHANGED <<trail, answer>>
  BY DEF CheckStatus
<1>2. /\ trail = Absent /\ answer = Absent /\ raced \in BOOLEAN /\ query \in Queries
      /\ commit \in Commits \union {Absent} /\ state \in {"committed", "working_copy", Absent}
  BY <1>1 DEF Types, QueryTypes, QueryStages
<1>3. CASE /\ \E result \in {Refused("missing"), Refused("unattributed")} :
                 Finish(result, query, commit)
           /\ UNCHANGED state
  <2>1. PICK result : result.outcome \in Outcomes /\ Finish(result, query, commit)
    BY <1>3 DEF Refused, Outcomes
  <2>2. /\ answer' = result /\ pc' \in {"walk", "answered"}
        /\ pc' = "walk" => answer'.outcome = "attributed"
        /\ pc' # "walk" => trail' = Absent
        /\ answer'.outcome \in Outcomes
    BY <1>2, <2>1, FinishIs
  <2>3. WorldTypes' /\ ScanTypes' /\ ScanInv' BY <1>1, <2>2, AskKeeps
  <2>4. QueryTypes' BY <1>1, <1>2, <1>3, <2>2 DEF QueryTypes, QueryStages
  <2>5. QED BY <2>2, <2>3, <2>4 DEF Types, Stages
<1>4. CASE state' \in {"committed", "working_copy"} /\ pc' = "read" /\ UNCHANGED <<trail, answer>>
  <2>1. WorldTypes' /\ ScanTypes' /\ ScanInv' BY <1>1, <1>4, AskKeeps
  <2>2. QueryTypes' BY <1>1, <1>2, <1>4 DEF QueryTypes, QueryStages
  <2>3. QED BY <1>4, <2>1, <2>2 DEF Types, Stages
<1>5. QED BY <1>1, <1>3, <1>4

LEMMA ReadSourceKeeps ==
    ASSUME Types, ScanInv, ReadSource
    PROVE  Types' /\ ScanInv'
<1>1. /\ pc = "read" /\ Ask /\ UNCHANGED <<query, commit, state, raced>>
      /\ LET now == sources[query.name] IN
         \E result \in IF now = Absent THEN {Refused("git")}
                       ELSE Blame(now, commit, state, query) :
            Finish(result, query, commit)
  BY DEF ReadSource
<1>2. /\ trail = Absent /\ answer = Absent /\ raced \in BOOLEAN /\ query \in Queries
      /\ commit \in Commits \union {Absent} /\ state \in {"committed", "working_copy", Absent}
  BY <1>1 DEF Types, QueryTypes, QueryStages
<1>3. PICK result : result.outcome \in Outcomes /\ Finish(result, query, commit)
  BY <1>1, BlameIs DEF Refused, Outcomes
<1>4. /\ answer' = result /\ pc' \in {"walk", "answered"}
      /\ pc' = "walk" => answer'.outcome = "attributed"
      /\ pc' # "walk" => trail' = Absent
      /\ answer'.outcome \in Outcomes
  BY <1>2, <1>3, FinishIs
<1>5. WorldTypes' /\ ScanTypes' /\ ScanInv' BY <1>1, <1>4, AskKeeps
<1>6. QueryTypes' BY <1>1, <1>2, <1>4 DEF QueryTypes, QueryStages
<1>7. QED BY <1>4, <1>5, <1>6 DEF Types, Stages

LEMMA WalkKeeps ==
    ASSUME Types, ScanInv, CompareCommit \/ CommitIsCompared \/ WalkEnds
    PROVE  Types' /\ ScanInv'
<1>1. /\ pc = "walk" /\ Ask /\ UNCHANGED <<query, commit, state, raced>>
      /\ \/ pc' = "walk" /\ answer' = answer
         \/ /\ pc' = "answered" /\ trail' = Absent
            /\ answer' = Attributed(answer.by, trail.changes, trail.complete)
  BY DEF CompareCommit, CommitIsCompared, WalkEnds
<1>2. WorldTypes' /\ ScanTypes' /\ ScanInv' BY <1>1, AskKeeps
<1>3. QueryTypes' BY <1>1 DEF Types, QueryTypes, QueryStages, Attributed, Outcomes
<1>4. QED BY <1>1, <1>2, <1>3 DEF Types, Stages

LEMMA ReportKeeps ==
    ASSUME Types, ScanInv, Report
    PROVE  Types' /\ ScanInv'
<1>1. /\ pc \in {"prepared", "failed", "answered"} /\ pc' = "idle"
      /\ history' = Absent /\ evidence' = Absent /\ quiet' = {}
      /\ query' = Absent /\ commit' = Absent /\ state' = Absent /\ answer' = Absent
      /\ raced' = FALSE
      /\ UNCHANGED <<world, task, trail, directories, entries, collected, scanned>>
  BY DEF Report
<1>2. WorldTypes' BY <1>1 DEF Types, WorldTypes, world
<1>3. ScanTypes' BY <1>1 DEF Types, ScanTypes
<1>4. QueryTypes' BY <1>1 DEF Types, QueryTypes, QueryStages
<1>5. ScanInv' BY <1>1 DEF ScanInv
<1>6. QED BY <1>1, <1>2, <1>3, <1>4, <1>5 DEF Types, Stages

TypeInv == Types /\ ScanInv

LEMMA TypesAreKept == TypeInv /\ [Next]_vars => TypeInv'
<1> SUFFICES ASSUME Types, ScanInv, [Next]_vars PROVE Types' /\ ScanInv'
  BY DEF TypeInv
<1>1. CASE UNCHANGED vars
  <2>1. Types'
    BY <1>1 DEF Types, WorldTypes, ScanTypes, QueryTypes, vars, world, syncing, querying
  <2>2. ScanInv' BY <1>1 DEF ScanInv, IsRead, vars, world, syncing
  <2>3. QED BY <2>1, <2>2
<1>2. CASE User BY <1>2, EditDocumentKeeps, EditSourceKeeps, MoveHeadKeeps DEF User
<1>3. CASE \E walk \in Walks(head, shallow) : BeginSync(walk) BY <1>3, BeginSyncKeeps
<1>4. CASE ListDirectory BY <1>4, ListDirectoryKeeps
<1>5. CASE FileIsGone BY <1>5, FileIsGoneKeeps
<1>6. CASE ReadDocument BY <1>6, ReadDocumentKeeps
<1>7. CASE Prepare BY <1>7, PrepareKeeps
<1>8. CASE \E q \in Queries : BeginQuery(q) BY <1>8, BeginQueryKeeps
<1>9. CASE CheckStatus BY <1>9, CheckStatusKeeps
<1>10. CASE ReadSource BY <1>10, ReadSourceKeeps
<1>11. CASE CompareCommit \/ CommitIsCompared \/ WalkEnds BY <1>11, WalkKeeps
<1>12. CASE Report BY <1>12, ReportKeeps
<1>13. QED
  BY <1>1, <1>2, <1>3, <1>4, <1>5, <1>6, <1>7, <1>8, <1>9, <1>10, <1>11, <1>12 DEF Next

LEMMA TypesHold == Spec => []TypeInv
<1>1. Init => TypeInv BY InitIsSound DEF TypeInv
<1>2. QED BY <1>1, TypesAreKept, PTL DEF Spec

\* Every variable keeps its type, what is kept fits the stage of the sync or of the
\* query, no document is collected twice, and no link of prepared evidence leads to
\* a record that is absent (prepare_evidence).
THEOREM TypeCorrect == Spec => []TypeOK
<1>1. TypeInv => TypeOK BY TypesAre DEF TypeInv
<1>2. QED BY <1>1, TypesHold, PTL

-----------------------------------------------------------------------------
(* Ancestors. *)

LEMMA CommitsAreNumbered ==
    /\ Cardinality(Commits) \in Nat
    /\ \A c \in Commits : c \in Nat /\ 1 <= c /\ c <= Cardinality(Commits)
<1>1. Cardinality(Commits) \in Nat BY GitAssumption, FS_CardinalityType
<1>2. Commits = 1 .. Cardinality(Commits) BY GitAssumption
<1> DEFINE N == Cardinality(Commits)
<1> HIDE DEF N
<1>3. N \in Nat /\ Commits = 1 .. N BY <1>1, <1>2 DEF N
<1>4. \A c \in Commits : c \in Nat /\ 1 <= c /\ c <= N BY <1>3
<1>5. QED BY <1>1, <1>4 DEF N

LEMMA EarlierParents ==
    ASSUME NEW c \in Commits, NEW b
    PROVE  \A d \in ToSet(ParentsSeen(c, b)) : d \in Commits /\ d < c
<1>1. ToSet(ParentsSeen(c, b)) \subseteq ToSet(Parents[c])
  BY EmptyHolds DEF ParentsSeen
<1>2. Parents[c] \in Seq(Commits) BY GitAssumption
<1>3. \A d \in ToSet(Parents[c]) : d \in Commits BY <1>2, LenProperties, ElementOfSeq DEF ToSet
<1>4. QED BY <1>1, <1>3, GitAssumption

\* What Reached is made of, by a function that knows the parents'.
Above(f, x) == {x[1]} \union UNION {f[<<d, x[2]>>] : d \in ToSet(ParentsSeen(x[1], x[2]))}

Tips == Commits \X BOOLEAN
TipCommit == [x \in Tips |-> x[1]]
TipParents == [x \in Tips |-> {<<d, x[2]>> : d \in ToSet(ParentsSeen(x[1], x[2]))}]

LEMMA TipsDescend == Descends(Tips, Cardinality(Commits), TipCommit, TipParents)
<1>1. TipCommit \in [Tips -> 0 .. Cardinality(Commits)] /\ Cardinality(Commits) \in Nat
  BY CommitsAreNumbered DEF Tips, TipCommit
<1>2. ASSUME NEW x \in Tips, NEW y \in TipParents[x]
      PROVE  y \in Tips /\ TipCommit[y] < TipCommit[x]
  <2>1. x[1] \in Commits /\ x[2] \in BOOLEAN BY DEF Tips
  <2>2. PICK d \in ToSet(ParentsSeen(x[1], x[2])) : y = <<d, x[2]>> BY DEF TipParents
  <2>3. d \in Commits /\ d < x[1] BY <2>1, EarlierParents
  <2>4. QED BY <2>1, <2>2, <2>3 DEF Tips, TipCommit
<1>3. QED BY <1>1, <1>2 DEF Descends

LEMMA AboveGathers ==
    ASSUME NEW f, NEW x \in Tips
    PROVE  Gathered(TipCommit, TipParents, f, x) = Above(f, x)
BY DEF Gathered, Above, TipCommit, TipParents

LEMMA ReachedGathers == Gathers(TipCommit, TipParents, Reached, Tips)
<1>1. \A f : Gathers(TipCommit, TipParents, f, Tips) <=> f = [x \in Tips |-> Above(f, x)]
  BY AboveGathers DEF Gathers
<1>2. \E f : f = [x \in Tips |-> Above(f, x)]
  <2>1. \E f : Gathers(TipCommit, TipParents, f, Tips) BY TipsDescend, GathererExists
  <2>2. QED BY <1>1, <2>1
<1>3. Reached = CHOOSE f : f = [x \in Tips |-> Above(f, x)] BY DEF Reached, Above, Tips
<1>4. QED BY <1>1, <1>2, <1>3

LEMMA ReachedIs == \A x \in Commits \X BOOLEAN : Reached[x] = Above(Reached, x)
<1>1. \A x \in Tips : Reached[x] = Gathered(TipCommit, TipParents, Reached, x)
  BY ReachedGathers DEF Gathers
<1>2. QED BY <1>1, AboveGathers DEF Tips

LEMMA ReachedAreCommits == \A x \in Commits \X BOOLEAN : Reached[x] \subseteq Commits
<1>1. \A x \in Tips : TipCommit[x] \in Commits BY DEF Tips, TipCommit
<1>2. \A x \in Tips : Reached[x] \subseteq Commits
  BY <1>1, TipsDescend, ReachedGathers, GatheredWithin
<1>3. QED BY <1>2 DEF Tips

-----------------------------------------------------------------------------
(* Attribution. *)

\* Each line asked for is a committed one, by a commit that introduced it as far as
\* the clone goes.
IsBy(by, q, c, content, b) ==
    /\ c \in Commits
    /\ \A k \in q.first .. q.last :
          /\ Holds(<<c, q.name>>, content[k])
          /\ by[k] \in IntroducedBy(<<c, q.name>>, content[k], b)

\* Of every line, a blame that is no error says who introduced it.
LEMMA AttributionsSay ==
    ASSUME NEW blamed, NEW q, Attributions(blamed, q).outcome = "attributed"
    PROVE  \A k \in q.first .. q.last :
              /\ blamed[k] # Absent /\ blamed[k].commit # Absent
              /\ Attributions(blamed, q).by[k] = blamed[k].commit
<1> DEFINE lines == q.first .. q.last
           lost == {k \in lines : blamed[k] = Absent}
           new == {k \in lines \ lost : blamed[k].commit = Absent}
<1>1. lost \union new = {}
  <2> SUFFICES ASSUME lost \union new # {} PROVE FALSE
    OBVIOUS
  <2>1. Attributions(blamed, q) \in {Refused("unattributed"), Refused("line_out_of_range")}
    BY DEF Attributions
  <2>2. QED BY <2>1 DEF Refused
<1>2. Attributions(blamed, q) = Attributed([k \in lines |-> blamed[k].commit], <<>>, FALSE)
  BY <1>1 DEF Attributions
<1>3. Attributions(blamed, q).by = [k \in lines |-> blamed[k].commit] BY <1>2 DEF Attributed
<1>4. \A k \in lines : blamed[k] # Absent /\ blamed[k].commit # Absent BY <1>1
<1>5. QED BY <1>3, <1>4

LEMMA BlameIsRight ==
    ASSUME NEW c \in Commits, NEW q \in Queries, NEW st, NEW content,
           st = "committed" => content = Trees[c][q.name],
           NEW result \in Blame(content, c, st, q), result.outcome = "attributed"
    PROVE  IsBy(result.by, q, c, content, shallow)
<1> DEFINE text == Trees[c][q.name]
           lines == q.first .. q.last
           from == Hunks(content, c, st, q)
<1>2. text # Absent /\ \E f \in Picks(from, lines) : result = Attributions(f, q)
  <2>1. result \notin {Refused("line_out_of_range"), Refused("git")} BY DEF Refused
  <2>2. result \in {Attributions(f, q) : f \in Picks(from, lines)} /\ text # Absent
    BY <2>1 DEF Blame
  <2>3. QED BY <2>2
<1>3. PICK f \in Picks(from, lines) : result = Attributions(f, q) BY <1>2
<1>4. \A k \in lines : /\ f[k] \in from[k] /\ f[k] # Absent /\ f[k].commit # Absent
                       /\ result.by[k] = f[k].commit
  <2> HIDE DEF from
  <2>1. \A k \in lines : f[k] \in from[k] BY <1>3 DEF Picks
  <2>2. QED BY <1>3, <2>1, AttributionsSay
<1>5. ASSUME NEW k \in lines
      PROVE  /\ content[k] \in ToSet(text)
             /\ f[k].commit \in IntroducedBy(<<c, q.name>>, content[k], shallow)
  <2> DEFINE v == <<c, q.name>>
  <2>1. Text(v) = text BY DEF Text
  <2>2. CASE st = "committed"
    <3>1. f[k] \in Committed(v, k, shallow) /\ f[k] # Absent BY <1>4, <2>2 DEF Hunks
    <3>2. /\ k \in DOMAIN text
          /\ \E d \in IntroducedBy(v, text[k], shallow) : f[k] = Hunk(d)
      BY <2>1, <3>1 DEF Committed
    <3>3. text[k] \in ToSet(text) BY <3>2 DEF ToSet
    <3>4. QED BY <2>2, <3>2, <3>3 DEF Hunk
  <2>3. CASE st # "committed"
    <3>1. /\ f[k] \in Buffered(v, content, k, q.first, q.last, shallow)
          /\ f[k] # Absent /\ f[k].commit # Absent
      BY <1>4, <2>3 DEF Hunks
    <3>2. content[k] \in ToSet(text) BY <2>1, <3>1 DEF Buffered, Hunk
    <3>3. \E d \in IntroducedBy(v, content[k], shallow) : f[k] = Hunk(d)
      BY <2>1, <3>1, <3>2 DEF Buffered, Hunk
    <3>4. QED BY <3>2, <3>3 DEF Hunk
  <2>4. QED BY <2>2, <2>3
<1>6. \A k \in lines : Holds(<<c, q.name>>, content[k]) BY <1>2, <1>5 DEF Holds, Text
<1>7. QED BY <1>4, <1>5, <1>6 DEF IsBy

\* What a query is about.
Content == IF query.revision = Absent THEN sources[query.name] ELSE Trees[commit][query.name]

\* Unless something has changed since, the revision is HEAD, a file that was found
\* to be as committed is so, and what has been attributed is right.
RightInv ==
    /\ pc \in {"status", "read"} => query.revision = Absent
    /\ ~raced /\ pc \in {"status", "read"} => commit = head
    /\ ~raced /\ pc = "read" /\ state = "committed" =>
          sources[query.name] = Trees[commit][query.name]
    /\ ~raced /\ pc \in {"walk", "answered"} /\ answer.outcome = "attributed" =>
          IsBy(answer.by, query, commit, Content, shallow)

LEMMA UserKeepsRight ==
    ASSUME TypeInv, RightInv, User
    PROVE  RightInv'
<1>1. UNCHANGED <<shallow, pc, query, commit, state, answer>>
  BY DEF User, EditDocument, EditSource, MoveHead, Edit
<1>2. ASSUME NEW p \in Paths, NEW file, EditDocument(p, file) PROVE RightInv'
  <2>1. UNCHANGED <<head, sources, raced>> BY <1>2 DEF EditDocument
  <2>2. QED BY <1>1, <2>1 DEF RightInv, Content
<1>3. ASSUME NEW n \in 1 .. Names, NEW text, EditSource(n, text) PROVE RightInv'
  <2>1. /\ UNCHANGED head
        /\ raced' = (raced \/ pc \in {"walk", "answered"} \/ (pc = "read" /\ state = "committed"))
    BY <1>3 DEF EditSource
  <2>2. QED BY <1>1, <2>1 DEF RightInv
<1>4. ASSUME NEW c \in Commits, MoveHead(c) PROVE RightInv'
  <2>1. raced' = (raced \/ pc \in {"status", "read", "walk", "answered"})
    BY <1>4 DEF MoveHead
  <2>2. QED BY <1>1, <2>1 DEF RightInv
<1>5. QED BY <1>2, <1>3, <1>4 DEF User

LEMMA FinishedRight ==
    ASSUME NEW result, NEW q, NEW c, Finish(result, q, c)
    PROVE  answer' = result /\ pc' \in {"walk", "answered"}
BY DEF Finish

LEMMA BeginQueryRight ==
    ASSUME TypeInv, RightInv, NEW q \in Queries, BeginQuery(q)
    PROVE  RightInv'
<1>1. query' = q /\ raced' = raced /\ UNCHANGED <<head, sources, shallow>>
  BY DEF BeginQuery, Ask, world
<1>2. CASE q.revision = Absent
  <2>1. commit' = head /\ pc' = "status" BY <1>2 DEF BeginQuery
  <2>2. QED BY <1>1, <1>2, <2>1 DEF RightInv
<1>3. CASE q.revision # Absent
  <2> DEFINE text == Trees[q.revision][q.name]
  <2>1. q.revision \in Commits BY <1>3, SourcesAssumption DEF Queries
  <2>2. /\ commit' = q.revision
        /\ \E result \in {Refused("invalid_revision"), Refused("missing")}
                         \union Blame(text, q.revision, "committed", q) :
              Finish(result, q, q.revision)
    BY <1>3 DEF BeginQuery
  <2>3. PICK result : /\ \/ result \in {Refused("invalid_revision"), Refused("missing")}
                         \/ result \in Blame(text, q.revision, "committed", q)
                      /\ Finish(result, q, q.revision)
    BY <2>2
  <2>4. answer' = result /\ pc' \in {"walk", "answered"} BY <2>3, FinishedRight
  <2>5. result.outcome = "attributed" => IsBy(result.by, q, q.revision, text, shallow)
    <3>1. CASE result \in {Refused("invalid_revision"), Refused("missing")} BY <3>1 DEF Refused
    <3>2. CASE result \in Blame(text, q.revision, "committed", q)
      <4> SUFFICES ASSUME result.outcome = "attributed"
                   PROVE  IsBy(result.by, q, q.revision, text, shallow)
        OBVIOUS
      <4>1. QED BY <2>1, <3>2, BlameIsRight
    <3>3. QED BY <2>3, <3>1, <3>2
  <2>6. Content' = text BY <1>1, <1>3, <2>2 DEF Content
  <2> HIDE DEF text
  <2>7. QED BY <1>1, <2>2, <2>4, <2>5, <2>6 DEF RightInv
<1>4. QED BY <1>2, <1>3

LEMMA CheckStatusRight ==
    ASSUME TypeInv, RightInv, CheckStatus
    PROVE  RightInv'
<1>1. pc = "status" /\ UNCHANGED <<query, commit, raced, head, sources>>
  BY DEF CheckStatus, Ask, world
<1>2. \/ \E result \in {Refused("missing"), Refused("unattributed")} :
            Finish(result, query, commit)
      \/ /\ pc' = "read"
         /\ state' = IF sources[query.name] = Trees[head][query.name] THEN "committed"
                     ELSE "working_copy"
  BY DEF CheckStatus
<1>3. CASE \E result \in {Refused("missing"), Refused("unattributed")} :
              Finish(result, query, commit)
  <2>1. /\ answer' \in {Refused("missing"), Refused("unattributed")}
        /\ pc' \in {"walk", "answered"}
    BY <1>3, FinishedRight
  <2>2. answer'.outcome # "attributed" BY <2>1 DEF Refused
  <2>3. QED BY <2>1, <2>2 DEF RightInv
<1>4. CASE /\ pc' = "read"
           /\ state' = IF sources[query.name] = Trees[head][query.name] THEN "committed"
                       ELSE "working_copy"
  <2>1. state' = "committed" => sources[query.name] = Trees[head][query.name] BY <1>4
  <2>2. QED BY <1>1, <1>4, <2>1 DEF RightInv
<1>5. QED BY <1>2, <1>3, <1>4

LEMMA ReadSourceRight ==
    ASSUME TypeInv, RightInv, ReadSource
    PROVE  RightInv'
<1> DEFINE now == sources[query.name]
<1>1. pc = "read" /\ UNCHANGED <<query, commit, state, raced, head, sources, shallow>>
  BY DEF ReadSource, Ask, world
<1>2. PICK result : /\ result = Refused("git") \/ result \in Blame(now, commit, state, query)
                    /\ Finish(result, query, commit)
  BY DEF ReadSource
<1>3. answer' = result /\ pc' \in {"walk", "answered"} BY <1>2, FinishedRight
<1>4. query \in Queries /\ query.revision = Absent
  BY <1>1 DEF TypeInv, Types, QueryTypes, QueryStages, RightInv
<1>5. ASSUME ~raced, result.outcome = "attributed"
      PROVE  IsBy(result.by, query, commit, now, shallow)
  <2>1. result \in Blame(now, commit, state, query) BY <1>2, <1>5 DEF Refused
  <2>2. commit \in Commits BY <1>1, <1>5 DEF RightInv, TypeInv, Types, WorldTypes
  <2>3. state = "committed" => now = Trees[commit][query.name] BY <1>1, <1>5 DEF RightInv
  <2> HIDE DEF now
  <2>4. QED BY <1>4, <1>5, <2>1, <2>2, <2>3, BlameIsRight
<1>6. Content' = now BY <1>1, <1>4 DEF Content
<1> HIDE DEF now
<1>7. QED BY <1>1, <1>3, <1>5, <1>6 DEF RightInv

LEMMA WalkRight ==
    ASSUME TypeInv, RightInv, CompareCommit \/ CommitIsCompared \/ WalkEnds
    PROVE  RightInv'
<1>1. /\ pc = "walk" /\ pc' \in {"walk", "answered"}
      /\ UNCHANGED <<query, commit, raced, sources, shallow>>
      /\ \/ answer' = answer
         \/ answer' = Attributed(answer.by, trail.changes, trail.complete)
  BY DEF CompareCommit, CommitIsCompared, WalkEnds, Ask, world
<1>2. answer'.by = answer.by BY <1>1 DEF Attributed
<1>3. answer.outcome = "attributed" BY <1>1 DEF TypeInv, Types, QueryTypes
<1>4. Content' = Content BY <1>1 DEF Content
<1>5. QED BY <1>1, <1>2, <1>3, <1>4 DEF RightInv

LEMMA RightIsKept == TypeInv /\ RightInv /\ [Next]_vars => RightInv'
<1> SUFFICES ASSUME TypeInv, RightInv, [Next]_vars PROVE RightInv'
  OBVIOUS
<1>1. CASE UNCHANGED vars
  BY <1>1 DEF RightInv, Content, vars, world, querying
<1>2. CASE User BY <1>2, UserKeepsRight
<1>3. CASE \E q \in Queries : BeginQuery(q) BY <1>3, BeginQueryRight
<1>4. CASE CheckStatus BY <1>4, CheckStatusRight
<1>5. CASE ReadSource BY <1>5, ReadSourceRight
<1>6. CASE CompareCommit \/ CommitIsCompared \/ WalkEnds BY <1>6, WalkRight
<1>7. CASE Report BY <1>7 DEF Report, RightInv
<1>8. CASE \/ \E walk \in Walks(head, shallow) : BeginSync(walk)
           \/ ListDirectory \/ FileIsGone \/ ReadDocument \/ Prepare
  BY <1>8 DEF BeginSync, ListDirectory, FileIsGone, ReadDocument, Prepare, RightInv
<1>9. QED BY <1>1, <1>2, <1>3, <1>4, <1>5, <1>6, <1>7, <1>8 DEF Next

-----------------------------------------------------------------------------
(* What becomes of a file. *)

LEMMA ParseIs ==
    ASSUME NEW path, NEW file, file.form \in Forms(path)
    PROVE  \/ Parse(path, file) = NoRationale
           \/ \E code : Parse(path, file) = Failed(code)
           \/ \E node, links, conflicts :
                 /\ Parse(path, file) = Parsed(node, links, conflicts)
                 /\ node.from = File(path)
<1> DEFINE IsParsed(p) == \E node, links, conflicts :
                              p = Parsed(node, links, conflicts) /\ node.from = File(path)
           IsFailed(p) == \E code : p = Failed(code)
<1>1. \A id, kind, status : Node(id, kind, status, File(path)).from = File(path)
  BY DEF Node
<1>2. IsParsed(ParseVerification(path, file)) \/ IsFailed(ParseVerification(path, file))
  BY <1>1 DEF ParseVerification
<1>3. IsParsed(NormalizeMarkdown(path, file)) \/ IsFailed(NormalizeMarkdown(path, file))
  BY <1>1 DEF NormalizeMarkdown
<1>4. CASE path \in Manifests BY <1>2, <1>4 DEF Parse
<1>5. CASE path \notin Manifests
  <2>1. file.form \in {"plain", "unclosed", "undecodable", "deep", "unknown_field", "rationale"}
    BY <1>5 DEF Forms
  <2>2. Parse(path, file) = ParseMarkdown(path, file) BY <1>5 DEF Parse
  <2> HIDE DEF IsParsed, IsFailed
  <2>3. file.form = "plain" => ParseMarkdown(path, file) = NoRationale BY DEF ParseMarkdown
  <2>4. file.form \in {"unclosed", "undecodable", "deep", "unknown_field"} =>
            IsFailed(ParseMarkdown(path, file))
    BY DEF ParseMarkdown, IsFailed
  <2>5. file.form = "rationale" => ParseMarkdown(path, file) = NormalizeMarkdown(path, file)
    BY DEF ParseMarkdown
  <2>6. Parse(path, file) = NoRationale \/ IsParsed(Parse(path, file)) \/ IsFailed(Parse(path, file))
    BY <1>3, <2>1, <2>2, <2>3, <2>4, <2>5
  <2>7. QED BY <2>6 DEF IsParsed, IsFailed
<1>6. QED BY <1>4, <1>5

IsIngested(r) == r = Ingested(r.records, r.links, r.conflicts, r.diagnostics)

\* A file counts, or there is a diagnostic.
IsTakenIn(r, path, file) ==
    LET p == Parse(path, file)
        At(code) == Diagnostic(File(path), code) \in r.diagnostics
    IN  \/ At("document_limit")
        \/ p.outcome = "none"
        \/ p.outcome = "failed" /\ At(p.code)
        \/ /\ p.outcome = "parsed" /\ p.node.id \in DOMAIN r.records
           /\ \/ /\ r.records[p.node.id] = p.node
                 /\ p.links \subseteq r.links /\ p.conflicts \subseteq r.conflicts
              \/ r.records[p.node.id].from[2] < path /\ At("duplicate_record")

\* Nothing is taken back.
IsGrown(r, t) ==
    /\ \A id \in DOMAIN r.records : id \in DOMAIN t.records /\ t.records[id] = r.records[id]
    /\ r.links \subseteq t.links /\ r.conflicts \subseteq t.conflicts
    /\ r.diagnostics \subseteq t.diagnostics

LEMMA GrownKeeps ==
    ASSUME NEW r, NEW t, IsGrown(r, t), NEW path, NEW file, IsTakenIn(r, path, file)
    PROVE  IsTakenIn(t, path, file)
BY DEF IsGrown, IsTakenIn

LEMMA QuarantineIs ==
    ASSUME NEW r, IsIngested(r), NEW path, NEW code
    PROVE  LET t == Quarantine(r, path, code)
           IN  /\ IsIngested(t) /\ IsGrown(r, t) /\ t.records = r.records
               /\ Diagnostic(File(path), code) \in t.diagnostics
<1> DEFINE t == Quarantine(r, path, code)
           more == r.diagnostics \union {Diagnostic(File(path), code)}
<1>1. t = [r EXCEPT !.diagnostics = more] BY DEF Quarantine
<1> HIDE DEF t, more
<1>2. t = Ingested(r.records, r.links, r.conflicts, more)
  BY <1>1 DEF IsIngested, Ingested
<1>3. /\ t.records = r.records /\ t.links = r.links /\ t.conflicts = r.conflicts
      /\ t.diagnostics = more
  BY <1>2 DEF Ingested
<1>4. IsIngested(t) BY <1>2, <1>3 DEF IsIngested
<1>5. r.diagnostics \subseteq more /\ Diagnostic(File(path), code) \in more BY DEF more
<1>6. IsGrown(r, t) BY <1>3, <1>5 DEF IsGrown
<1>7. QED BY <1>3, <1>4, <1>5, <1>6 DEF t

\* What is in r comes from files before this one.
IsBefore(r, path) ==
    \A id \in DOMAIN r.records : \E q : q < path /\ r.records[id].from = File(q)

IsFrom(r, t, path) ==
    \A id \in DOMAIN t.records :
        \/ id \in DOMAIN r.records /\ t.records[id] = r.records[id]
        \/ t.records[id].from = File(path)

LEMMA TakeIs ==
    ASSUME NEW r, IsIngested(r), NEW i, NEW path, NEW file, IsBefore(r, path),
           file.form \in Forms(path), NEW input, input.path = path, input.file = file,
           NEW t, t = Take(r, i, input)
    PROVE  /\ IsIngested(t) /\ IsGrown(r, t) /\ IsTakenIn(t, path, file) /\ IsFrom(r, t, path)
<1> DEFINE p == Parse(path, file)
<1>1. IsGrown(r, r) /\ IsFrom(r, r, path) BY DEF IsGrown, IsFrom
<1>2. CASE i > MaxDocuments
  <2>1. t = Quarantine(r, path, "document_limit") BY <1>2 DEF Take
  <2>2. /\ IsIngested(t) /\ IsGrown(r, t) /\ t.records = r.records
        /\ Diagnostic(File(path), "document_limit") \in t.diagnostics
    BY <2>1, QuarantineIs
  <2>3. IsFrom(r, t, path) BY <2>2 DEF IsFrom
  <2>4. QED BY <2>2, <2>3 DEF IsTakenIn
<1>3. CASE ~(i > MaxDocuments) /\ p = NoRationale
  <2>1. p.outcome = "none" BY <1>3 DEF NoRationale
  <2>2. t = r BY <1>3, <2>1 DEF Take
  <2>3. QED BY <1>1, <2>1, <2>2 DEF IsTakenIn
<1>4. ASSUME ~(i > MaxDocuments), NEW code, p = Failed(code)
      PROVE  /\ IsIngested(t) /\ IsGrown(r, t) /\ IsTakenIn(t, path, file) /\ IsFrom(r, t, path)
  <2>1. p.outcome = "failed" /\ p.code = code BY <1>4 DEF Failed
  <2>2. t = Quarantine(r, path, code) BY <1>4, <2>1 DEF Take
  <2>3. /\ IsIngested(t) /\ IsGrown(r, t) /\ t.records = r.records
        /\ Diagnostic(File(path), code) \in t.diagnostics
    BY <2>2, QuarantineIs
  <2>4. IsFrom(r, t, path) BY <2>3 DEF IsFrom
  <2>5. QED BY <2>1, <2>3, <2>4 DEF IsTakenIn
<1>5. ASSUME ~(i > MaxDocuments), NEW node, NEW links, NEW conflicts,
             p = Parsed(node, links, conflicts), node.from = File(path)
      PROVE  /\ IsIngested(t) /\ IsGrown(r, t) /\ IsTakenIn(t, path, file) /\ IsFrom(r, t, path)
  <2>1. p.outcome = "parsed" /\ p.node = node /\ p.links = links /\ p.conflicts = conflicts
    BY <1>5 DEF Parsed
  <2>2. t = Add(r, p) BY <1>5, <2>1 DEF Take
  <2>3. node.from[2] = path BY <1>5 DEF File
  <2> HIDE DEF p
  <2>4. CASE node.id \in DOMAIN r.records /\ r.records[node.id] # node
    <3>1. t = Quarantine(r, path, "duplicate_record") BY <2>1, <2>2, <2>3, <2>4 DEF Add
    <3>2. /\ IsIngested(t) /\ IsGrown(r, t) /\ t.records = r.records
          /\ Diagnostic(File(path), "duplicate_record") \in t.diagnostics
      BY <3>1, QuarantineIs
    <3>3. r.records[node.id].from[2] < path
      <4>1. PICK q : q < path /\ r.records[node.id].from = File(q) BY <2>4 DEF IsBefore
      <4>2. File(q)[2] = q BY DEF File
      <4>3. QED BY <4>1, <4>2
    <3>4. IsFrom(r, t, path) BY <3>2 DEF IsFrom
    <3>5. IsTakenIn(t, path, file) BY <2>1, <2>4, <3>2, <3>3 DEF IsTakenIn, p
    <3>6. QED BY <3>2, <3>4, <3>5
  <2>5. CASE ~(node.id \in DOMAIN r.records /\ r.records[node.id] # node)
    <3>1. t = Ingested(Put(r.records, node), r.links \union links, r.conflicts \union conflicts,
                       r.diagnostics)
      BY <2>1, <2>2, <2>5 DEF Add
    <3>2. /\ t.records = Put(r.records, node) /\ t.links = r.links \union links
          /\ t.conflicts = r.conflicts \union conflicts /\ t.diagnostics = r.diagnostics
      BY <3>1 DEF Ingested
    <3>3. IsIngested(t) BY <3>1, <3>2 DEF IsIngested
    <3>4. /\ DOMAIN t.records = DOMAIN r.records \union {node.id}
          /\ \A id \in DOMAIN t.records :
                t.records[id] = IF id = node.id THEN node ELSE r.records[id]
      BY <3>2 DEF Put
    <3>5. IsGrown(r, t) BY <2>5, <3>2, <3>4 DEF IsGrown
    <3>6. IsFrom(r, t, path) BY <1>5, <3>4 DEF IsFrom
    <3>7. IsTakenIn(t, path, file) BY <2>1, <3>2, <3>4 DEF IsTakenIn, p
    <3>8. QED BY <3>3, <3>5, <3>6, <3>7
  <2>6. QED BY <2>4, <2>5
<1>6. QED BY <1>2, <1>3, <1>4, <1>5, ParseIs

-----------------------------------------------------------------------------
(* What becomes of all files. *)

Start == Ingested(<<>>, {}, {}, {})

\* Ingest is defined by how each file follows those before it; there is a function
\* that is so.
Follows(f, s, n) == IF n = 0 THEN Start ELSE Take(f[n - 1], n, s[n])
IngestsUpTo(s, k) == \E f : f = [n \in 0 .. k |-> Follows(f, s, n)]

LEMMA OneMoreFile ==
    ASSUME NEW s, NEW k \in Nat, IngestsUpTo(s, k)
    PROVE  IngestsUpTo(s, k + 1)
<1>1. PICK f : f = [n \in 0 .. k |-> Follows(f, s, n)] BY DEF IngestsUpTo
<1> DEFINE g == [n \in 0 .. k + 1 |-> IF n = k + 1 THEN Take(f[k], k + 1, s[k + 1]) ELSE f[n]]
<1>2. \A n \in 0 .. k : n \in 0 .. k + 1 /\ n # k + 1 OBVIOUS
<1>3. g[k + 1] = Take(f[k], k + 1, s[k + 1]) /\ \A n \in 0 .. k : g[n] = f[n]
  <2>1. k + 1 \in 0 .. k + 1 OBVIOUS
  <2>2. QED BY <1>2, <2>1
<1>4. \A n \in 0 .. k + 1 : n \in 0 .. k \/ n = k + 1 OBVIOUS
<1>5. DOMAIN g = 0 .. k + 1 /\ g = [n \in 0 .. k + 1 |-> g[n]] OBVIOUS
<1> HIDE DEF g
<1>6. ASSUME NEW n \in 0 .. k + 1 PROVE g[n] = Follows(g, s, n)
  <2>1. CASE n = k + 1
    <3>1. n # 0 /\ n - 1 = k /\ k \in 0 .. k BY <2>1
    <3>2. g[k] = f[k] BY <1>3, <3>1
    <3>3. QED BY <1>3, <2>1, <3>1, <3>2 DEF Follows
  <2>2. CASE n # k + 1
    <3>1. n \in 0 .. k BY <1>4, <2>2
    <3>2. g[n] = f[n] /\ f[n] = Follows(f, s, n) BY <1>1, <1>3, <3>1
    <3>3. n # 0 => n - 1 \in 0 .. k BY <3>1
    <3>4. n # 0 => g[n - 1] = f[n - 1] BY <1>3, <3>3
    <3>5. QED BY <3>2, <3>4 DEF Follows
  <2>3. QED BY <2>1, <2>2
<1>7. g = [n \in 0 .. k + 1 |-> Follows(g, s, n)] BY <1>5, <1>6
<1>8. QED BY <1>7 DEF IngestsUpTo

LEMMA AllIngest ==
    ASSUME NEW s
    PROVE  \A k \in Nat : IngestsUpTo(s, k)
<1> DEFINE T == {k \in Nat : ~IngestsUpTo(s, k)}
<1> SUFFICES ASSUME NEW j \in T PROVE FALSE
  OBVIOUS
<1>1. T \in SUBSET Nat OBVIOUS
<1>2. PICK k \in T : \A m \in T : k <= m
  <2> HIDE DEF T
  <2>1. QED BY <1>1, LeastElement
<1>3. CASE k = 0
  <2> DEFINE f == [n \in 0 .. 0 |-> Start]
  <2>1. \A n \in 0 .. 0 : n = 0 OBVIOUS
  <2>2. f = [n \in 0 .. 0 |-> Follows(f, s, n)]
    <3>1. \A n \in 0 .. 0 : Follows(f, s, n) = Start BY <2>1 DEF Follows
    <3> HIDE DEF f
    <3>2. f = [n \in 0 .. 0 |-> Start] BY DEF f
    <3>3. QED BY <3>1, <3>2
  <2> HIDE DEF f
  <2>3. IngestsUpTo(s, 0) BY <2>2 DEF IngestsUpTo
  <2>4. QED BY <1>2, <1>3, <2>3
<1>4. CASE k # 0
  <2>1. k - 1 \in Nat /\ ~(k <= k - 1) /\ (k - 1) + 1 = k BY <1>2, <1>4
  <2>2. IngestsUpTo(s, k - 1) BY <1>2, <2>1
  <2>3. IngestsUpTo(s, (k - 1) + 1) BY <2>1, <2>2, OneMoreFile
  <2>4. QED BY <1>2, <2>1, <2>3
<1>5. QED BY <1>3, <1>4

LEMMA IngestIs ==
    ASSUME NEW s, Len(s) \in Nat
    PROVE  \E f : /\ Ingest(s) = f[Len(s)] /\ f[0] = Start
                  /\ \A n \in 1 .. Len(s) : f[n] = Take(f[n - 1], n, s[n])
<1> DEFINE f == CHOOSE g : g = [n \in 0 .. Len(s) |-> Follows(g, s, n)]
<1>1. Ingest(s) = f[Len(s)] BY DEF Ingest, Follows, Start
<1>2. \E g : g = [n \in 0 .. Len(s) |-> Follows(g, s, n)] BY AllIngest DEF IngestsUpTo
<1>3. f = [n \in 0 .. Len(s) |-> Follows(f, s, n)] BY <1>2
<1> HIDE DEF f
<1>4. 0 \in 0 .. Len(s) /\ \A n \in 1 .. Len(s) : n \in 0 .. Len(s) /\ n # 0 OBVIOUS
<1>5. f[0] = Start BY <1>3, <1>4 DEF Follows
<1>6. \A n \in 1 .. Len(s) : f[n] = Take(f[n - 1], n, s[n]) BY <1>3, <1>4 DEF Follows
<1>7. QED BY <1>1, <1>5, <1>6

\* Files in the order of their paths, none of which is twice.
InPathOrder(s) ==
    /\ Len(s) \in Nat /\ DOMAIN s = 1 .. Len(s)
    /\ \A i \in 1 .. Len(s) : s[i].path \in Nat /\ s[i].file.form \in Forms(s[i].path)
    /\ \A i, j \in 1 .. Len(s) : i < j => s[i].path < s[j].path

\* After n files each of them is taken in, and all records are theirs.
IsThrough(r, s, n) ==
    /\ IsIngested(r)
    /\ \A i \in 1 .. n : IsTakenIn(r, s[i].path, s[i].file)
    /\ \A id \in DOMAIN r.records : \E i \in 1 .. n : r.records[id].from = File(s[i].path)

LEMMA StartIs == \A s : IsThrough(Start, s, 0)
<1>1. Start.records = <<>> /\ IsIngested(Start) BY DEF Start, Ingested, IsIngested
<1>2. 1 .. 0 = {} OBVIOUS
<1>3. QED BY <1>1, <1>2, EmptyHolds DEF IsThrough

LEMMA ThroughNext ==
    ASSUME NEW s, InPathOrder(s), NEW n \in 1 .. Len(s), NEW r, IsThrough(r, s, n - 1),
           NEW t, t = Take(r, n, s[n])
    PROVE  IsThrough(t, s, n)
<1> DEFINE p == s[n].path
           file == s[n].file
<1>1. /\ n \in Nat /\ p \in Nat /\ file.form \in Forms(p)
      /\ \A i \in 1 .. n - 1 : s[i].path < p
  <2>1. n \in Nat /\ Len(s) \in Nat BY DEF InPathOrder
  <2>2. \A i \in 1 .. n - 1 : i \in 1 .. Len(s) /\ i < n BY <2>1
  <2>3. QED BY <2>1, <2>2 DEF InPathOrder
<1>2. IsIngested(r) /\ IsBefore(r, p)
  BY <1>1 DEF IsThrough, IsBefore
<1>3. /\ IsIngested(t) /\ IsGrown(r, t) /\ IsTakenIn(t, p, file) /\ IsFrom(r, t, p)
  <2>1. \E path, f : path = p /\ f = file OBVIOUS
  <2>2. PICK path, f : path = p /\ f = file BY <2>1
  <2> HIDE DEF p, file
  <2>3. IsIngested(r) /\ IsBefore(r, path) /\ f.form \in Forms(path) BY <1>1, <1>2, <2>2
  <2>4. s[n].path = path /\ s[n].file = f BY <2>2 DEF p, file
  <2>5. IsIngested(t) /\ IsGrown(r, t) /\ IsTakenIn(t, path, f) /\ IsFrom(r, t, path)
    BY <2>3, <2>4, TakeIs
  <2>6. QED BY <2>2, <2>5
<1>4. \A i \in 1 .. n : i \in 1 .. n - 1 \/ i = n BY <1>1
<1>5. \A i \in 1 .. n : IsTakenIn(t, s[i].path, s[i].file)
  BY <1>3, <1>4, GrownKeeps DEF IsThrough
<1>6. \A i \in 1 .. n - 1 : i \in 1 .. n BY <1>1
<1>7. n \in 1 .. n BY <1>1
<1>8. \A id \in DOMAIN t.records : \E i \in 1 .. n : t.records[id].from = File(s[i].path)
  BY <1>3, <1>6, <1>7 DEF IsThrough, IsFrom
<1>9. QED BY <1>3, <1>5, <1>8 DEF IsThrough

LEMMA IngestHolds ==
    ASSUME NEW s, InPathOrder(s)
    PROVE  IsThrough(Ingest(s), s, Len(s))
<1>1. Len(s) \in Nat BY DEF InPathOrder
<1>2. PICK f : /\ Ingest(s) = f[Len(s)] /\ f[0] = Start
               /\ \A n \in 1 .. Len(s) : f[n] = Take(f[n - 1], n, s[n])
  BY <1>1, IngestIs
<1> DEFINE T == {n \in 0 .. Len(s) : ~IsThrough(f[n], s, n)}
<1> SUFFICES ASSUME Len(s) \in T PROVE FALSE
  BY <1>1, <1>2
<1>3. T \in SUBSET Nat OBVIOUS
<1>4. PICK n \in T : \A m \in T : n <= m
  <2> HIDE DEF T
  <2>1. QED BY <1>3, LeastElement
<1>5. CASE n = 0 BY <1>2, <1>4, <1>5, StartIs
<1>6. CASE n # 0
  <2>1. n \in 1 .. Len(s) /\ n - 1 \in 0 .. Len(s) /\ ~(n <= n - 1) BY <1>1, <1>4, <1>6
  <2>2. IsThrough(f[n - 1], s, n - 1) BY <1>4, <2>1
  <2>3. f[n] = Take(f[n - 1], n, s[n]) BY <1>2, <2>1
  <2>4. IsThrough(f[n], s, n) BY <2>1, <2>2, <2>3, ThroughNext
  <2>5. QED BY <1>4, <2>4
<1>7. QED BY <1>5, <1>6

\* The documents that were collected, sorted.
LEMMA ByPathIs ==
    ASSUME TypeInv
    PROVE  /\ InPathOrder(ByPath(collected))
           /\ \A j \in DOMAIN collected : \E i \in 1 .. Len(ByPath(collected)) :
                 ByPath(collected)[i] = collected[j]
<1> DEFINE P == {input.path : input \in ToSet(collected)}
           paths == InOrder(P)
           s == ByPath(collected)
<1>1. /\ collected \in Seq(Inputs)
      /\ \A i \in DOMAIN collected : collected[i].file.form \in Forms(collected[i].path)
      /\ \A i, j \in DOMAIN collected : collected[i].path = collected[j].path => i = j
  BY DEF TypeInv, Types, ScanTypes, ScanInv
<1>2. \A i \in DOMAIN collected : collected[i] \in Inputs BY <1>1, LenProperties, ElementOfSeq
<1>3. \A input \in ToSet(collected) : /\ input \in Inputs /\ input.path \in Paths
                                      /\ input.file.form \in Forms(input.path)
  BY <1>1, <1>2 DEF ToSet, Inputs
<1>4. \A a, b \in ToSet(collected) : a.path = b.path => a = b BY <1>1 DEF ToSet
<1>5. P \in SUBSET (1 .. Len(DirectoryOf)) BY <1>3, PathsAre
<1>6. /\ paths \in Seq(P) /\ ToSet(paths) = P
      /\ \A i, j \in DOMAIN paths : i < j => paths[i] < paths[j]
  <2> HIDE DEF P
  <2>1. QED BY <1>5, PathsAre, InOrderHolds
<1>7. DOMAIN paths = 1 .. Len(paths) /\ Len(paths) \in Nat /\ \A i \in DOMAIN paths : paths[i] \in P
  <2> HIDE DEF P, paths
  <2>1. QED BY <1>6, LenProperties, ElementOfSeq
<1>8. s = [i \in DOMAIN paths |-> CHOOSE input \in ToSet(collected) : input.path = paths[i]]
  BY DEF ByPath
<1> HIDE DEF s, paths
<1>9. \A i \in DOMAIN paths : s[i] \in ToSet(collected) /\ s[i].path = paths[i]
  <2> SUFFICES ASSUME NEW i \in DOMAIN paths
               PROVE  s[i] \in ToSet(collected) /\ s[i].path = paths[i]
    OBVIOUS
  <2>1. \E input \in ToSet(collected) : input.path = paths[i] BY <1>7
  <2>2. QED BY <1>8, <2>1
<1>10. Len(s) = Len(paths) /\ DOMAIN s = 1 .. Len(paths)
  <2>1. s \in [1 .. Len(paths) -> Inputs] BY <1>3, <1>7, <1>8, <1>9
  <2>2. s \in Seq(Inputs) BY <1>7, <2>1, SeqDef
  <2>3. DOMAIN s = 1 .. Len(paths) /\ DOMAIN s = 1 .. Len(s) /\ Len(s) \in Nat
    BY <1>7, <1>8, <2>2, LenProperties
  <2>4. QED BY <1>7, <2>3, SameInterval
<1>11. InPathOrder(s)
  <2>1. \A i \in 1 .. Len(s) : s[i].path \in Nat /\ s[i].file.form \in Forms(s[i].path)
    BY <1>3, <1>7, <1>9, <1>10, PathsAre
  <2>2. \A i, j \in 1 .. Len(s) : i < j => s[i].path < s[j].path
    BY <1>6, <1>7, <1>9, <1>10
  <2>3. QED BY <1>7, <1>10, <2>1, <2>2 DEF InPathOrder
<1>12. ASSUME NEW j \in DOMAIN collected PROVE \E i \in 1 .. Len(s) : s[i] = collected[j]
  <2>1. collected[j] \in ToSet(collected) BY DEF ToSet
  <2>2. collected[j].path \in ToSet(paths) BY <1>6, <2>1
  <2>3. PICK i \in DOMAIN paths : paths[i] = collected[j].path BY <2>2 DEF ToSet
  <2>4. s[i] = collected[j] BY <1>4, <1>9, <2>1, <2>3
  <2>5. QED BY <1>7, <1>10, <2>4
<1>13. QED BY <1>11, <1>12 DEF s

-----------------------------------------------------------------------------
(* The evidence that is made of all. *)

\* LinkIsAccountedFor, ConflictIsAccountedFor and RecordIsAccountedFor, of any evidence.
Says(e, from, code) == Diagnostic(from, code) \in e.diagnostics
HasLink(e, l) ==
    IF l.source \in DOMAIN e.records /\ l.target \in DOMAIN e.records THEN l \in e.links
    ELSE Says(e, l.from, "unresolved_reference")
HasConflict(e, c) ==
    IF c.left \in DOMAIN e.records /\ c.right \in DOMAIN e.records THEN c \in e.conflicts
    ELSE Says(e, Rule(c.rule_id), "unresolved_conflict")
HasRecord(e, p, parsed) ==
    /\ parsed.node.id \in DOMAIN e.records
    /\ LET winner == e.records[parsed.node.id] IN
       \/ /\ winner = parsed.node \/ winner.kind = "change"
          /\ \A l \in parsed.links : HasLink(e, l)
          /\ \A c \in parsed.conflicts : HasConflict(e, c)
       \/ /\ winner.kind = "change" \/ winner.from[2] < p
          /\ Says(e, File(p), "duplicate_record")

LEMMA AllRecordsAre ==
    ASSUME NEW commits, NEW records
    PROVE  LET all == AllRecords(commits, records)
           IN  /\ \A c \in commits : c.id \in DOMAIN all /\ all[c.id] = CommitNode(c)
               /\ \A id \in DOMAIN records : /\ id \in DOMAIN all
                                             /\ all[id] = records[id] \/ all[id].kind = "change"
<1> DEFINE ids == {c.id : c \in commits}
           all == AllRecords(commits, records)
<1>1. all = [id \in ids \union DOMAIN records |->
                IF id \in ids THEN CommitNode([id |-> id]) ELSE records[id]]
  BY DEF AllRecords
<1>2. \A c \in commits : CommitNode([id |-> c.id]) = CommitNode(c) BY DEF CommitNode
<1>3. \A id : CommitNode([id |-> id]).kind = "change" BY DEF CommitNode, Node
<1>4. \A c \in commits : c.id \in ids OBVIOUS
<1> HIDE DEF all, ids
<1>5. \A c \in commits : c.id \in DOMAIN all /\ all[c.id] = CommitNode(c) BY <1>1, <1>2, <1>4
<1>6. \A id \in DOMAIN records : id \in DOMAIN all /\ (all[id] = records[id] \/ all[id].kind = "change")
  BY <1>1, <1>3
<1>7. QED BY <1>5, <1>6 DEF all

LEMMA PrepareSays ==
    ASSUME NEW commits, NEW r, NEW odd, NEW e, e = PrepareEvidence(commits, r, odd)
    PROVE  /\ \A c \in commits : /\ c.id \in DOMAIN e.records /\ e.records[c.id] = CommitNode(c)
                                 /\ \A l \in CommitLinks(c) : HasLink(e, l)
           /\ \A id \in DOMAIN r.records :
                 /\ id \in DOMAIN e.records
                 /\ e.records[id] = r.records[id] \/ e.records[id].kind = "change"
           /\ \A l \in r.links : HasLink(e, l)
           /\ \A c \in r.conflicts : HasConflict(e, c)
           /\ odd \subseteq e.diagnostics /\ r.diagnostics \subseteq e.diagnostics
<1> DEFINE records == AllRecords(commits, r.records)
           links == r.links \union UNION {CommitLinks(c) : c \in commits}
           resolved == {l \in links : {l.source, l.target} \subseteq DOMAIN records}
           conflicts == {c \in r.conflicts : {c.left, c.right} \subseteq DOMAIN records}
           un == Unresolved(links \ resolved, r.conflicts \ conflicts)
<1>1. e = Ingested(records, resolved, conflicts, odd \union r.diagnostics \union un)
  BY DEF PrepareEvidence
<1>2. /\ e.records = records /\ e.links = resolved /\ e.conflicts = conflicts
      /\ e.diagnostics = odd \union r.diagnostics \union un
  BY <1>1 DEF Ingested
<1>3. /\ \A l \in links \ resolved : Diagnostic(l.from, "unresolved_reference") \in un
      /\ \A c \in r.conflicts \ conflicts :
            Diagnostic(Rule(c.rule_id), "unresolved_conflict") \in un
  <2> DEFINE lost == links \ resolved
             open == r.conflicts \ conflicts
  <2> HIDE DEF lost, open
  <2>1. un = Unresolved(lost, open) BY DEF lost, open
  <2>2. /\ \A l \in lost : Diagnostic(l.from, "unresolved_reference") \in un
        /\ \A c \in open : Diagnostic(Rule(c.rule_id), "unresolved_conflict") \in un
    <3> HIDE DEF un
    <3>1. QED BY <2>1 DEF Unresolved
  <2>3. QED BY <2>2 DEF lost, open
<1> HIDE DEF un
<1>4. \A l \in links : HasLink(e, l)
  <2> SUFFICES ASSUME NEW l \in links PROVE HasLink(e, l)
    OBVIOUS
  <2>1. CASE l \in resolved BY <1>2, <2>1 DEF HasLink
  <2>2. CASE l \notin resolved
    <3>1. ~(l.source \in DOMAIN records /\ l.target \in DOMAIN records) BY <2>2
    <3>2. Diagnostic(l.from, "unresolved_reference") \in e.diagnostics BY <1>2, <1>3, <2>2
    <3> HIDE DEF links, resolved, records
    <3>3. QED BY <1>2, <3>1, <3>2 DEF HasLink, Says
  <2>3. QED BY <2>1, <2>2
<1>5. \A c \in r.conflicts : HasConflict(e, c)
  <2> SUFFICES ASSUME NEW c \in r.conflicts PROVE HasConflict(e, c)
    OBVIOUS
  <2>1. CASE c \in conflicts BY <1>2, <2>1 DEF HasConflict
  <2>2. CASE c \notin conflicts
    <3>1. ~(c.left \in DOMAIN records /\ c.right \in DOMAIN records) BY <2>2
    <3>2. Diagnostic(Rule(c.rule_id), "unresolved_conflict") \in e.diagnostics BY <1>2, <1>3, <2>2
    <3> HIDE DEF conflicts, records
    <3>3. QED BY <1>2, <3>1, <3>2 DEF HasConflict, Says
  <2>3. QED BY <2>1, <2>2
<1>6. \A c \in commits : \A l \in CommitLinks(c) : l \in links OBVIOUS
<1>7. \A l \in r.links : l \in links OBVIOUS
<1> HIDE DEF links, resolved, conflicts
<1>8. /\ \A c \in commits : c.id \in DOMAIN records /\ records[c.id] = CommitNode(c)
      /\ \A id \in DOMAIN r.records :
            /\ id \in DOMAIN records
            /\ records[id] = r.records[id] \/ records[id].kind = "change"
  BY AllRecordsAre
<1> HIDE DEF records
<1>9. QED BY <1>2, <1>4, <1>5, <1>6, <1>7, <1>8

\* A file that was taken in counts in the evidence, or there is a diagnostic.
LEMMA TakenCounts ==
    ASSUME NEW r, NEW p, NEW file, IsTakenIn(r, p, file), file.form \in Forms(p), NEW e,
           \A id \in DOMAIN r.records :
               /\ id \in DOMAIN e.records
               /\ e.records[id] = r.records[id] \/ e.records[id].kind = "change",
           \A l \in r.links : HasLink(e, l),
           \A c \in r.conflicts : HasConflict(e, c),
           r.diagnostics \subseteq e.diagnostics
    PROVE  LET parsed == Parse(p, file)
           IN  /\ file.form \notin {"large", "not_utf8"}
               /\ \/ Says(e, File(p), "document_limit") /\ parsed.outcome \in {"failed", "parsed"}
                  \/ parsed.outcome = "none"
                  \/ parsed.outcome = "failed" /\ Says(e, File(p), parsed.code)
                  \/ parsed.outcome = "parsed" /\ HasRecord(e, p, parsed)
<1> DEFINE parsed == Parse(p, file)
<1>1. file.form \notin {"large", "not_utf8"} BY DEF Forms
<1>2. parsed.outcome \in {"none", "failed", "parsed"}
  <2>1. CASE parsed = NoRationale BY <2>1 DEF NoRationale
  <2>2. ASSUME NEW code, parsed = Failed(code) PROVE parsed.outcome = "failed"
    BY <2>2 DEF Failed
  <2>3. ASSUME NEW node, NEW links, NEW conflicts, parsed = Parsed(node, links, conflicts)
        PROVE  parsed.outcome = "parsed"
    BY <2>3 DEF Parsed
  <2> HIDE DEF parsed
  <2>4. \/ parsed = NoRationale \/ \E code : parsed = Failed(code)
        \/ \E node, links, conflicts : parsed = Parsed(node, links, conflicts)
    BY ParseIs DEF parsed
  <2>5. QED BY <2>1, <2>2, <2>3, <2>4
<1>3. \A code : Diagnostic(File(p), code) \in r.diagnostics => Says(e, File(p), code) BY DEF Says
<1>4. \/ Diagnostic(File(p), "document_limit") \in r.diagnostics
      \/ parsed.outcome = "none"
      \/ parsed.outcome = "failed" /\ Diagnostic(File(p), parsed.code) \in r.diagnostics
      \/ /\ parsed.outcome = "parsed" /\ parsed.node.id \in DOMAIN r.records
         /\ r.records[parsed.node.id] = parsed.node
         /\ parsed.links \subseteq r.links /\ parsed.conflicts \subseteq r.conflicts
      \/ /\ parsed.outcome = "parsed" /\ parsed.node.id \in DOMAIN r.records
         /\ r.records[parsed.node.id].from[2] < p
         /\ Diagnostic(File(p), "duplicate_record") \in r.diagnostics
  BY DEF IsTakenIn
<1> HIDE DEF parsed
<1>5. ASSUME parsed.node.id \in DOMAIN r.records, r.records[parsed.node.id] = parsed.node,
             parsed.links \subseteq r.links, parsed.conflicts \subseteq r.conflicts
      PROVE  HasRecord(e, p, parsed)
  BY <1>5 DEF HasRecord
<1>6. ASSUME parsed.node.id \in DOMAIN r.records, r.records[parsed.node.id].from[2] < p,
             Diagnostic(File(p), "duplicate_record") \in r.diagnostics
      PROVE  HasRecord(e, p, parsed)
  BY <1>3, <1>6 DEF HasRecord
<1>7. /\ \/ Says(e, File(p), "document_limit") /\ parsed.outcome \in {"failed", "parsed"}
         \/ parsed.outcome = "none"
         \/ parsed.outcome = "failed" /\ Says(e, File(p), parsed.code)
         \/ parsed.outcome = "parsed" /\ HasRecord(e, p, parsed)
  BY <1>2, <1>3, <1>4, <1>5, <1>6
<1>8. QED BY <1>1, <1>7 DEF parsed

LEMMA PrepareAccounts ==
    ASSUME TypeInv, Prepare
    PROVE  EverySourceIsAccountedFor'
<1> DEFINE commits == {CommitEvidence(c) : c \in ToSet(history.commits)}
           s == ByPath(collected)
           r == Ingest(s)
<1>1. /\ pc = "scan" /\ pc' = "prepared" /\ entries = <<>> /\ directories = <<>>
      /\ evidence' = PrepareEvidence(commits, r, scanned)
      /\ UNCHANGED <<documents, quiet, history>>
  BY DEF Prepare, Stay, world
<1>2. /\ InPathOrder(s)
      /\ \A j \in DOMAIN collected : \E i \in 1 .. Len(s) : s[i] = collected[j]
  BY ByPathIs
<1> HIDE DEF s
<1>3. \A i \in 1 .. Len(s) : IsTakenIn(r, s[i].path, s[i].file) /\ s[i].file.form \in Forms(s[i].path)
  BY <1>2, IngestHolds DEF IsThrough, InPathOrder
<1> HIDE DEF r, commits
<1>4. \E e, t, odd, all : /\ e = evidence' /\ t = r /\ odd = scanned /\ all = commits
  OBVIOUS
<1>5. PICK e, t, odd, all : e = evidence' /\ t = r /\ odd = scanned /\ all = commits
  BY <1>4
<1>6. e = PrepareEvidence(all, t, odd) BY <1>1, <1>5
<1>7. /\ \A c \in all : /\ c.id \in DOMAIN e.records /\ e.records[c.id] = CommitNode(c)
                        /\ \A l \in CommitLinks(c) : HasLink(e, l)
      /\ \A id \in DOMAIN t.records :
            /\ id \in DOMAIN e.records
            /\ e.records[id] = t.records[id] \/ e.records[id].kind = "change"
      /\ \A l \in t.links : HasLink(e, l)
      /\ \A c \in t.conflicts : HasConflict(e, c)
      /\ odd \subseteq e.diagnostics /\ t.diagnostics \subseteq e.diagnostics
  BY <1>6, PrepareSays
<1>8. ASSUME NEW p \in quiet', documents'[p] # Absent
      PROVE  DocumentIsAccountedFor(p)'
  <2>1. IsRead(p)
    <3>1. ToSet(directories) = {} /\ ToSet(entries) = {} BY <1>1, EmptyHolds
    <3>2. p \in quiet /\ documents[p] # Absent BY <1>1, <1>8
    <3>3. QED BY <1>1, <3>1, <3>2 DEF TypeInv, ScanInv
  <2>2. CASE documents[p].form \in {"large", "not_utf8"}
    <3>1. Diagnostic(File(p), documents[p].form) \in odd BY <1>5, <2>1, <2>2 DEF IsRead
    <3>2. Diagnostic(File(p), documents'[p].form) \in evidence'.diagnostics
      BY <1>1, <1>5, <1>7, <3>1
    <3>3. QED BY <1>1, <2>2, <3>2 DEF DocumentIsAccountedFor, Told
  <2>3. CASE documents[p].form \notin {"large", "not_utf8"}
    <3>1. PICK j \in DOMAIN collected : collected[j] = [path |-> p, file |-> documents[p]]
      BY <2>1, <2>3 DEF IsRead
    <3>2. PICK i \in 1 .. Len(s) : s[i] = collected[j] BY <1>2
    <3>3. s[i].path = p /\ s[i].file = documents[p] BY <3>1, <3>2
    <3>4. \E file : file = documents[p] OBVIOUS
    <3>5. PICK file : file = documents[p] BY <3>4
    <3>6. IsTakenIn(t, p, file) /\ file.form \in Forms(p) BY <1>3, <1>5, <3>3, <3>5
    <3>7. file = documents'[p] /\ pc' = "prepared" BY <1>1, <3>5
    <3>8. /\ \A id \in DOMAIN t.records :
                /\ id \in DOMAIN evidence'.records
                /\ evidence'.records[id] = t.records[id] \/ evidence'.records[id].kind = "change"
          /\ \A l \in t.links : HasLink(evidence', l)
          /\ \A c \in t.conflicts : HasConflict(evidence', c)
          /\ t.diagnostics \subseteq evidence'.diagnostics
      BY <1>5, <1>7
    <3>9. PICK parsed : parsed = Parse(p, file) OBVIOUS
    <3>10. /\ file.form \notin {"large", "not_utf8"}
           /\ \/ Says(evidence', File(p), "document_limit") /\ parsed.outcome \in {"failed", "parsed"}
              \/ parsed.outcome = "none"
              \/ parsed.outcome = "failed" /\ Says(evidence', File(p), parsed.code)
              \/ parsed.outcome = "parsed" /\ HasRecord(evidence', p, parsed)
      BY <3>6, <3>8, <3>9, TakenCounts
    <3>11. HasRecord(evidence', p, parsed) => RecordIsAccountedFor(p, parsed)'
      BY DEF HasRecord, HasLink, HasConflict, Says,
             RecordIsAccountedFor, LinkIsAccountedFor, ConflictIsAccountedFor, IsRecord, Told
    <3>12. \A code : Says(evidence', File(p), code) => Told(File(p), code)' BY DEF Says, Told
    <3>13. DocumentIsAccountedFor(p)' =
               CASE parsed.outcome = "none" -> TRUE
                 [] parsed.outcome = "failed" ->
                       Told(File(p), parsed.code)' \/ Told(File(p), "document_limit")'
                 [] parsed.outcome = "parsed" ->
                       RecordIsAccountedFor(p, parsed)' \/ Told(File(p), "document_limit")'
      BY <3>7, <3>9, <3>10 DEF DocumentIsAccountedFor
    <3>14. QED BY <3>10, <3>11, <3>12, <3>13
  <2>4. QED BY <2>2, <2>3
<1>9. ASSUME NEW c \in ToSet(history'.commits)
      PROVE  /\ evidence'.records[Sha(c)] = CommitNode(CommitEvidence(c))
             /\ \A l \in CommitLinks(CommitEvidence(c)) : LinkIsAccountedFor(l)'
  <2>1. CommitEvidence(c) \in all BY <1>1, <1>5 DEF commits
  <2>2. CommitEvidence(c).id = Sha(c) BY DEF CommitEvidence
  <2>3. \A l : HasLink(evidence', l) => LinkIsAccountedFor(l)'
    BY DEF HasLink, Says, LinkIsAccountedFor, IsRecord, Told
  <2>4. QED BY <1>5, <1>7, <2>1, <2>2, <2>3
<1>10. QED BY <1>8, <1>9 DEF EverySourceIsAccountedFor

LEMMA SourcesStayAccountedFor ==
    TypeInv /\ EverySourceIsAccountedFor /\ [Next]_vars => EverySourceIsAccountedFor'
<1> SUFFICES ASSUME TypeInv, EverySourceIsAccountedFor, [Next]_vars
             PROVE  EverySourceIsAccountedFor'
  OBVIOUS
<1>1. CASE pc' # "prepared" BY <1>1 DEF EverySourceIsAccountedFor
<1>2. CASE Prepare BY <1>2, PrepareAccounts
<1>3. CASE /\ pc = "prepared" /\ UNCHANGED <<evidence, history>>
           /\ \A p \in quiet' : p \in quiet /\ documents'[p] = documents[p]
  BY <1>3 DEF EverySourceIsAccountedFor, DocumentIsAccountedFor, RecordIsAccountedFor,
              LinkIsAccountedFor, ConflictIsAccountedFor, IsRecord, Told
<1>4. CASE User /\ pc' = "prepared"
  <2>1. UNCHANGED <<pc, evidence, history>>
    BY <1>4 DEF User, EditDocument, EditSource, MoveHead, Edit
  <2>2. \A p \in quiet' : p \in quiet /\ documents'[p] = documents[p]
    <3>1. documents \in [Paths -> {Absent} \union UNION {Files[q] : q \in Paths}] /\ quiet \subseteq Paths
      BY DEF TypeInv, Types, WorldTypes, ScanTypes, Worktrees
    <3>2. \/ UNCHANGED <<documents, quiet>>
          \/ \E p \in Paths : \E file : /\ documents' = [documents EXCEPT ![p] = file]
                                          /\ quiet' = quiet \ {p}
      BY <1>4 DEF User, EditDocument, EditSource, MoveHead
    <3>3. QED BY <3>1, <3>2
  <2>3. QED BY <1>3, <1>4, <2>1, <2>2
<1>5. CASE UNCHANGED vars /\ pc' = "prepared"
  BY <1>3, <1>5 DEF vars, world, syncing
<1>6. CASE ~User /\ ~Prepare /\ Next
  <2>1. pc' # "prepared"
    BY <1>6 DEF Next, BeginSync, ListDirectory, FileIsGone, ReadDocument, BeginQuery, CheckStatus,
                ReadSource, CompareCommit, CommitIsCompared, WalkEnds, Report, Finish
  <2>2. QED BY <1>1, <2>1
<1>7. QED BY <1>1, <1>2, <1>4, <1>5, <1>6

\* Nothing is lost without a word, whatever the documents are, wherever they are,
\* and whatever the user does meanwhile: each document that was left alone while the
\* sync read the others, and each commit, gives its record and all that it names, or
\* a diagnostic says at which file, commit or rule it does not (prepare_local_sync,
\* collect_documents, DocumentIngestor::ingest, prepare_evidence).
THEOREM SourcesAreAccountedFor == Spec => []EverySourceIsAccountedFor
<1>1. Init => EverySourceIsAccountedFor BY DEF Init, EverySourceIsAccountedFor
<1>2. QED BY <1>1, TypesHold, SourcesStayAccountedFor, PTL DEF Spec

-----------------------------------------------------------------------------
(* Walks. *)

\* A list of all that is to be walked, in which nothing comes after a commit that it
\* leads to.
IsWalk(w, S) ==
    /\ w \in Seq(S) /\ \A c \in S : \E i \in DOMAIN w : w[i] = c
    /\ \A i, j \in DOMAIN w : i < j => w[i] \notin Reached[<<w[j], FALSE>>]

\* What Orders is made of, by a function that knows those of less.
OrdersFrom(f, left) ==
    IF left = {} THEN {<<>>}
    ELSE UNION {{<<c>> \o w : w \in f[left \ {c}]} : c \in NextInWalk(left)}

Size == [L \in SUBSET Commits |-> Cardinality(L)]
Lessened == [L \in SUBSET Commits |-> {L \ {c} : c \in L}]

LEMMA SetsDescend == Descends(SUBSET Commits, Cardinality(Commits), Size, Lessened)
<1>1. IsFiniteSet(Commits) /\ Cardinality(Commits) \in Nat BY GitAssumption, CommitsAreNumbered
<1>2. ASSUME NEW L \in SUBSET Commits
      PROVE  /\ IsFiniteSet(L) /\ Cardinality(L) \in Nat
             /\ Cardinality(L) <= Cardinality(Commits)
  BY <1>1, FS_Subset, FS_CardinalityType
<1>3. Size \in [SUBSET Commits -> 0 .. Cardinality(Commits)]
  BY <1>1, <1>2 DEF Size
<1>4. ASSUME NEW L \in SUBSET Commits, NEW c \in L
      PROVE  L \ {c} \in SUBSET Commits /\ Size[L \ {c}] < Size[L]
  <2>1. Cardinality(L \ {c}) = Cardinality(L) - 1 BY <1>2, FS_RemoveElement
  <2>2. QED BY <1>2, <2>1 DEF Size
<1>5. \A L \in SUBSET Commits : \A M \in Lessened[L] : M \in SUBSET Commits /\ Size[M] < Size[L]
  BY <1>4 DEF Lessened
<1>6. QED BY <1>1, <1>3, <1>5 DEF Descends

LEMMA OrdersAre == \A L \in SUBSET Commits : Orders[L] = OrdersFrom(Orders, L)
<1> DEFINE Part(k) == {L \in SUBSET Commits : Size[L] < k}
           Some(k) == \E f : f = [L \in Part(k) |-> OrdersFrom(f, L)]
           T == {k \in Nat : ~Some(k)}
<1>1. /\ Cardinality(Commits) \in Nat
      /\ \A L \in SUBSET Commits : Size[L] \in Nat /\ Size[L] <= Cardinality(Commits)
      /\ \A L \in SUBSET Commits : \A c \in L : L \ {c} \in SUBSET Commits /\ Size[L \ {c}] < Size[L]
  <2>1. \A L \in SUBSET Commits : \A c \in L : L \ {c} \in Lessened[L] BY DEF Lessened
  <2>2. /\ Size \in [SUBSET Commits -> 0 .. Cardinality(Commits)]
        /\ \A L \in SUBSET Commits : \A M \in Lessened[L] : M \in SUBSET Commits /\ Size[M] < Size[L]
        /\ Cardinality(Commits) \in Nat
    BY SetsDescend DEF Descends
  <2>3. \A L \in SUBSET Commits : Size[L] \in 0 .. Cardinality(Commits) BY <2>2
  <2>4. QED BY <2>1, <2>2, <2>3
<1>2. Some(0)
  <2>1. Part(0) = {} BY <1>1
  <2> DEFINE f == [x \in {} |-> x]
  <2>2. f = [x \in {} |-> OrdersFrom(f, x)] OBVIOUS
  <2>3. QED BY <2>1, <2>2
<1>3. ASSUME NEW k \in Nat, Some(k) PROVE Some(k + 1)
  <2>1. PICK f : f = [L \in Part(k) |-> OrdersFrom(f, L)] BY <1>3
  <2> DEFINE g == [L \in Part(k + 1) |-> IF L \in Part(k) THEN f[L] ELSE OrdersFrom(f, L)]
  <2>2. \A L \in Part(k + 1) : \A c \in L : L \ {c} \in Part(k) /\ L \ {c} \in Part(k + 1)
    <3> SUFFICES ASSUME NEW L \in Part(k + 1), NEW c \in L
                 PROVE  /\ L \ {c} \in SUBSET Commits
                        /\ Size[L \ {c}] < k /\ Size[L \ {c}] < k + 1
      OBVIOUS
    <3>1. L \in SUBSET Commits /\ Size[L] \in Nat /\ Size[L] < k + 1 BY <1>1
    <3>2. L \ {c} \in SUBSET Commits /\ Size[L \ {c}] \in Nat /\ Size[L \ {c}] < Size[L]
      BY <1>1, <3>1
    <3>3. QED BY <3>1, <3>2
  <2> HIDE DEF Part
  <2>3. \A L \in Part(k) : f[L] = OrdersFrom(f, L) BY <2>1
  <2>4. \A L \in Part(k + 1) : g[L] = OrdersFrom(f, L) BY <2>3
  <2>5. \A L \in Part(k) : L \in Part(k + 1) => g[L] = f[L] OBVIOUS
  <2> HIDE DEF g
  <2>6. ASSUME NEW L \in Part(k + 1) PROVE OrdersFrom(g, L) = OrdersFrom(f, L)
    <3>1. \A c \in NextInWalk(L) : g[L \ {c}] = f[L \ {c}] BY <2>2, <2>5 DEF NextInWalk
    <3>2. QED BY <3>1 DEF OrdersFrom
  <2>7. g = [L \in Part(k + 1) |-> g[L]] BY DEF g
  <2>8. g = [L \in Part(k + 1) |-> OrdersFrom(g, L)] BY <2>4, <2>6, <2>7
  <2>9. QED BY <2>8
<1>4. \A k \in Nat : Some(k)
  <2> SUFFICES ASSUME NEW j \in T PROVE FALSE
    OBVIOUS
  <2> HIDE DEF Some
  <2>1. T \in SUBSET Nat OBVIOUS
  <2>2. PICK k \in T : \A m \in T : k <= m
    <3> HIDE DEF T
    <3>1. QED BY <2>1, LeastElement
  <2>3. k # 0 BY <1>2
  <2>4. k - 1 \in Nat /\ ~(k <= k - 1) /\ (k - 1) + 1 = k BY <2>3
  <2>5. Some(k - 1) BY <2>2, <2>4
  <2>6. Some((k - 1) + 1) BY <1>3, <2>4, <2>5
  <2>7. QED BY <2>4, <2>6
<1>5. Part(Cardinality(Commits) + 1) = SUBSET Commits BY <1>1
<1>6. \E f : f = [L \in SUBSET Commits |-> OrdersFrom(f, L)]
  <2>1. Cardinality(Commits) + 1 \in Nat BY <1>1
  <2>2. Some(Cardinality(Commits) + 1)
    <3> HIDE DEF Some
    <3>1. QED BY <1>4, <2>1
  <2>3. QED BY <1>5, <2>2
<1>7. Orders = CHOOSE f : f = [L \in SUBSET Commits |-> OrdersFrom(f, L)]
  BY DEF Orders, OrdersFrom
<1>8. Orders = [L \in SUBSET Commits |-> OrdersFrom(Orders, L)] BY <1>6, <1>7
<1>9. QED BY <1>8

LEMMA OneBefore ==
    ASSUME NEW L, NEW c \in L, NEW w, IsWalk(w, L \ {c}),
           \A d \in L \ {c} : c \notin Reached[<<d, FALSE>>]
    PROVE  IsWalk(<<c>> \o w, L)
<1> DEFINE v == <<c>> \o w
<1>1. w \in Seq(L) /\ \A i \in DOMAIN w : w[i] \in L \ {c}
  <2>1. w \in Seq(L \ {c}) BY DEF IsWalk
  <2>2. \A i \in DOMAIN w : w[i] \in L \ {c} BY <2>1, ElementOfSeq, LenProperties
  <2>3. Len(w) \in Nat /\ DOMAIN w = 1 .. Len(w) /\ w \in [1 .. Len(w) -> L \ {c}]
    BY <2>1, LenProperties
  <2>4. w \in [1 .. Len(w) -> L] BY <2>2, <2>3
  <2>5. QED BY <2>2, <2>3, <2>4, SeqDef
<1>2. /\ v \in Seq(L) /\ Len(v) = Len(w) + 1 /\ v[1] = c
      /\ \A i \in 1 .. Len(w) : v[i + 1] = w[i]
      /\ Len(w) \in Nat /\ DOMAIN w = 1 .. Len(w) /\ DOMAIN v = 1 .. Len(v)
  <2>1. <<c>> \in Seq(L) /\ Len(<<c>>) = 1 /\ <<c>>[1] = c OBVIOUS
  <2>2. v \in Seq(L) /\ Len(v) = Len(<<c>>) + Len(w)
        /\ \A i \in 1 .. Len(v) : v[i] = IF i <= Len(<<c>>) THEN <<c>>[i] ELSE w[i - Len(<<c>>)]
    BY <1>1, <2>1, ConcatProperties
  <2>3. Len(w) \in Nat /\ DOMAIN w = 1 .. Len(w) /\ DOMAIN v = 1 .. Len(v)
    BY <1>1, <2>2, LenProperties
  <2> HIDE DEF v
  <2>4. Len(v) = Len(w) + 1 BY <2>1, <2>2, <2>3
  <2>5. v[1] = c
    <3>1. 1 \in 1 .. Len(v) BY <2>3, <2>4
    <3>2. QED BY <2>1, <2>2, <3>1
  <2>6. ASSUME NEW i \in 1 .. Len(w) PROVE v[i + 1] = w[i]
    <3>1. i + 1 \in 1 .. Len(v) /\ ~(i + 1 <= 1) /\ (i + 1) - 1 = i BY <2>3, <2>4
    <3>2. QED BY <2>1, <2>2, <3>1
  <2>7. QED BY <2>2, <2>3, <2>4, <2>5, <2>6
<1> HIDE DEF v
<1>3. /\ 1 \in 1 .. Len(v) /\ \A i \in 1 .. Len(w) : i + 1 \in 1 .. Len(v)
      /\ \A i \in 1 .. Len(v) : i = 1 \/ \E k \in 1 .. Len(w) : i = k + 1
  <2>1. ASSUME NEW i \in 1 .. Len(v), i # 1 PROVE \E k \in 1 .. Len(w) : i = k + 1
    <3>1. i - 1 \in 1 .. Len(w) /\ i = (i - 1) + 1 BY <1>2, <2>1
    <3>2. QED BY <3>1
  <2>2. QED BY <1>2, <2>1
<1>4. \A d \in L : \E i \in DOMAIN v : v[i] = d
  <2>1. \A d \in L \ {c} : \E i \in DOMAIN w : w[i] = d BY DEF IsWalk
  <2>2. QED BY <1>2, <1>3, <2>1
<1>5. ASSUME NEW i \in DOMAIN v, NEW j \in DOMAIN v, i < j
      PROVE  v[i] \notin Reached[<<v[j], FALSE>>]
  <2>1. j # 1 /\ i \in Nat /\ j \in Nat BY <1>2, <1>5
  <2>2. PICK k \in 1 .. Len(w) : j = k + 1 BY <1>2, <1>3, <2>1
  <2>3. v[j] = w[k] /\ w[k] \in L \ {c} BY <1>1, <1>2, <2>2
  <2>4. CASE i = 1 BY <1>2, <2>3, <2>4
  <2>5. CASE i # 1
    <3>1. PICK m \in 1 .. Len(w) : i = m + 1 BY <1>2, <1>3, <2>5
    <3>2. m < k BY <1>2, <1>5, <2>2, <3>1
    <3>3. v[i] = w[m] BY <1>2, <3>1
    <3>4. QED BY <1>2, <2>3, <3>2, <3>3 DEF IsWalk
  <2>6. QED BY <2>4, <2>5
<1>6. QED BY <1>2, <1>4, <1>5 DEF IsWalk, v

LEMMA OrdersAreWalks == \A L \in SUBSET Commits : \A w \in Orders[L] : IsWalk(w, L)
<1> DEFINE S == {L \in SUBSET Commits : \E w \in Orders[L] : ~IsWalk(w, L)}
<1> SUFFICES ASSUME S # {} PROVE FALSE
  OBVIOUS
<1>1. S \in SUBSET (SUBSET Commits) OBVIOUS
<1>2. PICK L \in S : \A M \in Lessened[L] : M \in SUBSET Commits /\ M \notin S
  <2> HIDE DEF S
  <2>1. QED BY <1>1, SetsDescend, LowestExists
<1>3. L \in SUBSET Commits OBVIOUS
<1>4. PICK w \in Orders[L] : ~IsWalk(w, L) OBVIOUS
<1>5. w \in OrdersFrom(Orders, L) BY <1>3, <1>4, OrdersAre
<1>6. CASE L = {}
  <2>1. w = <<>> BY <1>5, <1>6 DEF OrdersFrom
  <2>2. IsWalk(<<>>, L) BY <1>6 DEF IsWalk
  <2>3. QED BY <1>4, <2>1, <2>2
<1>7. CASE L # {}
  <2>1. PICK c \in NextInWalk(L) : \E u \in Orders[L \ {c}] : w = <<c>> \o u
    BY <1>5, <1>7 DEF OrdersFrom
  <2>2. PICK u \in Orders[L \ {c}] : w = <<c>> \o u BY <2>1
  <2>3. c \in L /\ \A d \in L \ {c} : c \notin Reached[<<d, FALSE>>] BY <2>1 DEF NextInWalk
  <2>4. L \ {c} \in Lessened[L] BY <1>3, <2>3 DEF Lessened
  <2>5. IsWalk(u, L \ {c}) BY <1>2, <2>2, <2>4
  <2>6. QED BY <1>4, <2>2, <2>3, <2>5, OneBefore
<1>8. QED BY <1>6, <1>7

LEMMA WalksAre ==
    ASSUME NEW c \in Commits, NEW b \in BOOLEAN, NEW w \in Walks(c, b)
    PROVE  IsWalk(w, Reached[<<c, b>>])
<1>1. <<c, b>> \in Commits \X BOOLEAN OBVIOUS
<1>2. Reached[<<c, b>>] \in SUBSET Commits BY <1>1, ReachedAreCommits
<1>3. QED BY <1>2, OrdersAreWalks DEF Walks

-----------------------------------------------------------------------------
(* Complete histories. *)

LEMMA WalkBegins ==
    ASSUME NEW c \in Commits, NEW w \in Walks(c, FALSE)
    PROVE  /\ w \in Seq(Reached[<<c, FALSE>>]) /\ ToSet(w) = Reached[<<c, FALSE>>]
           /\ w[1] = c
<1> DEFINE S == Reached[<<c, FALSE>>]
<1>1. /\ w \in Seq(S) /\ \A d \in S : \E i \in DOMAIN w : w[i] = d
      /\ \A i, j \in DOMAIN w : i < j => w[i] \notin Reached[<<w[j], FALSE>>]
  BY WalksAre DEF IsWalk
<1>2. c \in S
  <2>1. <<c, FALSE>> \in Commits \X BOOLEAN OBVIOUS
  <2>2. QED BY <2>1, ReachedIs DEF Above
<1> HIDE DEF S
<1>3. Len(w) \in Nat /\ DOMAIN w = 1 .. Len(w) /\ \A i \in DOMAIN w : w[i] \in S
  BY <1>1, LenProperties, ElementOfSeq
<1>4. ToSet(w) = S BY <1>1, <1>3 DEF ToSet
<1>5. PICK i \in DOMAIN w : w[i] = c BY <1>1, <1>2
<1>6. i = 1
  <2> SUFFICES ASSUME i # 1 PROVE FALSE
    OBVIOUS
  <2>1. 1 \in DOMAIN w /\ 1 < i BY <1>3, <1>5
  <2>2. w[1] \notin S BY <1>1, <1>5, <2>1 DEF S
  <2>3. QED BY <1>3, <2>1, <2>2
<1>7. QED BY <1>1, <1>4, <1>5, <1>6 DEF S

HistoryIsWhole(h) == h.complete => ToSet(h.commits) = Reached[<<h.commits[1], FALSE>>]

LEMMA WholeHistory ==
    ASSUME NEW c \in Commits, NEW b \in BOOLEAN, NEW w \in Walks(c, b)
    PROVE  HistoryIsWhole(CommitHistory(w, b))
<1> SUFFICES ASSUME CommitHistory(w, b).complete
             PROVE  LET h == CommitHistory(w, b)
                    IN  ToSet(h.commits) = Reached[<<h.commits[1], FALSE>>]
  BY DEF HistoryIsWhole
<1>1. b = FALSE /\ Len(w) <= HistoryLimit BY DEF CommitHistory
<1> DEFINE S == Reached[<<c, FALSE>>]
<1>2. w \in Seq(S) /\ ToSet(w) = S /\ w[1] = c BY <1>1, WalkBegins
<1>3. Len(w) \in Nat /\ HistoryLimit \in Nat BY <1>2, LenProperties, GitAssumption
<1>4. CommitHistory(w, b).commits = SubSeq(w, 1, Len(w))
  BY <1>1, <1>3 DEF CommitHistory
<1> HIDE DEF S
<1>5. SubSeq(w, 1, Len(w)) = w BY <1>2, <1>3
<1>6. QED BY <1>2, <1>4, <1>5 DEF S

-----------------------------------------------------------------------------
(* The versions of a file. *)

Itself == [v \in Versions |-> v]
VersionCommit == [v \in Versions |-> v[1]]
VersionsBefore == [v \in Versions |-> FormerVersions(v, FALSE)]

LEMMA ParentsAre ==
    ASSUME NEW c \in Commits
    PROVE  /\ Parents[c] \in Seq(Commits) /\ Len(Parents[c]) \in Nat
           /\ DOMAIN Parents[c] = 1 .. Len(Parents[c])
           /\ \A i \in DOMAIN Parents[c] : Parents[c][i] \in Commits
           /\ \A d \in ToSet(Parents[c]) : d \in Commits /\ d < c
           /\ ToSet(Parents[c]) \subseteq Reached[<<c, FALSE>>]
<1>1. Parents[c] \in Seq(Commits) BY GitAssumption
<1>2. /\ Len(Parents[c]) \in Nat /\ DOMAIN Parents[c] = 1 .. Len(Parents[c])
      /\ \A i \in DOMAIN Parents[c] : Parents[c][i] \in Commits
  BY <1>1, LenProperties, ElementOfSeq
<1>3. \A d \in ToSet(Parents[c]) : d \in Commits /\ d < c
  <2>1. ParentsSeen(c, FALSE) = Parents[c] BY DEF ParentsSeen
  <2>2. QED BY <2>1, EarlierParents
<1>4. Reached[<<c, FALSE>>] = Above(Reached, <<c, FALSE>>) BY ReachedIs
<1>5. ASSUME NEW d \in ToSet(Parents[c]) PROVE d \in Reached[<<c, FALSE>>]
  <2>1. d \in Reached[<<d, FALSE>>]
    <3>1. Reached[<<d, FALSE>>] = Above(Reached, <<d, FALSE>>) BY <1>3, ReachedIs
    <3>2. QED BY <3>1 DEF Above
  <2>2. QED BY <1>4, <2>1 DEF Above, ParentsSeen
<1>6. QED BY <1>1, <1>2, <1>3, <1>5

LEMMA FormerAreEarlier ==
    ASSUME NEW v \in Versions, NEW b \in BOOLEAN, NEW w \in FormerVersions(v, b)
    PROVE  /\ w \in Versions /\ w[1] \in ToSet(ParentsSeen(v[1], b)) /\ w[1] < v[1]
           /\ w \in FormerVersions(v, FALSE)
<1>1. v[1] \in Commits BY DEF Versions
<1>2. w \in ToSet(ParentsSeen(v[1], b)) \X (1 .. Names) BY DEF FormerVersions
<1>3. w[1] \in Commits /\ w[1] < v[1] BY <1>1, <1>2, EarlierParents
<1>4. w \in Versions BY <1>2, <1>3 DEF Versions
<1>5. ToSet(ParentsSeen(v[1], b)) \subseteq ToSet(ParentsSeen(v[1], FALSE))
  BY EmptyHolds DEF ParentsSeen
<1>6. w \in FormerVersions(v, FALSE) BY <1>2, <1>5 DEF FormerVersions
<1>7. QED BY <1>2, <1>3, <1>4, <1>6

LEMMA VersionsDescend == Descends(Versions, Cardinality(Commits), VersionCommit, VersionsBefore)
<1>1. VersionCommit \in [Versions -> 0 .. Cardinality(Commits)] /\ Cardinality(Commits) \in Nat
  BY CommitsAreNumbered DEF Versions, VersionCommit
<1>2. ASSUME NEW v \in Versions, NEW w \in VersionsBefore[v]
      PROVE  w \in Versions /\ VersionCommit[w] < VersionCommit[v]
  <2>1. w \in FormerVersions(v, FALSE) BY DEF VersionsBefore
  <2>2. w \in Versions /\ w[1] < v[1] BY <2>1, FormerAreEarlier
  <2>3. QED BY <2>2 DEF VersionCommit
<1>3. QED BY <1>1, <1>2 DEF Descends

LEMMA LineageGathers == Gathers(Itself, VersionsBefore, Lineage, Versions)
<1> DEFINE From(f, v) == {v} \union UNION {f[w] : w \in FormerVersions(v, FALSE)}
<1>1. ASSUME NEW f, NEW v \in Versions PROVE Gathered(Itself, VersionsBefore, f, v) = From(f, v)
  BY DEF Gathered, Itself, VersionsBefore
<1>2. Lineage = CHOOSE f : f = [v \in Versions |-> From(f, v)] BY DEF Lineage, Versions
<1>3. \E f : Gathers(Itself, VersionsBefore, f, Versions) BY VersionsDescend, GathererExists
<1> HIDE DEF From
<1>4. \A f : Gathers(Itself, VersionsBefore, f, Versions) <=> f = [v \in Versions |-> From(f, v)]
  BY <1>1 DEF Gathers
<1>5. \E f : f = [v \in Versions |-> From(f, v)] BY <1>3, <1>4
<1>6. QED BY <1>2, <1>4, <1>5

LEMMA LineageIs ==
    ASSUME NEW v \in Versions
    PROVE  /\ Lineage[v] \subseteq Versions
           /\ \A z \in Lineage[v] : z = v \/ \E u \in Lineage[v] : z \in FormerVersions(u, FALSE)
<1>1. \A x \in Versions : Itself[x] = x BY DEF Itself
<1>2. \A x \in Versions : Lineage[x] \subseteq Versions
  BY <1>1, VersionsDescend, LineageGathers, GatheredWithin
<1>3. ASSUME NEW z \in Lineage[v], z # v PROVE \E u \in Lineage[v] : z \in FormerVersions(u, FALSE)
  <2>1. PICK u \in Versions : Itself[u] \in Lineage[v] /\ \E y \in VersionsBefore[u] : z = Itself[y]
    BY <1>1, <1>3, VersionsDescend, LineageGathers, GatheredFrom
  <2>2. PICK y \in VersionsBefore[u] : z = Itself[y] BY <2>1
  <2>3. y \in Versions BY VersionsDescend, <2>1, <2>2 DEF Descends
  <2>4. QED BY <1>1, <2>1, <2>2, <2>3 DEF VersionsBefore
<1>4. QED BY <1>2, <1>3

\* The versions of a file are of commits that lead to it.
LEMMA LineageIsReached ==
    \A v \in Versions : \A z \in Lineage[v] : z[1] \in Reached[<<v[1], FALSE>>]
<1> DEFINE S == {v \in Versions : \E z \in Lineage[v] : z[1] \notin Reached[<<v[1], FALSE>>]}
<1> SUFFICES ASSUME S # {} PROVE FALSE
  OBVIOUS
<1>1. S \in SUBSET Versions OBVIOUS
<1>2. PICK v \in S : \A w \in VersionsBefore[v] : w \in Versions /\ w \notin S
  <2> HIDE DEF S
  <2>1. QED BY <1>1, VersionsDescend, LowestExists
<1>3. v \in Versions /\ v[1] \in Commits /\ <<v[1], FALSE>> \in Commits \X BOOLEAN BY DEF Versions
<1>4. PICK z \in Lineage[v] : z[1] \notin Reached[<<v[1], FALSE>>] OBVIOUS
<1>5. Reached[<<v[1], FALSE>>] = Above(Reached, <<v[1], FALSE>>) BY <1>3, ReachedIs
<1>6. Lineage[v] = Gathered(Itself, VersionsBefore, Lineage, v)
  BY <1>3, LineageGathers DEF Gathers
<1>7. z # v BY <1>4, <1>5 DEF Above
<1>8. PICK w \in VersionsBefore[v] : z \in Lineage[w]
  <2>1. Itself[v] = v BY <1>3 DEF Itself
  <2>2. QED BY <1>4, <1>6, <1>7, <2>1 DEF Gathered
<1>9. z[1] \in Reached[<<w[1], FALSE>>] BY <1>2, <1>8
<1>10. w[1] \in ToSet(ParentsSeen(v[1], FALSE)) BY <1>3, <1>8, FormerAreEarlier DEF VersionsBefore
<1>11. QED BY <1>4, <1>5, <1>9, <1>10 DEF Above

LEMMA LineageExists ==
    ASSUME NEW v \in Versions, Trees[v[1]][v[2]] # Absent, NEW z \in Lineage[v]
    PROVE  Trees[z[1]][z[2]] # Absent
<1>1. CASE z = v BY <1>1
<1>2. CASE z # v
  <2>1. PICK u \in Lineage[v] : z \in FormerVersions(u, FALSE) BY <1>2, LineageIs
  <2>2. CASE Trees[z[1]][z[2]] # Absent BY <2>2
  <2>3. CASE /\ RenamedFrom(Trees[z[1]], Trees[u[1]], u[2]) # {}
             /\ z[2] = Origin(Trees[z[1]], Trees[u[1]], u[2])
    BY <2>3 DEF Origin, RenamedFrom
  <2>4. QED BY <2>1, <2>2, <2>3 DEF FormerVersions, Text
<1>3. QED BY <1>1, <1>2

-----------------------------------------------------------------------------
(* Comparisons. *)

\* What the i-th comparison of a commit compares it with.
Before(c, b, i) ==
    IF ParentsSeen(c, b) = <<>> THEN NoFiles ELSE Trees[ParentsSeen(c, b)[i]]

AllDeltas == [old : 1 .. Names, new : 1 .. Names,
              status : {"renamed", "added", "modified", "deleted"}]

LEMMA ComparedIs ==
    ASSUME NEW c \in Commits, NEW b \in BOOLEAN
    PROVE  /\ Len(Compared(c, b)) \in Nat
           /\ Len(Compared(c, b)) = IF ParentsSeen(c, b) = <<>> THEN 1 ELSE Len(ParentsSeen(c, b))
           /\ \A i \in 1 .. Len(Compared(c, b)) : Compared(c, b)[i] = Deltas(Before(c, b, i), Trees[c])
<1> DEFINE parents == ParentsSeen(c, b)
<1>1. parents \in Seq(Commits) BY ParentsAre, EmptySeq DEF ParentsSeen
<1>2. CASE parents = <<>>
  <2> DEFINE only == Deltas(NoFiles, Trees[c])
  <2>1. Compared(c, b) = <<only>> BY <1>2 DEF Compared
  <2>2. \A i : Before(c, b, i) = NoFiles BY <1>2 DEF Before
  <2> HIDE DEF only
  <2>3. Len(<<only>>) = 1 /\ <<only>>[1] = only OBVIOUS
  <2>4. QED BY <1>2, <2>1, <2>2, <2>3 DEF only
<1>3. CASE parents # <<>>
  <2>1. Compared(c, b) = [i \in DOMAIN parents |-> Deltas(Trees[parents[i]], Trees[c])]
    BY <1>3 DEF Compared
  <2>2. \A i : Before(c, b, i) = Trees[parents[i]] BY <1>3 DEF Before
  <2> HIDE DEF parents
  <2>3. Len(parents) \in Nat /\ DOMAIN parents = 1 .. Len(parents) BY <1>1, LenProperties
  <2> DEFINE D(i) == Deltas(Trees[parents[i]], Trees[c])
             s == [i \in 1 .. Len(parents) |-> D(i)]
  <2>4. Compared(c, b) = s BY <2>1, <2>3
  <2> HIDE DEF D
  <2>5. Len(s) = Len(parents) BY <2>3
  <2>6. \A i \in 1 .. Len(parents) : s[i] = D(i) OBVIOUS
  <2> HIDE DEF s
  <2>7. QED BY <1>3, <2>2, <2>3, <2>4, <2>5, <2>6 DEF D, parents
<1>4. QED BY <1>2, <1>3

LEMMA DeltasAre == \A old, new : Deltas(old, new) \subseteq AllDeltas
<1> SUFFICES ASSUME NEW old, NEW new, NEW d \in Deltas(old, new) PROVE d \in AllDeltas
  OBVIOUS
<1>1. ASSUME NEW n, RenamedFrom(old, new, n) # {} PROVE Origin(old, new, n) \in 1 .. Names
  BY <1>1 DEF Origin, RenamedFrom
<1>2. \/ \E n \in 1 .. Names : /\ RenamedFrom(old, new, n) # {}
                              /\ d = Delta(Origin(old, new, n), n, "renamed")
      \/ \E n \in 1 .. Names, status \in {"added", "modified", "deleted"} : d = Delta(n, n, status)
  BY DEF Deltas
<1>3. QED BY <1>1, <1>2 DEF Delta, AllDeltas

\* A file that is there and differs has a delta with its name; if it was renamed, one
\* that tells its former name.
LEMMA DeltaTells ==
    ASSUME NEW old, NEW new, NEW n \in 1 .. Names, new[n] # Absent
    PROVE  /\ old[n] # new[n] => \E d \in Deltas(old, new) : d.new = n
           /\ RenamedFrom(old, new, n) # {} =>
                 \E d \in Deltas(old, new) : /\ d.old = Origin(old, new, n) /\ d.new = n
                                             /\ d.status = "renamed"
<1> DEFINE changed == {m \in 1 .. Names : old[m] # new[m]}
           renamed == {m \in changed : RenamedFrom(old, new, m) # {}}
           gone == {m \in changed : new[m] = Absent}
           added == {m \in changed \ renamed : old[m] = Absent}
<1>1. /\ \A m \in renamed : Delta(Origin(old, new, m), m, "renamed") \in Deltas(old, new)
      /\ \A m \in added : Delta(m, m, "added") \in Deltas(old, new)
      /\ \A m \in changed \ (renamed \union added \union gone) :
            Delta(m, m, "modified") \in Deltas(old, new)
  BY DEF Deltas
<1>2. ASSUME RenamedFrom(old, new, n) # {} PROVE n \in renamed
  BY <1>2 DEF RenamedFrom
<1>3. ASSUME old[n] # new[n]
      PROVE  n \in renamed \/ n \in added \/ n \in changed \ (renamed \union added \union gone)
  BY <1>3
<1> HIDE DEF changed, renamed, gone, added
<1>4. \A o, s : Delta(o, n, s).old = o /\ Delta(o, n, s).new = n /\ Delta(o, n, s).status = s
  BY DEF Delta
<1>5. QED BY <1>1, <1>2, <1>3, <1>4

LEMMA LastIsOne ==
    ASSUME NEW S \in SUBSET AllDeltas, S # {}
    PROVE  LastOf(S) \in S
<1> DEFINE T == {d.new : d \in S}
<1>1. T \in SUBSET (1 .. Names) /\ T # {} BY DEF AllDeltas
<1>2. Names \in Nat BY GitAssumption
<1>3. PICK n \in T : \A m \in T : m <= n
  <2> HIDE DEF T
  <2>1. QED BY <1>1, <1>2, GreatestElement
<1>4. PICK d \in S : n = d.new BY <1>3
<1>5. \A e \in S : e.new <= d.new BY <1>3, <1>4
<1>6. QED BY <1>5 DEF LastOf

-----------------------------------------------------------------------------
(* The walk for the history of a path. *)

MaybeName == (1 .. Names) \union {Absent}
PathChanges == [commit : Commits, path : MaybeName, renamed_from : MaybeName, deleted : BOOLEAN]
Trails ==
    [left : Seq(Commits), compared : Nat,
     matched_path : MaybeName, renamed_from : MaybeName, deleted : BOOLEAN,
     walked : Nat, known : SUBSET (1 .. Names), changes : Seq(PathChanges), complete : BOOLEAN]

\* None of what is left comes after a commit that it leads to.
Ordered(left) ==
    \A i, j \in DOMAIN left : i < j => left[i] \notin Reached[<<left[j], FALSE>>]

\* ChangesOf, of one version.
Changed(v) ==
    Parents[v[1]] = <<>> \/ \E d \in ToSet(Parents[v[1]]) : Trees[d][v[2]] # Trees[v[1]][v[2]]

IsToldOf(changes, c) == \E i \in DOMAIN changes : changes[i].commit = c

\* The commit of a version has been visited: its former names are known.
Visited(t, v) ==
    /\ \A z \in FormerVersions(v, FALSE) : z[2] \in t.known
    /\ Changed(v) => IsToldOf(t.changes, v[1])

\* The commit of a version is being visited.
Looked(t, v) ==
    \A i \in 1 .. t.compared :
        LET old == Before(v[1], FALSE, i)
        IN  /\ RenamedFrom(old, Trees[v[1]], v[2]) # {} => Origin(old, Trees[v[1]], v[2]) \in t.known
            /\ old[v[2]] # Trees[v[1]][v[2]] => t.matched_path # Absent

\* A walk for a name that lacks nothing so far.
Thorough(t, c, n) ==
    /\ Ordered(t.left) /\ n \in t.known
    /\ \A v \in Lineage[<<c, n>>] :
          /\ v[1] \notin ToSet(t.left) => Visited(t, v)
          /\ t.left # <<>> /\ v[1] = Head(t.left) => Looked(t, v)

SoundTrail(t, c, n, b) == t \in Trails /\ (t.complete => ~b /\ Thorough(t, c, n))

\* The first commit left is one all of whose descendants in the lineage were visited.
LEMMA KnownAtHead ==
    ASSUME NEW c \in Commits, NEW n \in 1 .. Names, NEW t \in Trails, Thorough(t, c, n),
           t.left # <<>>, NEW v \in Lineage[<<c, n>>], v[1] = Head(t.left)
    PROVE  v[2] \in t.known
<1>1. <<c, n>> \in Versions BY DEF Versions
<1>2. CASE v = <<c, n>> BY <1>2 DEF Thorough
<1>3. CASE v # <<c, n>>
  <2>1. PICK u \in Lineage[<<c, n>>] : v \in FormerVersions(u, FALSE) BY <1>1, <1>3, LineageIs
  <2>2. u[1] \in Commits BY <1>1, LineageIs DEF Versions
  <2>3. v[1] \in ToSet(Parents[u[1]]) BY <2>1 DEF FormerVersions, ParentsSeen
  <2>4. v[1] \in Commits /\ v[1] < u[1] /\ v[1] \in Reached[<<u[1], FALSE>>]
    BY <2>2, <2>3, ParentsAre
  <2>5. /\ t.left \in Seq(Commits) /\ Len(t.left) \in Nat /\ DOMAIN t.left = 1 .. Len(t.left)
        /\ Head(t.left) = t.left[1]
    BY LenProperties, HeadTailProperties DEF Trails
  <2>6. u[1] \notin ToSet(t.left)
    <3> SUFFICES ASSUME u[1] \in ToSet(t.left) PROVE FALSE
      OBVIOUS
    <3>1. PICK j \in DOMAIN t.left : t.left[j] = u[1] BY DEF ToSet
    <3>2. j # 1
      <4>1. v[1] \in Nat /\ u[1] \in Nat BY <2>2, <2>4, CommitsAreNumbered
      <4>2. v[1] # u[1] BY <2>4, <4>1
      <4>3. QED BY <2>5, <3>1, <4>2
    <3>3. 1 \in DOMAIN t.left /\ 1 < j BY <2>5, <3>1, <3>2
    <3>4. t.left[1] \notin Reached[<<t.left[j], FALSE>>] BY <3>1, <3>3 DEF Thorough, Ordered
    <3>5. QED BY <2>4, <2>5, <3>1, <3>4
  <2>7. Visited(t, u) BY <2>6 DEF Thorough
  <2>8. QED BY <2>1, <2>7 DEF Visited
<1>4. QED BY <1>2, <1>3

LEMMA TrailBegins ==
    ASSUME NEW c \in Commits, NEW n \in 1 .. Names, NEW b \in BOOLEAN, NEW w \in Walks(c, b)
    PROVE  SoundTrail(Trail(n, w, b), c, n, b)
<1> DEFINE t == Trail(n, w, b)
<1>1. /\ t.left = w /\ t.compared = 0 /\ t.known = {n} /\ t.changes = <<>> /\ t.complete = ~b
  BY DEF Trail
<1>2. IsWalk(w, Reached[<<c, b>>]) BY WalksAre
<1>3. w \in Seq(Commits)
  <2>1. Reached[<<c, b>>] \subseteq Commits BY ReachedAreCommits
  <2>2. w \in Seq(Reached[<<c, b>>]) BY <1>2 DEF IsWalk
  <2> DEFINE S == Reached[<<c, b>>]
  <2> HIDE DEF S
  <2>3. S \subseteq Commits /\ w \in Seq(S) BY <2>1, <2>2 DEF S
  <2>4. QED BY <2>3
<1>4. t \in Trails BY <1>3, EmptySeq DEF Trail, Trails, MaybeName
<1>5. ASSUME ~b PROVE Thorough(t, c, n)
  <2>1. b = FALSE BY <1>5
  <2>2. Ordered(w) BY <1>2 DEF IsWalk, Ordered
  <2>3. ToSet(w) = Reached[<<c, FALSE>>] BY <2>1, WalkBegins
  <2>4. <<c, n>> \in Versions BY DEF Versions
  <2>5. \A v \in Lineage[<<c, n>>] : v[1] \in ToSet(w) BY <2>3, <2>4, LineageIsReached
  <2>6. \A v : Looked(t, v) BY <1>1 DEF Looked
  <2> HIDE DEF t
  <2>7. QED BY <1>1, <2>2, <2>5, <2>6 DEF Thorough
<1> HIDE DEF t
<1>6. QED BY <1>1, <1>4, <1>5 DEF SoundTrail, t

LEMMA GivenUp ==
    ASSUME NEW t, NEW c, NEW n, NEW b, SoundTrail(t, c, n, b)
    PROVE  SoundTrail(GiveUp(t), c, n, b)
<1>1. GiveUp(t) \in Trails BY EmptySeq DEF GiveUp, Trails, SoundTrail
<1>2. GiveUp(t).complete = FALSE BY DEF GiveUp, Trails, SoundTrail
<1>3. QED BY <1>1, <1>2 DEF SoundTrail

LEMMA RelevantIs ==
    ASSUME NEW b \in BOOLEAN, NEW t \in Trails, t.left # <<>>,
           t.compared < Len(Compared(Head(t.left), b))
    PROVE  LET c == Head(t.left)
               deltas == Deltas(Before(c, b, t.compared + 1), Trees[c])
           IN  /\ c \in Commits /\ t.compared + 1 \in Nat
               /\ Relevant(t, b) = About(deltas, t.known)
               /\ Relevant(t, b) \in SUBSET AllDeltas
<1>1. Head(t.left) \in Commits /\ t.compared \in Nat BY HeadTailProperties DEF Trails
<1> DEFINE n == Len(Compared(Head(t.left), b))
<1>2. n \in Nat /\ \A i \in 1 .. n : Compared(Head(t.left), b)[i]
                                       = Deltas(Before(Head(t.left), b, i), Trees[Head(t.left)])
  BY <1>1, ComparedIs
<1>3. t.compared < n OBVIOUS
<1> HIDE DEF n
<1>4. t.compared + 1 \in 1 .. n BY <1>1, <1>2, <1>3
<1>5. Relevant(t, b) = About(Deltas(Before(Head(t.left), b, t.compared + 1), Trees[Head(t.left)]),
                             t.known)
  BY <1>2, <1>4 DEF Relevant
<1>6. Relevant(t, b) \in SUBSET AllDeltas BY <1>5, DeltasAre DEF About
<1>7. QED BY <1>1, <1>5, <1>6

\* Some deltas tell whether a name's file differs, and whether it was renamed.
Notices(deltas, old, new, m) ==
    /\ old[m] # new[m] => deltas # {}
    /\ RenamedFrom(old, new, m) # {} =>
          Origin(old, new, m) \in {d.old : d \in Renamings(deltas)}

LEMMA RelevantTells ==
    ASSUME NEW old, NEW new, NEW m \in 1 .. Names, new[m] # Absent, NEW known, m \in known,
           NEW relevant, relevant = About(Deltas(old, new), known)
    PROVE  Notices(relevant, old, new, m)
<1>1. ASSUME NEW d \in Deltas(old, new), d.new = m PROVE d \in relevant
  BY <1>1 DEF About
<1>2. old[m] # new[m] => \E d \in Deltas(old, new) : d.new = m BY DeltaTells
<1>3. RenamedFrom(old, new, m) # {} =>
         \E d \in Deltas(old, new) : /\ d.old = Origin(old, new, m) /\ d.new = m
                                     /\ d.status = "renamed"
  BY DeltaTells
<1>4. QED BY <1>1, <1>2, <1>3 DEF Notices, Renamings

\* What a comparison changes.
LEMMA ComparedSays ==
    ASSUME NEW b \in BOOLEAN, NEW t \in Trails, t.left # <<>>,
           t.compared < Len(Compared(Head(t.left), b))
    PROVE  LET u == Compare(t, b)
               relevant == Relevant(t, b)
           IN  /\ u \in Trails /\ u.left = t.left /\ u.compared = t.compared + 1
               /\ u.changes = t.changes /\ u.complete = t.complete
               /\ u.known = t.known \union {d.old : d \in Renamings(relevant)}
               /\ t.matched_path # Absent => u.matched_path # Absent
               /\ relevant # {} => u.matched_path # Absent
<1> DEFINE relevant == Relevant(t, b)
           renamings == Renamings(relevant)
           u == Compare(t, b)
<1>1. relevant \in SUBSET AllDeltas /\ t.compared + 1 \in Nat BY RelevantIs
<1>2. renamings \in SUBSET AllDeltas BY <1>1 DEF Renamings
<1> HIDE DEF relevant
<1>3. relevant # {} => LastOf(relevant).new \in 1 .. Names BY <1>1, LastIsOne DEF AllDeltas
<1>4. /\ renamings # {} => LastOf(renamings).old \in 1 .. Names
      /\ {d.old : d \in renamings} \subseteq 1 .. Names
  <2> HIDE DEF renamings
  <2>1. renamings # {} => LastOf(renamings) \in AllDeltas BY <1>2, LastIsOne
  <2>2. QED BY <1>2, <2>1 DEF AllDeltas
<1>5. u = [t EXCEPT
            !.compared = t.compared + 1,
            !.known = t.known \union {d.old : d \in renamings},
            !.matched_path = IF relevant = {} THEN t.matched_path ELSE LastOf(relevant).new,
            !.renamed_from = IF renamings = {} THEN t.renamed_from ELSE LastOf(renamings).old,
            !.deleted = t.deleted \/ \E d \in relevant : d.status = "deleted"]
  BY DEF Compare, relevant
<1> DEFINE known == t.known \union {d.old : d \in renamings}
           matched == IF relevant = {} THEN t.matched_path ELSE LastOf(relevant).new
           from == IF renamings = {} THEN t.renamed_from ELSE LastOf(renamings).old
           deleted == t.deleted \/ \E d \in relevant : d.status = "deleted"
<1>6. /\ known \in SUBSET (1 .. Names) /\ matched \in MaybeName /\ from \in MaybeName
      /\ deleted \in BOOLEAN
  BY <1>3, <1>4 DEF Trails, MaybeName
<1>7. relevant # {} => matched \in 1 .. Names BY <1>3
<1>8. matched \in 1 .. Names => matched # Absent BY GitAssumption
<1>9. relevant = {} => matched = t.matched_path OBVIOUS
<1> HIDE DEF renamings, u
<1>10. u = [t EXCEPT !.compared = t.compared + 1, !.known = known, !.matched_path = matched,
                     !.renamed_from = from, !.deleted = deleted]
  BY <1>5
<1>11. u.known = known /\ known = t.known \union {d.old : d \in renamings} BY <1>10 DEF Trails
<1> HIDE DEF known, matched, from, deleted
<1>12. /\ u \in Trails /\ u.left = t.left /\ u.compared = t.compared + 1
       /\ u.changes = t.changes /\ u.complete = t.complete /\ u.matched_path = matched
  BY <1>1, <1>6, <1>10 DEF Trails
<1>13. QED BY <1>7, <1>8, <1>9, <1>11, <1>12 DEF u, renamings, relevant

LEMMA CompareKeeps ==
    ASSUME NEW c \in Commits, NEW n \in 1 .. Names, NEW b \in BOOLEAN, NEW t,
           SoundTrail(t, c, n, b), Trees[c][n] # Absent,
           t.left # <<>>, t.compared < Len(Compared(Head(t.left), b))
    PROVE  SoundTrail(Compare(t, b), c, n, b)
<1> DEFINE relevant == Relevant(t, b)
           u == Compare(t, b)
           h == Head(t.left)
<1>1. t \in Trails BY DEF SoundTrail
<1>2. /\ u \in Trails /\ u.left = t.left /\ u.compared = t.compared + 1
      /\ u.changes = t.changes /\ u.complete = t.complete
      /\ u.known = t.known \union {d.old : d \in Renamings(relevant)}
      /\ t.matched_path # Absent => u.matched_path # Absent
      /\ relevant # {} => u.matched_path # Absent
  BY <1>1, ComparedSays
<1>3. /\ h \in Commits /\ relevant = About(Deltas(Before(h, b, t.compared + 1), Trees[h]), t.known)
      /\ t.compared \in Nat
  BY <1>1, RelevantIs DEF Trails
<1> HIDE DEF relevant, u, h
<1>4. ASSUME t.complete PROVE ~b /\ Thorough(u, c, n)
  <2>1. b = FALSE /\ Thorough(t, c, n) BY <1>4 DEF SoundTrail
  <2>2. <<c, n>> \in Versions BY DEF Versions
  <2>3. ASSUME NEW v \in Lineage[<<c, n>>], v[1] = h PROVE Looked(u, v)
    <3> DEFINE old(i) == Before(v[1], FALSE, i)
               new == Trees[v[1]]
               k == t.compared + 1
    <3>1. v[2] \in 1 .. Names /\ new[v[2]] # Absent
      BY <2>2, LineageIs, LineageExists DEF Versions
    <3>2. v[2] \in t.known BY <1>1, <2>1, <2>3, KnownAtHead DEF h
    <3>3. Looked(t, v) BY <2>1, <2>3 DEF Thorough, h
    <3>4. relevant = About(Deltas(old(k), new), t.known) BY <1>3, <2>1, <2>3
    <3>5. \A i \in 1 .. u.compared : i \in 1 .. t.compared \/ i = k BY <1>2, <1>3
    <3> HIDE DEF old, new, k
    <3>6. Notices(relevant, old(k), new, v[2]) BY <3>1, <3>2, <3>4, RelevantTells
    <3>7. /\ old(k)[v[2]] # new[v[2]] => u.matched_path # Absent
          /\ RenamedFrom(old(k), new, v[2]) # {} => Origin(old(k), new, v[2]) \in u.known
      BY <1>2, <3>6 DEF Notices
    <3>8. ASSUME NEW i \in 1 .. u.compared
          PROVE  /\ RenamedFrom(old(i), new, v[2]) # {} => Origin(old(i), new, v[2]) \in u.known
                 /\ old(i)[v[2]] # new[v[2]] => u.matched_path # Absent
      <4>1. CASE i \in 1 .. t.compared BY <1>2, <3>3, <4>1 DEF Looked, old, new
      <4>2. CASE i = k BY <3>7, <4>2
      <4>3. QED BY <3>5, <4>1, <4>2
    <3>9. QED BY <3>8 DEF Looked, old, new
  <2>4. \A v : Visited(t, v) => Visited(u, v) BY <1>2 DEF Visited
  <2>5. QED BY <1>2, <2>1, <2>3, <2>4 DEF Thorough, h
<1>5. QED BY <1>2, <1>4 DEF SoundTrail, u

LEMMA ToldMore ==
    ASSUME NEW s \in Seq(PathChanges), NEW x \in PathChanges
    PROVE  /\ Append(s, x) \in Seq(PathChanges)
           /\ IsToldOf(Append(s, x), x.commit)
           /\ \A c : IsToldOf(s, c) => IsToldOf(Append(s, x), c)
<1> DEFINE more == Append(s, x)
<1>1. more \in Seq(PathChanges) /\ \E i \in DOMAIN more : more[i] = x BY OneMore
<1>2. \A i \in DOMAIN s : \E j \in DOMAIN more : more[j] = s[i] BY OneMore
<1> HIDE DEF more
<1>3. IsToldOf(more, x.commit) BY <1>1 DEF IsToldOf
<1>4. \A c : IsToldOf(s, c) => IsToldOf(more, c)
  <2> SUFFICES ASSUME NEW c, NEW i \in DOMAIN s, s[i].commit = c
               PROVE  \E j \in DOMAIN more : more[j].commit = c
    BY DEF IsToldOf
  <2>1. PICK j \in DOMAIN more : more[j] = s[i] BY <1>2
  <2>2. QED BY <2>1
<1>5. QED BY <1>1, <1>3, <1>4 DEF more

\* What the end of a commit's comparisons changes.
LEMMA ConcludedSays ==
    ASSUME NEW t \in Trails, t.left # <<>>
    PROVE  LET u == Conclude(t)
           IN  /\ u \in Trails /\ u.compared = 0 /\ u.known = t.known
               /\ \A c : IsToldOf(t.changes, c) => IsToldOf(u.changes, c)
               /\ t.matched_path # Absent => IsToldOf(u.changes, Head(t.left))
               /\ u.complete => t.complete /\ u.left = Tail(t.left)
<1> DEFINE change == [commit |-> Head(t.left), path |-> t.matched_path,
                      renamed_from |-> t.renamed_from, deleted |-> t.deleted]
           changed == t.matched_path # Absent
           changes == IF changed THEN Append(t.changes, change) ELSE t.changes
           full == changed /\ Len(changes) >= HistoryLimit
           left == IF full THEN <<>> ELSE Tail(t.left)
           complete == t.complete /\ ~full
           u == Conclude(t)
<1>1. Head(t.left) \in Commits /\ Tail(t.left) \in Seq(Commits) BY HeadTailProperties DEF Trails
<1>2. change \in PathChanges BY <1>1 DEF Trails, PathChanges
<1>3. t.changes \in Seq(PathChanges) BY DEF Trails
<1>4. /\ changes \in Seq(PathChanges)
      /\ \A c : IsToldOf(t.changes, c) => IsToldOf(changes, c)
      /\ changed => IsToldOf(changes, Head(t.left))
  <2>1. change.commit = Head(t.left) OBVIOUS
  <2> HIDE DEF change
  <2>2. QED BY <1>2, <1>3, <2>1, ToldMore
<1>5. left \in Seq(Commits) /\ complete \in BOOLEAN /\ (complete => t.complete /\ left = Tail(t.left))
  BY <1>1, EmptySeq DEF Trails
<1>6. u = [t EXCEPT !.left = left, !.compared = 0, !.matched_path = Absent, !.renamed_from = Absent,
                    !.deleted = FALSE, !.walked = t.walked + 1, !.changes = changes,
                    !.complete = complete]
  BY DEF Conclude
<1> HIDE DEF left, complete, full, changes, u
<1>7. /\ u \in Trails /\ u.compared = 0 /\ u.known = t.known
      /\ u.changes = changes /\ u.complete = complete /\ u.left = left
  <2>1. changes \in Seq(PathChanges) /\ left \in Seq(Commits) /\ complete \in BOOLEAN
    BY <1>4, <1>5
  <2>2. Absent \in MaybeName BY DEF MaybeName
  <2> DEFINE walked == t.walked + 1
  <2>3. walked \in Nat BY DEF Trails
  <2> HIDE DEF walked
  <2>4. u = [t EXCEPT !.left = left, !.compared = 0, !.matched_path = Absent,
                      !.renamed_from = Absent, !.deleted = FALSE, !.walked = walked,
                      !.changes = changes, !.complete = complete]
    BY <1>6 DEF walked
  <2>5. u \in Trails BY <2>1, <2>2, <2>3, <2>4 DEF Trails
  <2>6. QED BY <2>4, <2>5 DEF Trails
<1>8. QED BY <1>4, <1>5, <1>7 DEF u

\* When a commit has been compared with all its parents, it has been visited.
LEMMA HeadIsVisited ==
    ASSUME NEW c \in Commits, NEW n \in 1 .. Names, NEW t \in Trails, Thorough(t, c, n),
           Trees[c][n] # Absent, t.left # <<>>,
           t.compared = Len(Compared(Head(t.left), FALSE)),
           NEW v \in Lineage[<<c, n>>], v[1] = Head(t.left)
    PROVE  /\ \A z \in FormerVersions(v, FALSE) : z[2] \in t.known
           /\ Changed(v) => t.matched_path # Absent
<1> DEFINE h == v[1]
           parents == Parents[h]
<1>1. <<c, n>> \in Versions BY DEF Versions
<1>2. h \in Commits /\ v[2] \in 1 .. Names /\ Trees[h][v[2]] # Absent
  BY <1>1, LineageIs, LineageExists DEF Versions
<1>3. ParentsSeen(h, FALSE) = parents BY DEF ParentsSeen
<1>4. /\ t.compared = IF parents = <<>> THEN 1 ELSE Len(parents)
      /\ Len(parents) \in Nat /\ DOMAIN parents = 1 .. Len(parents)
  BY <1>2, <1>3, ComparedIs, ParentsAre
<1>5. /\ Looked(t, v) /\ v[2] \in t.known BY KnownAtHead DEF Thorough
<1>6. ASSUME NEW i \in DOMAIN parents
      PROVE  Before(h, FALSE, i) = Trees[parents[i]] /\ i \in 1 .. t.compared
  <2>1. parents # <<>> BY <1>6
  <2>2. QED BY <1>3, <1>4, <1>6, <2>1 DEF Before
<1>7. ASSUME NEW z \in FormerVersions(v, FALSE) PROVE z[2] \in t.known
  <2>1. PICK i \in DOMAIN parents : z[1] = parents[i] BY <1>3 DEF FormerVersions, ToSet
  <2>2. CASE z[2] = v[2] BY <1>5, <2>2
  <2>3. CASE /\ RenamedFrom(Trees[z[1]], Trees[h], v[2]) # {}
             /\ z[2] = Origin(Trees[z[1]], Trees[h], v[2])
    BY <1>5, <1>6, <2>1, <2>3 DEF Looked
  <2>4. QED BY <2>2, <2>3 DEF FormerVersions
<1>8. ASSUME Changed(v) PROVE t.matched_path # Absent
  <2>1. CASE parents = <<>>
    <3>1. Before(h, FALSE, 1) = NoFiles BY <1>3, <2>1 DEF Before
    <3>2. NoFiles[v[2]] # Trees[h][v[2]] BY <1>2 DEF NoFiles
    <3>3. t.compared = 1 BY <1>4, <2>1
    <3>4. 1 \in 1 .. t.compared
      <4>1. \A k : k = 1 => 1 \in 1 .. k OBVIOUS
      <4>2. QED BY <3>3, <4>1
    <3>5. QED BY <1>5, <3>1, <3>2, <3>4 DEF Looked
  <2>2. CASE parents # <<>>
    <3>1. PICK i \in DOMAIN parents : Trees[parents[i]][v[2]] # Trees[h][v[2]]
      BY <1>8, <2>2 DEF Changed, ToSet
    <3>2. QED BY <1>5, <1>6, <3>1 DEF Looked
  <2>3. QED BY <2>1, <2>2
<1>9. QED BY <1>7, <1>8

LEMMA ConcludeKeeps ==
    ASSUME NEW c \in Commits, NEW n \in 1 .. Names, NEW b \in BOOLEAN, NEW t,
           SoundTrail(t, c, n, b), Trees[c][n] # Absent,
           t.left # <<>>, t.compared = Len(Compared(Head(t.left), b))
    PROVE  SoundTrail(Conclude(t), c, n, b)
<1> DEFINE u == Conclude(t)
           h == Head(t.left)
<1>1. t \in Trails BY DEF SoundTrail
<1>2. /\ u \in Trails /\ u.compared = 0 /\ u.known = t.known
      /\ \A d : IsToldOf(t.changes, d) => IsToldOf(u.changes, d)
      /\ t.matched_path # Absent => IsToldOf(u.changes, h)
      /\ u.complete => t.complete /\ u.left = Tail(t.left)
  BY <1>1, ConcludedSays
<1> HIDE DEF u
<1>3. ASSUME u.complete PROVE ~b /\ Thorough(u, c, n)
  <2>1. b = FALSE /\ Thorough(t, c, n) BY <1>2, <1>3 DEF SoundTrail
  <2>2. t.left \in Seq(Commits) BY <1>1 DEF Trails
  <2>3. ToSet(t.left) = {h} \union ToSet(Tail(t.left)) BY <2>2, FirstAndRest
  <2>4. Ordered(Tail(t.left))
    <3> DEFINE s == t.left
               r == Tail(s)
    <3>1. s \in Seq(Commits) /\ s # <<>> BY <2>2
    <3>2. Ordered(s) BY <2>1 DEF Thorough
    <3> HIDE DEF s
    <3>3. /\ r \in Seq(Commits) /\ Len(r) = Len(s) - 1 /\ Len(s) \in Nat /\ Len(r) \in Nat
          /\ DOMAIN s = 1 .. Len(s) /\ DOMAIN r = 1 .. Len(r)
          /\ \A i \in 1 .. Len(r) : r[i] = s[i + 1]
      BY <3>1, HeadTailProperties, LenProperties
    <3> HIDE DEF r
    <3>4. ASSUME NEW i \in 1 .. Len(r), NEW j \in 1 .. Len(r), i < j
          PROVE  i + 1 \in 1 .. Len(s) /\ j + 1 \in 1 .. Len(s) /\ i + 1 < j + 1
      BY <3>3, <3>4
    <3>5. Ordered(r) BY <3>2, <3>3, <3>4 DEF Ordered
    <3>6. QED BY <3>5 DEF r, s
  <2>5. ASSUME NEW v \in Lineage[<<c, n>>], v[1] \notin ToSet(Tail(t.left)) PROVE Visited(u, v)
    <3>1. CASE v[1] = h
      <4>1. /\ \A z \in FormerVersions(v, FALSE) : z[2] \in t.known
            /\ Changed(v) => t.matched_path # Absent
        BY <1>1, <2>1, <3>1, HeadIsVisited DEF h
      <4>2. QED BY <1>2, <3>1, <4>1 DEF Visited
    <3>2. CASE v[1] # h
      <4>1. Visited(t, v) BY <2>1, <2>3, <2>5, <3>2 DEF Thorough
      <4>2. QED BY <1>2, <4>1 DEF Visited
    <3>3. QED BY <3>1, <3>2
  <2>6. \A v : Looked(u, v) BY <1>2 DEF Looked
  <2>7. n \in u.known BY <1>2, <2>1 DEF Thorough
  <2>8. QED BY <1>2, <1>3, <2>1, <2>4, <2>5, <2>6, <2>7 DEF Thorough
<1>4. QED BY <1>2, <1>3 DEF SoundTrail, u

\* When nothing is left, the changes are all there are.
LEMMA ThoroughEnds ==
    ASSUME NEW c, NEW n, NEW t, Thorough(t, c, n), t.left = <<>>
    PROVE  ChangesOf(c, n) \subseteq {t.changes[i].commit : i \in DOMAIN t.changes}
<1>1. ToSet(t.left) = {} BY DEF ToSet
<1>2. \A v \in Lineage[<<c, n>>] : Changed(v) => IsToldOf(t.changes, v[1])
  BY <1>1 DEF Thorough, Visited
<1>3. QED BY <1>2 DEF ChangesOf, Changed, IsToldOf

-----------------------------------------------------------------------------
(* What is said to be complete is. *)

\* A walk has lacked nothing so far unless it says so, and an answer likewise.
HonestInv ==
    /\ history # Absent => HistoryIsWhole(history)
    /\ pc \in {"status", "read"} => commit \in Commits
    /\ pc = "walk" => /\ commit \in Commits /\ Trees[commit][query.name] # Absent
                      /\ SoundTrail(trail, commit, query.name, shallow)
    /\ pc = "answered" /\ answer.outcome = "attributed" /\ answer.complete =>
          /\ ~shallow
          /\ ChangesOf(commit, query.name) \subseteq
                {answer.changes[i].commit : i \in DOMAIN answer.changes}

\* An answer is of a committed file, and has no history yet.
IsFirstAnswer(result, q, c) ==
    result.outcome = "attributed" => result.complete = FALSE /\ Trees[c][q.name] # Absent

LEMMA BlamedIsCommitted ==
    ASSUME NEW content, NEW c, NEW st, NEW q, NEW result \in Blame(content, c, st, q)
    PROVE  IsFirstAnswer(result, q, c)
<1> SUFFICES ASSUME result.outcome = "attributed"
             PROVE  result.complete = FALSE /\ Trees[c][q.name] # Absent
  BY DEF IsFirstAnswer
<1>1. result \notin {Refused("line_out_of_range"), Refused("git")} BY DEF Refused
<1>2. Trees[c][q.name] # Absent /\ \E f : result = Attributions(f, q) BY <1>1 DEF Blame
<1>3. PICK f : result = Attributions(f, q) BY <1>2
<1> DEFINE lines == q.first .. q.last
           lost == {k \in lines : f[k] = Absent}
           new == {k \in lines \ lost : f[k].commit = Absent}
<1>4. CASE lost \union new = {}
  <2>1. result = Attributed([k \in lines |-> f[k].commit], <<>>, FALSE)
    BY <1>3, <1>4 DEF Attributions
  <2>2. QED BY <1>2, <2>1 DEF Attributed
<1>5. CASE lost \union new # {}
  <2>1. result \in {Refused("unattributed"), Refused("line_out_of_range")}
    BY <1>3, <1>5 DEF Attributions
  <2>2. QED BY <2>1 DEF Refused
<1>6. QED BY <1>4, <1>5

LEMMA FinishIsHonest ==
    ASSUME TypeInv, HonestInv, NEW q \in Queries, NEW c \in Commits, NEW result,
           IsFirstAnswer(result, q, c), Finish(result, q, c), query' = q, commit' = c, UNCHANGED <<shallow, history>>
    PROVE  HonestInv'
<1>1. shallow \in BOOLEAN /\ q.name \in 1 .. Names BY DEF TypeInv, Types, WorldTypes, Queries
<1>2. CASE result.outcome = "attributed" /\ q.history
  <2>1. PICK w \in Walks(c, shallow) : trail' = Trail(q.name, w, shallow) /\ pc' = "walk"
    BY <1>2 DEF Finish
  <2>2. SoundTrail(trail', c, q.name, shallow) BY <1>1, <2>1, TrailBegins
  <2>3. QED BY <1>2, <2>1, <2>2 DEF HonestInv, IsFirstAnswer
<1>3. CASE ~(result.outcome = "attributed" /\ q.history)
  <2>1. pc' = "answered" /\ answer' = result BY <1>3 DEF Finish
  <2>2. QED BY <2>1 DEF HonestInv, IsFirstAnswer
<1>4. QED BY <1>2, <1>3

LEMMA BeginQueryIsHonest ==
    ASSUME TypeInv, HonestInv, NEW q \in Queries, BeginQuery(q)
    PROVE  HonestInv'
<1>1. query' = q /\ UNCHANGED <<shallow, history>> BY DEF BeginQuery, Ask, world, syncing
<1>2. CASE q.revision = Absent
  <2>1. pc' = "status" /\ commit' \in Commits
    BY <1>2 DEF BeginQuery, TypeInv, Types, WorldTypes
  <2>2. QED BY <1>1, <2>1 DEF HonestInv
<1>3. CASE q.revision # Absent
  <2> DEFINE text == Trees[q.revision][q.name]
  <2>1. q.revision \in Commits BY <1>3, SourcesAssumption DEF Queries
  <2>2. /\ commit' = q.revision
        /\ \E result \in {Refused("invalid_revision"), Refused("missing")}
                         \union Blame(text, q.revision, "committed", q) :
              Finish(result, q, q.revision)
    BY <1>3 DEF BeginQuery
  <2>3. PICK result : /\ \/ result \in {Refused("invalid_revision"), Refused("missing")}
                         \/ result \in Blame(text, q.revision, "committed", q)
                      /\ Finish(result, q, q.revision)
    BY <2>2
  <2> HIDE DEF text
  <2>4. IsFirstAnswer(result, q, q.revision)
    <3>1. CASE result \in {Refused("invalid_revision"), Refused("missing")}
      BY <3>1 DEF Refused, IsFirstAnswer
    <3>2. CASE result \in Blame(text, q.revision, "committed", q) BY <3>2, BlamedIsCommitted
    <3>3. QED BY <2>3, <3>1, <3>2
  <2>5. QED BY <1>1, <2>1, <2>2, <2>3, <2>4, FinishIsHonest
<1>4. QED BY <1>2, <1>3

LEMMA CheckStatusIsHonest ==
    ASSUME TypeInv, HonestInv, CheckStatus
    PROVE  HonestInv'
<1>1. pc = "status" /\ UNCHANGED <<query, commit, shallow, history>>
  BY DEF CheckStatus, Ask, world, syncing
<1>2. CASE \E result \in {Refused("missing"), Refused("unattributed")} :
              Finish(result, query, commit)
  <2>1. pc' = "answered" /\ answer'.outcome # "attributed" BY <1>2 DEF Finish, Refused
  <2>2. QED BY <1>1, <2>1 DEF HonestInv
<1>3. CASE pc' = "read" BY <1>1, <1>3 DEF HonestInv
<1>4. QED BY <1>2, <1>3 DEF CheckStatus

LEMMA ReadSourceIsHonest ==
    ASSUME TypeInv, RightInv, HonestInv, ReadSource
    PROVE  HonestInv'
<1> DEFINE now == sources[query.name]
<1>1. pc = "read" /\ UNCHANGED <<query, commit, shallow, history>>
  BY DEF ReadSource, Ask, world, syncing
<1>2. PICK result : /\ result = Refused("git") \/ result \in Blame(now, commit, state, query)
                    /\ Finish(result, query, commit)
  BY DEF ReadSource
<1>3. query \in Queries BY <1>1 DEF TypeInv, Types, QueryTypes, QueryStages
<1> HIDE DEF now
<1>4. IsFirstAnswer(result, query, commit)
  <2>1. CASE result = Refused("git") BY <2>1 DEF Refused, IsFirstAnswer
  <2>2. CASE result \in Blame(now, commit, state, query) BY <2>2, BlamedIsCommitted
  <2>3. QED BY <1>2, <2>1, <2>2
<1>5. commit \in Commits BY <1>1 DEF HonestInv
<1>6. /\ Finish(result, query, commit) /\ query' = query /\ commit' = commit
      /\ UNCHANGED <<shallow, history>>
  BY <1>1, <1>2
<1>7. QED BY <1>3, <1>4, <1>5, <1>6, FinishIsHonest

LEMMA CompareIsHonest ==
    ASSUME TypeInv, HonestInv, CompareCommit \/ CommitIsCompared
    PROVE  HonestInv'
<1> DEFINE n == query.name
<1>1. /\ pc = "walk" /\ pc' = pc /\ trail.left # <<>>
      /\ UNCHANGED <<query, commit, shallow, history>>
  BY DEF CompareCommit, CommitIsCompared, Ask, world, syncing
<1>2. /\ commit \in Commits /\ Trees[commit][n] # Absent /\ SoundTrail(trail, commit, n, shallow)
      /\ shallow \in BOOLEAN /\ n \in 1 .. Names
  BY <1>1 DEF HonestInv, TypeInv, Types, WorldTypes, QueryTypes, QueryStages, Queries
<1> HIDE DEF n
<1>3. SoundTrail(trail', commit, n, shallow)
  <2>1. CASE CompareCommit
    <3>1. /\ trail.compared < Len(Compared(Head(trail.left), shallow))
          /\ trail' = GiveUp(trail) \/ trail' = Compare(trail, shallow)
      BY <2>1 DEF CompareCommit
    <3>2. QED BY <1>1, <1>2, <3>1, GivenUp, CompareKeeps
  <2>2. CASE CommitIsCompared
    <3>1. /\ trail.compared = Len(Compared(Head(trail.left), shallow))
          /\ trail' = Conclude(trail)
      BY <2>2 DEF CommitIsCompared
    <3>2. QED BY <1>1, <1>2, <3>1, ConcludeKeeps
  <2>3. QED BY <2>1, <2>2
<1>4. QED BY <1>1, <1>2, <1>3 DEF HonestInv, n

LEMMA WalkEndsHonestly ==
    ASSUME TypeInv, HonestInv, WalkEnds
    PROVE  HonestInv'
<1> DEFINE n == query.name
           t == trail
<1>1. /\ pc = "walk" /\ t.left = <<>> /\ pc' = "answered"
      /\ answer' = Attributed(answer.by, t.changes, t.complete)
      /\ UNCHANGED <<query, commit, history, shallow>>
  BY DEF WalkEnds, Ask, syncing, world
<1>2. SoundTrail(t, commit, n, shallow) BY <1>1 DEF HonestInv
<1> HIDE DEF n, t
<1>3. t.complete =>
        /\ ~shallow
        /\ ChangesOf(commit, n) \subseteq {t.changes[i].commit : i \in DOMAIN t.changes}
  BY <1>1, <1>2, ThoroughEnds DEF SoundTrail
<1>4. answer'.changes = t.changes /\ answer'.complete = t.complete BY <1>1 DEF Attributed
<1>5. QED BY <1>1, <1>3, <1>4 DEF HonestInv, n

LEMMA BeginSyncIsHonest ==
    ASSUME TypeInv, HonestInv, NEW walk \in Walks(head, shallow), BeginSync(walk)
    PROVE  HonestInv'
<1>1. pc' = "scan" /\ history' = CommitHistory(walk, shallow) BY DEF BeginSync
<1>2. head \in Commits /\ shallow \in BOOLEAN BY DEF TypeInv, Types, WorldTypes
<1>3. HistoryIsWhole(CommitHistory(walk, shallow)) BY <1>2, WholeHistory
<1>4. QED BY <1>1, <1>3 DEF HonestInv

LEMMA HonestIsKept == TypeInv /\ RightInv /\ HonestInv /\ [Next]_vars => HonestInv'
<1> SUFFICES ASSUME TypeInv, RightInv, HonestInv, [Next]_vars PROVE HonestInv'
  OBVIOUS
<1>1. CASE UNCHANGED vars
  BY <1>1 DEF HonestInv, vars, world, syncing, querying
<1>2. CASE User
  <2>1. UNCHANGED <<shallow, pc, history, query, commit, trail, answer>>
    BY <1>2 DEF User, EditDocument, EditSource, MoveHead, Edit
  <2>2. QED BY <2>1 DEF HonestInv
<1>3. CASE \E walk \in Walks(head, shallow) : BeginSync(walk) BY <1>3, BeginSyncIsHonest
<1>4. CASE ListDirectory \/ FileIsGone \/ ReadDocument \/ Prepare
  <2>1. pc' \in {"scan", "failed", "prepared"} /\ history' = history
    BY <1>4 DEF ListDirectory, FileIsGone, ReadDocument, Prepare
  <2>2. QED BY <2>1 DEF HonestInv
<1>5. CASE \E q \in Queries : BeginQuery(q) BY <1>5, BeginQueryIsHonest
<1>6. CASE CheckStatus BY <1>6, CheckStatusIsHonest
<1>7. CASE ReadSource BY <1>7, ReadSourceIsHonest
<1>8. CASE CompareCommit \/ CommitIsCompared BY <1>8, CompareIsHonest
<1>9. CASE WalkEnds BY <1>9, WalkEndsHonestly
<1>10. CASE Report
  <2>1. pc' = "idle" /\ history' = Absent BY <1>10 DEF Report
  <2>2. QED BY <2>1 DEF HonestInv
<1>11. QED
  BY <1>1, <1>2, <1>3, <1>4, <1>5, <1>6, <1>7, <1>8, <1>9, <1>10 DEF Next

LEMMA AnswersHold == Spec => [](TypeInv /\ RightInv /\ HonestInv)
<1>1. Init => HonestInv /\ RightInv BY DEF Init, HonestInv, RightInv
<1>2. QED BY <1>1, TypesHold, RightIsKept, HonestIsKept, PTL DEF Spec

\* A history that is said to be complete lacks nothing, whatever the commits, branches
\* and renamings are and wherever the limits lie: neither a commit of a shallow clone's
\* past, nor one beyond a limit, nor a change a file had under a former name or on a
\* branch that was merged (commit_history, path_history).
THEOREM HistoriesAreHonest == Spec => []HistoryIsHonest
<1>1. HonestInv => HistoryIsHonest BY DEF HonestInv, HistoryIsHonest, HistoryIsWhole
<1>2. QED BY <1>1, AnswersHold, PTL

-----------------------------------------------------------------------------
(* Through which versions a line has come down. *)

Bearings == Versions \X Lines \X BOOLEAN
BearingVersion == [x \in Bearings |-> x[1]]
BearingCommit == [x \in Bearings |-> x[1][1]]

\* The versions before one that hold the line.
Givers(x) == {u \in FormerVersions(x[1], x[3]) : Holds(u, x[2])}
BearingsBefore == [x \in Bearings |-> {<<w, x[2], x[3]>> : w \in Givers(x)}]
BornBy(f, x) == {x[1]} \union UNION {f[<<w, x[2], x[3]>>] : w \in Givers(x)}

LEMMA BearingsDescend ==
    Descends(Bearings, Cardinality(Commits), BearingCommit, BearingsBefore)
<1>1. BearingCommit \in [Bearings -> 0 .. Cardinality(Commits)] /\ Cardinality(Commits) \in Nat
  BY CommitsAreNumbered DEF Bearings, BearingCommit, Versions
<1>2. ASSUME NEW x \in Bearings, NEW y \in BearingsBefore[x]
      PROVE  y \in Bearings /\ BearingCommit[y] < BearingCommit[x]
  <2>1. x[1] \in Versions /\ x[2] \in Lines /\ x[3] \in BOOLEAN BY DEF Bearings
  <2>2. PICK w \in Givers(x) : y = <<w, x[2], x[3]>> BY DEF BearingsBefore
  <2>3. w \in Versions /\ w[1] < x[1][1] BY <2>1, <2>2, FormerAreEarlier DEF Givers
  <2>4. y \in Bearings BY <2>1, <2>2, <2>3 DEF Bearings
  <2>5. QED BY <2>2, <2>3, <2>4 DEF BearingCommit
<1>3. QED BY <1>1, <1>2 DEF Descends

LEMMA BearersGather == Gathers(BearingVersion, BearingsBefore, Bearers, Bearings)
<1>1. ASSUME NEW f, NEW x \in Bearings
      PROVE  Gathered(BearingVersion, BearingsBefore, f, x) = BornBy(f, x)
  BY DEF Gathered, BornBy, BearingVersion, BearingsBefore
<1>2. Bearers = CHOOSE f : f = [x \in Bearings |-> BornBy(f, x)]
  BY DEF Bearers, BornBy, Givers, Bearings
<1>3. \E f : Gathers(BearingVersion, BearingsBefore, f, Bearings)
  BY BearingsDescend, GathererExists
<1>4. \A f : Gathers(BearingVersion, BearingsBefore, f, Bearings)
             <=> f = [x \in Bearings |-> BornBy(f, x)]
  BY <1>1 DEF Gathers
<1>5. \E f : f = [x \in Bearings |-> BornBy(f, x)] BY <1>3, <1>4
<1>6. QED BY <1>2, <1>4, <1>5

LEMMA BearersAre == \A x \in Bearings : Bearers[x] = BornBy(Bearers, x)
<1>1. Bearers = [x \in Bearings |-> Gathered(BearingVersion, BearingsBefore, Bearers, x)]
  BY BearersGather DEF Gathers
<1>2. \A x \in Bearings : Gathered(BearingVersion, BearingsBefore, Bearers, x) = BornBy(Bearers, x)
  BY DEF Gathered, BornBy, BearingVersion, BearingsBefore
<1>3. QED BY <1>1, <1>2

LEMMA TriplesAre ==
    ASSUME NEW A, NEW B, NEW C, NEW x \in A \X B \X C
    PROVE  x = <<x[1], x[2], x[3]>>
OBVIOUS

\* A clone sees some of them, of the commits that it has.
SeenBearers(x) ==
    \A w \in Bearers[x] : /\ w \in Versions /\ w[1] \in Reached[<<x[1][1], x[3]>>]
                          /\ w \in Bearers[<<x[1], x[2], FALSE>>]

LEMMA BearersAreSeen == \A x \in Bearings : SeenBearers(x)
<1> DEFINE S == {x \in Bearings : ~SeenBearers(x)}
<1> SUFFICES ASSUME S # {} PROVE FALSE
  OBVIOUS
<1>1. S \in SUBSET Bearings OBVIOUS
<1>2. PICK x \in S : \A y \in BearingsBefore[x] : y \in Bearings /\ y \notin S
  <2> HIDE DEF S
  <2>1. QED BY <1>1, BearingsDescend, LowestExists
<1> DEFINE v == x[1]
           line == x[2]
           b == x[3]
<1>3. /\ x \in Bearings /\ v \in Versions /\ v[1] \in Commits /\ line \in Lines /\ b \in BOOLEAN
      /\ x = <<v, line, b>> /\ <<v, line, FALSE>> \in Bearings
  <2>1. x \in Versions \X Lines \X BOOLEAN BY DEF Bearings
  <2>2. v \in Versions /\ line \in Lines /\ b \in BOOLEAN BY <2>1
  <2>3. x = <<v, line, b>> BY <2>1, TriplesAre
  <2>4. <<v, line, FALSE>> \in Bearings BY <2>2 DEF Bearings
  <2>5. v[1] \in Commits BY <2>2 DEF Versions
  <2>6. QED BY <2>2, <2>3, <2>4, <2>5
<1>4. Reached[<<v[1], b>>] = Above(Reached, <<v[1], b>>) BY <1>3, ReachedIs
<1>5. /\ Bearers[x] = {v} \union UNION {Bearers[<<w, line, b>>] : w \in Givers(x)}
      /\ Bearers[<<v, line, FALSE>>] =
            {v} \union UNION {Bearers[<<w, line, FALSE>>] : w \in Givers(<<v, line, FALSE>>)}
  <2>1. Bearers[x] = BornBy(Bearers, x) BY <1>3, BearersAre
  <2>2. Bearers[<<v, line, FALSE>>] = BornBy(Bearers, <<v, line, FALSE>>) BY <1>3, BearersAre
  <2>3. QED BY <2>1, <2>2 DEF BornBy
<1>6. ASSUME NEW w \in Bearers[x]
      PROVE  w \in Versions /\ w[1] \in Reached[<<v[1], b>>] /\ w \in Bearers[<<v, line, FALSE>>]
  <2>1. CASE w = v BY <1>3, <1>4, <1>5, <2>1 DEF Above
  <2>2. CASE w # v
    <3>1. PICK u \in Givers(x) : w \in Bearers[<<u, line, b>>] BY <1>5, <2>2
    <3>2. /\ u \in FormerVersions(v, b) /\ Holds(u, line)
          /\ u[1] \in ToSet(ParentsSeen(v[1], b)) /\ u \in FormerVersions(v, FALSE)
      BY <1>3, <3>1, FormerAreEarlier DEF Givers
    <3>3. <<u, line, b>> \in BearingsBefore[x] BY <1>3, <3>1 DEF BearingsBefore
    <3>4. SeenBearers(<<u, line, b>>) BY <1>2, <3>3
    <3>5. /\ w \in Versions /\ w[1] \in Reached[<<u[1], b>>]
          /\ w \in Bearers[<<u, line, FALSE>>]
      BY <3>1, <3>4 DEF SeenBearers
    <3>6. w[1] \in Reached[<<v[1], b>>] BY <1>4, <3>2, <3>5 DEF Above
    <3>7. u \in Givers(<<v, line, FALSE>>) BY <3>2 DEF Givers
    <3>8. w \in Bearers[<<v, line, FALSE>>] BY <1>5, <3>5, <3>7
    <3>9. QED BY <3>5, <3>6, <3>8
  <2>3. QED BY <2>1, <2>2
<1>7. SeenBearers(x) BY <1>3, <1>6 DEF SeenBearers
<1>8. QED BY <1>7

\* Where a line seems new in a shallow clone it is, but for the first commits.
LEMMA NewOrAtTheBoundary ==
    ASSUME NEW w, NEW line, NEW b \in BOOLEAN, Introduces(w, line, b)
    PROVE  Introduces(w, line, FALSE) \/ (b /\ w[1] \in Boundary)
<1> SUFFICES ASSUME ~(b /\ w[1] \in Boundary) PROVE Introduces(w, line, FALSE)
  OBVIOUS
<1>1. ParentsSeen(w[1], b) = ParentsSeen(w[1], FALSE) BY DEF ParentsSeen
<1>2. FormerVersions(w, b) = FormerVersions(w, FALSE) BY <1>1 DEF FormerVersions
<1>3. QED BY <1>2 DEF Introduces

\* Each line is committed and is attributed to a commit that introduced it, in the
\* file under whatever name it had and through which the line has come down, also
\* where an edit has moved the line: in every history, of any file and for any lines.
\* The exceptions are a user who commits between the steps of the query, or edits a
\* file that had just been found to be as committed, and a shallow clone, in which
\* one of its first commits may stand for older ones that it does not have, but then
\* the answer does not say that it is complete (resolve_lines, attributions).
THEOREM AttributionHolds == Spec => []AttributionIsRight
<1>1. TypeInv /\ RightInv /\ HonestInv => AttributionIsRight
  <2> SUFFICES ASSUME TypeInv, RightInv, HonestInv, pc = "answered",
                      answer.outcome = "attributed", ~raced, NEW k \in query.first .. query.last
               PROVE  LET v == <<commit, query.name>>
                          line == Content[k]
                      IN  /\ Holds(v, line)
                          /\ answer.by[k] \in Reached[<<commit, shallow>>]
                          /\ \E w \in Bearers[<<v, line, FALSE>>] :
                                /\ w[1] = answer.by[k]
                                /\ \/ Introduces(w, line, FALSE)
                                   \/ shallow /\ ~answer.complete /\ w[1] \in Boundary
    BY DEF AttributionIsRight, Content
  <2> DEFINE v == <<commit, query.name>>
             line == Content[k]
  <2>1. shallow \in BOOLEAN /\ query \in Queries
    BY DEF TypeInv, Types, WorldTypes, QueryTypes, QueryStages
  <2>2. commit \in Commits /\ Holds(v, line) /\ answer.by[k] \in IntroducedBy(v, line, shallow)
    BY DEF RightInv, IsBy
  <2>3. v \in Versions BY <2>1, <2>2 DEF Versions, Queries
  <2>4. line \in Lines BY <2>2, <2>3 DEF Holds, Lines
  <2>5. <<v, line, shallow>> \in Bearings BY <2>1, <2>3, <2>4 DEF Bearings
  <2>6. answer.complete => ~shallow BY DEF HonestInv
  <2> HIDE DEF line
  <2>7. PICK w \in Bearers[<<v, line, shallow>>] :
           w[1] = answer.by[k] /\ Introduces(w, line, shallow)
    BY <2>2 DEF IntroducedBy
  <2>8. w[1] \in Reached[<<commit, shallow>>] /\ w \in Bearers[<<v, line, FALSE>>]
    BY <2>5, <2>7, BearersAreSeen DEF SeenBearers
  <2>9. Introduces(w, line, FALSE) \/ (shallow /\ w[1] \in Boundary)
    BY <2>1, <2>7, NewOrAtTheBoundary
  <2>10. QED BY <2>2, <2>6, <2>7, <2>8, <2>9 DEF line
<1>2. QED BY <1>1, AnswersHold, PTL

===============================================================================
