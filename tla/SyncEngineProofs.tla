--------------------------- MODULE SyncEngineProofs ---------------------------
(***************************************************************************)
(* Proofs about SyncEngine, for any number of processes, any repository    *)
(* histories and documents, and any sequence of GitHub's states.           *)
(*                                                                         *)
(* The argument is about what evidence is made of: it is always local      *)
(* evidence, with at most one contribution merged into it that stands for  *)
(* its cursor, either served by GitHub just now or taken from a published  *)
(* snapshot.  That the published snapshot may be out of date when it is    *)
(* used does not matter, because it is never altered.                      *)
(***************************************************************************)
EXTENDS SyncEngine, SharedLemmas, TLAPS

\* Before GitHub is asked, the evidence is what the local sources gave.
DraftIsLocal ==
    \A p \in Processes :
        pc[p] \in {"prior", "fetch"} =>
            \E h \in Heads, w \in Worktrees : evidence[p] = Local(h, w)

\* The snapshot a sync builds on was published.
PriorIsPublished ==
    \A p \in Processes :
        pc[p] = "fetch" /\ prior[p] # Absent => \E i \in DOMAIN log : prior[p] = log[i]

BeganEarlier == \A p \in Processes : began[p] <= forge

Sound(e) == Closed(e) /\ LocalWins(e) /\ Described(Contribution(e), e.github)

EvidenceIsSound == \A e \in PreparedEvidence : Sound(e)

IInv ==
    /\ TypeOK
    /\ DraftIsLocal
    /\ PriorIsPublished
    /\ BeganEarlier
    /\ EvidenceIsSound
    /\ FreshIsObserved

Parts == [items : SUBSET Ids, links : SUBSET (Ids \X Ids)]

-----------------------------------------------------------------------------
(* What evidence is made of. *)

LEMMA LocalRecords ==
    ASSUME NEW h \in Heads, NEW w \in Worktrees
    PROVE  LET e == Local(h, w)
           IN  /\ DOMAIN e.records = Commits[h] \union DOMAIN Documents[w]
               /\ DOMAIN e.records \subseteq Ids
               /\ DOMAIN e.records \subseteq EverLocal
               /\ \A i \in DOMAIN e.records : e.records[i] \in Contents \ {"github"}
               /\ e.records = [i \in DOMAIN e.records |-> e.records[i]]
               /\ e.records \in [DOMAIN e.records -> Contents]
<1> DEFINE names == Commits[h] \union DOMAIN Documents[w]
<1>1. Local(h, w).records =
        [i \in names |-> IF i \in Commits[h] THEN "git" ELSE Documents[w][i]]
  BY DEF Local
<1>2. names \subseteq Ids
  BY SyncAssumption
<1>3. names \subseteq EverLocal
  BY DEF EverLocal
<1>4. \A i \in names : Local(h, w).records[i] \in Contents \ {"github"}
  <2>1. \A i \in names : i \notin Commits[h] => Documents[w][i] \in Bodies
    BY SyncAssumption
  <2>2. "github" \notin Bodies
    BY SyncAssumption
  <2>3. QED BY <1>1, <2>1, <2>2 DEF Contents
<1> HIDE DEF names
<1>5. DOMAIN Local(h, w).records = names
  BY <1>1
<1>6. QED
  BY <1>1, <1>2, <1>3, <1>4, <1>5 DEF names

LEMMA LocalEvidence ==
    ASSUME NEW h \in Heads, NEW w \in Worktrees
    PROVE  /\ Local(h, w) \in Evidence
           /\ Sound(Local(h, w))
           /\ Local(h, w).github = Absent
           /\ Local(h, w).head = h /\ Local(h, w).worktree = w
           /\ \A l \in Local(h, w).links : l.from = "local"
<1> DEFINE e == Local(h, w)
<1>1. /\ e.head = h /\ e.worktree = w /\ e.github = Absent
      /\ e.links = {l \in Tagged(CommitLinks[h] \union DocumentLinks[w], "local") :
                       Ends(l) \subseteq Commits[h] \union DOMAIN Documents[w]}
      /\ e = [head |-> e.head, worktree |-> e.worktree, records |-> e.records,
              links |-> e.links, github |-> e.github]
  BY DEF Local
<1>2. e.links \subseteq [source : Ids, target : Ids, from : {"local", "github"}]
  BY <1>1, SyncAssumption DEF Tagged
<1>3. \A l \in e.links : l.from = "local"
  BY <1>1 DEF Tagged
<1>4. Closed(e)
  BY <1>1, LocalRecords DEF Closed
<1>5. LocalWins(e)
  BY <1>1 DEF LocalWins
<1>6. Contribution(e) = Nothing
  <2>1. {i \in DOMAIN e.records : e.records[i] = "github"} = {}
    BY LocalRecords
  <2>2. {k \in e.links : k.from = "github"} = {}
    BY <1>3
  <2>3. QED BY <2>1, <2>2 DEF Contribution, Nothing
<1>7. Described(Contribution(e), e.github)
  BY <1>1, <1>6 DEF Described, Cursor
<1>8. e.records \in UNION {[names -> Contents] : names \in SUBSET Ids}
  BY LocalRecords
<1>9. e \in Evidence
  <2> HIDE DEF e
  <2>1. QED BY <1>1, <1>2, <1>8 DEF Evidence
<1>10. QED
  BY <1>1, <1>3, <1>4, <1>5, <1>7, <1>9 DEF Sound

\* A contribution merged into local evidence.
LEMMA MergedEvidence ==
    ASSUME NEW h \in Heads, NEW w \in Worktrees, NEW part \in Parts,
           NEW source \in SourceStates
    PROVE  LET local == Local(h, w)
               e == [Merge(local, part) EXCEPT !.github = source]
           IN  /\ e \in Evidence
               /\ e.github = source
               /\ Closed(e)
               /\ LocalWins(e)
               /\ Contribution(e).items = part.items \ DOMAIN local.records
               /\ Contribution(e).links =
                     {l \in part.links :
                         {l[1], l[2]} \subseteq DOMAIN local.records \union part.items}
<1> DEFINE local == Local(h, w)
           e == [Merge(local, part) EXCEPT !.github = source]
           names == DOMAIN local.records \union part.items
           new == {l \in Tagged(part.links, "github") : Ends(l) \subseteq names}
<1>1. /\ e.head = h /\ e.worktree = w /\ e.github = source
      /\ e.records = [i \in names |->
                         IF i \in DOMAIN local.records THEN local.records[i] ELSE "github"]
      /\ e.links = local.links \union new
      /\ e = [head |-> e.head, worktree |-> e.worktree, records |-> e.records,
              links |-> e.links, github |-> e.github]
  <2>1. PICK R, L : local = [head |-> h, worktree |-> w, records |-> R, links |-> L,
                             github |-> Absent]
    BY DEF Local
  <2> HIDE DEF local
  <2> DEFINE F == [i \in names |->
                      IF i \in DOMAIN local.records THEN local.records[i] ELSE "github"]
             G == local.links \union new
  <2>2. Merge(local, part) = [local EXCEPT !.records = F, !.links = G]
    BY DEF Merge
  <2> HIDE DEF F, G
  <2>3. e = [head |-> h, worktree |-> w, records |-> F, links |-> G, github |-> source]
    <3>1. Merge(local, part) = [head |-> h, worktree |-> w, records |-> F, links |-> G,
                                github |-> Absent]
      BY <2>1, <2>2
    <3>2. QED BY <3>1
  <2> HIDE DEF e
  <2>4. /\ e.head = h /\ e.worktree = w /\ e.github = source
        /\ e.records = F /\ e.links = G
        /\ e = [head |-> e.head, worktree |-> e.worktree, records |-> e.records,
                links |-> e.links, github |-> e.github]
    BY <2>3
  <2>5. QED BY <2>4 DEF F, G
<1>2. /\ \A l \in new : l.from = "github" /\ Ends(l) \subseteq names
      /\ \A l \in new : <<l.source, l.target>> \in part.links
      /\ \A l \in new : l.source \in names /\ l.target \in names
      /\ new \subseteq [source : Ids, target : Ids, from : {"local", "github"}]
      /\ \A a, b : <<a, b>> \in part.links /\ {a, b} \subseteq names =>
            [source |-> a, target |-> b, from |-> "github"] \in new
  BY DEF Tagged, Ends, Parts
<1>3. part.items \subseteq Ids /\ part.links \subseteq Ids \X Ids
  BY DEF Parts
<1> HIDE DEF e, new
<1>4. names \subseteq Ids /\ DOMAIN e.records = names
  BY <1>1, <1>3, LocalRecords
<1>5. e.records \in [names -> Contents]
  BY <1>1, LocalRecords DEF Contents
<1>6. e \in Evidence
  <2>1. e.links \subseteq [source : Ids, target : Ids, from : {"local", "github"}]
    <3>1. local \in Evidence
      BY LocalEvidence
    <3>2. QED BY <1>1, <1>2, <3>1 DEF Evidence
  <2>2. e.records \in UNION {[n -> Contents] : n \in SUBSET Ids}
    BY <1>4, <1>5
  <2>3. QED BY <1>1, <2>1, <2>2 DEF Evidence
<1>7. Closed(e)
  <2>1. \A l \in local.links : Ends(l) \subseteq names
    BY LocalEvidence DEF Sound, Closed
  <2>2. QED BY <1>1, <1>2, <1>4, <2>1 DEF Closed
<1>8. LocalWins(e)
  BY <1>1, <1>4 DEF LocalWins
<1>9. Contribution(e).items = part.items \ DOMAIN local.records
  <2>1. Contribution(e).items = {i \in names : e.records[i] = "github"}
    BY <1>4 DEF Contribution
  <2>2. \A i \in names : e.records[i] = "github" <=> i \notin DOMAIN local.records
    <3>1. \A i \in DOMAIN local.records : local.records[i] # "github"
      BY LocalRecords
    <3> HIDE DEF local
    <3>2. QED BY <1>1, <3>1
  <2>3. QED BY <2>1, <2>2
<1>10. Contribution(e).links = {l \in part.links : {l[1], l[2]} \subseteq names}
  <2>1. {k \in e.links : k.from = "github"} = new
    BY <1>1, <1>2, LocalEvidence
  <2>2. Contribution(e).links = {<<l.source, l.target>> : l \in new}
    BY <2>1 DEF Contribution
  <2>3. ASSUME NEW l \in new
        PROVE  <<l.source, l.target>> \in {k \in part.links : {k[1], k[2]} \subseteq names}
    BY <1>2
  <2>4. ASSUME NEW l \in part.links, {l[1], l[2]} \subseteq names
        PROVE  \E k \in new : l = <<k.source, k.target>>
    <3>1. l = <<l[1], l[2]>>
      BY <1>3
    <3>2. [source |-> l[1], target |-> l[2], from |-> "github"] \in new
      BY <1>2, <2>4, <3>1
    <3>3. QED BY <3>1, <3>2
  <2>5. QED BY <2>2, <2>3, <2>4
<1>11. QED
  BY <1>1, <1>6, <1>7, <1>8, <1>9, <1>10 DEF e

\* Merging into local evidence keeps what stands for a cursor standing for it.
LEMMA MergeKeepsDescription ==
    ASSUME NEW h \in Heads, NEW w \in Worktrees, NEW part \in Parts,
           NEW source \in SourceStates,
           NEW before, Described(part, before), Cursor(before) = Cursor(source)
    PROVE  Sound([Merge(Local(h, w), part) EXCEPT !.github = source])
<1> DEFINE local == Local(h, w)
           e == [Merge(local, part) EXCEPT !.github = source]
           kept == Contribution(e)
<1>1. /\ Closed(e) /\ LocalWins(e) /\ e.github = source
      /\ kept.items = part.items \ DOMAIN local.records
      /\ kept.links = {l \in part.links :
                          {l[1], l[2]} \subseteq DOMAIN local.records \union part.items}
  BY MergedEvidence
<1>2. DOMAIN local.records \subseteq EverLocal
  BY LocalRecords
<1>3. kept = [items |-> kept.items, links |-> kept.links]
  BY DEF Contribution
<1> HIDE DEF kept
<1>4. CASE Cursor(source) = Absent
  <2>1. part = Nothing
    BY <1>4 DEF Described
  <2>2. kept.items = {} /\ kept.links = {}
    BY <1>1, <2>1 DEF Nothing
  <2>3. kept = Nothing
    BY <1>3, <2>2 DEF Nothing
  <2>4. QED BY <1>1, <1>4, <2>3 DEF Sound, Described, kept
<1>5. CASE Cursor(source) # Absent
  <2>1. StandsFor(part, Cursor(source))
    BY <1>5 DEF Described
  <2>2. StandsFor(kept, Cursor(source))
    BY <1>1, <1>2, <2>1 DEF StandsFor
  <2>3. QED BY <1>1, <1>5, <2>2 DEF Sound, Described, kept
<1>6. QED BY <1>4, <1>5

LEMMA ContributionIsPart ==
    ASSUME NEW e \in Evidence
    PROVE  Contribution(e) \in Parts
<1>1. DOMAIN e.records \subseteq Ids
  BY DEF Evidence
<1>2. \A l \in e.links : l.source \in Ids /\ l.target \in Ids
  BY DEF Evidence
<1>3. QED BY <1>1, <1>2 DEF Contribution, Parts

\* What is merged when a refresh fails or finds nothing new stands for the cursor.
LEMMA PriorIsDescribed ==
    ASSUME IInv, NEW p \in Processes, pc[p] = "fetch"
    PROVE  /\ PriorPart(p) \in Parts
           /\ Described(PriorPart(p), PriorSource(p))
           /\ PriorCursor(p) = Cursor(PriorSource(p))
           /\ PriorCursor(p) \in Versions \union {Absent}
<1>1. CASE prior[p] = Absent
  BY <1>1 DEF PriorPart, PriorSource, PriorCursor, Described, Cursor, Nothing, Parts
<1>2. CASE prior[p] # Absent
  <2>1. prior[p] \in Evidence
    BY <1>2 DEF IInv, TypeOK
  <2>2. prior[p] \in PreparedEvidence
    BY <1>2 DEF IInv, PriorIsPublished, PreparedEvidence
  <2>3. Described(Contribution(prior[p]), prior[p].github)
    BY <2>2 DEF IInv, EvidenceIsSound, Sound
  <2>4. prior[p].github \in SourceStates \union {Absent}
    BY <2>1 DEF Evidence
  <2>5. PriorPart(p) = Contribution(prior[p]) /\ PriorSource(p) = prior[p].github
    BY <1>2 DEF PriorPart, PriorSource
  <2>6. PriorCursor(p) \in Versions \union {Absent}
    BY <2>4, <2>5 DEF PriorCursor, Cursor, SourceStates
  <2>7. QED BY <2>1, <2>3, <2>5, <2>6, ContributionIsPart DEF PriorCursor
<1>3. QED BY <1>1, <1>2

-----------------------------------------------------------------------------
(* Steps that prepare nothing new. *)

\* The log is a sequence of evidence, and every snapshot in it is sound.
LEMMA LogEntries ==
    ASSUME IInv
    PROVE  /\ \A i \in DOMAIN log : log[i] \in Evidence /\ Sound(log[i])
           /\ Current \in Evidence \union {Absent}
           /\ Current # Absent => \E i \in DOMAIN log : Current = log[i]
<1>1. log \in Seq(Evidence)
  BY DEF IInv, TypeOK
<1>2. \A i \in DOMAIN log : log[i] \in Evidence
  BY <1>1
<1>3. \A i \in DOMAIN log : Sound(log[i])
  BY DEF IInv, EvidenceIsSound, PreparedEvidence
<1>4. log # <<>> => Len(log) \in DOMAIN log
  BY <1>1
<1>5. QED BY <1>2, <1>3, <1>4 DEF Current

LEMMA EndKeepsIInv ==
    ASSUME IInv, NEW p \in Processes,
           NEW a \in Errors \union {"none", "published", "unchanged"},
           End(p, a), UNCHANGED store
    PROVE  IInv'
<1> USE DEF End, world, store
<1>1. TypeOK'
  BY SyncAssumption DEF IInv, TypeOK, Versions, Stages, Ready
<1>2. DraftIsLocal' /\ PriorIsPublished' /\ BeganEarlier'
  BY SyncAssumption DEF IInv, DraftIsLocal, PriorIsPublished, BeganEarlier, TypeOK, Versions
<1>3. PreparedEvidence' \subseteq PreparedEvidence
  BY DEF IInv, TypeOK, PreparedEvidence, Ready
<1>4. EvidenceIsSound'
  BY <1>3 DEF IInv, EvidenceIsSound
<1>5. FreshIsObserved'
  BY DEF IInv, TypeOK, FreshIsObserved, Ready
<1>6. QED BY <1>1, <1>2, <1>4, <1>5 DEF IInv

\* A step to a stage at which the evidence is not ready yet.
LEMMA EarlyKeepsSound ==
    ASSUME IInv, NEW p \in Processes, NEW stage \in Stages \ Ready,
           pc' = [pc EXCEPT ![p] = stage], UNCHANGED <<forge, store>>,
           \A q \in Processes \ {p} : evidence'[q] = evidence[q] /\ began'[q] = began[q]
    PROVE  EvidenceIsSound' /\ FreshIsObserved'
<1> USE DEF store
<1>1. pc \in [Processes -> Stages]
  BY DEF IInv, TypeOK
<1>2. PreparedEvidence' \subseteq PreparedEvidence
  BY <1>1 DEF PreparedEvidence
<1>3. EvidenceIsSound'
  BY <1>2 DEF IInv, EvidenceIsSound
<1>4. FreshIsObserved'
  BY <1>1 DEF IInv, FreshIsObserved
<1>5. QED BY <1>3, <1>4

LEMMA BeginKeepsIInv ==
    ASSUME IInv, NEW p \in Processes, NEW m \in {"local", "github"}, BeginSync(p, m)
    PROVE  IInv'
<1> USE DEF BeginSync, world, store
<1>1. TypeOK'
  BY DEF IInv, TypeOK, Stages, Ready
<1>2. DraftIsLocal' /\ PriorIsPublished' /\ BeganEarlier'
  BY SyncAssumption DEF IInv, DraftIsLocal, PriorIsPublished, BeganEarlier, TypeOK, Versions
<1>3. EvidenceIsSound' /\ FreshIsObserved'
  <2>1. "documents" \in Stages \ Ready
    BY DEF Stages, Ready
  <2>2. \A q \in Processes \ {p} : evidence'[q] = evidence[q] /\ began'[q] = began[q]
    BY DEF IInv, TypeOK
  <2>3. QED BY <2>1, <2>2, EarlyKeepsSound
<1>4. QED BY <1>1, <1>2, <1>3 DEF IInv

LEMMA ReadPriorKeepsIInv ==
    ASSUME IInv, NEW p \in Processes, ReadPrior(p)
    PROVE  IInv'
<1> USE DEF ReadPrior, Go, world, store
<1>1. Current \in Evidence \union {Absent}
  BY LogEntries
<1>2. TypeOK'
  BY <1>1 DEF IInv, TypeOK, Stages, Ready
<1>3. DraftIsLocal' /\ BeganEarlier'
  <2>1. pc[p] = "prior" /\ evidence' = evidence /\ began' = began /\ forge' = forge
    OBVIOUS
  <2>2. \A q \in Processes \ {p} : pc'[q] = pc[q]
    BY DEF IInv, TypeOK
  <2>3. QED BY <2>1, <2>2 DEF IInv, DraftIsLocal, BeganEarlier
<1>4. PriorIsPublished'
  <2>1. /\ \A q \in Processes \ {p} : pc'[q] = pc[q] /\ prior'[q] = prior[q]
        /\ prior'[p] = Current /\ log' = log
    BY DEF IInv, TypeOK
  <2>2. QED BY <2>1, LogEntries DEF IInv, PriorIsPublished
<1>5. EvidenceIsSound' /\ FreshIsObserved'
  <2>1. "fetch" \in Stages \ Ready
    BY DEF Stages, Ready
  <2>2. QED BY <2>1, EarlyKeepsSound
<1>6. QED BY <1>2, <1>3, <1>4, <1>5 DEF IInv

-----------------------------------------------------------------------------
(* Steps that prepare evidence. *)

\* New evidence is sound, and if fresh, GitHub is in the state it names.
LEMMA PreparedKeepsSound ==
    ASSUME IInv, NEW p \in Processes, NEW e, NEW stage \in Stages,
           pc' = [pc EXCEPT ![p] = stage],
           evidence' = [evidence EXCEPT ![p] = e],
           UNCHANGED <<forge, store, began>>,
           stage \in Ready => Sound(e),
           stage \in Ready /\ e.github # Absent /\ e.github.freshness = "fresh"
              => e.github.cursor \in began[p] .. forge
    PROVE  EvidenceIsSound' /\ FreshIsObserved'
<1> USE DEF store
<1>1. pc \in [Processes -> Stages] /\ DOMAIN evidence = Processes
  BY DEF IInv, TypeOK
<1>2. \A k \in PreparedEvidence' : k \in PreparedEvidence \/ (k = e /\ stage \in Ready)
  BY <1>1 DEF PreparedEvidence
<1>3. EvidenceIsSound'
  BY <1>2 DEF IInv, EvidenceIsSound
<1>4. FreshIsObserved'
  <2>1. \A q \in Processes \ {p} : pc'[q] = pc[q] /\ evidence'[q] = evidence[q]
    BY <1>1
  <2>2. pc'[p] = stage /\ evidence'[p] = e
    BY <1>1
  <2>3. QED BY <2>1, <2>2 DEF IInv, FreshIsObserved
<1>5. QED BY <1>3, <1>4

LEMMA CollectKeepsIInv ==
    ASSUME IInv, NEW p \in Processes, CollectDocuments(p)
    PROVE  IInv'
<1> DEFINE e == Local(history[p], worktree)
           to == IF mode[p] = "github" THEN "prior" ELSE "compare"
<1>1. /\ history[p] \in Heads /\ worktree \in Worktrees
      /\ mode[p] \in {"local", "github"}
      /\ pc \in [Processes -> Stages]
  BY DEF IInv, TypeOK, CollectDocuments
<1>2. e \in Evidence /\ Sound(e) /\ e.github = Absent
  BY <1>1, LocalEvidence
<1>3. /\ pc' = [pc EXCEPT ![p] = to]
      /\ evidence' = [evidence EXCEPT ![p] = e]
      /\ UNCHANGED <<head, worktree, forge, log, records, mode, history, prior, answer, began>>
  BY DEF CollectDocuments, Go, world, store
<1>4. DraftIsLocal'
  <2>1. \E h \in Heads, w \in Worktrees : e = Local(h, w)
    BY <1>1
  <2>2. \A q \in Processes \ {p} : pc'[q] = pc[q] /\ evidence'[q] = evidence[q]
    BY <1>3 DEF IInv, TypeOK
  <2>3. evidence'[p] = e
    BY <1>3 DEF IInv, TypeOK
  <2> HIDE DEF e
  <2>4. QED BY <2>1, <2>2, <2>3 DEF IInv, DraftIsLocal
<1> HIDE DEF e
<1>5. TypeOK'
  BY <1>1, <1>2, <1>3 DEF IInv, TypeOK, Stages, Ready
<1>6. PriorIsPublished' /\ BeganEarlier'
  BY <1>1, <1>3 DEF IInv, PriorIsPublished, BeganEarlier
<1>7. EvidenceIsSound' /\ FreshIsObserved'
  <2>1. to \in Stages
    BY DEF Stages
  <2> HIDE DEF to
  <2>2. QED BY <1>2, <1>3, <2>1, PreparedKeepsSound DEF store
<1>8. QED BY <1>4, <1>5, <1>6, <1>7 DEF IInv

\* The three outcomes of a refresh have this in common.
LEMMA FetchedKeepsIInv ==
    ASSUME IInv, NEW p \in Processes, pc[p] = "fetch",
           NEW part \in Parts, NEW source \in SourceStates,
           NEW before, Described(part, before), Cursor(before) = Cursor(source),
           source.freshness = "fresh" => source.cursor = forge,
           Fetched(p, part, source)
    PROVE  IInv'
<1>1. PICK h \in Heads, w \in Worktrees : evidence[p] = Local(h, w)
  BY DEF IInv, DraftIsLocal
<1> DEFINE e == [Merge(Local(h, w), part) EXCEPT !.github = source]
<1>2. /\ pc' = [pc EXCEPT ![p] = "compare"]
      /\ evidence' = [evidence EXCEPT ![p] = e]
      /\ UNCHANGED <<head, worktree, forge, log, records, mode, history, prior, answer, began>>
  BY <1>1 DEF Fetched, Go, world, store, IInv, TypeOK
<1>3. e \in Evidence /\ e.github = source
  BY MergedEvidence
<1>4. Sound(e)
  BY MergeKeepsDescription
<1> HIDE DEF e
<1>5. source # Absent
  BY SyncAssumption
<1>6. TypeOK'
  <2>1. mode[p] = "github"
    BY DEF IInv, TypeOK
  <2>2. QED BY <1>2, <1>3, <1>5, <2>1 DEF IInv, TypeOK, Stages, Ready
<1>7. DraftIsLocal' /\ PriorIsPublished' /\ BeganEarlier'
  <2>1. \A q \in Processes \ {p} : pc'[q] = pc[q] /\ evidence'[q] = evidence[q]
    BY <1>2 DEF IInv, TypeOK
  <2>2. pc'[p] = "compare"
    BY <1>2 DEF IInv, TypeOK
  <2>3. QED BY <1>2, <2>1, <2>2 DEF IInv, DraftIsLocal, PriorIsPublished, BeganEarlier
<1>8. EvidenceIsSound' /\ FreshIsObserved'
  <2>1. "compare" \in Stages
    BY DEF Stages
  <2>2. forge \in Nat /\ began[p] \in Nat /\ began[p] <= forge
    BY SyncAssumption DEF IInv, TypeOK, BeganEarlier, Versions
  <2>3. e.github.freshness = "fresh" => e.github.cursor \in began[p] .. forge
    BY <1>3, <2>2
  <2>4. QED BY <1>2, <1>4, <2>1, <2>3, PreparedKeepsSound DEF store
<1>9. QED BY <1>6, <1>7, <1>8 DEF IInv

LEMMA UpdatedKeepsIInv ==
    ASSUME IInv, NEW p \in Processes, Updated(p)
    PROVE  IInv'
<1> DEFINE part == Forge[forge]
           source == Source("fresh", forge, "none")
<1>1. forge \in Versions
  BY DEF IInv, TypeOK
<1>2. part \in Parts
  BY <1>1, SyncAssumption DEF Parts
<1>3. source \in SourceStates
  BY <1>1 DEF Source, SourceStates
<1>4. Cursor(source) = forge /\ forge # Absent
  BY <1>1, <1>3, SyncAssumption DEF Cursor, Source
<1>5. StandsFor(part, forge)
  BY DEF StandsFor
<1>6. Described(part, source)
  BY <1>4, <1>5 DEF Described
<1>7. Fetched(p, part, source) /\ pc[p] = "fetch"
  BY DEF Updated, Fetched
<1>8. source.freshness = "fresh" => source.cursor = forge
  BY DEF Source
<1> HIDE DEF part, source
<1>9. QED BY <1>2, <1>3, <1>6, <1>7, <1>8, FetchedKeepsIInv

LEMMA PriorKeepsIInv ==
    ASSUME IInv, NEW p \in Processes, NotModified(p) \/ RefreshFails(p)
    PROVE  IInv'
<1> DEFINE part == PriorPart(p)
<1>1. PICK f \in {"fresh", "stale"}, note \in {"none", "retained", "nothing"} :
         /\ Fetched(p, part, Source(f, PriorCursor(p), note))
         /\ f = "fresh" => PriorCursor(p) = forge
  BY DEF NotModified, RefreshFails, Note
<1> DEFINE source == Source(f, PriorCursor(p), note)
<1>2. pc[p] = "fetch"
  BY <1>1 DEF Fetched
<1>3. /\ part \in Parts
      /\ Described(part, PriorSource(p))
      /\ PriorCursor(p) = Cursor(PriorSource(p))
      /\ PriorCursor(p) \in Versions \union {Absent}
  BY <1>2, PriorIsDescribed
<1>4. source \in SourceStates /\ source.cursor = PriorCursor(p)
  BY <1>3 DEF Source, SourceStates
<1>5. Cursor(source) = PriorCursor(p)
  BY <1>4, SyncAssumption DEF Cursor
<1>6. source.freshness = "fresh" => source.cursor = forge
  BY <1>1 DEF Source
<1>7. Fetched(p, part, source)
  BY <1>1
<1> HIDE DEF part, source
<1>8. QED BY <1>2, <1>3, <1>4, <1>5, <1>6, <1>7, FetchedKeepsIInv

-----------------------------------------------------------------------------
(* Publication, and the world. *)

LEMMA CompareKeepsIInv ==
    ASSUME IInv, NEW p \in Processes, Compare(p)
    PROVE  IInv'
<1>1. /\ pc[p] = "compare"
      /\ pc' = [pc EXCEPT ![p] = "publish"]
      /\ UNCHANGED <<head, worktree, forge, log, records, mode, history, evidence, prior,
                     answer, began>>
  BY DEF Compare, Go, world, store
<1>2. TypeOK'
  BY <1>1 DEF IInv, TypeOK, Stages, Ready
<1>3. /\ pc'[p] = "publish"
      /\ \A q \in Processes \ {p} : pc'[q] = pc[q]
  BY <1>1 DEF IInv, TypeOK
<1>4. DraftIsLocal' /\ PriorIsPublished' /\ BeganEarlier'
  BY <1>1, <1>3 DEF IInv, DraftIsLocal, PriorIsPublished, BeganEarlier
<1>5. EvidenceIsSound'
  <2>1. PreparedEvidence' = PreparedEvidence
    BY <1>1, <1>3 DEF PreparedEvidence, Ready
  <2>2. QED BY <2>1 DEF IInv, EvidenceIsSound
<1>6. FreshIsObserved'
  BY <1>1, <1>3 DEF IInv, FreshIsObserved, Ready
<1>7. QED BY <1>2, <1>4, <1>5, <1>6 DEF IInv

LEMMA PublishKeepsIInv ==
    ASSUME IInv, NEW p \in Processes, Publish(p)
    PROVE  IInv'
<1> DEFINE e == evidence[p]
<1>1. e \in Evidence /\ e \in PreparedEvidence /\ pc \in [Processes -> Stages]
  BY DEF IInv, TypeOK, Publish, PreparedEvidence, Ready
<1>2. /\ log' = Append(log, e)
      /\ records' = [i \in Ids |-> IF i \in DOMAIN e.records THEN e.records[i] ELSE records[i]]
      /\ pc' = [pc EXCEPT ![p] = "idle"]
      /\ answer' = [answer EXCEPT ![p] = "published"]
      /\ history' = [history EXCEPT ![p] = Absent]
      /\ evidence' = [evidence EXCEPT ![p] = Absent]
      /\ prior' = [prior EXCEPT ![p] = Absent]
      /\ mode' = [mode EXCEPT ![p] = "local"]
      /\ began' = [began EXCEPT ![p] = 1]
      /\ UNCHANGED <<head, worktree, forge>>
  BY DEF Publish, AppendSnapshot, End, world
<1>3. log \in Seq(Evidence)
  BY DEF IInv, TypeOK
<1>4. /\ DOMAIN log' = DOMAIN log \union {Len(log) + 1}
      /\ \A i \in DOMAIN log : log'[i] = log[i]
      /\ log'[Len(log) + 1] = e
      /\ log' \in Seq(Evidence)
  <2> HIDE DEF e
  <2>1. QED BY <1>1, <1>2, <1>3
<1>5. records' \in [Ids -> Contents \union {Absent}]
  <2>1. \A i \in DOMAIN e.records : e.records[i] \in Contents
    BY <1>1 DEF Evidence
  <2>2. records \in [Ids -> Contents \union {Absent}]
    BY DEF IInv, TypeOK
  <2> HIDE DEF e
  <2>3. QED BY <1>2, <2>1, <2>2
<1>6. TypeOK'
  BY <1>2, <1>4, <1>5, SyncAssumption DEF IInv, TypeOK, Versions, Stages, Ready
<1>7. /\ pc'[p] = "idle" /\ began'[p] = 1
      /\ \A q \in Processes \ {p} : /\ pc'[q] = pc[q] /\ evidence'[q] = evidence[q]
                                    /\ prior'[q] = prior[q] /\ began'[q] = began[q]
  BY <1>2 DEF IInv, TypeOK
<1>8. DraftIsLocal'
  BY <1>7 DEF IInv, DraftIsLocal
<1>9. PriorIsPublished'
  BY <1>4, <1>7 DEF IInv, PriorIsPublished
<1>10. BeganEarlier'
  <2>1. 1 <= forge
    BY DEF IInv, TypeOK, Versions
  <2>2. QED BY <1>2, <1>7, <2>1 DEF IInv, BeganEarlier
<1>11. EvidenceIsSound'
  <2>1. PreparedEvidence' \subseteq PreparedEvidence
    <3> HIDE DEF e
    <3>1. \A i \in DOMAIN log' : log'[i] \in PreparedEvidence
      BY <1>1, <1>4 DEF PreparedEvidence
    <3>2. \A q \in Processes : pc'[q] \in Ready => evidence'[q] \in PreparedEvidence
      BY <1>7 DEF PreparedEvidence, Ready
    <3>3. QED BY <3>1, <3>2 DEF PreparedEvidence
  <2>2. QED BY <2>1 DEF IInv, EvidenceIsSound
<1>12. FreshIsObserved'
  BY <1>2, <1>7 DEF IInv, FreshIsObserved, Ready
<1>13. QED BY <1>6, <1>8, <1>9, <1>10, <1>11, <1>12 DEF IInv

\* The repository or GitHub changes; GitHub only goes forward.
LEMMA WorldKeepsIInv ==
    ASSUME IInv,
           (\E h \in Heads, w \in Worktrees : ChangeRepository(h, w)) \/ ChangeForge
    PROVE  IInv'
<1>1. /\ UNCHANGED <<log, records, pc, mode, history, evidence, prior, answer, began>>
      /\ head' \in Heads /\ worktree' \in Worktrees
      /\ forge' \in Versions /\ forge <= forge'
  BY SyncAssumption DEF ChangeRepository, ChangeForge, store, IInv, TypeOK, Versions
<1>2. TypeOK'
  BY <1>1 DEF IInv, TypeOK
<1>3. DraftIsLocal' /\ PriorIsPublished'
  BY <1>1 DEF IInv, DraftIsLocal, PriorIsPublished
<1>4. \A q \in Processes : began[q] \in Nat /\ forge \in Nat /\ forge' \in Nat
  BY <1>1 DEF IInv, TypeOK, Versions
<1>5. BeganEarlier'
  BY <1>1, <1>4 DEF IInv, BeganEarlier
<1>6. EvidenceIsSound'
  BY <1>1 DEF IInv, EvidenceIsSound, PreparedEvidence
<1>7. FreshIsObserved'
  BY <1>1, <1>4 DEF IInv, FreshIsObserved
<1>8. QED BY <1>2, <1>3, <1>5, <1>6, <1>7 DEF IInv

-----------------------------------------------------------------------------

LEMMA InvInit == Init => IInv
<1> SUFFICES ASSUME Init PROVE IInv
  OBVIOUS
<1>1. TypeOK
  BY SyncAssumption DEF Init, TypeOK, Versions, Stages, Contents, Ready
<1>2. DraftIsLocal /\ PriorIsPublished /\ BeganEarlier
  BY DEF Init, DraftIsLocal, PriorIsPublished, BeganEarlier
<1>3. EvidenceIsSound /\ FreshIsObserved
  BY DEF Init, EvidenceIsSound, FreshIsObserved, PreparedEvidence, Ready
<1>4. QED BY <1>1, <1>2, <1>3 DEF IInv

LEMMA InvNext == IInv /\ [Next]_vars => IInv'
<1> SUFFICES ASSUME IInv, [Next]_vars PROVE IInv'
  OBVIOUS
<1>1. CASE UNCHANGED vars
  BY <1>1 DEF vars, world, store, IInv, TypeOK, DraftIsLocal, PriorIsPublished, BeganEarlier,
              EvidenceIsSound, PreparedEvidence, FreshIsObserved
<1>2. CASE (\E h \in Heads, w \in Worktrees : ChangeRepository(h, w)) \/ ChangeForge
  BY <1>2, WorldKeepsIInv
<1>3. ASSUME NEW p \in Processes, Step(p)
      PROVE  IInv'
  <2>1. CASE \E m \in {"local", "github"} : BeginSync(p, m)
    BY <2>1, BeginKeepsIInv
  <2>2. CASE CollectDocuments(p)
    BY <2>2, CollectKeepsIInv
  <2>3. CASE ReadPrior(p)
    BY <2>3, ReadPriorKeepsIInv
  <2>4. CASE Updated(p)
    BY <2>4, UpdatedKeepsIInv
  <2>5. CASE NotModified(p) \/ RefreshFails(p)
    BY <2>5, PriorKeepsIInv
  <2>6. CASE Compare(p)
    BY <2>6, CompareKeepsIInv
  <2>7. CASE Publish(p)
    BY <2>7, PublishKeepsIInv
  <2>8. CASE LocalFails(p) \/ Unchanged(p) \/ SnapshotExists(p) \/ ContentMismatch(p)
             \/ StoreFails(p) \/ Crash(p)
    BY <2>8, EndKeepsIInv
       DEF LocalFails, Unchanged, SnapshotExists, ContentMismatch, StoreFails, Crash, Errors
  <2>9. QED BY <1>3, <2>1, <2>2, <2>3, <2>4, <2>5, <2>6, <2>7, <2>8 DEF Step
<1>4. QED BY <1>1, <1>2, <1>3 DEF Next

LEMMA InvHolds == Spec => []IInv
BY InvInit, InvNext, PTL DEF Spec

\* Every variable keeps its type, and a sync that is --local never reaches the
\* steps that look at GitHub (Engine::sync_local).
THEOREM SyncTypeCorrect == Spec => []TypeOK
<1>1. IInv => TypeOK
  BY DEF IInv
<1>2. QED BY <1>1, InvHolds, PTL

\* Whatever is published or about to be has both records of every relationship
\* (prepare_evidence and merge_github_evidence).
THEOREM SyncEvidenceIsClosed == Spec => []EvidenceIsClosed
<1>1. IInv => EvidenceIsClosed
  BY DEF IInv, EvidenceIsSound, Sound, EvidenceIsClosed
<1>2. QED BY <1>1, InvHolds, PTL

\* Local evidence is all there, and it alone is not GitHub's (merge_github_evidence).
THEOREM SyncLocalWins == Spec => []LocalEvidenceWins
<1>1. IInv => LocalEvidenceWins
  BY DEF IInv, EvidenceIsSound, Sound, LocalEvidenceWins
<1>2. QED BY <1>1, InvHolds, PTL

\* A GitHub cursor and the evidence stored with it belong together, whatever was
\* retained, confirmed or lost on the way (sync_with_github_client).
THEOREM CursorIsHonest == Spec => []CursorDescribesEvidence
<1>1. IInv => CursorDescribesEvidence
  BY DEF IInv, EvidenceIsSound, Sound, CursorDescribesEvidence
<1>2. QED BY <1>1, InvHolds, PTL

\* Fresh means that GitHub was in the state named by the cursor while the sync ran.
THEOREM FreshIsHonest == Spec => []FreshIsObserved
<1>1. IInv => FreshIsObserved
  BY DEF IInv
<1>2. QED BY <1>1, InvHolds, PTL

-----------------------------------------------------------------------------
(* The log of snapshots. *)

\* The table holds what every published snapshot says of its records.
TableAgrees ==
    \A i \in DOMAIN log : \A r \in DOMAIN log[i].records : records[r] = log[i].records[r]

LEMMA TableInit == Init => TableAgrees
BY DEF Init, TableAgrees

\* A publication is the only step that touches the store.
LEMMA StoreSteps ==
    ASSUME [Next]_vars, \A p \in Processes : ~Publish(p)
    PROVE  UNCHANGED store
BY DEF Next, Step, vars, ChangeRepository, ChangeForge, BeginSync, CollectDocuments, LocalFails,
       ReadPrior, Updated, NotModified, RefreshFails, Fetched, Unchanged, Compare,
       SnapshotExists, ContentMismatch, StoreFails, Crash

\* What a publication does to the store.
LEMMA PublishSteps ==
    ASSUME IInv, NEW p \in Processes, Publish(p)
    PROVE  /\ log' \in Seq(Evidence) /\ log \in Seq(Evidence)
           /\ Len(log') = Len(log) + 1
           /\ \A i \in DOMAIN log : log'[i] = log[i]
           /\ log'[Len(log) + 1] = evidence[p]
           /\ evidence[p] \in Evidence /\ Sound(evidence[p])
           /\ records' = [i \in Ids |-> IF i \in DOMAIN evidence[p].records
                                        THEN evidence[p].records[i] ELSE records[i]]
<1>1. evidence[p] \in Evidence /\ Sound(evidence[p])
  BY DEF IInv, TypeOK, Publish, Ready, EvidenceIsSound, PreparedEvidence
<1>2. log \in Seq(Evidence)
  BY DEF IInv, TypeOK
<1> DEFINE e == evidence[p]
<1>3. /\ log' = Append(log, e)
      /\ records' = [i \in Ids |-> IF i \in DOMAIN e.records THEN e.records[i] ELSE records[i]]
  BY DEF Publish, AppendSnapshot
<1> HIDE DEF e
<1>4. /\ log' \in Seq(Evidence) /\ Len(log') = Len(log) + 1
      /\ \A i \in DOMAIN log : log'[i] = log[i]
      /\ log'[Len(log) + 1] = e
  BY <1>1, <1>2, <1>3 DEF e
<1>5. QED BY <1>1, <1>2, <1>3, <1>4 DEF e

LEMMA EvidenceRecords ==
    ASSUME NEW e \in Evidence
    PROVE  DOMAIN e.records \subseteq Ids /\ \A i \in DOMAIN e.records : e.records[i] \in Contents
BY DEF Evidence

LEMMA TableNext == IInv /\ TableAgrees /\ [Next]_vars => TableAgrees'
<1> SUFFICES ASSUME IInv, TableAgrees, [Next]_vars PROVE TableAgrees'
  OBVIOUS
<1>1. CASE \A p \in Processes : ~Publish(p)
  BY <1>1, StoreSteps DEF TableAgrees, store
<1>2. ASSUME NEW p \in Processes, Publish(p)
      PROVE  TableAgrees'
  <2> DEFINE e == evidence[p]
  <2>1. /\ log' \in Seq(Evidence) /\ log \in Seq(Evidence)
        /\ Len(log') = Len(log) + 1
        /\ \A i \in DOMAIN log : log'[i] = log[i]
        /\ log'[Len(log) + 1] = e
        /\ records' = [i \in Ids |-> IF i \in DOMAIN e.records THEN e.records[i] ELSE records[i]]
    BY <1>2, PublishSteps
  <2>2. e \in Evidence
    BY <1>2, PublishSteps
  <2>3. \A r \in DOMAIN e.records : records[r] \in {Absent, e.records[r]}
    BY <1>2 DEF Publish, Mismatch
  <2> HIDE DEF e
  <2>4. DOMAIN log' = DOMAIN log \union {Len(log) + 1}
    BY <2>1
  <2>5. \A r \in DOMAIN e.records : records'[r] = e.records[r]
    BY <2>1, <2>2, EvidenceRecords
  <2>6. ASSUME NEW i \in DOMAIN log, NEW r \in DOMAIN log[i].records
        PROVE  records'[r] = log[i].records[r]
    <3>1. log[i] \in Evidence
      BY <2>1
    <3>2. r \in Ids /\ log[i].records[r] \in Contents
      BY <3>1, EvidenceRecords
    <3>3. records[r] = log[i].records[r] /\ records[r] # Absent
      BY <3>2, SyncAssumption DEF TableAgrees, Contents
    <3>4. r \in DOMAIN e.records => e.records[r] = records[r]
      BY <2>3, <3>3
    <3>5. records'[r] = IF r \in DOMAIN e.records THEN e.records[r] ELSE records[r]
      BY <2>1, <3>2
    <3>6. QED BY <3>3, <3>4, <3>5
  <2>7. ASSUME NEW i \in DOMAIN log', NEW r \in DOMAIN log'[i].records
        PROVE  records'[r] = log'[i].records[r]
    <3>1. CASE i \in DOMAIN log
      <4>1. log'[i] = log[i]
        BY <2>1, <3>1
      <4>2. QED BY <2>6, <2>7, <3>1, <4>1
    <3>2. CASE i = Len(log) + 1
      BY <2>1, <2>5, <2>7, <3>2
    <3>3. QED BY <2>4, <2>7, <3>1, <3>2
  <2>8. QED BY <2>7 DEF TableAgrees
<1>3. QED BY <1>1, <1>2

\* The log the store's specification is about.
Image(s) == [i \in DOMAIN s |-> Snapshot(s[i])]

LEMMA ImageProperties ==
    ASSUME NEW S, NEW s \in Seq(S)
    PROVE  /\ Image(s) \in Seq({Snapshot(e) : e \in S})
           /\ Len(Image(s)) = Len(s)
           /\ DOMAIN Image(s) = 1 .. Len(s)
           /\ \A i \in 1 .. Len(s) : Image(s)[i] = Snapshot(s[i])
<1> DEFINE T == {Snapshot(e) : e \in S}
<1>1. Len(s) \in Nat /\ DOMAIN s = 1 .. Len(s) /\ \A i \in 1 .. Len(s) : s[i] \in S
  OBVIOUS
<1>2. \A i \in 1 .. Len(s) : Snapshot(s[i]) \in T
  BY <1>1
<1> HIDE DEF T
<1>3. Image(s) \in [1 .. Len(s) -> T]
  BY <1>1, <1>2 DEF Image
<1>4. Image(s) \in Seq(T)
  BY <1>1, <1>3, SeqDef
<1>5. DOMAIN Image(s) = 1 .. Len(s) /\ \A i \in 1 .. Len(s) : Image(s)[i] = Snapshot(s[i])
  BY <1>1 DEF Image
<1>6. Len(Image(s)) = Len(s)
  BY <1>1, <1>4, <1>5, LenProperties
<1>7. QED BY <1>4, <1>5, <1>6 DEF T

\* Snapshots that agree on the records they share are snapshots the log allows.
LEMMA PublishedAgree ==
    ASSUME IInv, TableAgrees, NEW p \in Processes, Publish(p), NEW i \in DOMAIN log
    PROVE  Log!Agree(Snapshot(log[i]), Snapshot(evidence[p]))
<1> DEFINE e == evidence[p]
           s == log[i]
<1>1. s # e
  BY DEF Publish
<1>2. \A r \in DOMAIN s.records \intersect DOMAIN e.records : s.records[r] = e.records[r]
  <2>1. s \in Evidence
    BY LogEntries
  <2>2. \A r \in DOMAIN s.records : records[r] = s.records[r] /\ s.records[r] \in Contents
    BY <2>1, EvidenceRecords DEF TableAgrees
  <2>3. \A r \in DOMAIN e.records : records[r] \in {Absent, e.records[r]}
    BY DEF Publish, Mismatch
  <2>4. Absent \notin Contents
    BY SyncAssumption DEF Contents
  <2> HIDE DEF s, e
  <2>5. QED BY <2>2, <2>3, <2>4
<1> HIDE DEF s, e
<1>3. Log!Agree(Snapshot(s), Snapshot(e))
  BY <1>1, <1>2 DEF Snapshot, Log!Agree
<1>4. QED BY <1>3 DEF s, e

LEMMA ClosedIsWhole ==
    ASSUME NEW e, Closed(e)
    PROVE  Log!Whole(Snapshot(e))
<1> SUFFICES ASSUME NEW l \in e.links
             PROVE  \E from, to \in Snapshot(e).nodes : l.source = from[1] /\ l.target = to[1]
  BY DEF Log!Whole, Snapshot
<1>1. l.source \in DOMAIN e.records /\ l.target \in DOMAIN e.records
  BY DEF Closed, Ends
<1> DEFINE from == <<l.source, e.records[l.source]>>
           to == <<l.target, e.records[l.target]>>
<1>2. from \in Snapshot(e).nodes /\ to \in Snapshot(e).nodes
  BY <1>1 DEF Snapshot
<1>3. from[1] = l.source /\ to[1] = l.target
  OBVIOUS
<1> HIDE DEF from, to
<1>4. QED BY <1>2, <1>3

LEMMA PublishIsPublish ==
    ASSUME IInv, TableAgrees, NEW p \in Processes, Publish(p)
    PROVE  Log!Publish
<1> DEFINE e == evidence[p]
           T == {Snapshot(x) : x \in Evidence}
<1>1. /\ log' \in Seq(Evidence) /\ log \in Seq(Evidence)
      /\ Len(log') = Len(log) + 1
      /\ \A i \in DOMAIN log : log'[i] = log[i]
      /\ log'[Len(log) + 1] = e
      /\ Sound(e)
  BY PublishSteps
<1>2. Len(log) \in Nat /\ DOMAIN log = 1 .. Len(log)
  BY <1>1
<1>3. /\ Image(log) \in Seq(T) /\ Image(log') \in Seq(T)
      /\ Len(Image(log)) = Len(log) /\ Len(Image(log')) = Len(log) + 1
      /\ DOMAIN Image(log) = 1 .. Len(log)
      /\ \A i \in 1 .. Len(log) : Image(log)[i] = Snapshot(log[i])
      /\ \A i \in 1 .. Len(log) + 1 : Image(log')[i] = Snapshot(log'[i])
  BY <1>1, ImageProperties
<1> HIDE DEF e, T
<1>4. \A i \in 1 .. Len(log) : Image(log')[i] = Image(log)[i]
  BY <1>1, <1>2, <1>3
<1>5. SubSeq(Image(log'), 1, Len(Image(log))) = Image(log)
  BY <1>3, <1>4, AppendedPrefix
<1>6. Image(log')[Len(Image(log'))] = Snapshot(e)
  BY <1>1, <1>2, <1>3
<1>7. Log!Whole(Snapshot(e))
  BY <1>1, ClosedIsWhole DEF Sound
<1>8. \A i \in DOMAIN Image(log) : Log!Agree(Image(log)[i], Snapshot(e))
  BY <1>2, <1>3, PublishedAgree DEF e
<1>9. Len(Image(log')) = Len(Image(log)) + 1
  BY <1>3
<1>10. QED BY <1>5, <1>6, <1>7, <1>8, <1>9 DEF Log!Publish, Image

\* A synchronisation only ever appends whole snapshots that agree with those
\* before (Engine::publish_evidence on top of EvidenceStore).
THEOREM SyncImplementsLog == Spec => ImplementsLog
<1>1. Init => Log!Init
  <2> SUFFICES ASSUME Init PROVE Log!Init
    OBVIOUS
  <2>1. Image(log) = <<>>
    <3>1. log \in Seq({}) /\ Len(log) = 0
      BY DEF Init
    <3>2. QED BY <3>1, ImageProperties, EmptySeq
  <2>2. QED BY <2>1 DEF Log!Init, Log!NoAnswer, Image
<1>2. ASSUME IInv, TableAgrees, [Next]_vars
      PROVE  [Log!Next]_Log!logVars
  <2>1. CASE \A p \in Processes : ~Publish(p)
    <3>1. log' = log
      BY <1>2, <2>1, StoreSteps DEF store
    <3>2. QED BY <3>1 DEF Log!logVars
  <2>2. CASE \E p \in Processes : Publish(p)
    BY <1>2, <2>2, PublishIsPublish DEF Log!Next
  <2>3. QED BY <2>1, <2>2
<1>3. Spec => []TableAgrees
  BY TableInit, TableNext, InvHolds, PTL DEF Spec
<1>4. QED BY <1>1, <1>2, <1>3, InvHolds, PTL DEF Spec, ImplementsLog, Log!Spec
===============================================================================
