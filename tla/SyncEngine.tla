------------------------------ MODULE SyncEngine ------------------------------
(***************************************************************************)
(* `rationale sync` (crates/rationale-engine/src/lib.rs): a process reads  *)
(* the commits, then the documents of the working tree, then, unless       *)
(* --local, the GitHub contribution of the current snapshot, asks GitHub   *)
(* whether it has changed, and publishes the merged evidence.              *)
(*                                                                         *)
(* No lock is held from one of these steps to the next: the user moves the *)
(* head and edits documents, GitHub changes, other processes publish.      *)
(*                                                                         *)
(* The store is the log of whole snapshots that EvidenceStore implements:  *)
(* a read or a publication is one step here.  A snapshot's identifier is a *)
(* hash of its evidence and its source states (times of observation left   *)
(* out), so two snapshots have one identifier exactly if they are equal,   *)
(* and this module needs no identifiers.                                   *)
(***************************************************************************)
EXTENDS Naturals, Sequences, FiniteSets

CONSTANTS
    Processes,
    Heads, Worktrees,   \* what the repository may be: a commit, a set of documents
    Commits,            \* the commits in the history of a head
    CommitLinks,        \* the references in their messages
    Documents,          \* a worktree's documents: a function from identifiers to bodies
    DocumentLinks,      \* the references in them
    Bodies,             \* what a document's record may say
    LastVersion,        \* GitHub's states are numbered; so are the ETags it sends
    Forge,              \* each one's items (issues, pull requests, commits) and links
    Ids,                \* record identifiers
    Absent,
    MaxSnapshots        \* bound: no sync begins that could publish one more

Versions == 1 .. LastVersion

\* GitHub's source state.  The note is the diagnostic of a failed refresh.
SourceStates ==
    [freshness : {"fresh", "stale"}, cursor : Versions \union {Absent},
     note : {"none", "retained", "nothing"}]

ASSUME SyncAssumption ==
    /\ LastVersion \in Nat \ {0}
    /\ Commits \in [Heads -> SUBSET Ids]
    /\ CommitLinks \in [Heads -> SUBSET (Ids \X Ids)]
    /\ \A w \in Worktrees : /\ DOMAIN Documents[w] \subseteq Ids
                            /\ \A d \in DOMAIN Documents[w] : Documents[w][d] \in Bodies
    /\ DocumentLinks \in [Worktrees -> SUBSET (Ids \X Ids)]
    /\ Forge \in [Versions -> [items : SUBSET Ids, links : SUBSET (Ids \X Ids)]]
    /\ Bodies \intersect {"git", "github"} = {}
    /\ Absent \notin Bodies \union {"git", "github"}
    /\ Absent \notin Versions \union SourceStates
    /\ MaxSnapshots \in Nat

VARIABLES
    head, worktree,     \* the repository now
    forge,              \* GitHub now
    log,                \* the published snapshots, oldest first
    records,            \* the store's table of records, shared by the snapshots
    pc,                 \* where each process stands
    mode,               \* "local" or "github"
    history,            \* the head whose commits it has read
    evidence,           \* what it has prepared
    prior,              \* the snapshot that was current when it looked
    answer,             \* how its last sync ended
    began               \* GitHub's state when its sync began (history)

world == <<head, worktree, forge>>
store == <<log, records>>
vars == <<world, store, pc, mode, history, evidence, prior, answer, began>>

Stages == {"idle", "documents", "prior", "fetch", "compare", "publish"}
Errors == {"local", "database", "exists", "mismatch"}

\* A record's content: that of the commit, of GitHub's item, or of the document.
Contents == {"git", "github"} \union Bodies

Ends(l) == {l.source, l.target}
Tagged(links, from) == {[source |-> l[1], target |-> l[2], from |-> from] : l \in links}

-----------------------------------------------------------------------------
(* Evidence. *)

\* prepare_evidence: a commit takes the place of a document of its name, and a
\* reference to what is not a local record becomes a diagnostic.
Local(h, w) ==
    LET names == Commits[h] \union DOMAIN Documents[w]
        proposed == Tagged(CommitLinks[h] \union DocumentLinks[w], "local")
    IN  [head |-> h,
         worktree |-> w,
         records |-> [i \in names |-> IF i \in Commits[h] THEN "git" ELSE Documents[w][i]],
         links |-> {l \in proposed : Ends(l) \subseteq names},
         github |-> Absent]

\* Mutant of Merge: the edges are merged without looking for their ends.
MergeDangling(e, part) ==
    [e EXCEPT
        !.records = [i \in DOMAIN e.records \union part.items |->
                        IF i \in DOMAIN e.records THEN e.records[i] ELSE "github"],
        !.links = @ \union Tagged(part.links, "github")]

\* Mutant of Merge: `insert` for `or_insert`, GitHub's record wins.
MergeOver(e, part) ==
    [e EXCEPT
        !.records = [i \in DOMAIN e.records \union part.items |->
                        IF i \in part.items THEN "github" ELSE e.records[i]],
        !.links = @ \union {l \in Tagged(part.links, "github") :
                               Ends(l) \subseteq DOMAIN e.records \union part.items}]

\* merge_github_evidence: local records win, and an edge needs both its ends.
Merge(e, part) ==
    [e EXCEPT
        !.records = [i \in DOMAIN e.records \union part.items |->
                        IF i \in DOMAIN e.records THEN e.records[i] ELSE "github"],
        !.links = @ \union {l \in Tagged(part.links, "github") :
                               Ends(l) \subseteq DOMAIN e.records \union part.items}]

\* prior_github_contribution: what in a snapshot has GitHub's origin.
Contribution(s) ==
    [items |-> {i \in DOMAIN s.records : s.records[i] = "github"},
     links |-> {<<l.source, l.target>> : l \in {k \in s.links : k.from = "github"}}]

Nothing == [items |-> {}, links |-> {}]

Cursor(source) == IF source = Absent THEN Absent ELSE source.cursor

PriorPart(p) == IF prior[p] = Absent THEN Nothing ELSE Contribution(prior[p])
PriorSource(p) == IF prior[p] = Absent THEN Absent ELSE prior[p].github
PriorCursor(p) == Cursor(PriorSource(p))

Source(freshness, cursor, note) == [freshness |-> freshness, cursor |-> cursor, note |-> note]

Current == IF log = <<>> THEN Absent ELSE log[Len(log)]

\* insert_record meets other content under one of the identifiers.
Mismatch(e) == \E i \in DOMAIN e.records : records[i] \notin {Absent, e.records[i]}

Init ==
    /\ head \in Heads /\ worktree \in Worktrees
    /\ forge = 1
    /\ log = <<>>
    /\ records = [i \in Ids |-> Absent]
    /\ pc = [p \in Processes |-> "idle"]
    /\ mode = [p \in Processes |-> "local"]
    /\ history = [p \in Processes |-> Absent]
    /\ evidence = [p \in Processes |-> Absent]
    /\ prior = [p \in Processes |-> Absent]
    /\ answer = [p \in Processes |-> "none"]
    /\ began = [p \in Processes |-> 1]

-----------------------------------------------------------------------------
(* The world a sync looks at. *)

\* The user commits, switches branches, pulls or edits.
ChangeRepository(h, w) ==
    /\ <<h, w>> # <<head, worktree>>
    /\ head' = h /\ worktree' = w
    /\ UNCHANGED <<forge, store, pc, mode, history, evidence, prior, answer, began>>

ChangeForge ==
    /\ forge < LastVersion
    /\ forge' = forge + 1
    /\ UNCHANGED <<head, worktree, store, pc, mode, history, evidence, prior, answer, began>>

-----------------------------------------------------------------------------
(* One sync. *)

\* The sync is over; nothing of it is kept but what it reported.
End(p, a) ==
    /\ pc' = [pc EXCEPT ![p] = "idle"]
    /\ answer' = [answer EXCEPT ![p] = a]
    /\ history' = [history EXCEPT ![p] = Absent]
    /\ evidence' = [evidence EXCEPT ![p] = Absent]
    /\ prior' = [prior EXCEPT ![p] = Absent]
    /\ mode' = [mode EXCEPT ![p] = "local"]
    /\ began' = [began EXCEPT ![p] = 1]
    /\ UNCHANGED world

Go(p, to) ==
    /\ pc' = [pc EXCEPT ![p] = to]
    /\ UNCHANGED <<world, mode, answer, began>>

\* commit_history.
BeginSync(p, m) ==
    /\ pc[p] = "idle"
    /\ Len(log) + Cardinality({q \in Processes : pc[q] # "idle"}) < MaxSnapshots
    /\ pc' = [pc EXCEPT ![p] = "documents"]
    /\ mode' = [mode EXCEPT ![p] = m]
    /\ history' = [history EXCEPT ![p] = head]
    /\ began' = [began EXCEPT ![p] = forge]
    /\ answer' = [answer EXCEPT ![p] = "none"]
    /\ UNCHANGED <<world, store, evidence, prior>>

\* Mutant of CollectDocuments: --local is forgotten.
CollectAndGoOnline(p) ==
    /\ pc[p] = "documents"
    /\ evidence' = [evidence EXCEPT ![p] = Local(history[p], worktree)]
    /\ Go(p, "prior")
    /\ UNCHANGED <<store, history, prior>>

\* collect_documents and prepare_evidence.
CollectDocuments(p) ==
    /\ pc[p] = "documents"
    /\ evidence' = [evidence EXCEPT ![p] = Local(history[p], worktree)]
    /\ Go(p, IF mode[p] = "github" THEN "prior" ELSE "compare")
    /\ UNCHANGED <<store, history, prior>>

\* Git, the file system or the scan limit.
LocalFails(p) ==
    /\ pc[p] = "documents"
    /\ End(p, "local")
    /\ UNCHANGED store

\* The whole current snapshot, whichever sync made it.
ReadPrior(p) ==
    /\ pc[p] = "prior"
    /\ prior' = [prior EXCEPT ![p] = Current]
    /\ Go(p, "fetch")
    /\ UNCHANGED <<store, history, evidence>>

Fetched(p, part, source) ==
    /\ pc[p] = "fetch"
    /\ evidence' = [evidence EXCEPT ![p] = [Merge(@, part) EXCEPT !.github = source]]
    /\ Go(p, "compare")
    /\ UNCHANGED <<store, history, prior>>

\* GitHub's ETag is not the one the prior snapshot's cursor holds, or it holds none.
Updated(p) ==
    /\ PriorCursor(p) # forge
    /\ Fetched(p, Forge[forge], Source("fresh", forge, "none"))

\* 304: GitHub's part of the prior snapshot is taken again.
NotModified(p) ==
    /\ PriorCursor(p) = forge
    /\ Fetched(p, PriorPart(p), Source("fresh", PriorCursor(p), "none"))

Note(p) == IF PriorSource(p) = Absent THEN "nothing" ELSE "retained"

\* Mutant of RefreshFails: the cursor is retained without the records.
RefreshForgets(p) ==
    Fetched(p, Nothing, Source("stale", PriorCursor(p), Note(p)))

\* Mutant of RefreshFails: the failure is not marked.
RefreshUnmarked(p) ==
    Fetched(p, PriorPart(p), Source("fresh", PriorCursor(p), Note(p)))

\* Transport, status, schema, pagination or resource limits.
RefreshFails(p) ==
    Fetched(p, PriorPart(p), Source("stale", PriorCursor(p), Note(p)))

-----------------------------------------------------------------------------
(* publish_evidence. *)

\* The current snapshot already has the identifier.
Unchanged(p) ==
    /\ pc[p] = "compare"
    /\ Current = evidence[p]
    /\ End(p, "unchanged")
    /\ UNCHANGED store

Compare(p) ==
    /\ pc[p] = "compare"
    /\ Current # evidence[p]
    /\ Go(p, "publish")
    /\ UNCHANGED <<store, history, evidence, prior>>

AppendSnapshot(e) ==
    /\ log' = Append(log, e)
    /\ records' = [i \in Ids |-> IF i \in DOMAIN e.records THEN e.records[i] ELSE records[i]]

\* Mutant of Publish: content under an identifier may change.
PublishAnyway(p) ==
    /\ pc[p] = "publish"
    /\ \A i \in DOMAIN log : log[i] # evidence[p]
    /\ AppendSnapshot(evidence[p])
    /\ End(p, "published")

\* The candidate's transaction, from begin_candidate to publish.
Publish(p) ==
    /\ pc[p] = "publish"
    /\ \A i \in DOMAIN log : log[i] # evidence[p]
    /\ ~Mismatch(evidence[p])
    /\ AppendSnapshot(evidence[p])
    /\ End(p, "published")

\* The primary key of snapshots: some snapshot, current or not, has the identifier.
SnapshotExists(p) ==
    /\ pc[p] = "publish"
    /\ \E i \in DOMAIN log : log[i] = evidence[p]
    /\ End(p, "exists")
    /\ UNCHANGED store

ContentMismatch(p) ==
    /\ pc[p] = "publish"
    /\ \A i \in DOMAIN log : log[i] # evidence[p]
    /\ Mismatch(evidence[p])
    /\ End(p, "mismatch")
    /\ UNCHANGED store

\* The database is busy, too large a slice, or fails.
StoreFails(p) ==
    /\ pc[p] \in {"prior", "compare", "publish"}
    /\ End(p, "database")
    /\ UNCHANGED store

\* The process dies; the transaction it was in, if any, leaves nothing.
Crash(p) ==
    /\ pc[p] # "idle"
    /\ End(p, "none")
    /\ UNCHANGED store

Step(p) ==
    \/ \E m \in {"local", "github"} : BeginSync(p, m)
    \/ CollectDocuments(p) \/ LocalFails(p)
    \/ ReadPrior(p) \/ Updated(p) \/ NotModified(p) \/ RefreshFails(p)
    \/ Unchanged(p) \/ Compare(p)
    \/ Publish(p) \/ SnapshotExists(p) \/ ContentMismatch(p)
    \/ StoreFails(p) \/ Crash(p)

Next ==
    \/ \E h \in Heads, w \in Worktrees : ChangeRepository(h, w)
    \/ ChangeForge
    \/ \E p \in Processes : Step(p)

Spec == Init /\ [][Next]_vars

-----------------------------------------------------------------------------
(* Properties. *)

Evidence ==
    [head : Heads, worktree : Worktrees,
     records : UNION {[names -> Contents] : names \in SUBSET Ids},
     links : SUBSET [source : Ids, target : Ids, from : {"local", "github"}],
     github : SourceStates \union {Absent}]

Ready == {"compare", "publish"}

\* Every variable keeps its type; GitHub is never looked at by a sync that is
\* --local, and never named in what it prepares.
TypeOK ==
    /\ head \in Heads /\ worktree \in Worktrees /\ forge \in Versions
    /\ log \in Seq(Evidence)
    /\ records \in [Ids -> Contents \union {Absent}]
    /\ pc \in [Processes -> Stages]
    /\ mode \in [Processes -> {"local", "github"}]
    /\ history \in [Processes -> Heads \union {Absent}]
    /\ evidence \in [Processes -> Evidence \union {Absent}]
    /\ prior \in [Processes -> Evidence \union {Absent}]
    /\ answer \in [Processes -> Errors \union {"none", "published", "unchanged"}]
    /\ began \in [Processes -> Versions]
    /\ \A p \in Processes :
          /\ pc[p] = "documents" => history[p] \in Heads
          /\ pc[p] \in {"prior", "fetch"} => mode[p] = "github"
          /\ pc[p] \in {"prior", "fetch"} \union Ready => evidence[p] \in Evidence
          /\ pc[p] \in Ready => (evidence[p].github = Absent <=> mode[p] = "local")

\* The evidence that is published, or ready to be.
PreparedEvidence ==
    {log[i] : i \in DOMAIN log} \union {evidence[p] : p \in {q \in Processes : pc[q] \in Ready}}

Closed(e) == \A l \in e.links : Ends(l) \subseteq DOMAIN e.records

\* No relationship is ever prepared without both its records, although records
\* leave the local history while GitHub's edges to them are carried along: so
\* the store's validation and foreign keys never refuse a sync.
EvidenceIsClosed == \A e \in PreparedEvidence : Closed(e)

LocalWins(e) ==
    LET local == Local(e.head, e.worktree).records
    IN  /\ DOMAIN local \subseteq DOMAIN e.records
        /\ \A i \in DOMAIN e.records :
              e.records[i] = IF i \in DOMAIN local THEN local[i] ELSE "github"

\* What GitHub says never replaces or hides a local record, and whatever is not
\* local now is GitHub's: a record never survives the commit or document it
\* came from.
LocalEvidenceWins == \A e \in PreparedEvidence : LocalWins(e)

EverLocal ==
    (UNION {Commits[h] : h \in Heads}) \union (UNION {DOMAIN Documents[w] : w \in Worktrees})

\* part is what GitHub served under the cursor, but for what is local sometimes.
StandsFor(part, cursor) ==
    LET served == Forge[cursor]
    IN  /\ part.items \subseteq served.items
        /\ part.links \subseteq served.links
        /\ served.items \ EverLocal \subseteq part.items
        /\ \A l \in served.links :
              {l[1], l[2]} \subseteq served.items \ EverLocal => l \in part.links

Described(part, source) ==
    IF Cursor(source) = Absent THEN part = Nothing ELSE StandsFor(part, Cursor(source))

\* A cursor and the evidence it stands for stay together through retained and
\* unmodified contributions, other syncs and crashes: nothing else is claimed
\* to be GitHub's, and nothing is missing that local evidence cannot have hidden.
CursorDescribesEvidence ==
    \A e \in PreparedEvidence : Described(Contribution(e), e.github)

\* GitHub's source is marked fresh only with a state GitHub was in during that
\* very sync.
FreshIsObserved ==
    \A p \in Processes :
        /\ pc[p] \in Ready
        /\ evidence[p].github # Absent /\ evidence[p].github.freshness = "fresh"
        => evidence[p].github.cursor \in began[p] .. forge

Snapshot(e) ==
    [id |-> e, nodes |-> {<<i, e.records[i]>> : i \in DOMAIN e.records},
     links |-> {<<l, l>> : l \in e.links}, sources |-> e.github]

\* The engine uses the store as it must be used: snapshots are whole, distinct
\* and agree on the records they share, whichever processes published them.
Log == INSTANCE SnapshotLog
          WITH Clients <- Processes,
               log <- [i \in DOMAIN log |-> Snapshot(log[i])],
               since <- [p \in Processes |-> Absent],
               answer <- [p \in Processes |-> [kind |-> "none"]]

ImplementsLog == Log!Spec

-----------------------------------------------------------------------------
(* What the documentation says and the code does not do. *)

\* A sync publishes a snapshot or reuses it, it does not fail because an older
\* snapshot is the same ("Result of publishing or reusing one local evidence
\* snapshot").
SameInputsAreReused == \A p \in Processes : answer[p] # "exists"

\* After a failed refresh local evidence can be published, so that it is
\* queryable ("leaves current local evidence queryable").
FailedRefreshLeavesLocalQueryable ==
    \A p \in Processes :
        /\ pc[p] = "publish"
        /\ evidence[p].github # Absent /\ evidence[p].github.freshness = "stale"
        => ~Mismatch(evidence[p])

\* A failed refresh retains the contribution published last ("GitHub failures
\* retain the last valid forge contribution").
LastValidIsRetained ==
    LET valid == {i \in DOMAIN log : log[i].github # Absent /\ log[i].github.cursor # Absent}
    IN  \A p \in Processes :
            /\ pc[p] \in Ready
            /\ evidence[p].github # Absent /\ evidence[p].github.freshness = "stale"
            /\ valid # {}
            => \E i \in valid : /\ \A j \in valid : j <= i
                                /\ evidence[p].github.cursor = log[i].github.cursor

\* A contribution confirmed by its ETag is still all there ("The collection
\* `ETag` confirms the prior contribution is still current").
ConfirmedIsComplete ==
    \A p \in Processes :
        /\ pc[p] \in Ready
        /\ evidence[p].github # Absent /\ evidence[p].github.freshness = "fresh"
        => LET served == Forge[evidence[p].github.cursor]
           IN  /\ served.items \subseteq DOMAIN evidence[p].records
               /\ Tagged(served.links, "github") \subseteq evidence[p].links
=============================================================================
