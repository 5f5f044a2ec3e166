----------------------------- MODULE GitHubSource -----------------------------
(***************************************************************************)
(* How a sync asks GitHub (crates/rationale-github, and its part of        *)
(* Engine::sync_with_github_client): the first page of the issues with the *)
(* cursor of the last contribution, then page after page of the issues and *)
(* of the commits of each pull request, each page one request, while       *)
(* people go on working at GitHub and the user points `origin` elsewhere.  *)
(*                                                                         *)
(* SyncEngine takes such a fetch as one observation and has several syncs; *)
(* here there is one, and local evidence is left out.  GitHub itself is    *)
(* external: it lists a repository's items most recently updated first, a  *)
(* change of an item or of its commits moves it to the front, and a page's *)
(* ETag is that page.                                                      *)
(***************************************************************************)
EXTENDS Integers, Sequences, FiniteSets, SequencesExt

CONSTANTS
    Remotes,        \* how `origin` may be spelled
    Lower,          \* names without regard to case
    Repositories,   \* those at GitHub: pairs of an owner and a name
    Numbers, Pulls, \* of the items; those of pull requests
    Contents,       \* what each item may be: the words of its body, its commits
    InitialForge,
    PageSize, MaxPages, MaxRecords, MaxRequests,
    Absent,
    MaxChanges      \* bound on what people do

ASSUME GitHubAssumption ==
    /\ Pulls \subseteq Numbers
    /\ PageSize \in Nat \ {0} /\ MaxPages \in Nat \ {0}
    /\ MaxRecords \in Nat /\ MaxRequests \in Nat /\ MaxChanges \in Nat
    /\ Absent \notin Repositories /\ Absent \notin Numbers

VARIABLES
    forge,      \* each repository's items as GitHub lists them
    origin,     \* the remote of the local repository
    changes,    \* how much has been done, the time of an update (bounded)
    removals,   \* how many items each repository has lost (history)
    current,    \* GitHub's part of the current snapshot
    pc,         \* "idle", "reading" or "publish"
    target,     \* the repository of the sync
    reading,    \* 0: the issues, or which of them it is whose commits are read
    page,       \* the next page of it
    got,        \* the pages so far, all_items
    requests,   \* sent so far
    issues,     \* the first collection, once it is complete
    etag,       \* of its first page
    commits,    \* the commits read
    result,     \* what is to be published
    seen,       \* removals when the first page was read (history)
    quiet,      \* items nobody touched since the sync began (history)
    shifts      \* how many were removed from pages that had been read (history)

world == <<forge, origin, changes, removals>>
fetch == <<reading, page, got, requests, issues, etag, commits, seen>>
vars == <<world, current, pc, target, fetch, result, quiet, shifts>>

-----------------------------------------------------------------------------
(* Remotes and evidence. *)

\* GitHubRepository::from_remote: of whatever transport, an owner and a name,
\* and two spellings of them are one repository.
FromRemote(remote) ==
    IF /\ remote.github /\ remote.plain /\ Len(remote.path) = 2
       /\ \A i \in 1 .. 2 : remote.path[i] \in DOMAIN Lower
    THEN <<Lower[remote.path[1]], Lower[remote.path[2]]>>
    ELSE Absent

Keyword == [is |-> "keyword"]
Prose == [is |-> "prose"]
Reference(r, n) == [is |-> "reference", of |-> r, number |-> n]

\* A reference without the repository's name, or with that of this one.
Refers(word, r) == word.is = "reference" /\ word.of \in {Absent, r}

\* explicit_closing_references: a keyword and a reference, side by side.
ClosingReferences(body, r) ==
    {body[i + 1].number : i \in {j \in 1 .. Len(body) - 1 :
        body[j] = Keyword /\ Refers(body[j + 1], r)}}

Issue(n) == <<"issue", n>>
Pull(n) == <<"pull", n>>
Commit(c) == <<"commit", c>>
ItemId(n) == IF n \in Pulls THEN Pull(n) ELSE Issue(n)

Record(id, r) == [id |-> id, of |-> r]
Edge(kind, from, to, r) == [kind |-> kind, source |-> from, target |-> to, of |-> r]

\* Mutant of BuildEvidence: it resolves whatever it names.
BuildUnchecked(r, items, commitsOf) ==
    LET pulls == {item \in items : item.number \in Pulls}
    IN  [records |-> {Record(ItemId(item.number), r) : item \in items},
         edges |->
            UNION {{Edge("ResolvesIssue", Pull(item.number), Issue(n), r) :
                       n \in ClosingReferences(item.body, r)} : item \in pulls}]

\* build_evidence: a pull request resolves only issues that were read too.
BuildEvidence(r, items, commitsOf) ==
    LET pulls == {item \in items : item.number \in Pulls}
        numbers == {item.number : item \in items \ pulls}
    IN  [records |->
            {Record(ItemId(item.number), r) : item \in items}
                \union UNION {{Record(Commit(c), r) : c \in ToSet(commitsOf[item.number])} :
                              item \in pulls},
         edges |->
            UNION {
                {Edge("ResolvesIssue", Pull(item.number), Issue(n), r) :
                    n \in ClosingReferences(item.body, r) \intersect numbers}
                \union {Edge("IncludedInPr", Commit(c), Pull(item.number), r) :
                        c \in ToSet(commitsOf[item.number])} :
                item \in pulls}]

Nothing == [records |-> {}, edges |-> {}]

Source(freshness, cursor) == [of |-> target, freshness |-> freshness, cursor |-> cursor]

\* A snapshot's GitHub part; since is what GitHub had lost when it was read.
Contribution(part, source, since) ==
    [records |-> part.records, edges |-> part.edges, source |-> source, since |-> since]

\* prior_github_contribution: records and edges by their kind of origin, so of
\* any repository, the source by the name of this one.
Prior == IF current = Absent THEN Nothing ELSE current
PriorCursor ==
    IF current = Absent THEN Absent
    ELSE IF current.source.of = target THEN current.source.cursor ELSE Absent
PriorSince == IF current = Absent THEN 0 ELSE current.since

-----------------------------------------------------------------------------
(* GitHub, external. *)

\* A page, numbered from 1, comes with a link to the next one if there is one.
HasNext(list, k) == k * PageSize < Len(list)

Page(list, k) ==
    SubSeq(list, (k - 1) * PageSize + 1,
           IF HasNext(list, k) THEN k * PageSize ELSE Len(list))

ETag(r) == Page(forge[r], 1)

\* An item as it was at a time.
Item(n, time, content) ==
    [number |-> n, stamp |-> time, body |-> content.body, commits |-> content.commits]

AllCommits == UNION {ToSet(c.commits) : c \in UNION {Contents[n] : n \in Pulls}}

Items ==
    UNION {{Item(n, t, c) : t \in 0 .. MaxChanges, c \in Contents[n]} : n \in Numbers}

\* What a remote names is there, lists of items name nothing twice, and pull
\* requests have lists of commits.
ASSUME ForgeAssumption ==
    /\ \A remote \in Remotes : FromRemote(remote) \in Repositories \union {Absent}
    /\ InitialForge \in [Repositories -> Seq(Items)]
    /\ \A r \in Repositories : \A i, j \in DOMAIN InitialForge[r] :
          /\ InitialForge[r][i].stamp = 0
          /\ InitialForge[r][i].number = InitialForge[r][j].number => i = j
    /\ \A n \in Pulls : \A c \in Contents[n] : c.commits \in Seq(AllCommits)

Listed(r) == {item.number : item \in ToSet(forge[r])}
ItemOf(r, n) == CHOOSE item \in ToSet(forge[r]) : item.number = n
PlaceOf(r, n) == CHOOSE i \in DOMAIN forge[r] : forge[r][i].number = n
Others(r, n) == IF n \in Listed(r) THEN RemoveAt(forge[r], PlaceOf(r, n)) ELSE forge[r]
CommitsNow(r) ==
    [n \in Pulls |-> IF n \in Listed(r) THEN ItemOf(r, n).commits ELSE <<>>]

Init ==
    /\ forge = InitialForge
    /\ origin \in Remotes
    /\ changes = 0 /\ removals = [r \in Repositories |-> 0]
    /\ current = Absent
    /\ pc = "idle" /\ target = Absent
    /\ reading = 0 /\ page = 1 /\ got = <<>> /\ requests = 0
    /\ issues = <<>> /\ etag = Absent
    /\ commits = [n \in Pulls |-> <<>>]
    /\ result = Absent /\ seen = 0 /\ quiet = {} /\ shifts = 0

ClientIdle == UNCHANGED <<current, pc, target, fetch, result>>

\* Someone opens an item, comments on it, edits it or pushes to it.
Touch(r, n, content) ==
    /\ changes < MaxChanges /\ changes' = changes + 1
    /\ forge' = [forge EXCEPT ![r] =
           <<Item(n, changes', content)>> \o Others(r, n)]
    /\ quiet' = IF r = target THEN quiet \ {n} ELSE quiet
    /\ UNCHANGED <<origin, removals, shifts>> /\ ClientIdle

\* An issue is deleted or transferred, which no pull request can be.  All that
\* come after it move forward by one place, and so does one over the end of the
\* pages that have been read, if it was on them.
Delete(r, n) ==
    /\ changes < MaxChanges /\ changes' = changes + 1
    /\ n \in Listed(r) \ Pulls
    /\ forge' = [forge EXCEPT ![r] = Others(r, n)]
    /\ removals' = [removals EXCEPT ![r] = @ + 1]
    /\ quiet' = IF r = target THEN quiet \ {n} ELSE quiet
    /\ shifts' = IF /\ r = target /\ pc = "reading" /\ reading = 0
                    /\ PlaceOf(r, n) <= (page - 1) * PageSize
                 THEN shifts + 1 ELSE shifts
    /\ UNCHANGED origin /\ ClientIdle

\* The user points `origin` at another repository, or spells it otherwise.
ChangeRemote(remote) ==
    /\ changes < MaxChanges /\ changes' = changes + 1
    /\ remote # origin
    /\ origin' = remote
    /\ UNCHANGED <<forge, removals, quiet, shifts>> /\ ClientIdle

-----------------------------------------------------------------------------
(* A sync. *)

\* Forgets all but the store.
Reset ==
    /\ pc' = "idle" /\ target' = Absent
    /\ reading' = 0 /\ page' = 1 /\ got' = <<>> /\ requests' = 0
    /\ issues' = <<>> /\ etag' = Absent
    /\ commits' = [n \in Pulls |-> <<>>]
    /\ result' = Absent /\ seen' = 0 /\ quiet' = {} /\ shifts' = 0
    /\ UNCHANGED world

\* An origin that is missing or not GitHub's is the caller's error.
Begin ==
    /\ pc = "idle"
    /\ FromRemote(origin) # Absent
    /\ pc' = "reading" /\ target' = FromRemote(origin)
    /\ quiet' = Listed(target')
    /\ UNCHANGED <<world, current, fetch, result, shifts>>

\* The list a request is about.
List ==
    IF reading = 0 THEN forge[target] ELSE ItemOf(target, issues[reading].number).commits

Received == got \o Page(List, page)

\* A page arrives that is neither one too many requests nor records.
Answered ==
    /\ pc = "reading"
    /\ requests < MaxRequests
    /\ ~(reading = 0 /\ page = 1 /\ PriorCursor # Absent /\ PriorCursor = ETag(target))
    /\ Len(Received) <= MaxRecords

\* Of the first page of the issues.
FirstETag == IF reading = 0 /\ page = 1 THEN ETag(target) ELSE etag
FirstSeen == IF reading = 0 /\ page = 1 THEN removals[target] ELSE seen

Keep(outcome) ==
    /\ pc' = "publish"
    /\ result' = outcome
    /\ UNCHANGED <<world, current, target, fetch, quiet, shifts>>

\* 304: what the store holds of GitHub is taken again.
NotModified ==
    /\ pc = "reading"
    /\ requests < MaxRequests
    /\ reading = 0 /\ page = 1
    /\ PriorCursor # Absent /\ PriorCursor = ETag(target)
    /\ Keep(Contribution(Prior, Source("fresh", PriorCursor), PriorSince))

NextPage ==
    /\ Answered
    /\ HasNext(List, page) /\ page < MaxPages
    /\ got' = Received /\ page' = page + 1 /\ requests' = requests + 1
    /\ etag' = FirstETag /\ seen' = FirstSeen
    /\ UNCHANGED <<world, current, pc, target, reading, issues, commits, result, quiet,
                   shifts>>

\* Mutant of Complete: the limit on pages ends a collection.
CompleteOrLong == Answered /\ (~HasNext(List, page) \/ page = MaxPages)

\* No link to a next page: the collection is complete.
Complete == Answered /\ ~HasNext(List, page)

PullsAfter(i, items) == {j \in DOMAIN items : j > i /\ items[j].number \in Pulls}

\* The next pull request, in the order of the issues, or the end.  One that was
\* listed twice is asked about twice.
Continue(i, items, commitsOf) ==
    /\ page' = 1 /\ got' = <<>> /\ requests' = requests + 1
    /\ etag' = FirstETag /\ seen' = FirstSeen
    /\ issues' = items /\ commits' = commitsOf
    /\ \/ /\ PullsAfter(i, items) = {}
          /\ pc' = "publish"
          /\ result' = Contribution(BuildEvidence(target, ToSet(items), commitsOf),
                                    Source("fresh", FirstETag), FirstSeen)
          /\ UNCHANGED reading
       \/ /\ reading' \in PullsAfter(i, items)
          /\ \A j \in PullsAfter(i, items) : reading' <= j
          /\ UNCHANGED <<pc, result>>
    /\ UNCHANGED <<world, current, target, quiet, shifts>>

IssuesComplete == reading = 0 /\ Complete /\ Continue(0, Received, commits)

CommitsComplete ==
    /\ reading # 0 /\ Complete
    /\ Continue(reading, issues, [commits EXCEPT ![issues[reading].number] = Received])

\* Mutant of RefreshFails: the new ETag is kept with the old evidence.
FailsWithNewETag ==
    /\ pc = "reading"
    /\ Keep(Contribution(Prior, Source("stale", etag), PriorSince))

\* Mutant of RefreshFails: the cursor is kept whatever repository it is of.
FailsWithAnyCursor ==
    /\ pc = "reading"
    /\ Keep(Contribution(Prior,
                Source("stale", IF current = Absent THEN Absent ELSE current.source.cursor),
                PriorSince))

\* Transport, status, schema, a link that leads elsewhere, or a limit.
RefreshFails ==
    /\ pc = "reading"
    /\ Keep(Contribution(Prior, Source("stale", PriorCursor), PriorSince))

Publish ==
    /\ pc = "publish"
    /\ current' = result
    /\ Reset

\* The store refuses, or the process dies.
Abandon ==
    /\ pc # "idle"
    /\ UNCHANGED current
    /\ Reset

People ==
    \/ \E r \in Repositories, n \in Numbers : \E c \in Contents[n] : Touch(r, n, c)
    \/ \E r \in Repositories, n \in Numbers : Delete(r, n)
    \/ \E remote \in Remotes : ChangeRemote(remote)

Sync ==
    \/ Begin \/ NotModified \/ NextPage \/ IssuesComplete \/ CommitsComplete
    \/ RefreshFails \/ Publish \/ Abandon

Next == People \/ Sync

Spec == Init /\ [][Next]_vars

-----------------------------------------------------------------------------
(* Properties. *)

Ids ==
    {ItemId(n) : n \in Numbers} \union {Commit(c) : c \in AllCommits}
Records == [id : Ids, of : Repositories]
Edges == [kind : {"ResolvesIssue", "IncludedInPr"}, source : Ids, target : Ids,
          of : Repositories]
Contributions ==
    [records : SUBSET Records, edges : SUBSET Edges,
     source : [of : Repositories, freshness : {"fresh", "stale"}, cursor : Seq(Items) \union {Absent}],
     since : 0 .. MaxChanges]

\* What stands for no contribution is none.
ASSUME AbsentAssumption == Absent \notin Contributions

\* Every variable keeps its type, the limits hold, and both ends of every
\* relationship are in the contribution.
TypeOK ==
    /\ forge \in [Repositories -> Seq(Items)] /\ origin \in Remotes
    /\ changes \in 0 .. MaxChanges /\ removals \in [Repositories -> 0 .. MaxChanges]
    /\ current \in Contributions \union {Absent} /\ result \in Contributions \union {Absent}
    /\ pc \in {"idle", "reading", "publish"}
    /\ target \in Repositories \union {Absent}
    /\ reading \in 0 .. Len(issues)
    /\ page \in 1 .. MaxPages /\ requests \in 0 .. MaxRequests
    /\ Len(got) <= MaxRecords /\ Len(issues) <= MaxRecords
    /\ issues \in Seq(Items) /\ etag \in Seq(Items) \union {Absent}
    /\ commits \in [Pulls -> Seq(AllCommits)]
    /\ seen \in 0 .. MaxChanges /\ quiet \subseteq Numbers /\ shifts \in 0 .. MaxChanges
    /\ (target = Absent <=> pc = "idle") /\ (result = Absent <=> pc # "publish")
    /\ result # Absent => \A e \in result.edges :
          {Record(e.source, e.of), Record(e.target, e.of)} \subseteq result.records

Part(c) == [records |-> c.records, edges |-> c.edges]

\* As long as the ETag of the stored cursor is the one GitHub would send, so
\* that a 304 would confirm the contribution, it is all that GitHub has,
\* although the ETag is only that of the first page of one of the collections
\* and they were read while they changed; unless an item was removed.
ConfirmedIsCurrent ==
    current # Absent =>
        LET r == current.source.of
        IN  /\ current.source.cursor # Absent
            /\ current.source.cursor = ETag(r)
            /\ current.since = removals[r]
            => Part(current) = BuildEvidence(r, ToSet(forge[r]), CommitsNow(r))

\* A new contribution has what was there from the first request to the last,
\* though items move from page to page in between: every untouched item, its
\* commits, and the issues it closes if they are untouched.  What it may lack is
\* at most one item for each issue that was removed from a page already read,
\* which moves the first item of the next page to where nobody looks again.
QuietItemsAreThere ==
    pc = "publish" /\ result.source.freshness = "fresh" /\ result.source.cursor = etag =>
        LET still == {item \in ToSet(forge[target]) : item.number \in quiet}
        IN  \E missed \in SUBSET still :
               /\ Cardinality(missed) <= shifts
               /\ LET part == BuildEvidence(target, still \ missed, CommitsNow(target))
                  IN  part.records \subseteq result.records /\ part.edges \subseteq result.edges

\* A contribution that has a cursor is of its source's repository alone, and so
\* is one that is fresh; what remains of a former origin is never confirmed.
CursorIsOfItsRemote ==
    \A c \in {current, result} \ {Absent} :
        c.source.cursor # Absent \/ c.source.freshness = "fresh" =>
            \A x \in c.records \union c.edges : x.of = c.source.of
=============================================================================
