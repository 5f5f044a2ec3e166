----------------------------- MODULE LocalSources -----------------------------
(***************************************************************************)
(* What rationale reads of the repository while the user goes on working   *)
(* in it: a sync reads the history, then the documents, directory after    *)
(* directory and file after file, and makes local evidence of them; a      *)
(* query resolves HEAD, then asks for the file's status, then reads it,    *)
(* and attributes its lines to commits.  Nothing is locked.                *)
(*                                                                         *)
(* SyncEngine and WhyQuery take what is read here as one observation.      *)
(***************************************************************************)
EXTENDS GitHistory

CONSTANTS
    Directories,    \* how many directories of documents there are
    DirectoryOf,    \* each path's
    Files,          \* what a document may be: sets, one for each path
    Texts,          \* what the source files of the working tree may be
    Revisions,      \* what a query may name
    LastLine,       \* bound on the lines a query may be about
    MaxEdits        \* bound on what the user does

Paths == DOMAIN DirectoryOf

ASSUME SourcesAssumption ==
    /\ Directories \in Nat /\ DirectoryOf \in Seq(1 .. Directories)
    /\ \A p \in Paths : \A file \in Files[p] : file.form \in Forms(p) \union {"large", "not_utf8"}
    /\ \A p \in Paths : Absent \notin Files[p]
    /\ \A text \in Texts : text \in Seq(ToSet(text))
    /\ Absent \notin Texts
    /\ \A c \in Commits : Trees[c] \in [1 .. Names -> Texts \union {Absent}]
    /\ Revisions \subseteq Commits /\ LastLine \in Nat /\ MaxEdits \in Nat

Worktrees ==
    {w \in [Paths -> {Absent} \union UNION {Files[p] : p \in Paths}] :
        \A p \in Paths : w[p] \in Files[p] \union {Absent}}

VARIABLES
    head, documents, sources,   \* the repository: HEAD and the working tree
    shallow,                    \* is it a shallow clone
    edits,                      \* how much the user has done (bounded)
    task,                       \* "sync" or "query"
    pc,
    directories, entries,       \* still to be listed, to be read
    collected, scanned,         \* the documents read, the diagnostics of the scan
    history,                    \* of HEAD
    evidence,
    quiet,                      \* documents not edited since the sync began (history)
    query,                      \* the lines asked for
    commit, state,              \* the revision and the file's state
    trail,                      \* where the walk for the path's history stands
    answer,
    raced                       \* has what the query is about changed (history)

world == <<head, documents, sources, shallow, edits>>
syncing == <<directories, entries, collected, scanned, history, evidence, quiet>>
querying == <<query, commit, state, trail, answer, raced>>
vars == <<world, task, pc, syncing, querying>>

\* The commits that the clone has: those that lead to the latest ones.
Present(b) ==
    LET latest == {c \in Commits : \A d \in Commits : c \notin ToSet(Parents[d])}
    IN  {c \in Commits : \E d \in latest : c \in Reached[<<d, b>>]}

Init ==
    /\ shallow \in BOOLEAN /\ head \in Present(shallow)
    /\ task \in {"sync", "query"}
    /\ documents \in IF task = "sync" THEN Worktrees ELSE {[p \in Paths |-> Absent]}
    /\ sources = Trees[head]
    /\ edits = 0 /\ pc = "idle"
    /\ directories = <<>> /\ entries = <<>> /\ collected = <<>> /\ scanned = {}
    /\ history = Absent /\ evidence = Absent /\ quiet = {}
    /\ query = Absent /\ commit = Absent /\ state = Absent /\ trail = Absent
    /\ answer = Absent /\ raced = FALSE

-----------------------------------------------------------------------------
(* The user, who changes what the task at hand reads. *)

Edit ==
    /\ edits < MaxEdits /\ edits' = edits + 1
    /\ UNCHANGED <<shallow, task, pc, directories, entries, collected, scanned, history,
                   evidence, query, commit, state, trail, answer>>

EditDocument(p, file) ==
    /\ Edit /\ task = "sync" /\ file # documents[p]
    /\ documents' = [documents EXCEPT ![p] = file]
    /\ quiet' = quiet \ {p}
    /\ UNCHANGED <<head, sources, raced>>

\* If it was as committed, it is taken to be so still once its status is known.
EditSource(n, text) ==
    /\ Edit /\ task = "query" /\ text # sources[n]
    /\ sources' = [sources EXCEPT ![n] = text]
    /\ raced' = (raced \/ pc \in {"walk", "answered"} \/ (pc = "read" /\ state = "committed"))
    /\ UNCHANGED <<head, documents, quiet>>

\* The user commits or checks out.
MoveHead(c) ==
    /\ Edit /\ c # head /\ c \in Present(shallow)
    /\ head' = c /\ sources' = Trees[c]
    /\ raced' = (raced \/ pc \in {"status", "read", "walk", "answered"})
    /\ UNCHANGED <<documents, quiet>>

-----------------------------------------------------------------------------
(* prepare_local_sync. *)

Stay == UNCHANGED <<world, task, querying>>

\* commit_history, of whatever the walk makes of commits of one time.
BeginSync(walk) ==
    /\ pc = "idle" /\ task = "sync"
    /\ pc' = "scan"
    /\ history' = CommitHistory(walk, shallow)
    /\ directories' = [i \in 1 .. Directories |-> i]
    /\ quiet' = Paths
    /\ Stay /\ UNCHANGED <<entries, collected, scanned, evidence>>

InOrder(S) ==
    [i \in 1 .. Cardinality(S) |-> CHOOSE n \in S : Cardinality({m \in S : m < n}) = i - 1]

\* Directories are on a stack; what one holds is read last name first.
ListDirectory ==
    /\ pc = "scan" /\ entries = <<>> /\ directories # <<>>
    /\ entries' = Reverse(InOrder({p \in Paths : /\ DirectoryOf[p] = Head(directories)
                                                 /\ documents[p] # Absent}))
    /\ directories' = Tail(directories)
    /\ Stay /\ UNCHANGED <<pc, collected, scanned, history, evidence, quiet>>

\* A file that is gone since its directory was listed ends the sync.
FileIsGone ==
    /\ pc = "scan" /\ entries # <<>>
    /\ documents[Head(entries)] = Absent
    /\ pc' = "failed"
    /\ entries' = <<>> /\ directories' = <<>> /\ collected' = <<>> /\ scanned' = {}
    /\ Stay /\ UNCHANGED <<history, evidence, quiet>>

ReadDocument ==
    /\ pc = "scan" /\ entries # <<>>
    /\ LET p == Head(entries)
           file == documents[p]
       IN  /\ file # Absent
           /\ IF file.form \in {"large", "not_utf8"}
              THEN /\ scanned' = scanned \union {Diagnostic(File(p), file.form)}
                   /\ UNCHANGED collected
              ELSE /\ collected' = Append(collected, [path |-> p, file |-> file])
                   /\ UNCHANGED scanned
    /\ entries' = Tail(entries)
    /\ Stay /\ UNCHANGED <<pc, directories, history, evidence, quiet>>

\* No path is read twice.
ByPath(inputs) ==
    LET paths == InOrder({input.path : input \in ToSet(inputs)})
    IN  [i \in DOMAIN paths |-> CHOOSE input \in ToSet(inputs) : input.path = paths[i]]

\* The documents are sorted and taken in, and evidence is made of all.
Prepare ==
    /\ pc = "scan" /\ entries = <<>> /\ directories = <<>>
    /\ evidence' = PrepareEvidence({CommitEvidence(c) : c \in ToSet(history.commits)},
                                   Ingest(ByPath(collected)), scanned)
    /\ pc' = "prepared"
    /\ collected' = <<>> /\ scanned' = {}
    /\ Stay /\ UNCHANGED <<directories, entries, history, quiet>>

-----------------------------------------------------------------------------
(* resolve_lines. *)

Ask == UNCHANGED <<world, task, syncing>>

\* What the answer says: an error, or each line's commit and the path's history.
Attributed(by, changes, complete) ==
    [outcome |-> "attributed", by |-> by, changes |-> changes, complete |-> complete]
Refused(error) == [outcome |-> error]

\* attributions: the first line without a hunk or without a commit is the error
\* of all.
Attributions(blamed, q) ==
    LET lines == q.first .. q.last
        lost == {k \in lines : blamed[k] = Absent}
        new == {k \in lines \ lost : blamed[k].commit = Absent}
    IN  IF lost \union new = {}
        THEN Attributed([k \in lines |-> blamed[k].commit], <<>>, FALSE)
        ELSE LET k == CHOOSE j \in lost \union new : \A i \in lost \union new : j <= i
             IN  Refused(IF k \in new THEN "unattributed" ELSE "line_out_of_range")

Picks(from, lines) == {f \in [lines -> UNION {from[k] : k \in lines}] :
                            \A k \in lines : f[k] \in from[k]}

\* Mutant of Blame: the working copy is blamed as if it were committed.
BlameInPlace(content, c, st, q) ==
    LET text == Trees[c][q.name]
        lines == q.first .. q.last
    IN  IF q.last > Len(content) THEN {Refused("line_out_of_range")}
        ELSE IF text = Absent THEN {Refused("git")}
        ELSE (IF q.last > Len(text) THEN {Refused("git")} ELSE {}) \union
             {Attributions(f, q) :
                f \in Picks([k \in lines |-> Committed(<<c, q.name>>, k, shallow)], lines)}

\* What a blame may tell of each line: blame_file and, of a working copy, blame_buffer.
Hunks(content, c, st, q) ==
    LET v == <<c, q.name>>
    IN  [k \in q.first .. q.last |->
            IF st = "committed" THEN Committed(v, k, shallow)
            ELSE Buffered(v, content, k, q.first, q.last, shallow)]

\* The content's number of lines, then the blame.
Blame(content, c, st, q) ==
    LET text == Trees[c][q.name]
    IN  IF q.last > Len(content) THEN {Refused("line_out_of_range")}
        ELSE IF text = Absent THEN {Refused("git")}
        ELSE (IF q.last > Len(text) THEN {Refused("git")} ELSE {}) \union
             {Attributions(f, q) : f \in Picks(Hunks(content, c, st, q), q.first .. q.last)}

\* Without the path's history the answer is complete but for that.
Finish(result, q, c) ==
    /\ answer' = result
    /\ IF result.outcome = "attributed" /\ q.history
       THEN /\ pc' = "walk"
            /\ \E w \in Walks(c, shallow) : trail' = Trail(q.name, w, shallow)
       ELSE pc' = "answered" /\ UNCHANGED trail

\* Of a revision that the clone has, the committed text is what is asked about;
\* otherwise HEAD is resolved, and nothing holds it.
BeginQuery(q) ==
    /\ pc = "idle" /\ task = "query"
    /\ query' = q
    /\ commit' = IF q.revision = Absent THEN head ELSE q.revision
    /\ IF q.revision = Absent
       THEN pc' = "status" /\ UNCHANGED <<state, trail, answer>>
       ELSE LET text == Trees[q.revision][q.name] IN
            /\ state' = "committed"
            /\ \E result \in IF q.revision \notin Present(shallow) THEN {Refused("invalid_revision")}
                             ELSE IF text = Absent THEN {Refused("missing")}
                             ELSE Blame(text, q.revision, "committed", q) :
                  Finish(result, q, q.revision)
    /\ Ask /\ UNCHANGED raced

\* is_file and status_file, which compares with HEAD as it is now.
CheckStatus ==
    /\ pc = "status"
    /\ LET now == sources[query.name] IN
       IF now = Absent THEN Finish(Refused("missing"), query, commit) /\ UNCHANGED state
       ELSE IF Trees[head][query.name] = Absent
       THEN Finish(Refused("unattributed"), query, commit) /\ UNCHANGED state
       ELSE /\ state' = IF now = Trees[head][query.name] THEN "committed" ELSE "working_copy"
            /\ pc' = "read" /\ UNCHANGED <<trail, answer>>
    /\ Ask /\ UNCHANGED <<query, commit, raced>>

ReadSource ==
    /\ pc = "read"
    /\ LET now == sources[query.name] IN
       \E result \in IF now = Absent THEN {Refused("git")}
                     ELSE Blame(now, commit, state, query) :
           Finish(result, query, commit)
    /\ Ask /\ UNCHANGED <<query, commit, state, raced>>

\* path_history, one comparison after another, which nobody changes.
CompareCommit ==
    /\ pc = "walk" /\ trail.left # <<>>
    /\ trail.compared < Len(Compared(Head(trail.left), shallow))
    /\ trail' = IF trail.walked >= MaxWalked THEN GiveUp(trail) ELSE Compare(trail, shallow)
    /\ Ask /\ UNCHANGED <<pc, query, commit, state, answer, raced>>

CommitIsCompared ==
    /\ pc = "walk" /\ trail.left # <<>>
    /\ trail.compared = Len(Compared(Head(trail.left), shallow))
    /\ trail' = Conclude(trail)
    /\ Ask /\ UNCHANGED <<pc, query, commit, state, answer, raced>>

WalkEnds ==
    /\ pc = "walk" /\ trail.left = <<>>
    /\ pc' = "answered" /\ trail' = Absent
    /\ answer' = Attributed(answer.by, trail.changes, trail.complete)
    /\ Ask /\ UNCHANGED <<query, commit, state, raced>>

\* The sync goes on without this module (SyncEngine), the query too (WhyQuery).
Report ==
    /\ pc \in {"prepared", "failed", "answered"}
    /\ pc' = "idle"
    /\ history' = Absent /\ evidence' = Absent /\ quiet' = {}
    /\ query' = Absent /\ commit' = Absent /\ state' = Absent /\ answer' = Absent
    /\ raced' = FALSE
    /\ UNCHANGED <<world, task, trail, directories, entries, collected, scanned>>

Queries ==
    {q \in [name : 1 .. Names, first : 1 .. LastLine, last : 1 .. LastLine,
            revision : Revisions \union {Absent}, history : BOOLEAN] : q.first <= q.last}

User ==
    \/ \E p \in Paths : \E file \in Files[p] \union {Absent} : EditDocument(p, file)
    \/ \E n \in 1 .. Names, text \in Texts \union {Absent} : EditSource(n, text)
    \/ \E c \in Commits : MoveHead(c)

Next ==
    \/ User
    \/ \E walk \in Walks(head, shallow) : BeginSync(walk)
    \/ ListDirectory \/ FileIsGone \/ ReadDocument \/ Prepare
    \/ \E q \in Queries : BeginQuery(q)
    \/ CheckStatus \/ ReadSource \/ CompareCommit \/ CommitIsCompared \/ WalkEnds
    \/ Report

Spec == Init /\ [][Next]_vars

-----------------------------------------------------------------------------
(* Properties. *)

Stages == {"idle", "scan", "prepared", "failed", "status", "read", "walk", "answered"}

\* Every variable keeps its type, and what is kept fits the stage.
TypeOK ==
    /\ head \in Commits /\ shallow \in BOOLEAN /\ edits \in 0 .. MaxEdits
    /\ documents \in Worktrees /\ task \in {"sync", "query"}
    /\ sources \in [1 .. Names -> Texts \union {Absent}]
    /\ pc \in Stages
    /\ directories \in Seq(1 .. Directories) /\ entries \in Seq(Paths)
    /\ \A i \in DOMAIN collected : collected[i].file \in Files[collected[i].path]
    /\ \A i, j \in DOMAIN collected : collected[i].path = collected[j].path => i = j
    /\ quiet \subseteq Paths /\ raced \in BOOLEAN
    /\ query \in IF pc \in {"status", "read", "walk", "answered"} THEN Queries ELSE {Absent}
    /\ commit \in Commits \union {Absent}
    /\ state \in {"committed", "working_copy", Absent}
    /\ pc # "walk" => trail = Absent
    /\ pc # "prepared" => evidence = Absent
    /\ pc = "prepared" => \A l \in evidence.links :
          {l.source, l.target} \subseteq DOMAIN evidence.records
    /\ pc \notin {"walk", "answered"} => answer = Absent
    /\ pc = "walk" => answer.outcome = "attributed"
    /\ pc = "answered" => answer.outcome \in
          {"attributed", "invalid_revision", "missing", "unattributed", "line_out_of_range", "git"}

Told(from, code) == Diagnostic(from, code) \in evidence.diagnostics
IsRecord(id) == id \in DOMAIN evidence.records

LinkIsAccountedFor(l) ==
    IF IsRecord(l.source) /\ IsRecord(l.target) THEN l \in evidence.links
    ELSE Told(l.from, "unresolved_reference")

ConflictIsAccountedFor(c) ==
    IF IsRecord(c.left) /\ IsRecord(c.right) THEN c \in evidence.conflicts
    ELSE Told(Rule(c.rule_id), "unresolved_conflict")

\* A record counts, or that of an earlier path has its identifier; a commit may
\* take it from either without a word.
RecordIsAccountedFor(p, parsed) ==
    /\ IsRecord(parsed.node.id)
    /\ LET winner == evidence.records[parsed.node.id] IN
       \/ /\ winner = parsed.node \/ winner.kind = "change"
          /\ \A l \in parsed.links : LinkIsAccountedFor(l)
          /\ \A c \in parsed.conflicts : ConflictIsAccountedFor(c)
       \/ /\ winner.kind = "change" \/ winner.from[2] < p
          /\ Told(File(p), "duplicate_record")

DocumentIsAccountedFor(p) ==
    LET file == documents[p] IN
    IF file.form \in {"large", "not_utf8"} THEN Told(File(p), file.form)
    ELSE LET parsed == Parse(p, file) IN
         CASE parsed.outcome = "none" -> TRUE
           [] parsed.outcome = "failed" -> Told(File(p), parsed.code) \/ Told(File(p), "document_limit")
           [] parsed.outcome = "parsed" ->
                 RecordIsAccountedFor(p, parsed) \/ Told(File(p), "document_limit")

\* Nothing is lost without a word: each document that was left alone while the
\* sync read the others, and each commit, gives its record and all that it names,
\* or a diagnostic says at which file, commit or rule it does not ("Malformed
\* individual documents are quarantined in the report").  The scan is not one
\* moment, and a document is never refused for the sake of a later one.
EverySourceIsAccountedFor ==
    pc = "prepared" =>
        /\ \A p \in quiet : documents[p] # Absent => DocumentIsAccountedFor(p)
        /\ \A c \in ToSet(history.commits) :
              /\ evidence.records[Sha(c)] = CommitNode(CommitEvidence(c))
              /\ \A l \in CommitLinks(CommitEvidence(c)) : LinkIsAccountedFor(l)

\* All versions that lead to one.
Lineage[v \in Versions] == {v} \union UNION {Lineage[w] : w \in FormerVersions(v, FALSE)}

\* The commits that changed the file under a name, whatever it was called then.
ChangesOf(c, n) ==
    {v[1] : v \in {w \in Lineage[<<c, n>>] :
                       \/ Parents[w[1]] = <<>>
                       \/ \E d \in ToSet(Parents[w[1]]) : Trees[d][w[2]] # Trees[w[1]][w[2]]}}

\* A history that is said to be complete lacks nothing: neither a commit of a
\* shallow clone's past, nor one beyond a limit, nor a change a file had under a
\* former name or on a branch that was merged.
HistoryIsHonest ==
    /\ history # Absent /\ history.complete =>
          ToSet(history.commits) = Reached[<<history.commits[1], FALSE>>]
    /\ pc = "answered" /\ answer.outcome = "attributed" /\ answer.complete =>
          ChangesOf(commit, query.name) \subseteq
              {answer.changes[i].commit : i \in DOMAIN answer.changes}

\* Each line is committed and is attributed to a commit that introduced it, in the
\* file under whatever name it had and through which the line has come down, also
\* where an edit has moved the line; unless the user commits between the steps of
\* the query, or edits a file that had just been found to be as committed.  In a
\* shallow clone, and only there, one of its first commits may stand for older ones
\* that it does not have; then the answer does not say that it is complete.
AttributionIsRight ==
    pc = "answered" /\ answer.outcome = "attributed" /\ ~raced =>
        LET content == IF query.revision = Absent THEN sources[query.name]
                       ELSE Trees[commit][query.name]
            v == <<commit, query.name>>
        IN  \A k \in query.first .. query.last :
               /\ Holds(v, content[k])
               /\ answer.by[k] \in Reached[<<commit, shallow>>]
               /\ \E w \in Bearers[<<v, content[k], FALSE>>] :
                     /\ w[1] = answer.by[k]
                     /\ \/ Introduces(w, content[k], FALSE)
                        \/ shallow /\ ~answer.complete /\ w[1] \in Boundary
===============================================================================
