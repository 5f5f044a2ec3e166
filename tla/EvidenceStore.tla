---------------------------- MODULE EvidenceStore ----------------------------
(***************************************************************************)
(* The SQLite evidence store (crates/rationale-store/src/lib.rs and        *)
(* migrations/0001_initial.sql), shared by the processes that open it.     *)
(*                                                                         *)
(* SQLite is used in WAL mode: an IMMEDIATE transaction takes the one      *)
(* write lock and works on a private copy of the database that commit      *)
(* installs in one step; a DEFERRED transaction is pinned to the committed *)
(* state at its first SELECT; a statement outside a transaction sees the   *)
(* committed state of its own moment.  A process that dies loses its lock  *)
(* and its private copy.                                                   *)
(*                                                                         *)
(* Edges and conflicts are alike to the store (immutable rows that name    *)
(* two records) and both are "links" here.                                 *)
(***************************************************************************)
EXTENDS Naturals, Sequences, FiniteSets

CONSTANTS
    Clients,            \* connections: one per process
    Snapshots,          \* snapshot identifiers
    Records,            \* record identifiers
    Contents,           \* canonical JSON of a record
    Links,              \* identifiers of edges and conflicts
    Rows,               \* for each link, what its row may be: two ends and a body
    Sources,            \* evidence sources
    Cursors,            \* resumable cursors, NULL not among them
    Null,               \* a source state without a cursor
    Absent,             \* no such row
    MaxNodes, MaxLinks  \* SliceLimits

ASSUME StoreAssumption ==
    /\ Rows \in [Links -> SUBSET [source : Records, target : Records, body : Contents]]
    /\ Absent \notin Clients \union Snapshots \union Contents \union Cursors \union Nat
    /\ \A l \in Links : Absent \notin Rows[l]
    /\ Null \notin Cursors /\ Null # Absent
    /\ MaxNodes \in Nat /\ MaxLinks \in Nat

VARIABLES
    disk,               \* the committed database
    writer,             \* the client holding the write lock
    work,               \* the writer's private copy
    candidate,          \* the identifier of the candidate it builds
    pc,                 \* where each client stands
    kind,               \* the read it performs
    view,               \* the committed state its read transaction is pinned to
    target,             \* the snapshot it reads
    got,                \* the rows it has read
    answer,             \* what its last call returned
    since,              \* Len(log) when its read began (history)
    log                 \* identifiers in the order they were committed (history)

writerVars == <<disk, writer, work, candidate, log>>
readerVars == <<kind, view, target, got, since>>
vars == <<writerVars, readerVars, pc, answer>>

(***************************************************************************)
(* The tables.  members and links of a snapshot are its membership tables, *)
(* sources its source states; a cursor row names the snapshot it is from.  *)
(***************************************************************************)
Databases ==
    [schema : {"none", "v1", "other"},
     records : [Records -> Contents \union {Absent}],
     links : [Links -> (UNION {Rows[l] : l \in Links}) \union {Absent}],
     state : [Snapshots -> {"absent", "candidate", "published"}],
     members : [Snapshots -> SUBSET Records],
     linked : [Snapshots -> SUBSET Links],
     sources : [Snapshots -> [Sources -> Cursors \union {Null, Absent}]],
     cursors : [Sources -> [cursor : Cursors, of : Snapshots] \union {Absent}],
     current : Snapshots \union {Absent}]

Empty(schema) ==
    [schema |-> schema,
     records |-> [r \in Records |-> Absent],
     links |-> [l \in Links |-> Absent],
     state |-> [s \in Snapshots |-> "absent"],
     members |-> [s \in Snapshots |-> {}],
     linked |-> [s \in Snapshots |-> {}],
     sources |-> [s \in Snapshots |-> [x \in Sources |-> Absent]],
     cursors |-> [x \in Sources |-> Absent],
     current |-> Absent]

\* What the read queries select for a snapshot.
NodesOf(db, s) == {<<r, db.records[r]>> : r \in db.members[s]}
LinksOf(db, s) == {<<l, db.links[l]>> : l \in db.linked[s]}
SnapshotOf(db, s) ==
    [id |-> s, nodes |-> NodesOf(db, s), links |-> LinksOf(db, s),
     sources |-> db.sources[s]]

\* validate_candidate: every edge and conflict stays inside the snapshot.
Closed(db, s) ==
    \A l \in db.linked[s] :
        db.links[l].source \in db.members[s] /\ db.links[l].target \in db.members[s]

NoAnswer == [kind |-> "none"]
Refused(reason) == [kind |-> "error", reason |-> reason]
Published(s) == [kind |-> "published", id |-> s]
Errors == {Refused(reason) : reason \in
              {"busy", "schema", "exists", "unresolved", "database", "limit", "mismatch"}}

Nothing == [nodes |-> {}, links |-> {}, sources |-> Absent]

Kinds == {"slice", "freshness", "records"}
Building == {"building", "validated", "marked", "advanced", "pointed"}
Writing == Building \union {"migrating"}
Reading == {"pin", "nodes", "links", "sources"}
Stages == {"down", "idle"} \union Writing \union Reading

Init ==
    /\ \E schema \in {"none", "other"} : disk = Empty(schema)
    /\ writer = Absent /\ work = Absent /\ candidate = Absent
    /\ pc = [c \in Clients |-> "down"]
    /\ kind = [c \in Clients |-> "slice"]
    /\ view = [c \in Clients |-> Absent]
    /\ target = [c \in Clients |-> Absent]
    /\ got = [c \in Clients |-> Nothing]
    /\ answer = [c \in Clients |-> NoAnswer]
    /\ since = [c \in Clients |-> Absent]
    /\ log = <<>>

-----------------------------------------------------------------------------
(* Transactions. *)

\* Mutant of Lock: a deferred transaction, which takes no lock when it begins.
LockLater(c, db) == writer' = c /\ work' = db

Lock(c, db) == writer = Absent /\ writer' = c /\ work' = db

Unlock == writer' = Absent /\ work' = Absent /\ candidate' = Absent

\* The transaction is dropped or rolled back; nothing of it remains.
Rollback(c, a) ==
    /\ Unlock
    /\ pc' = [pc EXCEPT ![c] = "idle"]
    /\ answer' = [answer EXCEPT ![c] = a]
    /\ UNCHANGED <<disk, log, readerVars>>

\* The write lock is still held elsewhere after the busy timeout of two seconds.
Busy(c) ==
    /\ pc[c] \in {"down", "idle"}
    /\ writer # Absent
    /\ answer' = [answer EXCEPT ![c] = Refused("busy")]
    /\ UNCHANGED <<writerVars, readerVars, pc>>

\* What the call before returned is no longer looked at.
NewCall(c) == answer' = [answer EXCEPT ![c] = NoAnswer]

-----------------------------------------------------------------------------
(* EvidenceStore::open. *)

\* CREATE TABLE IF NOT EXISTS leaves an existing schema as it is.
Open(c) ==
    /\ pc[c] = "down"
    /\ Lock(c, IF disk.schema = "none" THEN Empty("v1") ELSE disk)
    /\ pc' = [pc EXCEPT ![c] = "migrating"]
    /\ NewCall(c)
    /\ UNCHANGED <<disk, candidate, log, readerVars>>

\* validate_schema, then commit.
Migrate(c) ==
    /\ pc[c] = "migrating"
    /\ Unlock
    /\ \/ /\ work.schema = "v1"
          /\ disk' = work
          /\ pc' = [pc EXCEPT ![c] = "idle"]
          /\ UNCHANGED answer
       \/ /\ work.schema # "v1"
          /\ pc' = [pc EXCEPT ![c] = "down"]
          /\ answer' = [answer EXCEPT ![c] = Refused("schema")]
          /\ UNCHANGED disk
    /\ UNCHANGED <<log, readerVars>>

-----------------------------------------------------------------------------
(* Building a candidate. *)

BeginCandidate(c, s) ==
    /\ pc[c] = "idle"
    /\ disk.state[s] = "absent"
    /\ Lock(c, [disk EXCEPT !.state[s] = "candidate"])
    /\ candidate' = s
    /\ pc' = [pc EXCEPT ![c] = "building"]
    /\ NewCall(c)
    /\ UNCHANGED <<disk, log, readerVars>>

\* The primary key of snapshots: an identifier is never used twice.
CandidateExists(c, s) ==
    /\ pc[c] = "idle"
    /\ writer = Absent
    /\ disk.state[s] # "absent"
    /\ answer' = [answer EXCEPT ![c] = Refused("exists")]
    /\ UNCHANGED <<writerVars, readerVars, pc>>

\* A statement of the candidate that changes the private copy.
Write(c, from, to, db) ==
    /\ pc[c] = from
    /\ work' = db
    /\ pc' = [pc EXCEPT ![c] = to]
    /\ UNCHANGED <<disk, writer, candidate, log, readerVars, answer>>

\* INSERT OR IGNORE, ensure_same_content, membership.
InsertRecord(c, r, content) ==
    /\ pc[c] = "building"
    /\ work.records[r] \in {Absent, content}
    /\ Write(c, "building", "building",
             [work EXCEPT !.records[r] = content, !.members[candidate] = @ \union {r}])

\* Mutant of InsertLink: INSERT OR REPLACE.
ReplaceLink(c, l, row) ==
    /\ pc[c] = "building"
    /\ work.records[row.source] # Absent /\ work.records[row.target] # Absent
    /\ Write(c, "building", "building",
             [work EXCEPT !.links[l] = row, !.linked[candidate] = @ \union {l}])

\* A new link needs both its records, of whatever snapshot (foreign keys).
InsertLink(c, l, row) ==
    /\ pc[c] = "building"
    /\ \/ work.links[l] = row
       \/ /\ work.links[l] = Absent
          /\ work.records[row.source] # Absent
          /\ work.records[row.target] # Absent
    /\ Write(c, "building", "building",
             [work EXCEPT !.links[l] = row, !.linked[candidate] = @ \union {l}])

\* The insertions that fail: other content under the identifier, or a missing
\* end.  The statement changes nothing; the caller drops the candidate.
InsertRefused(c) ==
    /\ pc[c] = "building"
    /\ \/ /\ \/ \E r \in Records, content \in Contents :
                   work.records[r] \notin {Absent, content}
             \/ \E l \in Links : \E row \in Rows[l] : work.links[l] \notin {Absent, row}
          /\ Rollback(c, Refused("mismatch"))
       \/ /\ \E l \in Links : \E row \in Rows[l] :
                /\ work.links[l] = Absent
                /\ Absent \in {work.records[row.source], work.records[row.target]}
          /\ Rollback(c, Refused("database"))

\* An upsert of the candidate's own row.
SetSourceState(c, x, cursor) ==
    /\ pc[c] = "building"
    /\ Write(c, "building", "building", [work EXCEPT !.sources[candidate][x] = cursor])

Abandon(c) ==
    /\ pc[c] = "building"
    /\ Rollback(c, NoAnswer)

-----------------------------------------------------------------------------
(* CandidateSnapshot::publish, statement by statement. *)

\* Mutant of Validate: the edges are taken on trust.
ValidateNothing(c) ==
    /\ pc[c] = "building"
    /\ Write(c, "building", "validated", work)

Validate(c) ==
    /\ pc[c] = "building"
    /\ Closed(work, candidate)
    /\ Write(c, "building", "validated", work)

ValidateFails(c) ==
    /\ pc[c] = "building"
    /\ ~Closed(work, candidate)
    /\ Rollback(c, Refused("unresolved"))

MarkPublished(c) ==
    /\ pc[c] = "validated"
    /\ Write(c, "validated", "marked", [work EXCEPT !.state[candidate] = "published"])

\* Mutant of AdvanceCursors: INSERT OR IGNORE, a cursor once stored stays.
AdvanceCursorsOnce(c) ==
    /\ pc[c] = "marked"
    /\ Write(c, "marked", "advanced",
             [work EXCEPT !.cursors =
                 [x \in Sources |->
                     IF work.sources[candidate][x] \in Cursors /\ work.cursors[x] = Absent
                     THEN [cursor |-> work.sources[candidate][x], of |-> candidate]
                     ELSE work.cursors[x]]])

\* Only the sources that have a cursor in this snapshot.
AdvanceCursors(c) ==
    /\ pc[c] = "marked"
    /\ Write(c, "marked", "advanced",
             [work EXCEPT !.cursors =
                 [x \in Sources |->
                     IF work.sources[candidate][x] \in Cursors
                     THEN [cursor |-> work.sources[candidate][x], of |-> candidate]
                     ELSE work.cursors[x]]])

\* Mutant of PointCurrent: INSERT OR IGNORE, the pointer does not move.
PointCurrentOnce(c) ==
    /\ pc[c] = "advanced"
    /\ work.state[candidate] = "published"
    /\ Write(c, "advanced", "pointed",
             IF work.current = Absent THEN [work EXCEPT !.current = candidate] ELSE work)

\* The triggers refuse a pointer to a snapshot that is not published.
PointCurrent(c) ==
    /\ pc[c] = "advanced"
    /\ work.state[candidate] = "published"
    /\ Write(c, "advanced", "pointed", [work EXCEPT !.current = candidate])

\* Mutant of Commit: the transaction is dropped, and so rolled back.
DropCandidate(c) ==
    /\ pc[c] = "pointed"
    /\ log' = Append(log, candidate)
    /\ Unlock
    /\ pc' = [pc EXCEPT ![c] = "idle"]
    /\ answer' = [answer EXCEPT ![c] = Published(candidate)]
    /\ UNCHANGED <<disk, readerVars>>

Commit(c) ==
    /\ pc[c] = "pointed"
    /\ disk' = work
    /\ log' = Append(log, candidate)
    /\ Unlock
    /\ pc' = [pc EXCEPT ![c] = "idle"]
    /\ answer' = [answer EXCEPT ![c] = Published(candidate)]
    /\ UNCHANGED readerVars

\* Any statement may fail (disk full, I/O error); the error drops the candidate.
StatementFails(c) ==
    /\ pc[c] \in Building
    /\ Rollback(c, Refused("database"))

-----------------------------------------------------------------------------
(* Reads. *)

Answer(c, a) ==
    /\ pc' = [pc EXCEPT ![c] = "idle"]
    /\ answer' = [answer EXCEPT ![c] = a]
    /\ view' = [view EXCEPT ![c] = Absent]
    /\ target' = [target EXCEPT ![c] = Absent]
    /\ got' = [got EXCEPT ![c] = Nothing]
    /\ since' = [since EXCEPT ![c] = Absent]
    /\ UNCHANGED <<writerVars, kind>>

\* load_current_slice, load_current_proof_slice and current_freshness ask for
\* the current snapshot; load_snapshot_records for that of an earlier slice.
BeginRead(c, k) ==
    /\ pc[c] = "idle"
    /\ k = "records" => answer[c].kind = "slice"
    /\ kind' = [kind EXCEPT ![c] = k]
    /\ target' = [target EXCEPT ![c] = IF k = "records" THEN answer[c].snapshot.id
                                                        ELSE Absent]
    /\ pc' = [pc EXCEPT ![c] = IF k = "records" THEN "nodes" ELSE "pin"]
    /\ since' = [since EXCEPT ![c] = Len(log)]
    /\ IF k = "records" THEN UNCHANGED answer ELSE NewCall(c)
    /\ UNCHANGED <<writerVars, view, got>>

\* The pointer.  Only a slice is read under a transaction.
Pin(c) ==
    /\ pc[c] = "pin"
    /\ disk.current # Absent
    /\ target' = [target EXCEPT ![c] = disk.current]
    /\ view' = [view EXCEPT ![c] = IF kind[c] = "slice" THEN disk ELSE Absent]
    /\ pc' = [pc EXCEPT ![c] = IF kind[c] = "slice" THEN "nodes" ELSE "sources"]
    /\ UNCHANGED <<writerVars, kind, got, since, answer>>

PinNothing(c) ==
    /\ pc[c] = "pin"
    /\ disk.current = Absent
    /\ Answer(c, [kind |-> "empty"])

\* What a statement of this read sees.
Visible(c) == IF kind[c] = "slice" THEN view[c] ELSE disk

WithinLimits(c) ==
    /\ Cardinality(Visible(c).members[target[c]]) <= MaxNodes
    /\ kind[c] = "slice" => Cardinality(Visible(c).linked[target[c]]) <= MaxLinks

SliceLimitExceeded(c) ==
    /\ pc[c] = "nodes"
    /\ ~WithinLimits(c)
    /\ Answer(c, Refused("limit"))

ReadNodes(c) ==
    /\ pc[c] = "nodes"
    /\ kind[c] = "slice"
    /\ WithinLimits(c)
    /\ got' = [got EXCEPT ![c].nodes = NodesOf(Visible(c), target[c])]
    /\ pc' = [pc EXCEPT ![c] = "links"]
    /\ UNCHANGED <<writerVars, kind, view, target, since, answer>>

\* Mutant of ReadSnapshotRecords: the records of the current snapshot instead.
ReadCurrentRecords(c) ==
    /\ pc[c] = "nodes"
    /\ kind[c] = "records"
    /\ WithinLimits(c)
    /\ Answer(c, [kind |-> "records", id |-> disk.current,
                  nodes |-> NodesOf(disk, disk.current)])

ReadSnapshotRecords(c) ==
    /\ pc[c] = "nodes"
    /\ kind[c] = "records"
    /\ WithinLimits(c)
    /\ Answer(c, [kind |-> "records", id |-> target[c],
                  nodes |-> NodesOf(Visible(c), target[c])])

ReadLinks(c) ==
    /\ pc[c] = "links"
    /\ got' = [got EXCEPT ![c].links = LinksOf(Visible(c), target[c])]
    /\ pc' = [pc EXCEPT ![c] = "sources"]
    /\ UNCHANGED <<writerVars, kind, view, target, since, answer>>

\* A SELECT fails (I/O error).
ReadFails(c) ==
    /\ pc[c] \in Reading
    /\ Answer(c, Refused("database"))

ReadSources(c) ==
    /\ pc[c] = "sources"
    /\ LET sources == Visible(c).sources[target[c]]
       IN  IF kind[c] = "slice"
           THEN Answer(c, [kind |-> "slice",
                           snapshot |-> [id |-> target[c], nodes |-> got[c].nodes,
                                         links |-> got[c].links, sources |-> sources]])
           ELSE Answer(c, [kind |-> "freshness", id |-> target[c], sources |-> sources])

-----------------------------------------------------------------------------

\* The process dies at any moment; its lock, copy and view go with it.
Crash(c) ==
    /\ pc[c] # "down"
    /\ pc' = [pc EXCEPT ![c] = "down"]
    /\ answer' = [answer EXCEPT ![c] = NoAnswer]
    /\ view' = [view EXCEPT ![c] = Absent]
    /\ target' = [target EXCEPT ![c] = Absent]
    /\ got' = [got EXCEPT ![c] = Nothing]
    /\ since' = [since EXCEPT ![c] = Absent]
    /\ IF writer = c THEN Unlock ELSE UNCHANGED <<writer, work, candidate>>
    /\ UNCHANGED <<disk, log, kind>>

Build(c) ==
    \/ \E r \in Records, content \in Contents : InsertRecord(c, r, content)
    \/ \E l \in Links : \E row \in Rows[l] : InsertLink(c, l, row)
    \/ \E x \in Sources, cursor \in Cursors \union {Null} : SetSourceState(c, x, cursor)
    \/ InsertRefused(c) \/ Abandon(c)

Publish(c) ==
    \/ Validate(c) \/ ValidateFails(c) \/ MarkPublished(c) \/ AdvanceCursors(c)
    \/ PointCurrent(c) \/ Commit(c) \/ StatementFails(c)

Read(c) ==
    \/ Pin(c) \/ PinNothing(c) \/ SliceLimitExceeded(c)
    \/ ReadNodes(c) \/ ReadSnapshotRecords(c) \/ ReadLinks(c) \/ ReadSources(c)
    \/ ReadFails(c)

Next ==
    \E c \in Clients :
        \/ Busy(c) \/ Open(c) \/ Migrate(c)
        \/ \E s \in Snapshots : BeginCandidate(c, s) \/ CandidateExists(c, s)
        \/ Build(c) \/ Publish(c)
        \/ \E k \in Kinds : BeginRead(c, k)
        \/ Read(c)
        \/ Crash(c)

Spec == Init /\ [][Next]_vars

-----------------------------------------------------------------------------
(* Properties. *)

\* Every variable keeps its type, and the write lock is held by exactly the
\* client that is between the first and the last statement of a transaction.
TypeOK ==
    /\ disk \in Databases
    /\ writer \in Clients \union {Absent}
    /\ writer # Absent => work \in Databases
    /\ candidate \in Snapshots \union {Absent}
    /\ pc \in [Clients -> Stages]
    /\ \A c \in Clients : pc[c] \in Writing <=> writer = c
    /\ \A c \in Clients : pc[c] \in Building => candidate # Absent
    /\ kind \in [Clients -> Kinds]
    /\ target \in [Clients -> Snapshots \union {Absent}]
    /\ \A c \in Clients : pc[c] \in Reading \ {"pin"} => target[c] # Absent
    /\ DOMAIN answer = Clients
    /\ \A c \in Clients : answer[c].kind = "slice" => answer[c].snapshot.id \in Snapshots
    /\ since \in [Clients -> Nat \union {Absent}]
    /\ log \in Seq(Snapshots)

Stored(db, s) ==
    /\ \A r \in db.members[s] : db.records[r] # Absent
    /\ \A l \in db.linked[s] : db.links[l] # Absent

\* No candidate is ever committed: a snapshot on disk is published and closed
\* (its edges and conflicts stay inside it, their rows and records exist).
OnlyWholeSnapshots ==
    \A s \in Snapshots :
        /\ disk.state[s] # "candidate"
        /\ disk.state[s] = "published" => Closed(disk, s) /\ Stored(disk, s)

\* The pointer names the snapshot committed last, never an older one or one
\* that was abandoned, failed or lost in a crash.
CurrentIsNewest ==
    /\ disk.current = IF log = <<>> THEN Absent ELSE log[Len(log)]
    /\ \A s \in Snapshots : disk.state[s] = "published" <=> \E i \in DOMAIN log : log[i] = s

\* A cursor is that of the newest published snapshot that had one for the
\* source: never a candidate's, never an older one.
CursorIsNewestPublished ==
    \A x \in Sources :
        LET having == {i \in DOMAIN log : disk.sources[log[i]][x] \in Cursors}
        IN  disk.cursors[x] =
                IF having = {} THEN Absent
                ELSE LET newest == CHOOSE i \in having : \A j \in having : j <= i
                     IN  [cursor |-> disk.sources[log[newest]][x], of |-> log[newest]]

\* An acknowledged publication is on disk for good.
AcknowledgedIsDurable ==
    \A c \in Clients :
        answer[c].kind = "published" => disk.state[answer[c].id] = "published"

\* A published snapshot is never altered, by a later candidate that shares its
\* records, by a failure or by a crash.
PublishedNeverChanges ==
    [][\A s \in Snapshots :
          disk.state[s] = "published" =>
              /\ disk'.state[s] = "published"
              /\ SnapshotOf(disk', s) = SnapshotOf(disk, s)]_vars

Log == INSTANCE SnapshotLog
          WITH log <- [i \in DOMAIN log |-> SnapshotOf(disk, log[i])],
               answer <- [c \in Clients |->
                             IF answer[c].kind \in {"empty", "slice", "freshness", "records"}
                             THEN answer[c] ELSE NoAnswer]

\* The store implements the log of whole snapshots: reads are atomic and never
\* go back in time, publication is one step.
ImplementsLog == Log!Spec
=============================================================================
