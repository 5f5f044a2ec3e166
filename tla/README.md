# Verification of rationale

`rationale` answers *why is this code here?*: it collects evidence from Git, documents and
GitHub into snapshots in a SQLite database, and proves or fails to prove a rationale for a line
or a commit with a small kernel written in OCaml, run as a worker process.  This directory holds
TLA+ models of its core, TLC configurations that check them on small instances, and proofs that
TLAPS checks for every instance.  All source paths below are relative to `src/`; `PROJECT.json`
maps each definition to the lines it stands for.

    tlc -workers 2 -config WhyQuery.cfg MCWhyQuery      # one run
    tlapm SyncEngineProofs.tla                          # one module's proofs

## 1. The system

    CLI / MCP server --> engine --+--> Git adapter      (commits, blame)
                                  +--> document ingestion
                                  +--> GitHub adapter   (HTTP, ETags)
                                  +--> evidence store   (SQLite, shared by processes)
                                  +--> worker supervisor ==pipes==> OCaml kernel

| component | state | operations | what is hard | what makes it correct |
|---|---|---|---|---|
| Worker supervisor (`crates/rationale-protocol/src/worker.rs`) | bounded channel, request in service, attempt counter, worker process, its pid, two pipes | `start`, `evaluate`, drop of a call or of the handles, the task's loop, restart with backoff | timeouts with late replies, dropped callers, crashes; no request id is compared | each caller gets its own verdict or an error, once; nothing hangs; no process is left |
| Worker process (`ocaml/worker`) | none between frames | handshake, evaluate, stop at end of file | may hang or die at any time | one reply per frame |
| Evidence store (`crates/rationale-store`, `migrations`) | snapshots, shared rows, memberships, source cursors, current pointer | open and migrate, build a candidate, publish, abandon, read | several processes, statement failures, crashes, reads of several statements | readers see whole published snapshots, published content never changes |
| Sync engine (`sync*` in `crates/rationale-engine/src/lib.rs`) | what one sync has read so far | read history, documents and prior contribution; ask GitHub; merge; compare; publish | no lock between its steps; failures retain; 304s confirm | a cursor stands for the evidence beside it, local evidence wins, edges are closed |
| Proof kernel (`ocaml/lib`) | the breadth-first walk | validate, walk, conclude | cycles, parallel edges, limits, superseded evidence | the verdict is what the evidence warrants; chains are current and complete |
| Query engine (`why`) | what one query has read so far, the shared supervisor | resolve, slice, attach, start the worker, evaluate, rank candidates | concurrent queries, publications in between, starts that fail or are dropped | the slice decides what the snapshot would; one worker; one snapshot per answer |
| GitHub adapter (`crates/rationale-github`) | the cursor, the pages so far | conditional request, pages of issues and commits, normalisation | many requests, limits, items that move between pages, a remote that is changed | a contribution is complete or an error, a 304 confirms what is still so, but for what is removed meanwhile |
| Git adapter (`crates/rationale-git`) | what a query has read so far, the walk | history of HEAD and of a path, status, reading, blame, references | edits and commits between its steps, renames, merges, limits, shallow clones | lines belong to the commits that introduced them, a history said to be complete is |
| Document ingestion (`crates/rationale-docs`) | the files read, the diagnostics | scan, parse, one record per identifier, links | files that change during the scan, malformed files, duplicates, limits | each file is evidence or diagnosed |
| Candidate ranking, codec, CLI, MCP | none | pure conversions and I/O | boundaries and limits | determinism, bounds |

How they interact: the engine holds one supervisor behind an async mutex and opens the store for
each operation; the store is shared with other processes through the database file; the supervisor
and the kernel exchange length-prefixed JSON frames.  Nothing is called back.

## 2. The modules

| module | what it is |
|---|---|
| `ProofService` | abstract: a serial service, first come first served, each call told its own verdict or an error at most once |
| `WorkerSupervisor` | the supervisor task, callers, pipes and worker; implements `ProofService` |
| `SnapshotLog` | abstract: a log of whole immutable snapshots with atomic reads |
| `EvidenceStore` | the database, transactions and reads statement by statement; implements `SnapshotLog` |
| `SyncEngine` | the steps of `rationale sync` in several processes; uses the store as `SnapshotLog`, whose specification it is shown to respect |
| `ProofRules` | the data of a request and the rules by which the kernel counts; extended by the next two |
| `ProofKernel` | the kernel's evaluation, one path of the walk per step |
| `WhyQuery` | the steps of `rationale why` for several queries; composes the store's slice, the kernel's rules and the engine's lock |
| `Documents` | what documents say and the local evidence made of them and of the commits: pure functions |
| `GitHistory` | histories, path histories through renames, references and blame: pure functions of the commits |
| `LocalSources` | the steps in which a sync reads history and documents, and a query attributes lines, while the user edits and commits; composes the two above |
| `GitHubSource` | the requests of a sync to GitHub, page by page, while people work there and `origin` is changed |
| `MC*` | instances for TLC |
| `*Proofs` | theorems about the module of that name |
| `SharedLemmas` | facts about numbers, sequences and ranks that several of the proofs cite |

The modules lean on each other: `SyncEngine` and `WhyQuery` take a store operation as one step
because `EvidenceStore` implements `SnapshotLog`; `WhyQuery` takes an evaluation as a verdict or
an error because of `WorkerSupervisor`, and takes for the verdict `WarrantedVerdict` because
`ProofKernel` establishes `VerdictIsWarranted`.  `SyncEngine` takes what is read of the repository
and of GitHub as one observation each; what such an observation is worth when it takes many
reads is the subject of `LocalSources` and `GitHubSource`.

### How state and actions correspond to the code

**WorkerSupervisor.**  `queue` is the mpsc channel of `EvaluateCommand`s, `call`/`outcome` are the
futures and oneshots, `current` and `attempt` the local variables of `evaluate_with_restart`,
`pc` where the task awaits.  Each arm of the loop is an action: `Spawn`, `HandshakeReady`,
`Receive`, `WriteRequest`, `ReadResult`, `ExchangeTimesOut` and so on.  `WorkerReply` is the OCaml
process, which may answer with any kind of frame, `WorkerCrash` its death.  A frame is one element
of a pipe.  `spawned`, `starts` and `sends` are history.

**EvidenceStore.**  `disk` is the committed database and `work` the copy a write transaction works
on; the write lock is `writer` (SQLite's single writer).  A candidate is `BeginCandidate`, then
`Build` in any order (any insertion may fail: the candidate is dropped), then the statements of
`publish`: `Validate`, `MarkPublished`, `AdvanceCursors`, `PointCurrent`, `Commit`.  `Crash` loses
`work`.  A read first takes its view (`pin`), as a deferred transaction does with its first
statement, or, where the code has no transaction, sees each statement's own.

**SyncEngine.**  One `pc` per process; between two of its steps the head, the working tree, GitHub
and the log may change.  A snapshot's identifier is a hash of its content, so equality of
snapshots stands for equality of identifiers.  `records` is the shared table whose rows
`insert_immutable` compares.

**ProofKernel.**  `queue`, `explored`, `paths`, `anchors` and `reachable` are the arguments of
`loop`.  `Validate` keeps the order in which `validate` checks.  Sets stand for lists where order
is not answered.

**WhyQuery.**  One `pc` per query at the awaits and reads of `Engine::why`: `resolve`, `slice`,
`lock`, `starting`, `evaluate`, `again`, `records`.  `lock` is tokio's FIFO mutex around
`self.worker`.  `SliceIds` is `REACHABLE_CTE` as a least closed set; `Attach` is `attach_target`.
`began` and `running` are history.

**LocalSources.**  `head`, `documents` and `sources` are the repository and its working tree, which
`Edit*` and `MoveHead` change at any time.  `task` says whether a sync or a query runs.  The sync's
steps are those of `prepare_local_sync`: `BeginSync` (`commit_history`), `ListDirectory` and
`ReadDocument` with the stack of directories and the entries of the one that was listed,
`FileIsGone`, `Prepare` (`Ingest`, then `prepare_evidence`).  The query's are those of
`resolve_lines`: `BeginQuery` resolves HEAD or the revision asked for, which a shallow clone may
lack (`Present`), `CheckStatus`, `ReadSource` with the blame, then
the loops of `path_history`: `CompareCommit` for each parent of a commit, `CommitIsCompared` after
the last.  What a blame may tell is `IntroducedBy`: it follows a line back through the versions of
the file (`Bearers`), through renamings and merges and no farther than the clone goes, to one whose
parents' versions do not have the line where a comparison would keep it.  `quiet` and `raced` are
history.

**GitHubSource.**  `forge` is GitHub: per repository the items, most recently updated first.
`reading`, `page`, `got` and `requests` are the variables of `collection` and the budget of
requests, `issues` and `commits` those of `synchronize`; `reading` is 0 for the issues and otherwise
the place of the pull request whose commits are read.  `current` is GitHub's part of the current
snapshot.  A step is one request: `NotModified`, `NextPage`, `IssuesComplete`,
`CommitsComplete` or `RefreshFails`; `People` and `ChangeRemote` come in between.  `seen`,
`removals`, `quiet` and `shifts` are history.

## 3. The runs

| run | what it asks | bounds and why they suffice |
|---|---|---|
| `supervisor` | replies matched to requests, pipes in step, budget; refinement of the service, every call ends, the worker is reaped | three requests (one over the frame limit), channel of two, one restart: a full channel, a waiting sender, a late reply and an exhausted budget all occur |
| `store` | whole snapshots, pointer, cursors, durability, immutability; refinement of the log | two processes, two snapshots, records with a link from one to itself (so that a torn read shows) of which there are two contents (so that mismatches happen), a source with or without cursor, slices above the limit |
| `sync` | closedness, precedence of local evidence, cursors, freshness, use of the store | two processes, a commit that comes and goes, a document that is edited, two states of GitHub, three snapshots |
| `kernel` | warranted verdicts, current and complete chains, dead-end gaps, termination | every subset of eight edges between four records (parallel, circular, stale, superseding), historical targets, both conflicts, each refusal, a path limit that some walks meet |
| `why` | valid requests, deciding slices, one snapshot per answer, one supervisor, every query ends | one query over every subset of four edges between four records, with a conflict, without one, or with a historical decision, and over graphs above each limit; histories of two snapshots; two queries, which share the worker alone, over a small graph (`Together` names it) |
| `github` | a new contribution lacks nothing that was left alone, but at most one item for each removal from a page already read; a stored cursor would only be confirmed while it is still true; a cursor is of its remote | pages of one, three pages, three records, five requests: three items with their commits just fit and a fourth does not; three changes at GitHub or of `origin`, enough for an item to move over a page that was read and for a second sync after a change |
| `local_sources` | sources accounted for, honest histories, right attribution | six commits with a branch that renames a file and one that edits it, their merge and an edit that moves a line, five of them within the limits; the full clone and one that begins at the two branches, and a revision that only the former has; three documents in two directories, two of which fit, with the same identifier in two files, unresolved references and each kind of malformed file; any two edits |

Five further runs are expected to find a violation: each checks one sentence of the documentation
that the code does not keep (section 6).

`MaxSnapshots` in `SyncEngine`, `Together` in `WhyQuery`, `MaxChanges` in `GitHubSource` and `MaxEdits`
in `LocalSources` are the only bounds in guards; elsewhere the finite
sets of requests, processes or queries bound the runs.  Deadlock is checked where a run may not
stop; it is off for the supervisor (all calls done), the kernel (answered), the queries (done) and
`github` (an `origin` that is not GitHub's once people have made all their changes).

Fairness is assumed where liveness is checked.  The supervisor task and the senders are polled by
the runtime and timers fire (`Fairness` of `WorkerSupervisor`); nothing is assumed of the worker.
The kernel is sequential code (`WF_vars(Next)`).  A query goes on while it can
(`WF_vars(Proceed(c))`): the mutex is granted in order, a start ends by its timeout, an evaluation
by `EveryCallCompletes`; nothing is assumed of callers that go away.

## 4. The proofs

Every theorem holds for all values of the constants that satisfy the named assumptions of the
module (`SupervisorAssumption`, `StoreAssumption`, `SyncAssumption`, `RulesAssumption`,
`KernelAssumption`, `GitHubAssumption`, `ForgeAssumption`, `QueryAssumption`, `GitAssumption`,
`SourcesAssumption` and the two `AbsentAssumption`s), which TLC evaluates in each run.  Beyond types
and limits they say that a snapshot is finite and names each link once and that lines attached to a
target are new (`QueryAssumption`); that commits are finitely many and made after their parents
(`GitAssumption`); and that `Absent` is none of the values it stands beside.

The library's induction theorems take an operator as a parameter, which no backend instantiates.
The proofs use instead that a nonempty set of numbers has a least element (`LeastElement` of
`SharedLemmas`, proved there from the library's well-founded order of finite sets): the first number
for which a claim fails is looked at, and its predecessor refutes it.

- **WorkerSupervisorProofs.**  `TypeOK` and `PipesInStep` are inductive together: without the first
  the stages would not say which frame is awaited, without the second a reply might be anyone's.
  From them `OwnVerdict` (the only reply that can be read is that to `current`) and
  `AttemptBudget` are preserved step by step.  `TypeOK` bounds the channel and the `u8` counter.
  `SupervisorImplementsService` proves the refinement of `ProofService`: `LineInv` says that the
  calls in the line of the service are those waiting for a slot, then those in the channel, each
  once, and that the one in service is `current`.
- **EvidenceStoreProofs.**  `IInv` adds to the properties what a writer's copy is at each
  statement: the disk plus one candidate and rows that were absent (`CandidateAddsOnly`), so that
  `Commit` adds a whole snapshot and changes nothing else.  `PublishedNeverChanges` follows
  because only `Commit` and `Migrate` write the disk; `AcknowledgedIsDurable` from it.
  `CursorInv` relates the cursors of the disk and of a writer's copy to the newest snapshot that has
  one (`CursorIsNewestPublished`).  `ReaderInv` says what a reader has pinned and read so far; with
  it every step is the log's or a stutter (`StoreImplementsLog`).
- **SyncEngineProofs.**  `IInv` says of all evidence published or about to be that it is closed,
  that local records win and that its cursor describes what it holds of GitHub
  (`EvidenceIsSound`), and of a process in the middle of a sync that what it read was local or
  published.  Each of the three outcomes of GitHub preserves it.  `SyncImplementsLog` proves the
  refinement: a publication is the log's, every other step a stutter.
- **ProofKernelProofs.**  `IInv` describes the walk: paths are good walks without repetition, what
  leads on from a path looked at was queued, the records passed are reachable.  When the queue is
  empty the records passed are closed under active edges, hence all that is reachable
  (`SearchIsComplete`); with that the conclusion's verdict is the warranted one.
  `EveryChainIsCited` speaks of chains of any length: of a chain that no cited one begins with, the
  least beginning that no path looked at has is taken; the path one step shorter was looked at,
  so this one was queued.
- **GitHubSourceProofs.**  For any number of repositories and items, any size of pages and any
  limits.  `ConfirmInv`: as long as GitHub's first page is the one a sync has read, and nothing was
  removed since, nobody has touched the repository (`FirstPageTells`: a change puts an item with a
  new time in front), so the pages read so far begin what is there (`Abreast`), and what they add
  up to (`PagesAddUp`) is all that is there when the last one has come.  `QuietInv`: what nobody
  touches moves to an earlier place only when an item before it is removed (`PeopleLeave`), so each
  removal from a page already read lets at most one item slip over the end of those pages
  (`shifts`), and every other is on a page already read or yet to be read.  `CursorIsOfItsRemote` is inductive by itself.  `TypeInv` with `PullsStay` (a pull request
  whose commits are read is one of the issues read) gives `TypeOK`, in which every edge has both ends.
- **WhyQueryProofs.**  For any queries, targets, snapshots and limits.  `LockInv`: the engine's lock is
  waited for by exactly the queries that stand before it, each once, and only the first of them
  starts a worker; from it `OneSupervisor`.  It needs what `Tail`, `Append` and `RemoveAt` leave of
  the order (`RemovedOne`, `RemovedFirst`, `QueueLeaves`), since a query may be dropped anywhere in
  the line.  `AnswerInv`: from its slice on a query keeps to a snapshot that was current while it
  ran; from it `AnswersFitOneSnapshot`.  `RequestInv` says that a request was made of that snapshot;
  `SliceFacts` that a slice is the least closed set, so whatever leads on from it leads into it,
  and `AttachFacts` what a target adds; `NearSuffices` and `SliceSuffices` carry that over to the
  kernel's rules (`SliceDecides`).  The order of a request's lists is that of the ranks of their keys
  (`RankedList` of `SharedLemmas`).
- **LocalSourcesProofs.**  For any commits, names, files, directories and limits.  `ScanInv`: every
  document that is there and that nobody has touched is in a directory still to be listed, among
  the entries of the one that was, or was read as it is now.  `IngestHolds` and `PrepareSays` tell what
  becomes of the documents read, file by file: `Ingest` is a recursive function, unfolded along its
  argument.  From these `EverySourceIsAccountedFor`.  `RightInv` says of each line attributed so far
  that it is committed and that the blame could name its commit, of what the clone has.  What the
  clone shows is then compared with the full history: a line's bearers there are bearers here, of
  commits that lead to the one asked about (`BearersAreSeen`), and a line that seems new is new,
  unless that is at the boundary (`NewOrAtTheBoundary`); `HonestInv` adds that no answer of a shallow
  clone is said to be complete.  From these `AttributionIsRight`.  `HistoryIsHonest` needs what a walk
  keeps (`SoundTrail`): nothing comes after a commit that it leads to (`WalksAre`), so when a version
  of the file is reached all versions that it became have been visited and its name is known
  (`KnownAtHead`); and each comparison with a parent notices what it must (`RelevantTells`).
- **SharedLemmas.**  Beside `LeastElement` and the ranks, that a function which gathers what is own to
  an element and to those it leads to exists when these are of lower rank (`GathererExists`), and
  what it gathers (`GatheredFrom`): so `Reached`, `Lineage` and
  `Bearers` are unfolded.

Only model-checked: that every call is told and the worker is reaped (`EveryCallCompletes`,
`WorkerReaped`), that every request is answered (`EveryRequestIsAnswered`) and that every query ends
(`EveryQueryEnds`): fairness and `ENABLED` are out of the prover's reach.  Every invariant, every
action property and every refinement that a passing run checks is proved.

## 5. What the models leave out

- Bytes: frames, JSON, hashes (taken as free of collisions), SQL text, wording, scores.
- The quarantine table and `record_origin` of the store; in `SyncEngine`, conflicts and diagnostics,
  which its local inputs determine, and the several reads and requests (see `LocalSources` and
  `GitHubSource`).
- GitHub: that an ETag is missing, and which failure a failure was (rate limit, schema, redirect).
- The repository: names of directories and their nesting, directories that vanish, symbolic links,
  the limit on files scanned; files that are only in the index; lines that occur twice in a file.
- Which of several commits a blame names for a line that has moved in the file: it may be any through
  which the line came down and in which a comparison may take it for new.  What `find_similar` takes
  for a renaming is a file that is gone and has a line in common.
- Parsing of YAML, TOML, Markdown and messages as text: a file is one of its outcomes, a message the
  words that may be references.
- The order among callers that wait for a slot of the full channel: any of them may get it, and the
  service is first come, first served from there on (tokio's semaphore is fair among them as well).
- A panic of the supervisor task.  Replies the worker was not asked for.

Not modelled at all: `show`, `search`, `gaps`, target parsing, ranking, exit codes, MCP transport.
They are one read followed by pure conversions of text, or libraries.  Benchmarks, fuzz targets and
scripts are not part of the program.

The hazards of the code, each with its line and the properties that would notice it going wrong,
are listed in `PROJECT.json`.

## 6. Where documentation and code differ

| run | the sentence | what the code does |
|---|---|---|
| `sync_reuse` | a sync publishes or reuses a snapshot (`crates/rationale-engine/src/lib.rs:75`) | evidence equal to an older, not current, snapshot's is inserted again and refused |
| `sync_queryable` | a failed refresh leaves local evidence queryable (`governance/stories/10-github-sync.md:35`) | a commit known from GitHub first is refused once it is local: one identifier, two contents |
| `sync_retained` | GitHub failures retain the last valid contribution (`lib.rs:280`) | only that of the current snapshot, which `sync --local` removes |
| `sync_confirmed` | a 304 confirms the prior contribution (`crates/rationale-github/src/lib.rs:130`) | records that local ones replaced in the snapshot are missing from it |
| `why_conflict` | a conflict cannot disappear because it is outside the proof-edge graph (`crates/rationale-store/src/lib.rs:334`) | the kernel counts a conflict only if the walk reaches both its records |

`SliceDecides` has a precondition for a related reason: a slice follows edges forward, so a record
that supersedes one of the slice but is not reached from it is not in the request, and the
superseded record still counts there.

The two modules of the sources state their properties with the exceptions the code has:

- A document that is moved to a directory already listed is missed; the scan is not one moment.
- A commit takes the identifier of a document that names itself like it, without a diagnostic;
  between documents the first path wins, with one.
- A working copy committed or edited between the status and the reading of a file is attributed
  as the status said (`raced`).
- While the issues are fetched, an issue that is deleted or transferred from a page already read moves
  an item that nobody touched from the next page to that one: the new contribution lacks it
  (`shifts`), although the refresh has succeeded.  If the first page is still as it was read, later
  304s confirm the contribution without it.
- A 304 does not tell that an issue was deleted or transferred beyond the first page (`removals`).
  In both cases the contribution is called current when it is not, which is more than
  `crates/rationale-github/src/lib.rs:130` ("confirms the prior contribution is still current") allows.
- In a shallow clone lines older than its first commits are attributed to one of these.  Without
  the path's history, or with one, the answer then does not say that it is complete, but nothing
  says which lines it is about.
- A line that was moved within its file may be attributed to the commit that moved it.
- After a change of `origin` to another repository of GitHub a failed refresh retains the records of
  the former one, as stale and without a cursor; they are never confirmed
  (`CursorIsOfItsRemote`).

## 7. Plan

1. `WorkerSupervisor`, 2. `EvidenceStore`, 3. `SyncEngine`, 4. `ProofRules` and `ProofKernel`,
   each with its runs and proofs: done.
5. `WhyQuery`, 6. `LocalSources` with `Documents` and `GitHistory`, and `GitHubSource`: modelled,
   checked and proved.
7. Pure operators with reference definitions: candidate scores and their order, the frame decoder,
   targets, exit codes.
