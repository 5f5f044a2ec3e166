------------------------------- MODULE WhyQuery -------------------------------
(***************************************************************************)
(* `rationale why` and the explain_rationale tool                          *)
(* (crates/rationale-engine/src/lib.rs, why and what it calls): a query    *)
(* resolves its target in Git, reads from the current snapshot the slice   *)
(* of evidence that can be reached from it, attaches the target, has the   *)
(* proof worker evaluate the request, and, if the proof is incomplete,     *)
(* looks for candidates in the snapshot of the slice.                      *)
(*                                                                         *)
(* The queries of a server run concurrently and share one worker, started  *)
(* by the first under a lock.  Between the steps of a query the user       *)
(* changes the repository and other processes publish snapshots.           *)
(*                                                                         *)
(* A read of the store is one step (EvidenceStore shows that it is), an    *)
(* evaluation answers or is unavailable (WorkerSupervisor), and a proof's  *)
(* verdict is the warranted one (ProofKernel).                             *)
(***************************************************************************)
EXTENDS ProofRules

CONSTANTS
    Callers,            \* the queries; each is made at most once
    Targets,            \* what they may ask about
    Views,              \* what the repository may be
    Resolve,            \* what a target is in a view: its evidence, or Absent
    Histories,          \* the snapshots that may be published, in order
    Together,           \* bound: those during which more than one query is made
    MaxSliceNodes, MaxSliceEdges, MaxSliceConflicts,    \* SliceLimits of a proof
    MaxRecords,         \* and of the records candidates are found among
    MaxCandidates,
    Absent

\* A commit stands for itself, lines for the commits that introduced them, under
\* an identifier of their own, which no snapshot has.
TargetEvidence ==
    [kind : {"commit", "lines"}, id : Nat, commits : SUBSET Nat, links : SUBSET Edges]

Graphs == [nodes : SUBSET Nodes, edges : SUBSET Edges, conflicts : SUBSET Conflicts]

GraphIds(g) == {n.id : n \in g.nodes}

\* A snapshot is whole and names nothing twice (EvidenceStore).
Whole(g) ==
    /\ IsFiniteSet(g.nodes) /\ IsFiniteSet(g.edges)
    /\ \A e \in g.edges : {e.from, e.to} \subseteq GraphIds(g)
    /\ \A c \in g.conflicts : {c.left, c.right} \subseteq GraphIds(g)
    /\ \A m, n \in g.nodes : m.id = n.id => m = n
    /\ \A d, e \in g.edges : d.id = e.id => d = e

ASSUME QueryAssumption ==
    /\ Resolve \in [Views -> [Targets -> TargetEvidence \union {Absent}]]
    /\ \A v \in Views, t \in Targets :
          LET e == Resolve[v][t]
          IN  e # Absent =>
                 /\ e.kind = "commit" => e.commits = {e.id}
                 /\ e.kind = "lines" =>
                        /\ e.id \notin e.commits
                        /\ \A h \in Histories : \A i \in DOMAIN h : e.id \notin GraphIds(h[i])
                 /\ \A l \in e.links : /\ l.from = e.id /\ l.current
                                       /\ e.kind = "lines" => l.to \in e.commits
                 /\ \A l, m \in e.links : l.id = m.id => l = m
                 /\ IsFiniteSet(e.commits) /\ IsFiniteSet(e.links)
    /\ Histories \subseteq Seq(Graphs) /\ Together \subseteq Histories
    /\ \A h \in Histories : \A i \in DOMAIN h : Whole(h[i])
    /\ {MaxSliceNodes, MaxSliceEdges, MaxSliceConflicts, MaxRecords, MaxCandidates} \subseteq Nat
    /\ Absent \notin TargetEvidence \union Callers \union Nat

VARIABLES
    view,               \* the repository now
    history, snapshot,  \* what is published, and how far
    pc,                 \* where each query stands
    asked,              \* its target
    began,              \* the snapshot that was current when it was made (history)
    target,             \* the target's evidence
    sliced,             \* the snapshot its slice is from
    request,            \* what the worker is asked
    response,           \* what the worker answers
    result,             \* what the query returned
    lock,               \* the queries waiting for the engine's worker; the first has the lock
    supervisor,         \* the query that started the engine's worker
    running             \* those whose supervisor runs (history)

world == <<view, history, snapshot>>
engine == <<lock, supervisor, running>>
query == <<asked, began, target, sliced, request, response, result>>
vars == <<world, engine, pc, query>>

-----------------------------------------------------------------------------
(* The slice. *)

\* Mutant of ClosedSets: the edges backward.
ClosedBackward(g, seeds) ==
    {C \in SUBSET (GraphIds(g) \union seeds) :
        /\ seeds \subseteq C
        /\ \A e \in g.edges : e.to \in C => e.from \in C
        /\ \A c \in g.conflicts : c.left \in C <=> c.right \in C}

\* What holds the seeds and whatever an edge, of any status or kind, or a
\* conflict, in either direction, leads to from there.
ClosedSets(g, seeds) ==
    {C \in SUBSET (GraphIds(g) \union seeds) :
        /\ seeds \subseteq C
        /\ \A e \in g.edges : e.from \in C => e.to \in C
        /\ \A c \in g.conflicts : c.left \in C <=> c.right \in C}

\* The recursive query.
SliceIds(g, seeds) ==
    LET closed == ClosedSets(g, seeds)
    IN  {id \in GraphIds(g) \union seeds : \A C \in closed : id \in C}

Slice(g, seeds) ==
    LET ids == SliceIds(g, seeds)
    IN  [nodes |-> {n \in g.nodes : n.id \in ids},
         edges |-> {e \in g.edges : e.from \in ids},
         conflicts |-> {c \in g.conflicts : {c.left, c.right} \subseteq ids}]

WithinLimits(seeds, s) ==
    /\ Cardinality(seeds) <= MaxSliceNodes
    /\ Cardinality(s.nodes) <= MaxSliceNodes
    /\ Cardinality(s.edges) <= MaxSliceEdges
    /\ Cardinality(s.conflicts) <= MaxSliceConflicts

\* A record the target brings along.
Attached(e, id) ==
    [id |-> id, kind |-> IF e.kind = "lines" /\ id = e.id THEN "code_target" ELSE "change",
     current |-> TRUE, subject |-> 0, outcome |-> 0]

\* Mutant of Attach: a reference is attached without looking for its record.
AttachAll(e, s) ==
    [s EXCEPT !.nodes = @ \union {Attached(e, id) : id \in (e.commits \union {e.id}) \ GraphIds(s)},
              !.edges = @ \union e.links]

\* attach_target: stored records are kept, stored edges are not; references
\* need their record.
Attach(e, s) ==
    LET nodes == s.nodes \union {Attached(e, id) : id \in (e.commits \union {e.id}) \ GraphIds(s)}
        links == {l \in e.links : l.to \in {n.id : n \in nodes}}
    IN  [s EXCEPT !.nodes = nodes,
                  !.edges = {d \in @ : \A l \in links : l.id # d.id} \union links]

\* The maps hand their values over in the order of the identifiers.
Ordered(S) ==
    [i \in 1 .. Cardinality(S) |-> CHOOSE m \in S : Cardinality({n \in S : n.id < m.id}) = i - 1]

Request(id, g) ==
    [version |-> 1, target |-> id, anchors |-> {"decision", "work_item"},
     nodes |-> Ordered(g.nodes), edges |-> Ordered(g.edges), conflicts |-> g.conflicts]

-----------------------------------------------------------------------------
(* Results. *)

Failure(category) == [kind |-> "failure", category |-> category]
Pending == [kind |-> "pending"]
KernelError(code) == [kind |-> "error", code |-> code]
Proof(verdict, conflicts, gap) ==
    [kind |-> "proof", verdict |-> verdict, conflicts |-> conflicts, gap |-> gap]
Why(answer, of, candidates) ==
    [kind |-> "why", answer |-> answer, of |-> of, candidates |-> candidates]

Incomplete == {"partial", "not_established"}
NeedsCandidates(a) == a.kind = "proof" /\ a.verdict \in Incomplete

\* What the kernel may answer.  The paths of a request are not counted here, so
\* it may exceed the limit on them.
Responses(r) ==
    LET R == Reachable(r)
        conflicts == MaterialConflicts(r, R)
        verdict == WarrantedVerdict(r)
        gaps == IF verdict \in Incomplete THEN R ELSE {Absent}
    IN  IF Validate(r) # "none" THEN {KernelError(Validate(r))}
        ELSE {KernelError("resource_limit")} \union {Proof(verdict, conflicts, id) : id \in gaps}

\* What may be ranked: neither the target nor the gap, and nothing historical.
Eligible(e, a, g) ==
    {n.id : n \in {m \in g.nodes : m.current}} \ ({a.gap} \union e.commits)

Init ==
    /\ view \in Views
    /\ history \in Histories /\ snapshot = 0
    /\ pc = [c \in Callers |-> "new"]
    /\ asked = [c \in Callers |-> Absent]
    /\ began = [c \in Callers |-> 0]
    /\ target = [c \in Callers |-> Absent]
    /\ sliced = [c \in Callers |-> 0]
    /\ request = [c \in Callers |-> Absent]
    /\ response = [c \in Callers |-> Pending]
    /\ result = [c \in Callers |-> Pending]
    /\ lock = <<>> /\ supervisor = Absent /\ running = {}

-----------------------------------------------------------------------------
(* The world. *)

ChangeRepository(v) ==
    /\ v # view
    /\ view' = v
    /\ UNCHANGED <<history, snapshot, engine, pc, query>>

Publish ==
    /\ snapshot < Len(history)
    /\ snapshot' = snapshot + 1
    /\ UNCHANGED <<view, history, engine, pc, query>>

-----------------------------------------------------------------------------
(* One query. *)

Go(c, from, to) == pc[c] = from /\ pc' = [pc EXCEPT ![c] = to]

\* The query ends; only what it returned is left of it.
Return(c, r) ==
    /\ pc' = [pc EXCEPT ![c] = "done"]
    /\ result' = [result EXCEPT ![c] = r]
    /\ asked' = [asked EXCEPT ![c] = Absent]
    /\ target' = [target EXCEPT ![c] = Absent]
    /\ sliced' = [sliced EXCEPT ![c] = 0]
    /\ request' = [request EXCEPT ![c] = Absent]
    /\ response' = [response EXCEPT ![c] = Pending]
    /\ UNCHANGED <<world, began>>

Ask(c, t) ==
    /\ Go(c, "new", "resolve")
    /\ history \in Together \/ \A d \in Callers : pc[d] = "new"
    /\ asked' = [asked EXCEPT ![c] = t]
    /\ began' = [began EXCEPT ![c] = snapshot]
    /\ UNCHANGED <<world, engine, target, sliced, request, response, result>>

\* resolve_for_proof.
ResolveTarget(c) ==
    /\ Go(c, "resolve", "slice")
    /\ Resolve[view][asked[c]] # Absent
    /\ target' = [target EXCEPT ![c] = Resolve[view][asked[c]]]
    /\ UNCHANGED <<world, engine, asked, began, sliced, request, response, result>>

\* The file or the revision is gone, or the lines are not committed: now, or
\* when it is resolved once more for the candidates.
ResolveFails(c) ==
    /\ pc[c] \in {"resolve", "again"}
    /\ Resolve[view][asked[c]] = Absent
    /\ Return(c, Failure("git"))
    /\ UNCHANGED engine

NoSnapshot(c) ==
    /\ pc[c] = "slice"
    /\ snapshot = 0
    /\ Return(c, Failure("no_snapshot"))
    /\ UNCHANGED engine

CurrentSlice(c) == Slice(history[snapshot], target[c].commits)

\* Mutant of LoadSlice: the limits are not enforced.
LoadAnySlice(c) ==
    /\ snapshot > 0
    /\ Go(c, "slice", "lock")
    /\ \E g \in {Attach(target[c], CurrentSlice(c))} :
          request' = [request EXCEPT ![c] = Request(target[c].id, g)]
    /\ sliced' = [sliced EXCEPT ![c] = snapshot]
    /\ lock' = Append(lock, c)
    /\ UNCHANGED <<world, supervisor, running, asked, began, target, response, result>>

\* load_current_proof_slice, attach_target, and the query asks for the worker.
LoadSlice(c) ==
    /\ snapshot > 0
    /\ Go(c, "slice", "lock")
    /\ WithinLimits(target[c].commits, CurrentSlice(c))
    /\ \E g \in {Attach(target[c], CurrentSlice(c))} :
          request' = [request EXCEPT ![c] = Request(target[c].id, g)]
    /\ sliced' = [sliced EXCEPT ![c] = snapshot]
    /\ lock' = Append(lock, c)
    /\ UNCHANGED <<world, supervisor, running, asked, began, target, response, result>>

SliceTooLarge(c) ==
    /\ pc[c] = "slice"
    /\ snapshot > 0
    /\ ~WithinLimits(target[c].commits, CurrentSlice(c))
    /\ Return(c, Failure("store"))
    /\ UNCHANGED engine

\* The database fails or is busy.
StoreFails(c) ==
    /\ pc[c] \in {"slice", "records"}
    /\ Return(c, Failure("store"))
    /\ UNCHANGED engine

-----------------------------------------------------------------------------
(* proof_worker: the lock is first come, first served. *)

Unlock == lock' = Tail(lock)

UseWorker(c) ==
    /\ Go(c, "lock", "evaluate")
    /\ c = Head(lock)
    /\ supervisor # Absent
    /\ Unlock
    /\ UNCHANGED <<world, supervisor, running, query>>

\* Mutant of BeginStart: the lock is not waited for.
BeginStartAtOnce(c) ==
    /\ Go(c, "lock", "starting")
    /\ supervisor = Absent
    /\ UNCHANGED <<world, engine, query>>

BeginStart(c) ==
    /\ Go(c, "lock", "starting")
    /\ c = Head(lock)
    /\ supervisor = Absent
    /\ UNCHANGED <<world, engine, query>>

Started(c) ==
    /\ Go(c, "starting", "evaluate")
    /\ supervisor' = c
    /\ running' = running \union {c}
    /\ Unlock
    /\ UNCHANGED <<world, query>>

\* Mutant of StartFails: the lock is kept.
StartFailsLocked(c) ==
    /\ pc[c] = "starting"
    /\ Return(c, Failure("unavailable"))
    /\ UNCHANGED engine

\* Nothing is kept of a worker that did not start: the next query tries again.
StartFails(c) ==
    /\ pc[c] = "starting"
    /\ Return(c, Failure("unavailable"))
    /\ Unlock
    /\ UNCHANGED <<supervisor, running>>

\* The caller drops the query where it waits.
Abandon(c) ==
    /\ pc[c] \in {"lock", "starting", "evaluate"}
    /\ Return(c, Failure("abandoned"))
    /\ lock' = IF pc[c] = "evaluate" THEN lock
               ELSE RemoveAt(lock, CHOOSE i \in DOMAIN lock : lock[i] = c)
    /\ UNCHANGED <<supervisor, running>>

-----------------------------------------------------------------------------
(* The answer. *)

Unavailable(c) ==
    /\ pc[c] = "evaluate"
    /\ Return(c, Failure("unavailable"))
    /\ UNCHANGED engine

\* An error of the kernel, or a proof that needs no candidates.
Answer(c) ==
    /\ pc[c] = "evaluate"
    /\ \E a \in Responses(request[c]) :
          /\ ~NeedsCandidates(a)
          /\ Return(c, Why(a, sliced[c], {}))
    /\ UNCHANGED engine

LookForCandidates(c) ==
    /\ Go(c, "evaluate", "again")
    /\ \E a \in Responses(request[c]) :
          /\ NeedsCandidates(a)
          /\ response' = [response EXCEPT ![c] = a]
    /\ request' = [request EXCEPT ![c] = Absent]
    /\ UNCHANGED <<world, engine, asked, began, target, sliced, result>>

\* The target is resolved again, with its history; it may have changed.
ResolveAgain(c) ==
    /\ Go(c, "again", "records")
    /\ Resolve[view][asked[c]] # Absent
    /\ target' = [target EXCEPT ![c] = Resolve[view][asked[c]]]
    /\ UNCHANGED <<world, engine, asked, began, sliced, request, response, result>>

\* Mutant of FindCandidates: the records of the current snapshot.
FindCurrentCandidates(c) ==
    /\ pc[c] = "records"
    /\ Cardinality(history[snapshot].nodes) <= MaxRecords
    /\ \E found \in SUBSET Eligible(target[c], response[c], history[snapshot]) :
          /\ Cardinality(found) <= MaxCandidates
          /\ Return(c, Why(response[c], sliced[c], found))
    /\ UNCHANGED engine

\* load_snapshot_records and rank_candidates; what is found is a question of words.
FindCandidates(c) ==
    /\ pc[c] = "records"
    /\ LET g == history[sliced[c]]
       IN  /\ Cardinality(g.nodes) <= MaxRecords
           /\ \E found \in SUBSET Eligible(target[c], response[c], g) :
                 /\ Cardinality(found) <= MaxCandidates
                 /\ Return(c, Why(response[c], sliced[c], found))
    /\ UNCHANGED engine

\* The proof is lost with them.
TooManyRecords(c) ==
    /\ pc[c] = "records"
    /\ Cardinality(history[sliced[c]].nodes) > MaxRecords
    /\ Return(c, Failure("store"))
    /\ UNCHANGED engine

Proceed(c) ==
    \/ ResolveTarget(c) \/ ResolveFails(c)
    \/ NoSnapshot(c) \/ LoadSlice(c) \/ SliceTooLarge(c) \/ StoreFails(c)
    \/ UseWorker(c) \/ BeginStart(c) \/ Started(c) \/ StartFails(c)
    \/ Unavailable(c) \/ Answer(c) \/ LookForCandidates(c)
    \/ ResolveAgain(c) \/ FindCandidates(c) \/ TooManyRecords(c)

Next ==
    \/ \E v \in Views : ChangeRepository(v)
    \/ Publish
    \/ \E c \in Callers : Proceed(c) \/ Abandon(c) \/ \E t \in Targets : Ask(c, t)

\* Each query runs on; a worker starts or does not, answers or is unavailable.
Spec == Init /\ [][Next]_vars /\ \A c \in Callers : WF_vars(Proceed(c))

-----------------------------------------------------------------------------
(* Properties. *)

Requests ==
    [version : {1}, target : Nat, anchors : {{"decision", "work_item"}},
     nodes : Seq(Nodes), edges : Seq(Edges), conflicts : SUBSET Conflicts]

\* What stands for no request is none.
ASSUME AbsentAssumption == Absent \notin Requests

Proofs ==
    [kind : {"proof"}, verdict : {"established", "partial", "not_established", "conflicted"},
     conflicts : SUBSET Conflicts, gap : Nat \union {Absent}]
KernelErrors ==
    {KernelError(code) : code \in {"resource_limit", "invalid_request", "missing_record"}}

Results ==
    {Pending}
    \union {Failure(f) : f \in {"git", "no_snapshot", "store", "unavailable", "abandoned"}}
    \union [kind : {"why"}, answer : Proofs \union KernelErrors, of : Nat,
            candidates : SUBSET Nat]

Stages ==
    {"new", "resolve", "slice", "lock", "starting", "evaluate", "again", "records", "done"}

\* Every variable keeps its type, the lock is waited for by exactly the queries
\* that stand before it, and no more of a snapshot is asked about than a slice
\* may hold.
TypeOK ==
    /\ view \in Views /\ history \in Histories /\ snapshot \in 0 .. Len(history)
    /\ pc \in [Callers -> Stages]
    /\ asked \in [Callers -> Targets \union {Absent}]
    /\ began \in [Callers -> 0 .. snapshot] /\ sliced \in [Callers -> 0 .. snapshot]
    /\ target \in [Callers -> TargetEvidence \union {Absent}]
    /\ request \in [Callers -> Requests \union {Absent}]
    /\ response \in [Callers -> Proofs \union {Pending}]
    /\ result \in [Callers -> Results]
    /\ supervisor \in Callers \union {Absent} /\ running \subseteq Callers
    /\ lock \in Seq(Callers)
    /\ \A c \in Callers :
          /\ (\E i \in DOMAIN lock : lock[i] = c) <=> pc[c] \in {"lock", "starting"}
          /\ pc[c] \in {"lock", "starting", "evaluate"} =>
                 /\ request[c] # Absent
                 /\ Cardinality(GraphIds(history[sliced[c]]) \intersect IdsOf(request[c]))
                        <= MaxSliceNodes

\* The worker is only ever asked what it can judge: the slice and what the
\* target brings along fit together, so the kernel never answers that a record
\* is missing or the request invalid.  Only its limits may be exceeded.
RequestsAreValid ==
    \A c \in Callers :
        pc[c] \in {"lock", "starting", "evaluate"} =>
            Validate(request[c]) \in {"none", "resource_limit"}

\* The whole snapshot with what the target brought along.
WholeGraph(c) ==
    LET g == history[sliced[c]]
        nodes == NodesOf(request[c])
        edges == EdgesOf(request[c])
    IN  [nodes |-> nodes \union {n \in g.nodes : n.id \notin {m.id : m \in nodes}},
         edges |-> edges \union {e \in g.edges : e.id \notin {d.id : d \in edges}},
         conflicts |-> g.conflicts]

\* Some record of the slice is superseded by one outside it.
SupersededOutside(slice, whole) ==
    Superseded(whole) \intersect IdsOf(slice) # Superseded(slice)

\* To look at a slice is as good as to look at the whole snapshot: what can be
\* reached, the conflicts found and the verdict are the same, unless a record of
\* the slice is superseded by one that nothing of the slice leads to.
SliceDecides ==
    \A c \in Callers :
        pc[c] = "lock" =>
            \A g \in {WholeGraph(c)} :
                LET slice == request[c]
                    whole == Request(slice.target, g)
                    R == Reachable(slice)
                IN  ~SupersededOutside(slice, whole) =>
                        /\ R = Reachable(whole)
                        /\ MaterialConflicts(slice, R) = MaterialConflicts(whole, R)
                        /\ WarrantedVerdict(slice) = WarrantedVerdict(whole)

\* A query tells of one snapshot, current at some time while it ran: also the
\* candidates, which are looked for after the evaluation, are of the snapshot
\* the proof is about, whatever was published in between.
AnswersFitOneSnapshot ==
    \A c \in Callers :
        result[c].kind = "why" =>
            /\ result[c].of \in began[c] .. snapshot
            /\ result[c].candidates \subseteq
                   {n.id : n \in {m \in history[result[c].of].nodes : m.current}}

\* The queries of a server share one supervisor: no two are ever started, however
\* the queries come together, fail to start it or are dropped, and the one that
\* runs is the one they use.
OneSupervisor ==
    /\ Cardinality({c \in Callers : pc[c] = "starting"} \union running) <= 1
    /\ running = {supervisor} \ {Absent}

\* Every query ends, though some wait for one that does not start its worker or
\* is dropped while it does.
EveryQueryEnds == \A c \in Callers : pc[c] # "new" ~> pc[c] = "done"

-----------------------------------------------------------------------------
(* What the documentation says and the code does not do. *)

\* An explicit conflict with a record that the proof reaches is not lost because
\* no edge leads to its other record ("an explicit conflict cannot disappear
\* merely because it is represented outside the directed proof-edge graph").
ConflictsAreNotLost ==
    \A c \in Callers :
        pc[c] = "lock" =>
            \A d \in history[sliced[c]].conflicts :
                /\ {d.left, d.right} \subseteq Active(request[c])
                /\ {d.left, d.right} \intersect Reachable(request[c]) # {}
                => WarrantedVerdict(request[c]) = "conflicted"
=============================================================================
