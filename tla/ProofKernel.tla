----------------------------- MODULE ProofKernel -----------------------------
(***************************************************************************)
(* The proof kernel (ocaml/lib/evaluator.ml, proof.ml): it checks a        *)
(* request, then walks the current evidence breadth first from the target, *)
(* one path at a time, and answers with the chains that reach an anchor,   *)
(* the conflicts it met, or the gap where the evidence stops.              *)
(***************************************************************************)
EXTENDS ProofRules

CONSTANTS
    Requests,           \* what may be asked
    MaxPathStates       \* bound on the paths looked at

ASSUME KernelAssumption ==
    /\ Requests \subseteq [version : Nat, target : Nat, anchors : SUBSET NodeKinds,
                           nodes : Seq(Nodes), edges : Seq(Edges), conflicts : SUBSET Conflicts]
    /\ MaxPathStates \in Nat

VARIABLES
    request,            \* what is asked
    phase,              \* "validate", "traverse" or "done"
    queue,              \* the paths still to look at
    explored,           \* how many were
    paths,              \* those
    anchors,            \* those that end in an anchor
    reachable,          \* where those end
    answer

vars == <<request, phase, queue, explored, paths, anchors, reachable, answer>>

-----------------------------------------------------------------------------
(* Paths. *)

Start(r) == [nodes |-> <<r.target>>, edges |-> <<>>]
End(path) == Last(path.nodes)
Extend(path, e) == [nodes |-> Append(path.nodes, e.to), edges |-> Append(path.edges, e.id)]

\* Mutant of Candidates: a record found once is not entered by another path.
CandidatesUnseen(path) ==
    LET found == reachable \union {End(p) : p \in Range(queue)}
    IN  {e \in ActiveEdges(request) : e.from = End(path) /\ e.to \notin found}

\* The edges that lead on from a path and not back into it.
Candidates(path) ==
    {e \in ActiveEdges(request) : e.from = End(path) /\ e.to \notin Range(path.nodes)}

EdgeBefore(e, f) == e.to < f.to \/ (e.to = f.to /\ e.id < f.id)

\* s lists S in order.
Lists(s, S) ==
    /\ \A e \in S : \E i \in DOMAIN s : s[i] = e
    /\ \A i, j \in DOMAIN s : i < j => EdgeBefore(s[i], s[j])

IsBeginning(p, q) == IsPrefix(p.nodes, q.nodes) /\ IsPrefix(p.edges, q.edges)

MaximalPaths(S) ==
    {p \in S : ~\E q \in S : Len(q.edges) > Len(p.edges) /\ IsBeginning(p, q)}

\* Mutant of NotAfter: the shortest first.
ShortestFirst(p, q) == Len(p.edges) <= Len(q.edges)

\* The order of deepest_path: the longest first, then by the identifiers.
NotAfter(p, q) ==
    \/ Len(p.edges) > Len(q.edges)
    \/ /\ Len(p.edges) = Len(q.edges)
       /\ p.nodes = q.nodes \/ \E i \in DOMAIN p.nodes : /\ p.nodes[i] < q.nodes[i]
                                                         /\ \A j \in 1 .. i - 1 :
                                                               p.nodes[j] = q.nodes[j]

-----------------------------------------------------------------------------
(* The answers. *)

Pending == [kind |-> "pending"]
Failure(code) == [kind |-> "error", code |-> code]
Proof(verdict, chains, gaps, conflicts) ==
    [kind |-> "proof", verdict |-> verdict, chains |-> chains, gaps |-> gaps,
     conflicts |-> conflicts]

Conflicted(conflicts) == Proof("conflicted", {}, {}, conflicts)

Established(S) == Proof("established", MaximalPaths(S), {}, {})

\* What is missing depends on the kind of record the evidence stops at.
Incomplete(path) ==
    Proof(IF path.edges = <<>> THEN "not_established" ELSE "partial", {},
          {[node |-> End(path), after |-> NodeAt(request, End(path)).kind]}, {})

Init ==
    /\ request \in Requests
    /\ phase = "validate"
    /\ queue = <<>>
    /\ explored = 0
    /\ paths = {} /\ anchors = {} /\ reachable = {}
    /\ answer = Pending

-----------------------------------------------------------------------------
(* evaluate. *)

Refuse ==
    /\ phase = "validate"
    /\ Validate(request) # "none"
    /\ phase' = "done"
    /\ answer' = Failure(Validate(request))
    /\ UNCHANGED <<request, queue, explored, paths, anchors, reachable>>

Accept ==
    /\ phase = "validate"
    /\ Validate(request) = "none"
    /\ phase' = "traverse"
    /\ queue' = <<Start(request)>>
    /\ UNCHANGED <<request, explored, paths, anchors, reachable, answer>>

\* Mutant of Take: one path too many.
TakeOneMore(path) ==
    /\ phase = "traverse"
    /\ queue # <<>> /\ path = Head(queue)
    /\ explored <= MaxPathStates
    /\ explored' = explored + 1
    /\ paths' = paths \union {path}
    /\ reachable' = reachable \union {End(path)}
    /\ UNCHANGED <<request, phase, answer>>

\* The next path is looked at.
Take(path) ==
    /\ phase = "traverse"
    /\ queue # <<>> /\ path = Head(queue)
    /\ explored < MaxPathStates
    /\ explored' = explored + 1
    /\ paths' = paths \union {path}
    /\ reachable' = reachable \union {End(path)}
    /\ UNCHANGED <<request, phase, answer>>

\* It ends in an active record.  That its record exists was validated.
Visit ==
    \E path \in Range(queue) :
        /\ Take(path)
        /\ End(path) \in Active(request)
        /\ anchors' = IF IsAnchor(request, End(path)) THEN anchors \union {path} ELSE anchors
        /\ \E s \in [1 .. Cardinality(Candidates(path)) -> Candidates(path)] :
              /\ Lists(s, Candidates(path))
              /\ queue' = Tail(queue) \o [i \in DOMAIN s |-> Extend(path, s[i])]

\* Mutant of VisitInactive: an inactive target is an anchor all the same.
VisitInactiveAnchor ==
    \E path \in Range(queue) :
        /\ Take(path)
        /\ End(path) \notin Active(request)
        /\ anchors' = IF NodeAt(request, End(path)).kind \in request.anchors
                      THEN anchors \union {path} ELSE anchors
        /\ queue' = Tail(queue)

\* It does not: only the target can be such a record.
VisitInactive ==
    \E path \in Range(queue) :
        /\ Take(path)
        /\ End(path) \notin Active(request)
        /\ queue' = Tail(queue)
        /\ UNCHANGED anchors

\* Mutant of LimitReached: beyond the limit only.
LimitPassed ==
    /\ phase = "traverse"
    /\ queue # <<>>
    /\ explored > MaxPathStates
    /\ phase' = "done"
    /\ answer' = Failure("resource_limit")
    /\ UNCHANGED <<request, queue, explored, paths, anchors, reachable>>

LimitReached ==
    /\ phase = "traverse"
    /\ queue # <<>>
    /\ explored >= MaxPathStates
    /\ phase' = "done"
    /\ answer' = Failure("resource_limit")
    /\ UNCHANGED <<request, queue, explored, paths, anchors, reachable>>

\* Conflicts come before anchors, and anchors before gaps.
Conclude ==
    /\ phase = "traverse"
    /\ queue = <<>>
    /\ phase' = "done"
    /\ LET conflicts == MaterialConflicts(request, reachable)
       IN  \/ conflicts # {} /\ answer' = Conflicted(conflicts)
           \/ conflicts = {} /\ anchors # {} /\ answer' = Established(anchors)
           \/ /\ conflicts = {} /\ anchors = {}
              /\ \E path \in paths : /\ \A q \in paths : NotAfter(path, q)
                                     /\ answer' = Incomplete(path)
    /\ UNCHANGED <<request, queue, explored, paths, anchors, reachable>>

Next == Refuse \/ Accept \/ Visit \/ VisitInactive \/ LimitReached \/ Conclude

\* evaluate is called and its loop runs on.
Spec == Init /\ [][Next]_vars /\ WF_vars(Next)

-----------------------------------------------------------------------------
(* Properties. *)

Path == [nodes : Seq(Nat), edges : Seq(Nat)]
Codes == {"unsupported_protocol", "invalid_request", "missing_record", "resource_limit"}
Verdicts == {"established", "partial", "not_established", "conflicted"}
Answers ==
    {Pending} \union [kind : {"error"}, code : Codes]
    \union [kind : {"proof"}, verdict : Verdicts, chains : SUBSET Path,
            gaps : SUBSET [node : Nat, after : NodeKinds], conflicts : SUBSET Conflicts]

\* Every variable keeps its type, no more paths are looked at than the limit
\* allows, and there is an answer exactly at the end.
TypeOK ==
    /\ request \in Requests
    /\ phase \in {"validate", "traverse", "done"}
    /\ queue \in Seq(Path)
    /\ explored \in 0 .. MaxPathStates
    /\ paths \subseteq Path /\ anchors \subseteq paths
    /\ reachable \subseteq Nat
    /\ answer \in Answers
    /\ answer = Pending <=> phase # "done"

Proved == phase = "done" /\ answer.kind = "proof"

\* A verdict depends on the evidence alone, not on the order of the walk or of
\* the lists: it is conflicted exactly if both ends of a conflict are active and
\* reachable, else established exactly if an active anchor is.
VerdictIsWarranted ==
    Proved => /\ answer.conflicts = MaterialConflicts(request, Reachable(request))
              /\ answer.verdict = WarrantedVerdict(request)

\* path is a walk from the target over current edges between active records
\* that never enters a record twice.
IsChain(r, path) ==
    /\ path.nodes[1] = r.target
    /\ Len(path.nodes) = Len(path.edges) + 1
    /\ \A i \in DOMAIN path.nodes :
          /\ NodeAt(r, path.nodes[i]).current
          /\ ~\E e \in EdgesOf(r) : /\ e.current /\ e.kind = "supersedes"
                                  /\ e.to = path.nodes[i] /\ NodeAt(r, e.from).current
    /\ \A i, j \in DOMAIN path.nodes : i # j => path.nodes[i] # path.nodes[j]
    /\ \A i \in DOMAIN path.edges :
          \E e \in EdgesOf(r) : /\ e.id = path.edges[i]
                                /\ e.from = path.nodes[i] /\ e.to = path.nodes[i + 1]
                                /\ e.current /\ e.kind # "supersedes"

\* What a proof cites is current: each of its chains leads over active records,
\* none of them superseded, to an anchor, and never in a circle.
ChainsAreCurrent ==
    Proved =>
        \A path \in answer.chains : /\ IsChain(request, path)
                                    /\ IsAnchor(request, End(path))

\* The walk over some edges.
Walk(r, es) ==
    [nodes |-> <<r.target>> \o [i \in DOMAIN es |-> es[i].to],
     edges |-> [i \in DOMAIN es |-> es[i].id]]

Walks(r) ==
    {Walk(r, es) : es \in UNION {[1 .. n -> ActiveEdges(r)] : n \in 0 .. Cardinality(IdsOf(r)) - 1}}

\* An established proof withholds no chain: each one that leads to an anchor is
\* the beginning of a chain it cites.
EveryChainIsCited ==
    Proved /\ answer.verdict = "established" =>
        \A path \in Walks(request) :
            IsChain(request, path) /\ IsAnchor(request, End(path))
                => \E chain \in answer.chains : IsBeginning(path, chain)

\* A gap is where the evidence really stops: nothing current leads on from it
\* to a record that a chain to it does not hold already.
GapIsADeadEnd ==
    Proved =>
        \A gap \in answer.gaps :
            \E path \in paths :
                /\ End(path) = gap.node
                /\ gap.node \in Active(request) => IsChain(request, path)
                /\ \A e \in ActiveEdges(request) :
                      e.from = gap.node => e.to \in Range(path.nodes)

\* Every request is answered, whatever cycles its evidence has.
EveryRequestIsAnswered == <>(phase = "done")
=============================================================================
