---------------------------- MODULE MCProofKernel ----------------------------
(* Instances of ProofKernel for TLC. *)
EXTENDS ProofKernel

Node(id, kind, current, outcome) ==
    [id |-> id, kind |-> kind, current |-> current,
     subject |-> IF outcome = 0 THEN 0 ELSE 1, outcome |-> outcome]
Edge(id, kind, from, to) ==
    [id |-> id, kind |-> kind, from |-> from, to |-> to, current |-> TRUE]

\* A commit, a pull request and two decisions.  The second decision supersedes
\* the first or differs from it, and may be historical; the target may be, too.
MCNodes ==
    {<<Node(1, "change", t, 0), Node(2, "review", TRUE, 0), Node(3, "decision", TRUE, 1),
       Node(4, "decision", d, o)>> : t, d \in BOOLEAN, o \in {1, 2}}

\* Two ways to the first decision, one edge in parallel, a circle, and a stale edge.
MCEdges ==
    <<Edge(1, "included_in_pr", 1, 2), Edge(2, "documents", 1, 3), Edge(3, "documents", 2, 3),
     Edge(4, "documents", 2, 3), Edge(5, "documents", 3, 4), Edge(6, "documents", 4, 2),
     Edge(7, "supersedes", 4, 3), [Edge(8, "documents", 1, 4) EXCEPT !.current = FALSE]>>

WellFormed ==
    {[version |-> 1, target |-> 1, anchors |-> {"decision", "work_item"}, nodes |-> n,
      edges |-> SelectSeq(MCEdges, LAMBDA e : e.id \in es), conflicts |-> c] :
        n \in MCNodes, es \in SUBSET (1 .. 8),
        c \in {{}, {[left |-> 2, right |-> 3, rule |-> "explicit"]}}}

Sample ==
    [version |-> 1, target |-> 1, anchors |-> {"decision"},
     nodes |-> <<Node(1, "change", TRUE, 0), Node(2, "decision", TRUE, 0)>>,
     edges |-> <<Edge(1, "documents", 1, 2)>>, conflicts |-> {}]

\* An anchor for a target, and one of each thing validate refuses.
Others ==
    {[Sample EXCEPT !.target = 2],
     [Sample EXCEPT !.target = 2, !.nodes[2].current = FALSE],
     [Sample EXCEPT !.version = 2],
     [Sample EXCEPT !.nodes = [i \in 1 .. 5 |-> Node(i, "change", TRUE, 0)]],
     [Sample EXCEPT !.edges = [i \in 1 .. 9 |-> Edge(i, "documents", 1, 2)]],
     [Sample EXCEPT !.anchors = {}],
     [Sample EXCEPT !.anchors = {"review", "decision"}],
     [Sample EXCEPT !.nodes[2].id = 1],
     [Sample EXCEPT !.edges = <<Edge(1, "documents", 1, 2), Edge(1, "documents", 2, 1)>>],
     [Sample EXCEPT !.target = 3],
     [Sample EXCEPT !.edges[1].to = 3],
     [Sample EXCEPT !.conflicts = {[left |-> 1, right |-> 3, rule |-> "explicit"]}]}

MCRequests == WellFormed \union Others
=============================================================================
