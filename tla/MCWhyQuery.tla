----------------------------- MODULE MCWhyQuery -----------------------------
(* Instances of WhyQuery for TLC. *)
EXTENDS WhyQuery, TLC

CONSTANTS a, b          \* queries
CONSTANTS v, w          \* what the repository is
CONSTANTS line, commit  \* targets

Node(id, kind, current, outcome) ==
    [id |-> id, kind |-> kind, current |-> current,
     subject |-> IF outcome = 0 THEN 0 ELSE 1, outcome |-> outcome]
Edge(id, kind, from, to) ==
    [id |-> id, kind |-> kind, from |-> from, to |-> to, current |-> TRUE]

\* A line that a commit introduced, which names the first decision and, before
\* the line moves on, another commit, unknown to the snapshots.  The line's file
\* is then gone.
LineEvidence ==
    [kind |-> "lines", id |-> 9, commits |-> {1, 8},
     links |-> {Edge(91, "introduced_by", 9, 1), Edge(98, "introduced_by", 9, 8)}]

CommitEvidence(links) == [kind |-> "commit", id |-> 1, commits |-> {1}, links |-> links]

MCResolve ==
    [x \in {v, w} |-> [t \in {line, commit} |->
        IF t = commit THEN CommitEvidence({Edge(13, "documents", 1, 3), Edge(17, "documents", 1, 7)})
        ELSE IF x = v THEN LineEvidence ELSE Absent]]

\* A commit, its pull request, a decision that is current or historical, and one
\* that conflicts with it, differs from it or supersedes it.
Records(current) ==
    {Node(1, "change", TRUE, 0), Node(2, "review", TRUE, 0),
     Node(3, "decision", current, 1), Node(4, "decision", TRUE, 2)}

Links ==
    {Edge(12, "included_in_pr", 1, 2), Edge(23, "documents", 2, 3),
     Edge(24, "documents", 2, 4), Edge(43, "supersedes", 4, 3)}

Against == {[left |-> 3, right |-> 4, rule |-> "explicit"]}

MCGraphs ==
    {[nodes |-> Records(TRUE), edges |-> edges, conflicts |-> conflicts] :
        edges \in SUBSET Links, conflicts \in {{}, Against}}
    \union {[nodes |-> Records(FALSE), edges |-> edges, conflicts |-> {}] : edges \in SUBSET Links}

Few == [nodes |-> {Node(3, "decision", TRUE, 1), Node(5, "decision", TRUE, 0)},
        edges |-> {}, conflicts |-> {}]

Many == [nodes |-> Records(TRUE) \union {Node(5, "verification", TRUE, 0)},
         edges |-> {Edge(12, "included_in_pr", 1, 2), Edge(25, "verified_by", 2, 5),
                    Edge(53, "documents", 5, 3), Edge(54, "documents", 5, 4)},
         conflicts |-> {}]

Linked == [nodes |-> Records(TRUE), edges |-> Links, conflicts |-> {}]

\* For two queries that meet at the worker.
Short == [nodes |-> {Node(1, "change", TRUE, 0), Node(3, "decision", TRUE, 1)},
          edges |-> {Edge(13, "documents", 1, 3)}, conflicts |-> {}]

Loose == [nodes |-> Records(TRUE) \union {Node(5, "verification", TRUE, 0)},
          edges |-> {}, conflicts |-> {}]

\* Each graph alone, two that exceed a limit, one graph before or after another
\* that knows nothing of the commit, and a small one.
MCHistories ==
    {<<g>> : g \in MCGraphs \union {Many, Loose, Short}} \union {<<Linked, Few>>, <<Few, Linked>>}

\* What a slice is of a graph is asked by one query; two, which share the
\* worker alone, go together over one graph.
MCTogether == {<<Short>>}
=============================================================================
