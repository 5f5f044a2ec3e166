----------------------------- MODULE MCSyncEngine -----------------------------
(* Instances of SyncEngine for TLC. *)
EXTENDS SyncEngine, TLC

CONSTANTS p, q          \* processes
CONSTANTS h0, h1        \* heads: without and with the commit c
CONSTANTS w0, w1        \* worktrees
CONSTANTS c, d, r, i    \* a commit, a decision, a pull request, an issue
CONSTANTS x, y          \* bodies of the decision

MCIds == {c, d, r, i}
MCCommits == [h \in Heads |-> IF h = h1 THEN {c} ELSE {}]

\* The commit's message names the decision and the issue.
MCCommitLinks == [h \in Heads |-> IF h = h1 THEN {<<c, d>>, <<c, i>>} ELSE {}]

\* The decision is edited.
MCDocuments == [w \in Worktrees |-> [n \in {d} |-> IF w = w0 THEN x ELSE y]]
MCDocumentLinks == [w \in Worktrees |-> {<<d, c>>}]

\* The commit is in the pull request from the start; then the issue appears.
MCForge ==
    [v \in 1 .. 2 |->
        IF v = 1 THEN [items |-> {c, r}, links |-> {<<c, r>>}]
                 ELSE [items |-> {c, r, i}, links |-> {<<c, r>>, <<r, i>>}]]

Interchangeable == Permutations({p, q})
===============================================================================
