\* One process, nobody else syncs: the simplest way to the disagreement.
CONSTANTS
    p = p
    q = q
    h0 = h0
    h1 = h1
    w0 = w0
    w1 = w1
    c = c
    d = d
    r = r
    i = i
    x = x
    y = y
    Absent = Absent
    Processes = {p}
    Heads = {h0}
    Worktrees = {w0}
    Commits <- MCCommits
    CommitLinks <- MCCommitLinks
    Documents <- MCDocuments
    DocumentLinks <- MCDocumentLinks
    Bodies = {x, y}
    LastVersion = 2
    Forge <- MCForge
    Ids <- MCIds
    MaxSnapshots = 3
SPECIFICATION Spec
INVARIANTS
    SameInputsAreReused
