\* One query, nobody else at work: the simplest way to the disagreement.
CONSTANTS
    a = a
    b = b
    v = v
    w = w
    line = line
    commit = commit
    Absent = Absent
    Callers = {a}
    Targets = {line, commit}
    Views = {v, w}
    Resolve <- MCResolve
    Histories <- MCHistories
    Together <- MCTogether
    MaxNodes = 6
    MaxEdges = 8
    MaxSliceNodes = 4
    MaxSliceEdges = 4
    MaxSliceConflicts = 1
    MaxRecords = 4
    MaxCandidates = 1
SPECIFICATION Spec
\* The queries end.
CHECK_DEADLOCK FALSE
INVARIANTS
    ConflictsAreNotLost
