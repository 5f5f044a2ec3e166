\* One query for a line or a commit, a repository with two states, and every
\* set of four edges between four records, with and without a conflict; over a
\* small graph, two queries at once.
CONSTANTS
    a = a
    b = b
    v = v
    w = w
    line = line
    commit = commit
    Absent = Absent
    Callers = {a, b}
    Targets = {line, commit}
    Views = {v, w}
    Resolve <- MCResolve
    Histories <- MCHistories
    Together <- MCTogether
    MaxNodes = 6
    MaxEdges = 8
    MaxSliceNodes = 4
    MaxSliceEdges = 4
    MaxSliceConflicts = 1
    MaxRecords = 4
    MaxCandidates = 1
SPECIFICATION Spec
\* The queries end.
CHECK_DEADLOCK FALSE
INVARIANTS
    TypeOK
    RequestsAreValid
    SliceDecides
    AnswersFitOneSnapshot
    OneSupervisor
PROPERTIES
    EveryQueryEnds
