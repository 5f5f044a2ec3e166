\* Every set of eight edges between four records, and every refusal.
CONSTANTS
    Requests <- MCRequests
    MaxNodes = 4
    MaxEdges = 8
    MaxPathStates = 8
SPECIFICATION Spec
\* The evaluation ends.
CHECK_DEADLOCK FALSE
INVARIANTS
    TypeOK
    VerdictIsWarranted
    ChainsAreCurrent
    EveryChainIsCited
    GapIsADeadEnd
PROPERTIES
    EveryRequestIsAnswered
