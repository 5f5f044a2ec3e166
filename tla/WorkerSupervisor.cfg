\* Two ordinary requests, one above max_payload, a channel of two places: the third
\* sender may have to wait for room.
CONSTANTS
    r1 = r1
    r2 = r2
    r3 = r3
    Requests = {r1, r2, r3}
    Oversized = {r3}
    QueueCapacity = 2
    RestartLimit = 1
    Hello = Hello
    Nobody = Nobody
SPECIFICATION FairSpec
INVARIANTS
    TypeOK
    OwnVerdict
    PipesInStep
    AttemptBudget
PROPERTIES
    ImplementsService
    EveryCallCompletes
    WorkerReaped
CHECK_DEADLOCK FALSE
