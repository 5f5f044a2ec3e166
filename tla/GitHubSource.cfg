\* Two repositories, four items, pages of one: three items and their commits just
\* fit, a fourth is one page too many.
CONSTANTS
    c = c
    d = d
    Absent = Absent
    Remotes <- MCRemotes
    Lower <- MCLower
    Repositories <- MCRepositories
    Numbers = {1, 2, 3, 4}
    Pulls = {2}
    Contents <- MCContents
    InitialForge <- MCInitialForge
    PageSize = 1
    MaxPages = 3
    MaxRecords = 3
    MaxRequests = 5
    MaxChanges = 3
SPECIFICATION Spec
INVARIANTS
    TypeOK
    ConfirmedIsCurrent
    QuietItemsAreThere
    CursorIsOfItsRemote
\* Nothing more can happen with an origin that is not GitHub's once people rest.
CHECK_DEADLOCK FALSE
