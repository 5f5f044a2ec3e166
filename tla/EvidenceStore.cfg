\* Two processes, two snapshots of two records and a link from one of them to itself,
\* of two possible contents; one source with or without a cursor.  A snapshot of both
\* records is larger than a slice may be.
CONSTANTS
    p = p
    q = q
    s1 = s1
    s2 = s2
    a = a
    b = b
    x = x
    e = e
    Clients = {p, q}
    Snapshots = {s1, s2}
    Records = {a, b}
    Contents = {x}
    Links = {e}
    Rows <- EitherLoop
    Sources = {g}
    Cursors = {k}
    Null = Null
    Absent = Absent
    MaxNodes = 1
    MaxLinks = 1
SPECIFICATION Spec
SYMMETRY Interchangeable
INVARIANTS
    TypeOK
    OnlyWholeSnapshots
    CurrentIsNewest
    CursorIsNewestPublished
    AcknowledgedIsDurable
PROPERTIES
    PublishedNeverChanges
    ImplementsLog
