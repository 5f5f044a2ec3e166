\* Six commits, five of which fit the history; three documents, two of which fit;
\* two edits.
CONSTANTS
    Absent = Absent
    Manifests = {3}
    MaxDocuments = 2
    Commits = {1, 2, 3, 4, 5, 6}
    Parents <- MCParents
    Boundary = {2, 3}
    Names = 2
    Trees <- MCTrees
    Messages <- MCMessages
    HistoryLimit = 5
    MaxWalked = 5
    Directories = 2
    DirectoryOf <- MCDirectoryOf
    Files <- MCFiles
    Texts <- MCTexts
    Revisions = {1, 3}
    LastLine = 2
    MaxEdits = 2
SPECIFICATION Spec
INVARIANTS
    TypeOK
    EverySourceIsAccountedFor
    HistoryIsHonest
    AttributionIsRight
