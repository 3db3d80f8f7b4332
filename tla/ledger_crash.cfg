SPECIFICATION Spec
CONSTANTS
    author = author
    deleter = deleter
    indexer = indexer
    Workers = {author, deleter, indexer}
    Ids = {x}
    Bytes = {a, b, bad}
    Unparseable = {bad}
    Nobody = Nobody
    NoFile = NoFile
    Roles <- SplitRoles
    Overlap = FALSE
    StartReady = FALSE
    MaxFaults = 1
INVARIANTS
    NeverCleanAndMissing
    RefreshingIsCurrent
    DeletedNotServed
PROPERTIES
    LiveDeleteKeepsMarker
SYMMETRY Contents
CHECK_DEADLOCK FALSE
