SPECIFICATION FairSpec
CONSTANTS
    author = author
    deleter = deleter
    indexer = indexer
    Workers = {author, indexer}
    Ids = {x, y}
    Bytes = {a}
    Unparseable = {}
    Nobody = Nobody
    NoFile = NoFile
    Roles <- SharedRoles
    Overlap = FALSE
    StartReady = TRUE
    MaxFaults = 1
PROPERTIES
    OrphansRetire
CHECK_DEADLOCK FALSE
