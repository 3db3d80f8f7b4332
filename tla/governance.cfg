SPECIFICATION Spec
CONSTANTS
    syncer = syncer
    forgetter = forgetter
    indexer = indexer
    remover = remover
    decider = decider
    undoer = undoer
    chat = chat
    att = att
    ann = ann
    bob = bob
    Procs = {syncer, forgetter, indexer, remover, decider, undoer}
    Gone = Gone
    Nobody = Nobody
    Roles <- Tasked
    Crews = {{syncer, forgetter}, {indexer, remover}, {decider, undoer}}
    Items = {chat, att}
    NoItem = NoItem
    ParentOf <- OneAttachment
    People = {ann, bob}
    Contents <- OneOrGroup
    Wanted = {chat, ann}
    NoFile = NoFile
    Pairs = {merge}
    EntryIds = {e1, e2}
    OpIds = {o1, o2, o3, o4}
    NoId = NoId
    MaxFaults = 1
    Slow = {}
INVARIANTS
    ForgottenIsOwed
    RemovedIsHidden
PROPERTIES
    NothingForgottenIsWritten
    EntriesKept
CHECK_DEADLOCK FALSE
