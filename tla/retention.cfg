SPECIFICATION FairSpec
CONSTANTS
    Procs = {p1}
    Job = job
    Nobody = Nobody
    Memories = {1, 2, 3}
    Young = {3}
    Historical = {2}
    Ungoverned = {}
    NoFile = NoFile
    Reports = {r1}
    None = None
    MaxVersion = 1
    Second <- Apart
    MaxRuns = 2
    MaxFaults = 1
    Overlap = FALSE
    Bounds <- Cases
INVARIANTS
    RemovalIsRecoverable
    CurrentRemains
    DoneStaysGone
PROPERTIES
    RecoveryCompletes
CHECK_DEADLOCK FALSE
