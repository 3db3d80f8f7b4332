SPECIFICATION FairSpec
CONSTANTS
    r1 = r1
    r2 = r2
    v1 = v1
    v2a = v2a
    v2b = v2b
    Runs = {r1, r2}
    Origin = origin
    Crews <- Pairs
    Manifests = {v1, v2a, v2b}
    Advertised = {v2a}
    VersionOf <- MCVersionOf
    First = v1
    None = None
    Retain = 0
    Slow = {r1, r2}
    MaxLapses = 1
    MaxMoves = 1
    MaxFaults = 1
INVARIANTS
    PublishedStands
    LatestAttemptStands
PROPERTIES
    ServesWhatItFound
    PullRefreshes
CHECK_DEADLOCK FALSE
