SPECIFICATION FairSpec
CONSTANTS
    r1 = r1
    r2 = r2
    b1 = b1
    Runs = {r1, r2}
    Rebuilds = {b1}
    Last = 2
    None = None
    Over = over
    MaxFaults = 1
    Bounds <- RacedOrWalks
    MaxLog = 4
    MaxDropped = 2
INVARIANTS
    NeverFalselyClean
    CursorIsHonest
PROPERTIES
    KilledRunNeverPins
    CatchesUp
