SPECIFICATION Spec
CONSTANTS
    Scheduled = {s1, s2}
    Manual = {m1}
    Last = 3
    Bad = {2}
    Overlap = FALSE
    MaxFaults = 2
INVARIANTS
    AcceptedIsOnDisk
    SuccessIsProved
PROPERTIES
    FailureIsTrue
    AcceptedIsNotUndone
    LatestArrives
