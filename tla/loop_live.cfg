SPECIFICATION FairSpec
CONSTANTS
    Procs = {p1, p2}
    Nobody = Nobody
    Runs = {r1, r2, r3, r4, r5}
    NoRun = NoRun
    MaxPeriods = 1
    MaxFaults = 1
    Slow = {}
PROPERTIES
    LeakedLeaseGoes
