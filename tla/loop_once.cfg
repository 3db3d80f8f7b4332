SPECIFICATION Spec
CONSTANTS
    Procs = {p1, p2}
    Nobody = Nobody
    Runs = {r1, r2, r3, r4, r5, r6}
    NoRun = NoRun
    MaxPeriods = 2
    MaxFaults = 2
    Slow = {}
SYMMETRY Symmetry
INVARIANTS
    AtMostOncePerPeriod
    EffectIsCurrent
PROPERTIES
    EvidenceKept
    TerminalStays
