SPECIFICATION Spec
CONSTANTS
    first = first
    restamped = restamped
    other = other
    k1 = k1
    k2 = k2
    m1 = m1
    m2 = m2
    Listeners = {l1, l2}
    Captures = {first, restamped, other}
    Keys = {k1, k2}
    Crews <- OneKeyOrOneId
    l1 = l1
    l2 = l2
    KeyOf <- MCKeyOf
    Ids = {m1, m2}
    IdOf <- MCIdOf
    Receipts = {r1, r2, r3, r4, r5, r6}
    None = None
    TakeoverAge = 1
    SweepAge = 2
    Ttl = 2
    MaxPending = 1
    MaxReservations = 1
    Policies = {"open"}
    MaxRepeats = 0
    MaxChanges = 0
    Fallible = {"receipt", "settle"}
    MaxFaults = 1
SYMMETRY ListenersAlike
INVARIANTS
    OneMemoryPerKey
PROPERTIES
    KeepsThePromise
    RevokedWritesNothing
