SPECIFICATION PairingFairSpec
CONSTANTS
    Devices = {d1}
    Clis = {c1, c2}
    Listeners = {l1}
    None = None
    MaxAttempts = 2
    MaxDevices = 2
    MaxFaults = 3
INVARIANTS
    OneCredential
    AuditIsTrue
    BudgetHolds
PROPERTIES
    SettledStaysSettled
    SpentIsRevoked
