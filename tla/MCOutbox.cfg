SPECIFICATION OutboxFairSpec
CONSTANTS
    Row = {1, 2}
    Child = {2}
    Claimant = {p, q}
    MaxAttempts <- AllTwo
    Lease = 1
    Window = 4
    MaxEpoch = 2
CHECK_DEADLOCK FALSE
INVARIANTS
    RowTruth
PROPERTIES
    ClaimsStand
    RowsFinish
