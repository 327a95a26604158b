SPECIFICATION AgentSpec
CONSTANTS
    acct1 = acct1
    acct2 = acct2
    a1 = a1
    a2 = a2
    e1 = e1
    None = None
    Account = {acct1, acct2}
    Root = acct1
    Resource = {"Tokens"}
    Limits <- MCLimits
    Request <- MCRequest
    Action = {a1, a2}
    Evidence = {e1}
    MaxUsage = 2
    MaxReservations = 2
CHECK_DEADLOCK FALSE
INVARIANTS
    LedgerTruth
    AttemptTruth
PROPERTIES
    NoLateWork
    Refines
