SPECIFICATION Spec
CONSTANTS
    h1 = h1
    h2 = h2
    a1 = a1
    a2 = a2
    u1 = u1
    u2 = u2
    None = None
    Holders <- MCHolders
    Approvers <- MCApprovers
    Uses <- MCUses
    CredentialExpiry <- MCCredentialExpiry
    NotBefore = 1
    RequestExpiry = 3
    ScopeExpiry = 4
    RequirementExpiry = 3
    MaxTick = 3
    MaxRevision = 2
    MaxEpoch = 2
    MaxRecord = 2
    Independent = {a1}
    Decisions <- MCDecisions
INVARIANTS
    UseTruth
PROPERTIES
    LifecycleTruth
