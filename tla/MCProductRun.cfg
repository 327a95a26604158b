SPECIFICATION Spec
CONSTANTS
    Scopes <- MCScopes
CHECK_DEADLOCK FALSE
INVARIANTS
    CandidateTruth
    RecordTruth
PROPERTIES
    SettlementsObserve
