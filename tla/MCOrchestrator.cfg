CONSTANTS
    None = None
    Limit <- TwoRevisions
    MaxDeliveries = 2
SPECIFICATION FairSpec
CHECK_DEADLOCK FALSE
INVARIANTS
    RunTruth
PROPERTIES
    CommittedCauseStands
    CancellingSettles
