SPECIFICATION FairMutationSpec
CONSTANTS
    a1 = a1
    Nobody = Nobody
    Action = {a1}
    Kind <- MCKind
    Home <- MCHome
    Outer <- MCOuter
    MaxEdits = 1
    MaxFaults = 2
    MaxCrashes = 2
\* The process may stay down, and a settled mutation has nothing left to do.
CHECK_DEADLOCK FALSE
INVARIANTS
    CrashSafe
    ReceiptTruth
PROPERTIES
    AnswersStand
    Concludes
