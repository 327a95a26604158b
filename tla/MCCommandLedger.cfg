\* One connection and two restarts.
CONSTANTS
  Task = {"t1"}
  Request <- MCRequest
  Key = {"k1", "k2"}
  CommandId = {"c1", "c2"}
  KeyOf <- MCKeyOf
  CommandOf <- MCCommandOf
  MaxRestarts = 2
SPECIFICATION FairSpec
INVARIANTS
    SubmissionTruth
    SettledTruth
PROPERTIES
    RejectsOnlyAbsent
    PromiseKept
    RecoveryCompletes
