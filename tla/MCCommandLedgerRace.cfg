CONSTANTS
  Task = {"t1", "t2"}
  Request <- MCRequest
  Key = {"k1", "k2"}
  CommandId = {"c1", "c2"}
  KeyOf <- MCKeyOf
  CommandOf <- MCCommandOf
  MaxRestarts = 1
SPECIFICATION Spec
INVARIANTS
  SettledTruth
