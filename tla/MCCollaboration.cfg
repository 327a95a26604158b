\* Trees of up to three tasks over two owners and up to two messages, under a
\* byte bound that leaves room for a third task or for two messages.
CONSTANTS
    Root0 = Root0  T1 = T1  T2 = T2  A1 = A1  A2 = A2
    M1 = M1  M2 = M2  W0 = W0  W1 = W1  W2 = W2
    Tasks = {Root0, T1, T2}
    Root = Root0
    Actors = {A1, A2}
    Works = {W0, W1, W2}
    Messages = {M1, M2}
    MaxTasks = 3  MaxDepth = 2  FanOut = 2
    MaxMessages = 2  MaxRecipients = 2  MaxArtifacts = 1
    TaskBytes = 2  MessageBytes = 1  CommandBytes = 0
    StateBytes = 6
    NoTask = NoTask
    NoMessage = NoMessage
SPECIFICATION Spec
VIEW WithoutSequence
SYMMETRY InterchangeableIdentities
CHECK_DEADLOCK FALSE
INVARIANTS
    StateLoads
    TreeTruth
    WindDownOpen
PROPERTIES
    OutcomesStand
