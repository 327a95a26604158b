CONSTANTS
  d1 = d1
  d2 = d2
  d3 = d3
  DispatchId <- MCDispatchId
  WorkId <- MCWorkId
  WorkerId <- MCWorkerId
  ResourceKind <- MCResourceKind
  Actor <- MCActor
  ExecutionClass <- MCExecutionClass
  WorkSpec <- MCWorkSpec
  Descriptor <- MCDescriptor
  Capacity <- MCCapacity
  Revision = 0
  Semantics = "LegacyQueueV1"
  QueuedWork = 2
  RetainedWork = 3
  MaxWorkers = 2
  ActiveReservations = 2
  AttemptsPerWork = 2
  BypassCount = 1
  DispatchHistory = 3
SPECIFICATION Spec
SYMMETRY Symmetry
\* A terminal aggregate accepts no command: the system may stop there.
CHECK_DEADLOCK FALSE
INVARIANTS
    DispatchTruth
    CapacityTruth
    QueueTruth
    TerminalTruth
PROPERTIES
    NothingUndone
    AgedWorkForcedAhead
