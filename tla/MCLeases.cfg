\* Two planners race for one workspace; versions and generations run out.
SPECIFICATION LeaseSpec
CONSTANTS
    Holder = {h1, h2}
    Client = {c1, c2}
    NoHolder = NoHolder
    MaxTick = 2
    MaxEpoch = 2
    MaxVersion = 8
    MaxGeneration = 2
SYMMETRY Symmetric
CHECK_DEADLOCK FALSE
INVARIANTS
    LeaseLoads
    ExclusiveUse
PROPERTIES
    LeavingActiveFences
