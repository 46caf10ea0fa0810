SPECIFICATION Spec
CONSTANTS
    N = 2
    Required = {1}
    IdleArms = {1}
    HungArms = {2}
    Signals = {"outage", "error"}
    MaxEvents = 2
    Horizon = 2
    Lease <- NoLeaseEnds
    RestoreCanFail = TRUE
    AuthnRequired = FALSE
    MaxTake = 2
    MaxTakeOf <- TwoEach
    Oversized <- SecondOversized
    Anchored = {1}
    MaxCycles = 2
INVARIANTS
    NothingUncommittedIsLost
    WithinBounds
    RotationServes
PROPERTY
    KeepsLog
CHECK_DEADLOCK FALSE
