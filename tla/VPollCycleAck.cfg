SPECIFICATION Spec
CONSTANTS
    N = 2
    Required = {1}
    IdleArms = {}
    HungArms = {}
    Signals = {"outage"}
    MaxEvents = 1
    Horizon = 2
    Lease <- FirstLeaseEnds
    RestoreCanFail = FALSE
    AuthnRequired = FALSE
    MaxTake = 2
    MaxTakeOf <- TwoEach
    Oversized <- NoneOversized
    Anchored = {1}
    MaxCycles = 2
INVARIANT
    AckedWasReceived
CHECK_DEADLOCK FALSE
