SPECIFICATION Spec
CONSTANTS
    N = 2
    Required = {1}
    IdleArms = {1, 2}
    HungArms = {2}
    Signals = {"overflow", "error"}
    MaxEvents = 2
    Horizon = 2
    Lease <- NoLeaseEnds
    RestoreCanFail = TRUE
    AuthnRequired = FALSE
    BackoffSteps <- OneTick
    MaxWaits = 2
INVARIANTS
    ReplayInOrder
    AwaitsHoldNothing
PROPERTIES
    TieRule
    LastLookSees
    KeepsCustody
CHECK_DEADLOCK FALSE
