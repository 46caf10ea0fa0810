SPECIFICATION Spec
CONSTANTS
    N = 2
    Required = {1}
    IdleArms = {}
    HungArms = {}
    Signals = {"outage"}
    MaxEvents = 1
    Horizon = 3
    Lease <- FirstLeaseEnds
    RestoreCanFail = FALSE
    AuthnRequired = FALSE
    BackoffSteps <- OneThenTwo
    MaxWaits = 1
PROPERTY
    FailsClosed
CHECK_DEADLOCK FALSE
