SPECIFICATION LiveSpec
CONSTANTS
    N = 2
    Required = {2}
    IdleArms = {1}
    HungArms = {2}
    Signals = {"outage","error"}
    MaxEvents = 2
    Horizon = 1
    Lease <- LeaseAtEnd
    RestoreCanFail = TRUE
    AuthnRequired = FALSE
    BackoffSteps <- OneThenTwo
    MaxSessions = 1
INVARIANTS
    AwaitsHoldNothing
    EndIsHonest
PROPERTIES
    KeepsCustody
    StopsEnd
    EventServed
CHECK_DEADLOCK FALSE
