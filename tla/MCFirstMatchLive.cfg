SPECIFICATION LiveSpec
CONSTANTS
    N = 2
    Required = {1}
    IdleArms = {1, 2}
    HungArms = {1}
    Signals = {"outage"}
    MaxEvents = 1
    Horizon = 3
    Lease <- FirstLeaseEnds
    RestoreCanFail = FALSE
    AuthnRequired = TRUE
    BackoffSteps <- OneThenTwo
    MaxWaits = 1
INVARIANTS
    CleanIsCovered
    PostureHolds
PROPERTIES
    StopsEnd
    EventEnds
CHECK_DEADLOCK FALSE
