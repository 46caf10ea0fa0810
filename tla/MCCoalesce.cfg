SPECIFICATION LiveSpec
CONSTANTS
    N = 2
    Required = {1}
    IdleArms = {2}
    HungArms = {1}
    Signals = {}
    MaxEvents = 2
    Horizon = 2
    Lease <- LeaseInside
    RestoreCanFail = TRUE
    AuthnRequired = FALSE
    BackoffSteps <- OneThenTwo
    Urgent = {2}
    Interval = 1
    MaxTake = 2
    MaxTakeOf <- TwoEach
    Oversized <- NoneOversized
INVARIANTS
    WindowKept
    WithinBounds
    TimerNotPutOff
PROPERTIES
    KeepsCustody
    QuietGap
    StopsEnd
    QuietServed
CHECK_DEADLOCK FALSE
