SPECIFICATION TLiveSpec
CONSTANTS
    N = 2
    Required = {1, 2}
    IdleArms = {2}
    HungArms = {2}
    Signals = {"outage"}
    MaxEvents = 1
    Horizon = 1
    Lease <- FirstLeaseEnds
    RestoreCanFail = FALSE
    AuthnRequired = FALSE
    MaxTake = 2
    MaxTakeOf <- TwoEach
    Oversized <- SecondOversized
    Anchored = {1}
    MaxCycles = 2
INVARIANTS
    CycleIsAdmitted
    TranscriptIsAdmitted
PROPERTIES
    StopsEnd
CHECK_DEADLOCK FALSE
