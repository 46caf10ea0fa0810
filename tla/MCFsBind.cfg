SPECIFICATION LiveSpec
CONSTANTS
    MaxEvents = 2
    MaxBytes = 1
    MaxChannel = 1
    Configured <- OneOfEach
    Results <- MoreResults
    Finds <- FewFinds
    SinkAnswers = {"stored", "error", "altered"}
    Strangers <- OtherSession
    MaxSignals = 4
INVARIANTS
    TypeOK
    NoSilentGap
    GapSlipsOnce
    ChainUnbroken
PROPERTIES
    KeepsCustody
    ReleaseEnds
CHECK_DEADLOCK FALSE
