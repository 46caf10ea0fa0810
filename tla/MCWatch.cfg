SPECIFICATION WLiveSpec
CONSTANTS
    MaxEvents = 1
    MaxBytes = 2
    MaxChannel = 2
    Configured <- Binds
    Results <- Few
    Finds <- Unmoved
    SinkAnswers = {"stored", "error"}
    Strangers = {}
    MaxSignals = 4
    StoreEvents = 2
    StoreBytes = 3
    Terms <- Both
    Horizon = 2
INVARIANTS
    AccountIsComplete
    DeadlineReportsLoss
PROPERTIES
    WatchEnds
CHECK_DEADLOCK FALSE
