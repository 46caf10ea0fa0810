SPECIFICATION LiveSpec
CONSTANTS
    N = 2
    Scripts <- TwoEventsEach
    Limits = {1, 2}
    Deadline = 2
    Lease = 3
    Horizon = 4
INVARIANTS
    OutputHonest
    ReplaysTheScript
PROPERTIES
    ReplayEnds
CHECK_DEADLOCK FALSE
