SPECIFICATION LiveSpec
CONSTANTS
    N = 2
    Scripts <- TwoEventsEach
    Limits = {2}
    Deadline = 3
    Lease = 4
    Horizon = 4
PROPERTIES
    FollowEnds
CHECK_DEADLOCK FALSE
