SPECIFICATION FairSpec
CONSTANTS
    PollInterval = 2
    OpTimeout = 3
    RunTimeout = 16
    Confirm = 4
    Headroom = 1
    DeadlineRead = 1
    Noise = 5
    Delay = 1
    Switches = 3
    MinLatency = 0
    MaxLatency = 3
INVARIANTS
    ConfirmationSound
    RestoreHandOff
PROPERTIES
    ConfirmationOrder
    RunEnds
