SPECIFICATION FairSpec
CONSTANTS
    PollInterval = 2
    OpTimeout = 4
    RunTimeout = 6
    Confirm = 4
    Headroom = 1
    DeadlineRead = 1
    Noise = 3
    Delay = 0
    Switches = 3
    MinLatency = 2
    MaxLatency = 3
PROPERTY TimeoutEndsRun
