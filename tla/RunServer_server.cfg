SPECIFICATION FairSpec
CONSTANTS
    Run = {r1, r2}
    Live = {r1, r2}
    Client = {a, b}
    MaxTick = 1
    None = None
CHECK_DEADLOCK FALSE
INVARIANTS
    LoopIsExclusive
    DoneFollowsLastSample
    ShutdownEndsEveryRun
PROPERTIES
    ClaimOutlivesRun
    CancelTakesEffect
