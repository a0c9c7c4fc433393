SPECIFICATION FairSpec
CONSTANTS
    Run = {1, 2, 3}
    Req = {a, b}
    Visitor = {v1, v2}
    Ip = {proxy, ip1}
    Proxy = proxy
    GlobalRuns = 2
    VisitorRuns = 1
    GlobalStreams = 1
    VisitorStreams = 1
    Ordinary = 2
    TokenStarts = 1
    IpStarts = 2
    Window = 1
    SessionTtl = 1
    Retained = 1
    SessionRuns = 2
    GlobalRows = 2
    MaxTime = 1
    MaxSession = 3
    MaxRestarts = 1
    None = None
CHECK_DEADLOCK FALSE
INVARIANTS
    DemoLimitsHold
    StartedRunsAreKept
PROPERTIES
    DemoStreamEnds
