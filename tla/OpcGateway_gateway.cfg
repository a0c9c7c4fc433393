SPECIFICATION GatewayFairSpec
CONSTANTS
    Nil = Nil
    Late = Late
    Http = {h1}
    Cli = {c1, c2}
    PageCounts <- MCPageCounts
    MaxPages = 2
    MaxSessions = 2
    MaxRequests = 2
INVARIANTS
    AnswersAreTrue
PROPERTIES
    RequestsEnd
