SPECIFICATION FairSpec
CONSTANTS
    Proc = {p1, p2}
    Run = {r1}
    Owner = {o1, o2}
    Resource = {loop1}
    None = None
    StaleAfter = 1
    Deletions = {"http", "retention"}
INVARIANTS
    NoTakeover
    RecoveryStaysPossible
PROPERTIES
    AbandonedIsSettled
