SPECIFICATION FairSpec
CONSTANT
    MaxPresses = 2
INVARIANTS
    RestoreSafe
PROPERTIES
    AutoReleasedAtInitialMv
    RestoreEnds
