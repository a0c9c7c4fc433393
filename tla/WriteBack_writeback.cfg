SPECIFICATION Spec
CONSTANTS
    Op = {a, b, c}
    l1 = l1
    l2 = l2
    l3 = l3
    Level = {l1, l2, l3}
    Results <- MCResults
    Old = Old
    MaxFaults = 2
    Clamped = Clamped
    None = None
SYMMETRY Symmetry
CHECK_DEADLOCK FALSE
INVARIANTS
    IntentPrecedesWrite
PROPERTIES
    RowTellsPlant
    RevertGoesBack
