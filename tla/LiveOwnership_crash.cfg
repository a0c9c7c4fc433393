SPECIFICATION Spec
CONSTANTS
    Proc = {p1, p2}
    Run = {r1}
    Owner = {o1, o2, o3}
    Resource = {loop1}
    None = None
    StaleAfter = 1
    Deletions = {}
SYMMETRY Symmetry
INVARIANTS
    TypeOK
    LockDiscipline
    SingleWriter
    PerturbationEvidence
PROPERTIES
    RetirementIsEarned
    ImplementsCustody
