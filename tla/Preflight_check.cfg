SPECIFICATION PreflightSpec
CONSTANTS
    None = None
    Worlds <- MCWorlds
    Definitions <- MCDefinitions
INVARIANTS
    RefusalWasForetold
    SameTemplate
