SPECIFICATION Spec
CONSTANTS
    Configs <- MCConfigs
    PVs <- MCPVs
    PvIni = 0
    Threshold = 2
    MaxGap = 2
    Word = 32
INVARIANTS
    CompleteIsMeasurable
    ExtremesAreTrue
    PairedExtremes
    MvInRange
PROPERTIES
    ImplementsRelay
    SwingingTestEnds
