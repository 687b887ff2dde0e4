SPECIFICATION Spec
CONSTANTS
    Block <- MCBlock
    Page <- MCPage
    Blank = Blank
    Spoilt = Spoilt
    Noise = Noise
    NoOp = NoOp
    NoResult = NoResult
    Old = Old
    NoMap = NoMap
    NoPlan = NoPlan
    NoBackup = NoBackup
    Faults <- NoFaults
    SilentFeatures = TRUE
    ImagePages = 3
    MarkerSets <- MCMarkerSets
    Jobs <- MCJobs
INVARIANTS
    RegistersInherited
CHECK_DEADLOCK FALSE
