SPECIFICATION FairSpec
CONSTANTS
    MaxSize = 1
    MaxDirty = 1
    MaxQueue = 3
    Zeros = 2
    Late = FALSE
INVARIANTS
    OpenMeansReady ChipSelectBelieved DataInStep
PROPERTY CallsReturn
CHECK_DEADLOCK FALSE
