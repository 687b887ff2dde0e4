SPECIFICATION DevicesSpec
CONSTANTS
    EPSIZE = 5
    HardwareSpeeds = 7
    FastSck = 100
    COMMAND_TIMEOUT_TICKS = 40
    Segment = 4
    ProgDataSize = 8
    Benches <- MCBenches
    Sizes = {1, 4, 6}
    Block = 4
    MaxSessions = 2
    MaxFaults = 1
    Packet = 2
    CounterSize = 2
    UBSegment = 4
    Kinds <- MCKinds
    EepromSize = 2
    UBSizes = {2, 3}
    UBFaults = 1
    MaxWire = 1
    UBBenches <- MCUBBenches
    rchunk = 2
    wchunk = 4
    Modes = {"spi", "i2c", "mw"}
    Writes = {1, 4, 5}
    Reads = {1, 2, 3}
    I2CWrites = {1, 3}
    MaxStalls = 1
    MaxDirty = 1
    NandBlock = {0, 1, 2}
    NandPage = {0, 1}
    ImagePages = 3
    SilentFeatures = FALSE
    NandFaults = {"transport", "stuck", "ignored", "fail", "timeout", "misread", "ecc"}
    MarkerSets <- MCMarkerSets
    Jobs <- MCJobs
    Blank = Blank
    Spoilt = Spoilt
    Noise = Noise
    NoOp = NoOp
    NoResult = NoResult
    Old = Old
    NoMap = NoMap
    NoPlan = NoPlan
    NoBackup = NoBackup
INVARIANTS
    FrameIsWhole
    MemoryIsTrue
    BlocksAreOneFrame
    CallIsOneFrame
    EachItsAnswer
    OkIsTrue
    SessionsEndClean
    SuccessMeansWritten
    NothingIsLost
    CancelledLeavesWholeBlocks
    CleanupIsTrue
CHECK_DEADLOCK FALSE
