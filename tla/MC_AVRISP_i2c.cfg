SPECIFICATION Spec
CONSTANTS
    EPSIZE = 5
    HardwareSpeeds = 7
    FastSck = 100
    COMMAND_TIMEOUT_TICKS = 40
    Segment = 4
    ProgDataSize = 8
    Benches <- MCReads
    Sizes = {1, 4, 6}
    Block = 4
    MaxSessions = 2
    MaxFaults = 1
INVARIANT ReadsAfterAnAddress
CHECK_DEADLOCK FALSE
