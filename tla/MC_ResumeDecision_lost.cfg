SPECIFICATION Spec
CONSTANTS
    b1 = b1
    Bits <- MCBits
    ChipSize = 4
    PageSize = 1
    Blocks <- MCBlocks
    Contents <- MCContents
    Patches <- MCPatches
    AnyLoss = TRUE
    MaxAttempts = 3
INVARIANT ResumeFinishesTheJob
CHECK_DEADLOCK FALSE
