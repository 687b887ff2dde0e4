CONSTANTS
    b1 = b1
    Bits <- MCBits
    ChipSize = 4
    PageSize = 2
    Blocks <- MCBlocks
    Requests <- MCRequests
    Contents <- MCContents
    LeftOver <- MCLeftOver
    IdentityGate = TRUE
    Faults <- MCFaults
    MaxPolls = 2
SPECIFICATION Spec
INVARIANT
    FirstCauseKept
