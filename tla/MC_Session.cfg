SPECIFICATION Spec
CONSTANTS
    None = None
    NoData = NoData
    Faults <- MCFaults
    Pages = {1, 2, 3}
    Jobs <- MCJobs
    PageContents <- MCPageContents
    Readings = {1, 2, 3}
    Inputs <- MCInputs
    MaxPasses = 3
    MaxChanges = 2
    Strategies = {"threeByte", "native", "enterB7", "wrenB7"}
    Rails = {18, 33}
    Identities = {1, 2}
    ImageFiles = {3, 4}
    Bits = {b1}
    ChipSize = 2
    PageSize = 1
    Blocks <- MCBlocks
    Part = {p1, p2}
    Patches <- MCPatches
    Contents <- MCContents
    MaxBundles = 2
    MaxCrashes = 1
    MaxTampering = 1
SYMMETRY Alike
INVARIANTS
    EEPROMPromises
    TrustedReads
    AdapterPaysOnce
    NothingIsStale
    AlwaysRecoverable
    SuccessKeepsPromise
    AcceptedWasShown
PROPERTIES
    IsTransaction
CHECK_DEADLOCK FALSE
