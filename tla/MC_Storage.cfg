SPECIFICATION Spec
CONSTANTS
    Writer = {w1, w2, w3}
    Replacing = {w3}
    Chunks = 2
    Before = NoFile
    OldFile = OldFile
    NoFile = NoFile
    DirectoryOpens = TRUE
    FileCrashes = 2
    HeaderLength = 2
    MaxUnits = 4
    JournalCrashes = 2
    EntryFlushed = TRUE
    Bits = {b1}
    ChipSize = 4
    PageSize = 1
    Blocks <- MCBlocks
    Contents <- MCContents
    Patches <- MCPatches
    AnyLoss = FALSE
    MaxAttempts = 3
    Run = {r1, r2, r3}
    Unit = {chip, NoUID}
    NoUID = NoUID
    Revision = {1, 2}
    Time = {1, 2}
    MaxEntries = 2
    MaxBytes = 3
    LineBytes <- MCLineBytes
    StationCrashes = 1
    MaxDamage = 1
    CreateRaces = FALSE
    NoLog = NoLog
    NoAnchor = NoAnchor
    NoRun = NoRun
SYMMETRY Alike
INVARIANTS
    FileIsKept
    JournalIsHistory
    ResumeFinishesTheJob
    PassedIsRecorded
    StateIsLawful
PROPERTIES
    IsRegister
CHECK_DEADLOCK FALSE
