SPECIFICATION Spec
CONSTANTS
    r1 = r1
    r2 = r2
    r3 = r3
    chip = chip
    NoUID = NoUID
    NoLog = NoLog
    NoAnchor = NoAnchor
    NoRun = NoRun
    Run = {r1, r2, r3}
    Unit = {chip, NoUID}
    Revision = {1, 2}
    Time = {1, 2}
    MaxEntries = 2
    MaxBytes = 6
    LineBytes <- MCLineBytes
    MaxCrashes = 1
    MaxDamage = 1
    CreateRaces = TRUE
SYMMETRY MCRuns
INVARIANTS
    PassedIsRecorded
CHECK_DEADLOCK FALSE
