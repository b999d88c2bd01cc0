\* Two days of cleanup beside uploads, shared files and deleted drafts.
SPECIFICATION Spec
CONSTANTS
    Files = {f1, f2, f3}
    Holders = {h1, h2}
    Limit = 1
    BackoffLimit = 1
    MaxDays = 2
SYMMETRY MCSymmetry
INVARIANTS
    TypeOK
    CleanupInv
    SettledFilesAreKept
    DoneIsClean
CHECK_DEADLOCK FALSE
