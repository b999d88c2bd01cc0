\* One cleanup beside one upload.
SPECIFICATION Spec
CONSTANTS
    Files = {f1}
    Holders = {h1}
    Limit = 1
    BackoffLimit = 0
    MaxDays = 1
INVARIANT
    ReferencedFilesAreKept
CHECK_DEADLOCK FALSE
