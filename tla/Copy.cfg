\* Two copies to one key, a source that changes, and an SDK that tries twice.
SPECIFICATION LiveSpec
CONSTANTS
    Copies = {c1, c2}
    Versions <- MCVersions
    Missing = "missing"
    Chunks <- MCChunks
    MaxParts = 1
    Attempts = 2
CHECK_DEADLOCK FALSE
INVARIANTS
    CopyIsWhole
    NothingLeftSilently
    CopyInv
PROPERTIES
    RefinesAtomicCopy
    CallsRunOut
    EveryCopyEnds
