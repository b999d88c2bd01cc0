\* Attempts that die anywhere, an image that moves back and forth, and a lost
\* alias or queue, beside the hooks of the syncs.
SPECIFICATION Spec
CONSTANTS
    Branches <- MCBranches
    Releases <- MCReleases
    Heads <- MCHeads
    Aliases = {"records", "communities"}
    Records = "records"
    RecordFields = {"f1"}
    CommunityFields = {"f2"}
    Home <- MCHome
    Queues = {"downloads", "views", "indexer"}
    Checked = {"downloads", "views"}
    MaxAttempts = 3
    MaxMoves = 2
    MaxLosses = 1
INVARIANTS
    TypeOK
    CompletedIsInitialized
    RetryFailsOnlyForCause
    GreenIsReady
    CompletedIsGreen
    InitializationInv
CHECK_DEADLOCK FALSE
