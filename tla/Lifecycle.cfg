\* Two backups, a prune and the damage of one key, in every interleaving.
SPECIFICATION Spec
CONSTANTS
    Points = {p1, p2}
    NumObjects = 1
    Skew = 0
    MaxClock = 2
    MaxFaults = 1
    NumSources = 1
    SourceOf <- MCOneSource
    MaxEntries = 1
    MaxChanges = 0
    Prunes = {q1}
    NoPoint = NoPoint
    Retention = 1
    Tolerance = 0
    BatchSize = 1
    Restores = {}
    Prefixes = {d1}
SYMMETRY Symmetry
CHECK_DEADLOCK FALSE
INVARIANTS
    BackupInv
    RefusesUnsoundBucket
PROPERTY
    RefinesCatalog
