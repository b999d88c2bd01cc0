\* Any two commands on a bucket with a history, on clocks that disagree, under
\* fair scheduling; one command or two restores while a key is damaged.
SPECIFICATION CatalogueSpec
CONSTANTS
    Points = {p1, p2}
    NumObjects = 2
    Skew = 1
    MaxClock = 1
    MaxFaults = 1
    NumSources = 1
    SourceOf <- MCSourceOf
    MaxEntries = 2
    MaxChanges = 1
    Prunes = {q1, q2}
    NoPoint = NoPoint
    Retention = 1
    Tolerance = 0
    BatchSize = 2
    Restores = {x1, x2}
    Prefixes = {d1, d2}
CHECK_DEADLOCK FALSE
INVARIANTS
    NewestIsKept
    RestoreIsFaithful
    CertifiedIsEntire
PROPERTIES
    CommandsRunOut
    EveryCommandEnds
