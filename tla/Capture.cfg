\* One run against an application that writes, deletes and reconfigures.
SPECIFICATION BackupSpec
CONSTANTS
    Points = {p1}
    NumObjects = 3
    Skew = 0
    MaxClock = 0
    MaxFaults = 1
    NumSources = 2
    SourceOf <- MCSourceOf
    MaxEntries = 2
    MaxChanges = 3
INVARIANTS
    CaptureIsAnInstant
    CertifiedIsReadable
CHECK_DEADLOCK FALSE
