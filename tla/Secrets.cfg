\* Complete and partial runs, each of which may die anywhere.
SPECIFICATION Spec
CONSTANTS
    Requests <- MCRequests
    Environments <- MCEnvironments
    MaxRuns = 3
INVARIANTS
    CompleteInv
    PlaintextIsSealed
    CompleteRunAgrees
    PasswordsDifferOnlyByUri
PROPERTY
    ConsumersTakeWhatIsSealed
CHECK_DEADLOCK FALSE
