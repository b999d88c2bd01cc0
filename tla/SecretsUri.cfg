\* The operator exports a database URI, and no database password.
SPECIFICATION Spec
CONSTANTS
    Requests <- MCComplete
    Environments <- MCWithUri
    MaxRuns = 1
INVARIANT
    PasswordsMatch
CHECK_DEADLOCK FALSE
