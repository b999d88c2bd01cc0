\* Two applications in the middle of a rollout, and every way to spend the time.
SPECIFICATION LiveSpec
CONSTANTS
    Hooks = {h1}
    Apps = {a, b}
    AppStates <- MCAppStates
    TreeStates <- MCTreeStates
    Absent = Absent
    NoTree = NoTree
    Samples = 2
    Interval = 2
    Timeout = 10
    RequestTimeout = 1
    Lag = 1
INVARIANTS
    PassIsEarned
    EndsByDeadline
    NoFalseTimeout
    Discipline
PROPERTIES
    StepsRunOut
    EveryRunAnswers
CHECK_DEADLOCK FALSE
