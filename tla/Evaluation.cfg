\* One application at a time, against what the README calls converged.
SPECIFICATION MCSpec
CONSTANTS
    Hooks = {h1}
INVARIANTS
    CleanIsConverged
CHECK_DEADLOCK FALSE
