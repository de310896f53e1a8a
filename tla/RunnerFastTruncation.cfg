SPECIFICATION Spec
CONSTANTS
    MaxSeq = 3
    MaxInflight = 2
    K = 1
    EveryCommits = 1
    EverySeconds = FALSE
    MaxExpansions = 3
    OnGoalStop = FALSE
    Controls = {}
    MaxControls = 0
    MaxCrashes = 1
    Failures = FALSE
INVARIANTS LoggedUntilCommitted
