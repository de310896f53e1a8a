SPECIFICATION Spec
CONSTANTS
    MaxSeq = 3
    MaxInflight = 1
    K = 1
    EveryCommits = 2
    EverySeconds = FALSE
    MaxExpansions = 3
    OnGoalStop = FALSE
    Controls = {"Stop"}
    MaxControls = 1
    MaxCrashes = 1
    Failures = FALSE
INVARIANTS CoveredComplete
