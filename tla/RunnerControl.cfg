SPECIFICATION FairSpec
CONSTANTS
    MaxSeq = 2
    MaxInflight = 2
    K = 1
    EveryCommits = 2
    EverySeconds = FALSE
    MaxExpansions = 2
    OnGoalStop = TRUE
    Controls = {"Pause", "Resume", "Stop"}
    MaxControls = 2
    MaxCrashes = 1
    Failures = TRUE
INVARIANTS TypeOK NoDoubleCommit DenseIds PausedIsDurable
PROPERTIES StopEndsRun
