SPECIFICATION FairSpec
CONSTANTS
    MaxSeq = 3
    MaxInflight = 1
    K = 2
    EveryCommits = 2
    EverySeconds = TRUE
    MaxExpansions = 3
    OnGoalStop = FALSE
    Controls = {}
    MaxControls = 0
    MaxCrashes = 2
    Failures = FALSE
INVARIANTS CoveredComplete LoggedUntilCommitted ExpansionsExact ScorerLockstep
PROPERTIES RefinesLedger RunEnds
