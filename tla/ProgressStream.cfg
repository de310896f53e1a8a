SPECIFICATION FairSpec
CONSTANTS
    MaxCommits = 3
    MaxGoals = 3
    MaxLevel = 1
    MaxInflight = 2
    MaxFailures = 1
    MaxEvents = 4
    RingCapacity = 2
INVARIANTS EdgesOnce EventsAccounted
PROPERTIES StreamCatchesUp
CHECK_DEADLOCK FALSE
