SPECIFICATION FairSpec
CONSTANTS
    N = 2
    J = 2
    SlotsTotal = 3
    MaxInflight = 2
    RetryMax = 0
    MaxUpsets = 2
INVARIANTS NothingLeftBehind HandedInOrder
PROPERTIES BatchesComplete
CHECK_DEADLOCK FALSE
