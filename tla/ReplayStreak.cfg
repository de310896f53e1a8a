\* A regression replayed as a duplicate evicts its parent.
CONSTANTS
    States <- HillStates
    RootState = "r"
    CellOf <- HillCell
    ScoreOf <- HillScore
    PruneStates = {}
    GoalStates = {}
    PruneDrop = FALSE
    Epsilon = 0
    MaxVisits = 3
    ExhaustAfter = 1
    Captures = {"r", "a", "h", "p"}
    MaxKids = 1
    MaxBatches = 3
    MaxCrashes = 1
SPECIFICATION Spec
INVARIANT CandidatesExact
