\* Regressions, pruned rows, duplicates and goals under crashes.
CONSTANTS
    States <- FullStates
    RootState = "r"
    CellOf <- FullCell
    ScoreOf <- FullScore
    PruneStates = {"p"}
    GoalStates = {"g"}
    PruneDrop = FALSE
    Epsilon = 0
    MaxVisits = 2
    ExhaustAfter = 2
    Captures = {"a", "l", "p", "g"}
    MaxKids = 2
    MaxBatches = 3
    MaxCrashes = 2
SPECIFICATION Spec
INVARIANTS TreeExact FrontierDurable SelectionExact
PROPERTIES EvictionIsFinal
