SPECIFICATION Spec
CONSTANTS
    States <- MCStates
    RootState = "r"
    CellOf <- MCCell
    ScoreOf <- MCScore
    PruneStates = {}
    GoalStates = {}
    PruneDrop = TRUE
    Epsilon = 1
    MaxVisits = 3
    ExhaustAfter = 2
    Unit = 8
    NoveltyOf <- MCNovelty
    LogOf <- MCLog
    SqrtLogOf <- MCSqrtLog
    ExpOf <- MCExp
    ArgmaxTemperature = 1
    MaxU32 = 1000
    MaxU64 = 1000
    BadNames = {""}
    MinWindow = 1
    MaxK = 2
    Draws <- MCDraws
    Resolution = 4
    MaxBursts = 2
    AttackMacros = {"jab"}
    Unset = Unset
    MaxSiblings = 2
    Denominator = 2
    Hosts = {1, 2}
    Workloads <- MCWorkloads
    StageOfState <- MCStage
    SelectDraws <- MCSelectDraws
    FaultDraws <- MCFaultDraws
    MaxVersion = 1
    Nothing = Nothing
CHECK_DEADLOCK FALSE
INVARIANTS LadderExact ReplayIsIdentical CaptureFits RestartAccepted IntentsStable DrawsFair
PROPERTIES BasePinned CheckpointNeverBack
