\* Every service behind the journal, with the process killed at any point.
CONSTANTS
    World <- ThreeRoom
    Guest <- ThreeRoom
    SlotsTotal = 3
    IcountPerFrame = 2
    VnsPerFrame = 3
    MaxFrame = 3
    MaxClock = 7
    None = None
    NoValue = NoValue
    Absent = Absent
    Unset = Unset
    NoCall = NoCall
    NoFile = NoFile
    MaxCount = 2
    MaxItems = 4
    Draws <- MCDraws
    Resolution = 4
    MaxBursts = 4
    AttackMacros = {"jab"}
    Requests <- MCRequests
    Workloads <- MCWorkloads
SPECIFICATION Spec
INVARIANTS ReloadSucceeds LiveIsReplay SlotsAsWatched ReferenceDeterminesFuture RowsFormTree CacheMatchesArchive
CHECK_DEADLOCK FALSE
