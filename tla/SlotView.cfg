SPECIFICATION FairSpec
CONSTANTS
    Tasks = {"a", "b", "f"}
    Forkers = {"f"}
    Width = 2
    SlotsTotal = 2
    MaxJobs = 1
    MaxUpsets = 1
INVARIANTS ReservedExact
PROPERTIES EventuallyServed
