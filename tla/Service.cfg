SPECIFICATION FairSpec
CONSTANTS
    Starters = {s1, s2}
    Callers = {c1, c2}
    s1 = s1
    s2 = s2
    c1 = c1
    c2 = c2
    MaxRuns = 2
    MaxCancels = 1
INVARIANTS OneRunner StopIsFinal
PROPERTIES CallsReturn
CHECK_DEADLOCK FALSE
