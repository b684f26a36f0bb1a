SPECIFICATION Spec
CONSTANTS
    r1 = r1
    r2 = r2
    r3 = r3
    Requests <- MCRequests
    Accepts <- MCAccepts
    OutputFormats <- MCFormats
    Worlds <- MCWorlds
    Cache = 1
    MaxRun = 1
    MaxTime = 3
CHECK_DEADLOCK FALSE
INVARIANT BoundedStaleness
INVARIANT StatusMatchesResults
PROPERTY EveryRequestAnswered
