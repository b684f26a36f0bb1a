SPECIFICATION Spec
CONSTANTS
    N = 3
    NumCPU = 1
    MaxConcurrent = 2
    Schedules <- MCSchedules
INVARIANT ParallelChainsSurvive
