SPECIFICATION FairSpec
CONSTANTS
    N = 3
    NumCPU = 1
    MaxConcurrent = 2
    Schedules <- MCSchedules
INVARIANT TypeOK
INVARIANT PrerequisitesFirst
INVARIANT SkippedIffPrerequisiteFailed
INVARIANT NoSpuriousSkip
PROPERTY RunContract
PROPERTY VerdictStable
PROPERTY Termination
