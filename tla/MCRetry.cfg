SPECIFICATION Spec
CONSTANTS
    Options <- MCOptions
    Worlds <- MCWorlds
    MaxRun = 2
    MaxLate = 1
INVARIANT ExitReflectsLastAttempt
INVARIANT VerdictIsCurrent
INVARIANT AttemptsStartInTime
INVARIANT OutcomeCountsFailures
PROPERTY Termination
