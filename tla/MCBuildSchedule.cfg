SPECIFICATION FairSpec
CONSTANTS
    N = 3
    Inputs <- MCInputs
INVARIANT AcceptsExactly
INVARIANT AcceptedIsAcyclic
INVARIANT CycleIsReal
PROPERTY Termination
