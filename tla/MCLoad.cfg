SPECIFICATION Spec
CONSTANTS
    Registers <- MCRegisters
    Inputs <- MCInputs
    NumCPU = 1
    MaxConcurrent = 2
INVARIANT DiscoveredIsTruth
INVARIANT GatesFollowDiscovery
INVARIANT InlineSectionIgnored
PROPERTY Termination
