SPECIFICATION Spec
CONSTANTS
    Registers <- MCRegisters
    Inputs <- MCInputs
    NumCPU = 1
    MaxConcurrent = 2
INVARIANT StdinGossfileLoads
