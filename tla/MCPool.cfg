SPECIFICATION PoolFairSpec
CONSTANTS
    N = 3
    NumCPU = 1
    MaxConcurrent = 2
    Suites <- MCSuites
INVARIANT NoFeederLeft
INVARIANT TimedOutFails
INVARIANT PortsErrorReachesAll
INVARIANT NoPresenceWithoutSnapshot
PROPERTY RunContract
PROPERTY Termination
