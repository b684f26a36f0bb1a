CONSTANTS
    v = v
    Scenarios <- MCScenarios
SPECIFICATION Spec
INVARIANT AbsentTestPasses
