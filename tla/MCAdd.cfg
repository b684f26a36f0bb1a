CONSTANTS
    v = v
    Scenarios <- MCScenarios
SPECIFICATION Spec
INVARIANTS
    RecordsExactly
    RoundTrip
    RunningWasAnswered
    DamagedOnlyByCut
PROPERTIES
    LostOnlyByOverlap
    TitleKept
