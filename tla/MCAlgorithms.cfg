SPECIFICATION Spec
CONSTANTS
    MaxDepth = 4
    Expectations <- MCExpectations
    PatternLists <- MCPatternLists
    Texts <- MCTexts
    FileTrees <- MCFileTrees
INVARIANT PassesWhateverErred
INVARIANT ReportsUnlessFragile
INVARIANT OrderOfPathsIrrelevant
INVARIANT PatternsFoundExactly
INVARIANT MergesByWalks
