SPECIFICATION Spec
CONSTANTS
    MaxDepth = 4
    Expectations <- MCExpectations
    PatternLists <- MCPatternLists
    Texts <- MCTexts
    FileTrees <- MCFileTrees
INVARIANT MissingPathIsReported
