SPECIFICATION Spec
CONSTANTS
    MaxLines = 10
    MaxLine = 1000
    Sources <- MCSources
    MaxIngests = 2
    MinTokens = 3
    MaxTokens = 6
    OverlapPercent = 15
    RowThreshold = 3
    TargetChars = 18
    OverlapChars = 4
    SummaryChars = 7
    HintChars = 10
    TopN = 2
    TopPages = 1
    TokenBudget = 9
    MaxImages = 1
CHECK_DEADLOCK FALSE
CONSTRAINT
    Searching
INVARIANTS
    NoOrphanedVectors
