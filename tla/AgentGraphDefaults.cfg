SPECIFICATION Spec
CONSTANTS
    Questions = {q1, q2}
    Blank = blank
    NoQuery = none
    FollowUps = {q2}
    Collections = {c1}
    MaxGraphIterations = 25
    MaxRetrievalRetries = 2
    MaxGenerationRetries = 1
    HallucinationCheck = FALSE
    QdrantMayFail = TRUE
    MaxTurns = 3
CHECK_DEADLOCK FALSE
INVARIANTS
    RetriesBoundTurn
    StaleReplyOnlyAfterRefusal
    OnlyAcceptedAnswersCached
