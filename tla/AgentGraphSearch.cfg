SPECIFICATION Spec
CONSTANTS
    Questions = {q1, q2}
    Blank = blank
    NoQuery = none
    FollowUps = {q2}
    Collections = {c1}
    MaxGraphIterations = 25
    MaxRetrievalRetries = 2
    MaxGenerationRetries = 1
    HallucinationCheck = TRUE
    QdrantMayFail = TRUE
    MaxTurns = 2
CHECK_DEADLOCK FALSE
INVARIANTS
    SearchedAsAsked
