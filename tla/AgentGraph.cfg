SPECIFICATION Spec
CONSTANTS
    Questions = {q1, q2}
    Blank = blank
    NoQuery = none
    FollowUps = {q2}
    Collections = {c1, c2}
    MaxGraphIterations = 10
    MaxRetrievalRetries = 1
    MaxGenerationRetries = 1
    HallucinationCheck = TRUE
    QdrantMayFail = TRUE
    MaxTurns = 2
CHECK_DEADLOCK FALSE
INVARIANTS
    TypeOK
    IterationBound
    CacheWithinScope
    CitedWithinScope
    GeneratedAnswersPassEval
    OneReplyPerTurn
PROPERTIES
    TurnTerminates
