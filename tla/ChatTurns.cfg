SPECIFICATION GapsSpec
CONSTANTS
    Chats = {c1, c2}
    Streams = {s1}
    None = None
    TurnLimit = 2
    ExecutorThreads = 1
    MaxRestarts = 1
    Clicks = {k1, k2}
    Rates <- MCRates
    k1 = k1
    k2 = k2
    s1 = s1
    Topic <- MCTopic
    Abstained = {}
    Declined = {c1}
CHECK_DEADLOCK FALSE
INVARIANTS
    StoredAnswerIsOwn
    HistoryMatchesMemory
    OverlapNeedsLeftover
    AnswersPairWithTheirQuestion
    GapsAreListed
    AcknowledgedRatingStands
PROPERTIES
    EveryRequestEnds
