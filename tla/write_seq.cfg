SPECIFICATION FairSpec
CONSTANTS
    Writers = {w1}
    categoryURL <- RoutedURLs
    httpTimeout <- ClientTimeout
    Requests <- SeqRequests
    Outcomes <- SeqOutcomes
    Times = {1}
    GzipChoices = {TRUE}
    MaxCalls = 1
    MaxBodies = 2
    RetryMax = 1
INVARIANTS
    TypeOK
    CacheMatchesPolicy
    CountersMatchBodies
    KeptOnceUnlessAnswerMissed
PROPERTIES
    EveryCallReturns
CHECK_DEADLOCK FALSE
