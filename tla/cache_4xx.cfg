SPECIFICATION Spec
CONSTANTS
    Writers = {w1}
    categoryURL <- RoutedURLs
    httpTimeout <- ClientTimeout
    Requests <- SeqRequests
    Outcomes <- SeqOutcomes
    Times = {1, 2}
    GzipChoices = {TRUE, FALSE}
    MaxCalls = 1
    MaxBodies = 2
    RetryMax = 1
INVARIANTS
    No4XXCached
CHECK_DEADLOCK FALSE
