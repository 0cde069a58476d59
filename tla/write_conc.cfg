SPECIFICATION Spec
CONSTANTS
    Writers = {w1, w2}
    categoryURL <- RoutedURLs
    httpTimeout <- NoClientTimeout
    Requests <- ConcRequests
    Outcomes <- ConcOutcomes
    Times = {1}
    GzipChoices = {FALSE}
    MaxCalls = 2
    MaxBodies = 1
    RetryMax = 0
INVARIANTS
    CountersMatchBodies
PROPERTIES
    QuotaSpec
CHECK_DEADLOCK FALSE
