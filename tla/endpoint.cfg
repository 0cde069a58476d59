SPECIFICATION Spec
CONSTANTS
    BaseURLs <- MCBaseURLs
    OptionSeqs <- MCOptionSeqs
    PullArgs = {"filters=1", "filters=<LF>"}
    CtlArgs = {"filters=<LF>"}
    Outcomes <- MCOutcomes
    MaxPulls = 2
INVARIANTS
    TypeOK
    ClientFollowsOptions
    RoutesAreGatewayURLs
    PullAsksPullAPI
CHECK_DEADLOCK FALSE
