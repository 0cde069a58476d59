SPECIFICATION FairSpec
CONSTANTS
    Handlers = {h1, h2, h3}
    Kinds <- MCKinds
    Expected = 2
INVARIANTS
    TypeOK
    SignalAfterExpected
PROPERTIES
    RunReturns
    RunSeesAppended
CHECK_DEADLOCK FALSE
