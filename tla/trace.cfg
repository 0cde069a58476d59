SPECIFICATION Spec
CONSTANTS
    Endpoints <- MCEndpoints
    Dials = {d1, d2}
    MaxTime = 2
    MaxIdle = 1
    RetryMax = 1
INVARIANTS
    TypeOK
    LoggedStatIsOfOnlyDial
SYMMETRY DialSymmetry
CHECK_DEADLOCK FALSE
