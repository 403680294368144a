SPECIFICATION BreakerFairSpec
CONSTANTS
    Callers = {c1, c2, c3, c4}
    Threshold = 3
    Recovery = 2
    MaxRetries = 2
    BadInput = TRUE
INVARIANTS BreakerTypeOK ClosedIffBelowThreshold
PROPERTY RecoversWithService
