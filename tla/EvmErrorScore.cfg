SPECIFICATION Spec
CONSTANTS
    None = None
    e1 = e1
    e2 = e2
    Evms = {e1, e2}
    Lower <- Distinct
    MaxRetries = 2
    MaxConcurrent = 1
    QueriesMayFail = FALSE
    MaxReceived = 3
    MaxPauses = 1
    MaxStarts = 2
CHECK_DEADLOCK FALSE
PROPERTIES
    FreshScoreKept
