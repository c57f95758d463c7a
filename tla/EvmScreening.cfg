SPECIFICATION FairSpec
CONSTANTS
    None = None
    e1 = e1
    e2 = e2
    Evms = {e1, e2}
    Lower <- Distinct
    MaxRetries = 2
    MaxConcurrent = 2
    QueriesMayFail = TRUE
    MaxReceived = 2
    MaxPauses = 1
    MaxStarts = 2
CHECK_DEADLOCK FALSE
INVARIANTS
    TypeOK
    Accounted
    CacheIsSaved
PROPERTIES
    SourcesSettle
