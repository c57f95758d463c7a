SPECIFICATION FairSpec
CONSTANTS
    None = None
    dense = dense
    sparse = sparse
    b1 = b1
    BackfillIds = {b1}
    Tables = {dense}
    TableNames = {dense}
    BackfillTables = {}
    RowsIn <- OneTable
    Modes <- HeadAndBackfills
    InitialVersion = 1
    MaxVersion = 4
    MaxBatch = 2
    ChannelSize = 1
    BufferMaxSize = 3
    MaxStarts = 3
    QueriesMayFail = TRUE
CHECK_DEADLOCK FALSE
INVARIANTS
    CompleteIffDone
PROPERTIES
    TablesSettle
    TablesImplementIndex
