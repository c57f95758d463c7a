SPECIFICATION CheckpointedSpec
CONSTANTS
    None = None
    dense = dense
    sparse = sparse
    b1 = b1
    BackfillIds = {b1}
    Tables = {dense, sparse}
    TableNames = {dense, sparse}
    BackfillTables = {}
    RowsIn <- DenseAndSparse
    Modes <- HeadAndReplay
    InitialVersion = 0
    MaxVersion = 4
    MaxBatch = 3
    ChannelSize = 1
    BufferMaxSize = 3
    MaxStarts = 3
    QueriesMayFail = FALSE
CHECK_DEADLOCK FALSE
INVARIANTS
    TypeOK
    StatusCovered
    ReportedIsUploaded
    NoStepError
    PanicsOnlyOversized
PROPERTIES
    StatusMonotone
