SPECIFICATION Spec
CONSTANTS
    None = None
    dense = dense
    sparse = sparse
    b1 = b1
    BackfillIds = {b1}
    Tables = {dense, sparse}
    TableNames = {dense, sparse}
    BackfillTables = {}
    RowsIn <- DenseAndSparse
    Modes <- OnlyDefault
    InitialVersion = 1
    MaxVersion = 4
    MaxBatch = 1
    ChannelSize = 1
    BufferMaxSize = 4
    MaxStarts = 2
    QueriesMayFail = FALSE
CHECK_DEADLOCK FALSE
INVARIANTS
    StatusCovered
