SPECIFICATION FairSpec
CONSTANTS
    None = None
    head = head
    other = other
    b1 = b1
    BackfillIds = {b1}
    Instances = {head, other}
    Modes <- HeadAndBackfill
    InitialVersion = 1
    MaxVersion = 2
    HistoryTables = {events}
    CurrentTable = current_items
    KeyOf <- PairedKeys
    MaxBatch = 2
    ChannelSize = 1
    MaxStarts = 2
CHECK_DEADLOCK FALSE
PROPERTIES
    HeadCatchesUp
    BackfillCompletes
