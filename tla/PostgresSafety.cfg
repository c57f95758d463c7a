SPECIFICATION Spec
CONSTANTS
    None = None
    head = head
    other = other
    b1 = b1
    BackfillIds = {b1}
    Instances = {head, other}
    Modes <- HeadAndOthers
    InitialVersion = 1
    MaxVersion = 3
    HistoryTables = {events}
    CurrentTable = current_items
    KeyOf <- PairedKeys
    MaxBatch = 2
    ChannelSize = 1
    MaxStarts = 2
CHECK_DEADLOCK FALSE
INVARIANTS
    TypeOK
    CheckpointCovered
    CompleteIffDone
PROPERTIES
    CheckpointMonotone
    ImplementsIndex
    CurrentNeverRegresses
    BackfillContinues
