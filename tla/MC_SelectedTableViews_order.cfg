CONSTANTS
    Tables <- MCTables
    Streaming <- MCStreaming
    None = None
    MaxPending = 2
SPECIFICATION Spec
PROPERTY
    SnapshotsKeptForSelection
CHECK_DEADLOCK FALSE
