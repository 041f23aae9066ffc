CONSTANTS
    FileSize = 7
    ChunkSizes = {1, 4}
    MaxTotal = 30
SPECIFICATION SplitSpec
INVARIANTS
    SplitsExactly
    NoEmptyTail
CHECK_DEADLOCK FALSE
