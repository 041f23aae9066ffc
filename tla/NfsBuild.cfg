CONSTANTS
    SectorsPerGroup = 2
    ClusterData = 2
    SectorSlots = 3
    HashSlots = 1
    H3Slots = 3
    MaxRanges = 5
    MaxH3Groups = 5
    Discs <- MCDiscs
SPECIFICATION Spec
INVARIANTS
    FilesMountIntact
    NoPatchDropped
    StreamFillsRanges
    MergeIsCheapest
    H3TableAgrees
CHECK_DEADLOCK FALSE
