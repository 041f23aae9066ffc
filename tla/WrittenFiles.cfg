SPECIFICATION FilesSpec
CONSTANTS
    BootLen = 5
    FstLen = 4
    Alignment = 4
    ClusterData = 4
    HashBlock = 4
    GroupClusters = 2
    MaxH3Groups = 4
    FieldMax = 20
    CertRoom = 2
    PartAbs = 8
    DataPartOff = 4
    Discs <- MCDiscs
    DeflickerPattern <- MCDeflicker
    DitheringPattern <- MCDithering
    Overrun <- MCOverrun
    Jobs <- MCJobs
    Calls <- MCCalls
    Documents <- MCDocuments
    Requests <- MCRequests
    NoLength = NoLength
    Garbled = Garbled
    Idle = Idle
INVARIANTS
    DiscIsReadable
    DiscIsRefusedOverLimit
    SitesArePatched
    OptionsAreHeeded
    SettingsArrive
    NetworkIsLast
    MetaNamesTheGame
CHECK_DEADLOCK FALSE
