SPECIFICATION FairSpec
CONSTANTS
    OverSizeSupport = FALSE
    OverSizeMaxRTU = 256
    PrimaryMissesMax = 2
    FailoverMissesMax = 3
    SlaveID = 1
    Requests <- MCRequests
    Others <- MCOthers
    LocalMemory <- MCLocalMemory
    ServerMemories <- MCServerMemories
    MaxFaults = 1
INVARIANTS
    TypeOK
    StandbyInSync
PROPERTIES
    PrimaryComesBack
    SomebodyAsks
CHECK_DEADLOCK FALSE
