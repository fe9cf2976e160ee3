SPECIFICATION FairSpec
CONSTANTS
    OverSizeSupport = FALSE
    OverSizeMaxRTU = 256
    PrimaryMissesMax = 2
    FailoverMissesMax = 4
    SlaveID = 1
    Requests <- MCRequests
    InitialMemory <- MCMemory
    Memories <- MCMemories
    Pdus <- MCPdus
    ForcesBack = FALSE
    StartsEarly = FALSE
    MaxStops = 2
    MaxQueue = 2
INVARIANTS
    TypeOK
    OneVoice
    StandbyInSync

PROPERTIES
    SomebodyAnswers
CHECK_DEADLOCK FALSE
