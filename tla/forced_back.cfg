SPECIFICATION Spec
CONSTANTS
    OverSizeSupport = FALSE
    OverSizeMaxRTU = 256
    PrimaryMissesMax = 2
    FailoverMissesMax = 4
    SlaveID = 1
    Requests <- Served
    InitialMemory <- MCMemory
    Memories <- MCMemories
    Pdus <- MCPdus
    ForcesBack = TRUE
    StartsEarly = FALSE
    MaxStops = 1
    MaxQueue = 2
INVARIANT
    OneReply
CHECK_DEADLOCK FALSE
