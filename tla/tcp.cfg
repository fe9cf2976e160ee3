SPECIFICATION FairSpec
CONSTANTS
    OverSizeSupport = FALSE
    OverSizeMaxRTU = 256
    c1 = c1
    c2 = c2
    Callers = {c1, c2}
    Work <- MCWork
    LocalMemory <- MCLocalMemory
    ServerMemory <- MCServerMemory
    Strangers = {"stranger"}
    Says <- MCSays
INVARIANTS
    TypeOK
    ExitReason
PROPERTIES
    ImplementsTransactions
    AllReturn
CHECK_DEADLOCK FALSE
