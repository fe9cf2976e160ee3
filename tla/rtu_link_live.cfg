SPECIFICATION FairSpec
CONSTANTS
    OverSizeSupport = FALSE
    OverSizeMaxRTU = 256
    c1 = c1
    Callers = {c1}
    Work <- LiveWork
    LocalMemory <- MCLocalMemory
    Faults = {}
    Servers = {1, 2}
    ServerMemory <- MCServerMemory
    ServersMayStop = FALSE
    TwoWire = FALSE
    Lossy = FALSE
    Timely = TRUE
PROPERTIES
    ImplementsTransactions
    AllSucceed
CHECK_DEADLOCK FALSE
