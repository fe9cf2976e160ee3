SPECIFICATION FairSpec
CONSTANTS
    OverSizeSupport = FALSE
    OverSizeMaxRTU = 256
    c1 = c1
    c2 = c2
    Callers = {c1, c2}
    Work <- MCWork
    LocalMemory <- MCLocalMemory
    Faults = {"close", "write"}
    Arrivals <- MCArrivals
    MaxArrivals = 2
INVARIANTS
    ClientTypeOK
    OneTransaction
    DropsAccounted
PROPERTIES
    WaitersAnswered
    CloseStopsServe
CHECK_DEADLOCK FALSE
