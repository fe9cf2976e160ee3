SPECIFICATION Spec
CONSTANTS
    OverSizeSupport = FALSE
    OverSizeMaxRTU = 256
    c1 = c1
    c2 = c2
    Callers = {c1}
    Work <- SoloWork
    LocalMemory <- MCLocalMemory
    Faults = {"close"}
    Arrivals <- MCArrivals
    MaxArrivals = 1
INVARIANT
    EveryTransactionAnswered
CHECK_DEADLOCK FALSE
