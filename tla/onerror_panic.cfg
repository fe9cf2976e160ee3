SPECIFICATION Spec
CONSTANTS
    OverSizeSupport = FALSE
    OverSizeMaxRTU = 256
    c1 = c1
    c2 = c2
    Callers = {c1}
    Work <- PanicWork
    LocalMemory <- MCLocalMemory
    Faults = {}
    Arrivals <- PanicArrivals
    MaxArrivals = 1
INVARIANT
    NeverPanics
CHECK_DEADLOCK FALSE
