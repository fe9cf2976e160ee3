SPECIFICATION Spec
CONSTANTS
    OverSizeSupport = FALSE
    OverSizeMaxRTU = 256
    c1 = c1
    Callers = {c1}
    Work <- MCWork
    LocalMemory <- MCLocalMemory
    Faults = {"close"}
    Servers = {1, 2}
    ServerMemory <- MCServerMemory
    ServersMayStop = TRUE
    TwoWire = TRUE
    Lossy = TRUE
    Timely = TRUE
INVARIANTS
    NoStaleReply
PROPERTIES
    ImplementsTransactions
CHECK_DEADLOCK FALSE
