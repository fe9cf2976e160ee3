SPECIFICATION Spec
CONSTANTS
    OverSizeSupport = FALSE
    OverSizeMaxRTU = 256
    Validate <- CrcValidate
    Readers <- AllReaders
    Scripts <- MCScripts
    BufSize = 26
INVARIANTS
    TypeOK
    ReturnedWhole
    Delivered
PROPERTIES
    Settles
CHECK_DEADLOCK FALSE
