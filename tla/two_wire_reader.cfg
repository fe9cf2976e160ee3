SPECIFICATION Spec
CONSTANTS
    OverSizeSupport = FALSE
    OverSizeMaxRTU = 256
    Validate <- CrcValidate
    Readers <- OnlyTwoWire
    Scripts <- TwoWireScripts
    BufSize = 256
INVARIANTS
    Delivered
CHECK_DEADLOCK FALSE
