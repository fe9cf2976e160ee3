SPECIFICATION FairSpec
CONSTANTS
    OverSizeSupport = FALSE
    OverSizeMaxRTU = 256
    Codes <- MCCodes
    Addresses <- MCAddresses
    Quantities <- MCQuantities
    Limits <- MCLimits
INVARIANTS
    TypeOK
    Tiling
    WithinLimits
    CoversRange
    FailsOnlyOutOfRange
PROPERTY
    Terminates
CHECK_DEADLOCK FALSE
