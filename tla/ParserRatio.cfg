SPECIFICATION Spec
CHECK_DEADLOCK FALSE
CONSTANTS
    Inputs <- MCLongRatio
    Originals <- MCOriginals
    StaleBytes <- MCStaleBytes
    ADDRESS_LEN <- MCAddressLen
    MAX_INT256 <- MCMaxInt256
PROPERTIES
    ValueKept
