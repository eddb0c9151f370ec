SPECIFICATION FairSpec
CHECK_DEADLOCK FALSE
CONSTANTS
    Inputs <- MCFaulty
    Originals <- MCOriginals
    StaleBytes <- MCStaleBytes
    ADDRESS_LEN <- MCAddressLen
    MAX_INT256 <- MCMaxInt256
PROPERTIES
    ParserReturns
