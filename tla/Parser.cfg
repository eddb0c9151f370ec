SPECIFICATION FairSpec
CHECK_DEADLOCK FALSE
CONSTANTS
    Inputs <- MCInputs
    Originals <- MCOriginals
    StaleBytes <- MCStaleBytes
    ADDRESS_LEN <- MCAddressLen
    MAX_INT256 <- MCMaxInt256
INVARIANTS
    WithinInput
    AcceptsWhatWasEncoded
    EncodedIsAccepted
    Understood
    DecodableIsAccepted
PROPERTIES
    DocumentedReturns
    FaultsEnd
    MovesOn
    FieldsKept
