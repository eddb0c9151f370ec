SPECIFICATION Spec
CONSTANTS
    p1 = p1
    p2 = p2
    whole = whole
    half = half
    wide = wide
    endless = endless
    Path <- MCPath
    Chunk <- MCChunk
    Size <- MCSize
    MAX_TRANSACTION_LEN <- MCMaxTransactionLen
    MAX_APDU_SIZE <- MCMaxApduSize
    P1 <- MCP1
    Tx <- MCTx
    Parse <- MCParse
    Displayable <- MCDisplayable
    SignInfo <- MCUsualSignInfo
    Interfaces <- MCNbgl
    HalfDuplex = TRUE
    Zero = Zero
    Garbage = Garbage
    BadPath = BadPath
    NoData = NoData
    ParseFault = ParseFault
    ParseNoEnd = ParseNoEnd
PROPERTIES
    SignedStatusIsTrue
