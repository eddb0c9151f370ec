SPECIFICATION Spec
CONSTANTS
    Txs <- MCTxs
    Signatures <- MCSignatures
    MAX_REVIEWS <- MCMaxReviews
    WIDTH <- MCWidth
    Moduli <- MCModuli
CHECK_DEADLOCK FALSE
INVARIANTS
    ResponseAsSpecified
