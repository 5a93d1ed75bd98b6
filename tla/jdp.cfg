CONSTANTS
    Txs <- MCTxs
    TxWeight <- MCWeight
    MaxTip = 1
    Mineable <- MCMineable
    MaxBlockWeight = 2
    CoinbaseWeight = 0
    MaxCarryOver = 1
    MaxDeclared = 2
    Offers <- MCOffers
    Requests <- MCRequests
    MaxInbox = 1
    None = None
    Push = Push
SPECIFICATION Spec
INVARIANTS EngineSound 
PROPERTIES ThreadReturns ConversationEnds MirrorCatchesUp
CHECK_DEADLOCK FALSE
