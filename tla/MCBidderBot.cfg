\* A bid whose nonce an orphan has used waits for ever: the system may stop.
CHECK_DEADLOCK FALSE
SPECIFICATION Spec
SYMMETRY Hashes
CONSTANTS
    Auction = {a1, a2}
    NoAuction = NoAuction
    TxId = {t1, t2}
    NoTx = NoTx
    Funds = 2
    Reserve = 1
    MaxLeft = 2
    MaxLostAcks = 1
    MaxDeaths = 1
    Lot = 1
    MinOrderSize = 1
    MaxBlind = 1
    MaxBlock = 2
    Lag = 1
    Monitored = {a1, a2}
    QuoteCollateral = {a2}
    MinOrderValue = 0
    InsertsFail = TRUE
INVARIANTS
    TypeOK
    IInv
    EveryBidAccountedFor
    HedgedIsFilled
    RowsAreTrue
    PositionMatchesWallet
    BidIsCovered
PROPERTIES
    BlocksRise
    IsArbitrage
