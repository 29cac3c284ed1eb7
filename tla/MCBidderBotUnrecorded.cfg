\* A bid whose nonce an orphan has used waits for ever: the system may stop.
CHECK_DEADLOCK FALSE
SPECIFICATION Spec
CONSTANTS
    Auction = {a1}
    NoAuction = NoAuction
    TxId = {t1, t2}
    NoTx = NoTx
    Funds = 2
    Reserve = 1
    MaxLeft = 2
    MaxLostAcks = 1
    MaxDeaths = 0
    Lot = 1
    MinOrderSize = 1
    MaxBlind = 0
    MaxBlock = 2
    Lag = 1
    Monitored = {a1}
    QuoteCollateral = {}
    MinOrderValue = 0
    InsertsFail = FALSE
INVARIANT EveryFillRecorded
