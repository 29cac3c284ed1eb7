\* Every block is served and every bid is hedged: the system may come to rest.
CHECK_DEADLOCK FALSE
SPECIFICATION FairSpec
CONSTANTS
    Auction = {a1, a2}
    NoAuction = NoAuction
    TxId = {t1, t2}
    NoTx = NoTx
    Funds = 2
    Reserve = 0
    MaxLeft = 2
    MaxLostAcks = 0
    MaxDeaths = 0
    Lot = 1
    MinOrderSize = 1
    MaxBlind = 0
    MaxBlock = 3
    Lag = 1
    Monitored = {a1}
    QuoteCollateral = {a1}
    MinOrderValue = 0
    InsertsFail = TRUE
PROPERTIES
    EveryBlockServed
    EveryFillBooked
