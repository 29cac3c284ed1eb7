\* Every block is served and every bid is hedged: the system may come to rest.
CHECK_DEADLOCK FALSE
SPECIFICATION FairSpec
CONSTANTS
    Auction = {a1}
    NoAuction = NoAuction
    TxId = {t1}
    NoTx = NoTx
    Funds = 2
    Reserve = 0
    MaxLeft = 2
    MaxLostAcks = 0
    MaxDeaths = 0
    Lot = 1
    MinOrderSize = 2
    MaxBlind = 0
    MaxBlock = 2
    Lag = 1
    Monitored = {a1}
    QuoteCollateral = {}
    MinOrderValue = 1
    InsertsFail = FALSE
PROPERTY EveryBlockServed
