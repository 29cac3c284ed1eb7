\* A bid whose nonce an orphan has used waits for ever: the system may stop.
CHECK_DEADLOCK FALSE
SPECIFICATION FairSpec
CONSTANTS
    Auction = {a1}
    NoAuction = NoAuction
    TxId = {t1, t2, t3}
    NoTx = NoTx
    Funds = 2
    Reserve = 1
    MaxLeft = 2
    MaxLostAcks = 1
    MaxDeaths = 1
INVARIANTS
    TypeOK
    LiveBidsCompete
    NoSilentFill
    DeadWaitNeedsOrphan
    ReportIsTrue
    IInv
PROPERTY CallReturns
