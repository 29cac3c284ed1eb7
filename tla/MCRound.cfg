SPECIFICATION Spec
CONSTANTS
    Market <- MCMarket
    Named <- MCNamed
    FirstOpen <- MCFirstOpen
    Auction <- MCAuction
    NoAuctions = NoAuctions
    Figures = {0, 1}
    MaxPending = 2
INVARIANTS
    TypeOK
    NamedMarketsTried
    ScreenIsCurrent
    IInv
PROPERTY Recovers
