SPECIFICATION Spec
CONSTANTS
    Asset = {"debt", "other"}
    DebtAsset = "debt"
    CollateralAsset = "other"
    Wallets <- MCWallets
    Portion = 24
    MaxBalance = 120
    MaxMoves = 2
    Price <- MCPrice
    Size <- MCSize
    MaxLevels = 3
    Unit = 12
    Offer <- MCOffer
    UsdPrice <- MCUsdPrice
    MinOrderValue = 12
    MarginPct = 50
    SlippagePct = 20
    TickDecimals = 1
    PricePrecision = 2
    PriceDecimal = 3
    AmountLot = 24
INVARIANT NoBidBeyondSlippage
\* A try ends with the hedge or without a bid.
CHECK_DEADLOCK FALSE
