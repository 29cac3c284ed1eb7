\* Every trade is hedged and no bid is left to win: the run may end.
CHECK_DEADLOCK FALSE
SPECIFICATION FairSpec
CONSTANTS
    Job = {j1, j2}
    NoJob = NoJob
    Lot = 2
    MinOrderSize = 2
    MaxBlind = 1
    MaxWallet = 4
INVARIANT SoldAtMostBought
