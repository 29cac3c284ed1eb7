------------------------------- MODULE Quote --------------------------------
(***************************************************************************)
(* Is the auction worth a bid, how large a bid, and what does the hedge    *)
(* of it sell at?  tryFillAuction (cli/bot.go:44-121) with its numbers:    *)
(* the bid is cut to the free balance, valued in USD, priced by a walk     *)
(* over one side of the order book (QuerySellAssetReceiveAmount,           *)
(* client/ddexClient.go:495) and made when the price beats the debt by the *)
(* profit margin.  Once won, the collateral is sold by a market order      *)
(* whose amount and price limit, the mid price less the slippage, are cut  *)
(* to the digits the market allows (MarketSellAsset, ddexClient.go:293).   *)
(*                                                                         *)
(* Amounts and prices are whole numbers.  Amounts are multiples of Unit,   *)
(* which every price divides: of the divisions of the code only that of    *)
(* the bid's rate rounds, to the nearest Unit for the sixteenth decimal.   *)
(***************************************************************************)
EXTENDS Inventory, Sequences, SequencesExt, FiniteSetsExt

CONSTANTS
    Price,         \* prices of the levels
    Size,          \* amounts of the levels
    MaxLevels,     \* bound: levels of a side of the book
    Unit,          \* the step of amounts
    Offer,         \* auctions as they were read: [debt, collateral]
    DebtAsset,     \* the asset of their debt
    CollateralAsset, \* and of their collateral
    UsdPrice,      \* oracle prices of the collateral
    MinOrderValue, \* MIN_ORDER_VALUE_USD
    MarginPct,     \* PROFIT_MARGIN in percent
    SlippagePct,   \* MAX_SLIPPAGE in percent
    TickDecimals,  \* a price of 1 is 10^-TickDecimals
    PricePrecision,\* digits of a price in the market
    PriceDecimal,  \* and decimals
    AmountLot      \* the last decimal of an order's amount, as an amount

\* The contract hands back what is left once the debt of an auction is paid.
ASSUME QuoteAssumption ==
    /\ MaxLevels \in Nat /\ MinOrderValue \in Nat /\ Unit \in Nat \ {0}
    /\ MarginPct \in Nat /\ SlippagePct \in 0 .. 100
    /\ Price \subseteq Nat \ {0} /\ UsdPrice \subseteq Nat \ {0}
    /\ Offer \subseteq [debt : Nat, collateral : Nat]
    /\ DebtAsset \in Asset /\ CollateralAsset \in Asset \ {DebtAsset}
    /\ TickDecimals \in Nat /\ PricePrecision \in Nat /\ PriceDecimal \in Nat
    /\ AmountLot \in Nat \ {0} /\ AmountLot % Unit = 0
    /\ \A p \in Price : Unit % p = 0
    /\ Size \subseteq {q \in Nat \ {0} : q % Unit = 0}
    /\ \A o \in Offer : o.collateral % Unit = 0 /\ (o.debt = 0 => o.collateral = 0)

VARIABLES
    auction,    \* the auction to be tried
    usd,        \* the oracle's price of the collateral
    tradingPair,\* the market: [base, quote]
    book,       \* the side walked: levels [price, amount], best first
    opposite,   \* the best price of the other side
    pc,         \* "size", "value", "walk", "quoted", "bid" or how the try ended
    debt,       \* what the bid repays
    collateral, \* what it is to receive
    i,          \* the level the walk is at
    pay,        \* payAmount: collateral not priced yet
    receive,    \* receiveAmount so far
    limit,      \* the price limit of the hedge, in thousandths of a price
    ordered     \* the amount of the hedge

market == <<tradingPair, book, opposite>>
bidSize == <<debt, collateral>>
walk == <<i, pay, receive>>
order == <<limit, ordered>>
tryVars == <<auction, usd, market, pc, bidSize, walk, order>>
vars == <<inventoryVars, tryVars>>

free == inventory[DebtAsset]

\* The market of the two assets, in the order the exchange names them.
TradingPairs ==
    {[base |-> DebtAsset, quote |-> CollateralAsset],
     [base |-> CollateralAsset, quote |-> DebtAsset]}

\* The quote walks the asks, to buy with the collateral, when that is the
\* market's quote; the bids, to sell it, otherwise.
side == IF CollateralAsset = tradingPair.quote THEN "buy" ELSE "sell"

Level == [price : Price, amount : Size]

Better(p, q) == IF side = "sell" THEN p > q ELSE p < q

\* The exchange lists the best price first, one level for each price.
BestFirst(b) == \A m, n \in DOMAIN b : m < n => Better(b[m].price, b[n].price)

\* No bid meets an ask: such orders would have traded.
Uncrossed(b, o) == b # <<>> => Better(o, b[1].price)

Init ==
    /\ InventoryInit
    /\ auction \in Offer
    /\ usd = 0
    /\ tradingPair \in TradingPairs
    /\ book = <<>> /\ opposite = 0
    /\ pc = "size"
    /\ debt = 0 /\ collateral = 0
    /\ i = 1 /\ pay = 0 /\ receive = 0
    /\ limit = 0 /\ ordered = 0

\* What the level can take of the collateral, and what it gives for q of it.
Depth(l) == IF side = "sell" THEN l.amount ELSE l.price * l.amount
Worth(l, q) == IF side = "sell" THEN q * l.price ELSE q \div l.price

\* The collateral of a part of the debt, at the auction's own rate, rounded to
\* the nearest Unit.
AtRate(d) ==
    LET half == auction.debt * Unit
    IN ((2 * d * auction.collateral + half) \div (2 * half)) * Unit

-----------------------------------------------------------------------------
(* Sizing the bid (bot.go:52-80) *)

GetInventory ==
    /\ ReadLocks \/ ReadFails \/ \E s \in Asset : ReadBalance(s)
    /\ UNCHANGED tryVars

Ends(how) ==
    /\ pc' = how
    /\ UNCHANGED <<inventoryVars, auction, usd, market, bidSize, walk, order>>

\* The inventory, the oracle or the order book cannot be read, or the oracle
\* has no price for the collateral.
CallFails ==
    /\ pc \in {"size", "value", "book"}
    /\ pc = "size" => reading = "failed"
    /\ Ends("error")

Sizes == pc = "size" /\ reading = "done"

NoBalance == Sizes /\ free = 0 /\ Ends("skip")

\* debt.Div(auction.AvailableDebt) of a finished auction and a torn balance.
DivisionByZero ==
    /\ Sizes
    /\ free < auction.debt
    /\ auction.debt = 0
    /\ Ends("panic")

SizedAs(d, c) ==
    /\ pc' = "value"
    /\ debt' = d
    /\ collateral' = c
    /\ UNCHANGED <<inventoryVars, auction, usd, market, walk, order>>

SizeWhole ==
    /\ Sizes
    /\ free # 0
    /\ free >= auction.debt
    /\ SizedAs(auction.debt, auction.collateral)

\* Faulty: the debt is cut and the collateral is not.
CutDebtOnly ==
    /\ Sizes
    /\ free # 0 /\ free < auction.debt /\ auction.debt # 0
    /\ SizedAs(free, auction.collateral)

SizeCut ==
    /\ Sizes
    /\ free # 0 /\ free < auction.debt /\ auction.debt # 0
    /\ SizedAs(free, AtRate(free))

GetAssetUSDPrice ==
    /\ pc = "value"
    /\ usd' \in UsdPrice
    /\ pc' = IF collateral * usd' <= MinOrderValue THEN "skip" ELSE "book"
    /\ UNCHANGED <<inventoryVars, auction, market, bidSize, walk, order>>

GetOrderbook ==
    /\ pc = "book"
    /\ book' \in {b \in BoundedSeq(Level, MaxLevels) : BestFirst(b)}
    /\ opposite' \in {o \in Price : Uncrossed(book', o)}
    /\ pc' = "walk"
    /\ pay' = collateral
    /\ UNCHANGED <<inventoryVars, auction, usd, tradingPair, bidSize, i, receive, order>>

-----------------------------------------------------------------------------
(* The walk over the book, one level at a time (ddexClient.go:511-545) *)

AtLevel == pc = "walk" /\ i <= Len(book)

Take(l) ==
    /\ receive' = receive + Worth(l, Depth(l))
    /\ pay' = pay - Depth(l)
    /\ i' = i + 1
    /\ UNCHANGED <<inventoryVars, auction, usd, market, pc, bidSize, order>>

\* Faulty: levels are taken whole without a look at what is left.
TakeEveryLevel == AtLevel /\ Take(book[i])

TakeLevel == AtLevel /\ Depth(book[i]) < pay /\ Take(book[i])

\* The level takes all that is left; q is what it is paid for.
LastLevelFor(q) ==
    /\ Depth(book[i]) >= pay
    /\ receive' = receive + Worth(book[i], q)
    /\ pay' = 0
    /\ pc' = "quoted"
    /\ UNCHANGED <<inventoryVars, auction, usd, market, bidSize, i, order>>

\* Faulty: the last level is counted whole.
LastLevelWhole == AtLevel /\ LastLevelFor(Depth(book[i]))

LastLevel == AtLevel /\ LastLevelFor(pay)

\* OrderbookDepthNotEnough.
ThinBook == pc = "walk" /\ i > Len(book) /\ Ends("skip")

-----------------------------------------------------------------------------
(* The decision (bot.go:88-95) *)

Decides(profitable) == pc = "quoted" /\ Ends(IF profitable THEN "bid" ELSE "skip")

\* Faulty: the margin is left out.
JudgeWithoutMargin == Decides(receive > debt)

Judge == Decides(receive * 100 > debt * (100 + MarginPct))

-----------------------------------------------------------------------------
(* The hedge (ddexClient.go:305-341 and 273-279, general.go:13-33).  A price *)
(* limit is counted in Grain of the market's unit: exact for any percentage. *)

Grain == TickDecimals + 3

\* The powers of ten.
Ten[n \in Nat] == IF n = 0 THEN 1 ELSE 10 * Ten[n - 1]

\* d cut to n decimals, and to tens, hundreds, ... for a negative n.
CutTo(d, n) == IF n >= Grain THEN d ELSE (d \div Ten[Grain - n]) * Ten[Grain - n]

SetDecimal(d, n) == CutTo(d, n)

\* The digits d is written with before the point: a zero is one of them.
IntDigits(d) == CHOOSE n \in 1 .. d + 1 :
    /\ d < Ten[Grain + n]
    /\ n > 1 => d >= Ten[Grain + n - 1]

\* Faulty: the point is counted among the digits.
SetPrecisionCountsPoint(d, precision) == CutTo(d, precision - IntDigits(d) - 1)

\* The first digits of d, as it is written: those cut before the point are
\* cut from the text, and the number is smaller by as many powers of ten.
SetPrecision(d, precision) ==
    IF IntDigits(d) > precision
    THEN (d \div Ten[Grain + IntDigits(d) - precision]) * Ten[Grain]
    ELSE CutTo(d, precision - IntDigits(d))

\* An order sells when the collateral is the first asset in the market's name.
orderSide == IF CollateralAsset = tradingPair.base THEN "sell" ELSE "buy"

LimitPct == IF orderSide = "sell" THEN 100 - SlippagePct ELSE 100 + SlippagePct

\* The mid price times LimitPct / 100.
ExactLimit == (book[1].price + opposite) * LimitPct * 5

\* Faulty: an amount is cut by one place more than the market does.
OrderAmountTooShort(amount) == (amount \div (2 * AmountLot)) * (2 * AmountLot)

\* SetDecimal of an amount.
OrderAmount(amount) == (amount \div AmountLot) * AmountLot

\* The book is as it was quoted; MarketSellAsset reads its best prices again.
MarketSellAsset ==
    /\ pc = "bid"
    /\ limit' = SetDecimal(SetPrecision(ExactLimit, PricePrecision), PriceDecimal)
    /\ ordered' = OrderAmount(collateral)
    /\ pc' = "hedged"
    /\ UNCHANGED <<inventoryVars, auction, usd, market, bidSize, walk>>

WalletMoves ==
    /\ pc \in {"size", "value", "book", "walk", "quoted", "bid"}
    /\ WalletStep
    /\ UNCHANGED tryVars

Next ==
    \/ GetInventory
    \/ CallFails
    \/ NoBalance \/ DivisionByZero \/ SizeWhole \/ SizeCut
    \/ GetAssetUSDPrice \/ GetOrderbook
    \/ TakeLevel \/ LastLevel \/ ThinBook
    \/ Judge
    \/ MarketSellAsset
    \/ WalletMoves

Spec == Init /\ [][Next]_vars

-----------------------------------------------------------------------------
(* Properties *)

TypeOK ==
    /\ InventoryTypeOK
    /\ pc \in {"size", "value", "book", "walk", "quoted", "bid", "hedged",
              "skip", "error", "panic"}
    /\ debt \in Int /\ collateral \in Int
    /\ i \in 1 .. Len(book) + 1
    /\ pay \in Nat /\ receive \in Nat /\ limit \in Nat /\ ordered \in Nat

\* Ways to sell q of the collateral: how much of it each level takes.
Ways(q) ==
    {w \in [DOMAIN book -> {n * Unit : n \in 0 .. q \div Unit}] :
        /\ \A k \in DOMAIN book : w[k] <= Depth(book[k])
        /\ SumFunctionOnSet(w, DOMAIN book) = q}

Proceeds(w) ==
    SumFunctionOnSet([k \in DOMAIN book |-> Worth(book[k], w[k])], DOMAIN book)

\* The quote is a price the book really pays for the whole bid, and no other
\* way of selling the same collateral into the same book pays more: the walk
\* from the top, with its early exit, loses nothing (ddexClient.go:511-545).
QuoteIsBest ==
    pc = "quoted" =>
        /\ \E w \in Ways(collateral) : Proceeds(w) = receive
        /\ \A w \in Ways(collateral) : Proceeds(w) <= receive

\* The largest bid the free balance pays for, at the auction's own rate.
Affordable(d, c) ==
    /\ d <= free /\ d <= auction.debt /\ (d = free \/ d = auction.debt)
    /\ auction.debt # 0 /\ c = AtRate(d)

\* The bid counts on no more than the free balance of its asset, but for what
\* settled or was withdrawn while GetInventory asked for one asset after the
\* other and what was matched or withdrawn since (bot.go:53-66 and
\* ddexClient.go:439-463): nothing is counted twice, or as free and as locked.
BidCovered == pc = "bid" => debt <= Free(DebtAsset) + departed[DebtAsset]

\* A bid that is affordable, large enough and sold at a profit above the margin.
Worthwhile(d, c) ==
    /\ Affordable(d, c)
    /\ c * usd > MinOrderValue
    /\ \E w \in Ways(c) : Proceeds(w) * 100 > d * (100 + MarginPct)

NoneWorthwhile ==
    \A d \in {free, auction.debt}, n \in 1 .. auction.collateral \div Unit :
        ~Worthwhile(d, n * Unit)

\* The bot bids exactly when a worthwhile bid exists: what it bids is one, and
\* when it passes an auction over, or dies of a division by its debt, there is
\* none (bot.go:52-91, README.md:72-74).
BidsWhenWorthwhile ==
    /\ pc = "bid" => Worthwhile(debt, collateral)
    /\ pc \in {"skip", "panic"} => NoneWorthwhile

\* The exchange fills the hedge from the best level on, within the limit; an
\* order of the other side meets none of these levels.
WithinLimit(l) ==
    /\ orderSide = side
    /\ IF side = "sell" THEN l.price * 1000 >= limit ELSE l.price * 1000 <= limit

\* What it sells into the levels before and at level k, and in all, and is paid.
Ahead(k) == SumFunctionOnSet([j \in 1 .. k - 1 |-> Depth(book[j])], 1 .. k - 1)
SoldAt(k) ==
    IF WithinLimit(book[k]) THEN Max({0, Min({Depth(book[k]), ordered - Ahead(k)})})
                            ELSE 0
HedgeSells == SumFunctionOnSet([k \in DOMAIN book |-> SoldAt(k)], DOMAIN book)
HedgeReceives == Proceeds([k \in DOMAIN book |-> SoldAt(k)])

\* The price MAX_SLIPPAGE away from the mid price, in Grain.
SlippageBound ==
    (book[1].price + opposite) * 5
        * (IF side = "sell" THEN 100 - SlippagePct ELSE 100 + SlippagePct)

\* The last place of a price limit the market accepts.
Place ==
    Ten[Grain - Min({PricePrecision - IntDigits(SlippageBound), PriceDecimal, Grain})]

FitsPrecision == IntDigits(SlippageBound) <= PricePrecision

\* However a price limit is cut to the market's digits, the hedge sells at no
\* level further from the mid price than MAX_SLIPPAGE by a unit of the last
\* digit kept (general.go:17-33, ddexClient.go:279-280, README.md:78).
HedgeWithinSlippage ==
    pc = "hedged" /\ FitsPrecision =>
        \A k \in DOMAIN book :
            SoldAt(k) > 0 =>
                IF side = "sell" THEN book[k].price * 1000 > SlippageBound - Place
                                 ELSE book[k].price * 1000 <= SlippageBound

\* A hedge at the book of the quote, whose levels are all within MAX_SLIPPAGE
\* by such a unit, sells what was won but for less than the last decimal of an
\* amount, at an average price no worse than quoted: quote and order find the
\* same side of the market by different tests, and the dust is what the walk
\* would have sold last (ddexClient.go:279-343, 495-546).
HedgesWhatWasQuoted ==
    pc = "hedged" /\ FitsPrecision
    /\ (\A k \in 1 .. i :
            IF side = "sell" THEN book[k].price * 1000 >= SlippageBound
                             ELSE book[k].price * 1000 <= SlippageBound - Place)
    => /\ HedgeSells <= collateral /\ collateral < HedgeSells + AmountLot
       /\ HedgeReceives * collateral >= receive * HedgeSells

\* The average price the bid counts on, against the mid price and the slippage
\* the hedge is limited by (ddexClient.go:315 and 329).
WithinSlippage ==
    LET twiceMid == book[1].price + opposite IN
        IF side = "sell"
        THEN receive * 200 >= collateral * twiceMid * (100 - SlippagePct)
        ELSE collateral * 200 <= receive * twiceMid * (100 + SlippagePct)

\* README.md:78: no arbitrage if the slippage is greater than MAX_SLIPPAGE.
NoBidBeyondSlippage == pc = "bid" => WithinSlippage
-----------------------------------------------------------------------------
(* The inductive invariant behind the safety properties *)

Priced == {"walk", "quoted", "bid", "hedged"}
Quoted == {"quoted", "bid", "hedged"}

\* A try is of an auction as it was read, and goes on only with an inventory
\* read in full, within the balance of it.
SizedByInventory ==
    /\ auction \in Offer
    /\ pc \in {"value", "book", "skip", "panic"} \cup Priced => reading = "done"
    /\ pc \in {"value", "book"} \cup Priced => debt <= free

\* The bid is the one the auction and the balance allow.
SizedAtRate ==
    pc \in {"value", "book"} \cup Priced =>
        IF auction.debt = 0 THEN collateral = 0 ELSE Affordable(debt, collateral)

LargeEnough ==
    pc \in {"book"} \cup Priced => usd \in UsdPrice /\ collateral * usd > MinOrderValue

\* The book is as the exchange lists it.
BookRead ==
    /\ tradingPair \in TradingPairs
    /\ book \in Seq(Level) /\ BestFirst(book)
    /\ pc \in {"size", "value", "book"} => i = 1 /\ receive = 0
    /\ pc \in Priced => opposite \in Price

\* What each level takes when the i-th takes q, those before it all they can.
Taken(q) ==
    [k \in DOMAIN book |-> IF k < i THEN Depth(book[k]) ELSE IF k = i THEN q ELSE 0]

Sold(q) ==
    /\ collateral = pay + SumFunctionOnSet(Taken(q), DOMAIN book)
    /\ receive = Proceeds(Taken(q))

\* What is not left to be priced is sold into the levels up to the i-th.
WalkIsExact ==
    /\ pc = "walk" => pay > 0 /\ pay % Unit = 0 /\ Sold(0)
    /\ pc \in Quoted =>
        /\ pay = 0 /\ i \in DOMAIN book
        /\ \E q \in 1 .. Depth(book[i]) : q % Unit = 0 /\ Sold(q)

\* What was decided, and what the hedge was limited by.
Decided ==
    /\ pc = "bid" => receive * 100 > debt * (100 + MarginPct)
    /\ pc \in {"skip", "panic"} => NoneWorthwhile
    /\ pc = "hedged" =>
        /\ limit = SetDecimal(SetPrecision(ExactLimit, PricePrecision), PriceDecimal)
        /\ ordered = OrderAmount(collateral)

IInv ==
    /\ TypeOK
    /\ AllAsked
    /\ TotalUpToDepartures
    /\ FreeUpToDepartures
    /\ SizedByInventory
    /\ SizedAtRate
    /\ LargeEnough
    /\ BookRead
    /\ WalkIsExact
    /\ Decided
=============================================================================
