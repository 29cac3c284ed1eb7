------------------------------- MODULE Hedge --------------------------------
(***************************************************************************)
(* Selling the collateral of a won bid on the DDEX exchange:               *)
(* PromisedMarketSellAsset and the calls under it (client/ddexClient.go).  *)
(* One turn of its loop asks the mid price, builds an order, places it     *)
(* and reads the reply.  Every error, whatever it is, starts the turn over *)
(* one second later.  The exchange itself is external: it refuses an order *)
(* below the market's minimum or above the balance, and fills a market     *)
(* order by any amount up to its size.                                     *)
(***************************************************************************)
EXTENDS Integers

CONSTANTS
    Job,          \* the trades that can be hedged
    NoJob,        \* no trade is at hand
    Lot,          \* smallest order step (AmountDecimal)
    MinOrderSize, \* smallest order the exchange takes
    MaxBlind,     \* bound: replies to an order that get lost
    MaxWallet     \* bound: lots in the wallet, of either asset

ASSUME HedgeAssumption ==
    /\ NoJob \notin Job
    /\ Lot \in Nat \ {0}
    /\ MinOrderSize \in Nat
    /\ MaxBlind \in Nat
    /\ MaxWallet \in Nat

VARIABLES
    free,   \* the bidder's balance of the debt asset
    held,   \* the bidder's balance of the collateral asset
    hpc,    \* where the call is
    job,    \* the trade being hedged
    amount, \* the amount the caller wants sold
    side,   \* "sell" when the collateral is the base of the market, or "buy"
    fill,   \* the FilledAmount of the last order placed
    \* Observed, not in the code:
    asked,  \* what the caller wanted sold, by trade
    sold,   \* what the exchange has sold, by trade
    blind   \* orders executed whose reply never arrived, by trade

walletVars == <<free, held>>
hedgeVars == <<hpc, job, amount, side, fill, asked, sold, blind>>
vars == <<walletVars, hedgeVars>>

Side == {"sell", "buy"}

HedgeInit ==
    /\ hpc = "idle"
    /\ job = NoJob
    /\ amount = 0
    /\ side = "sell"
    /\ fill = 0
    /\ asked = [j \in Job |-> 0]
    /\ sold = [j \in Job |-> 0]
    /\ blind = [j \in Job |-> 0]

\* SetDecimal(amount, AmountDecimal): whole lots, the rest is cut off.
OrderAmount == amount - (amount % Lot)

Placeable == OrderAmount >= MinOrderSize /\ OrderAmount > 0
Covered == OrderAmount <= held

Move(from, to, f) ==
    /\ hpc = from
    /\ hpc' = to
    /\ fill' = f
    /\ UNCHANGED <<walletVars, job, amount, side, asked, sold, blind>>

\* Faulty variants of Reply below; a property must tell each apart: a partly
\* filled order is tried again in full, the size of the order is reported
\* for what it filled, an empty order is tried again, an empty buy is -1.
ReplyRetriesPartial ==
    Move("reply", IF fill < OrderAmount THEN "sleep" ELSE "returned", fill)
ReplyReportsSize == Move("reply", "returned", OrderAmount)
ReplyRetriesEmpty == Move("reply", IF fill = 0 THEN "sleep" ELSE "returned", fill)
ReplyMinusOne ==
    Move("reply", "returned", IF side = "buy" /\ fill = 0 THEN -1 ELSE fill)

-----------------------------------------------------------------------------
(* The call *)

PromisedMarketSellAsset(j, a, s) ==
    /\ hpc = "idle"
    /\ hpc' = "price"
    /\ job' = j
    /\ amount' = a
    /\ side' = s
    /\ fill' = 0
    /\ asked' = [asked EXCEPT ![j] = a]
    /\ UNCHANGED <<walletVars, sold, blind>>

Goto(from, to) == Move(from, to, fill)

\* GetMarketPrice: the order book has both sides, or the turn ends.
GetMarketPrice == Goto("price", "build")
GetMarketPriceFails == Goto("price", "sleep")

\* buildUnsignedOrder: an order too small or not covered is refused.
BuildOrder == Placeable /\ Covered /\ Goto("build", "place")
BuildOrderFails == Goto("build", "sleep")

\* placeOrder reaches the exchange, which fills f of the order at once.
PlaceOrder(f) ==
    /\ hpc = "place"
    /\ Covered
    /\ f \in 0 .. OrderAmount
    /\ hpc' = "reply"
    /\ fill' = f
    /\ held' = held - f
    /\ free' = free + f
    /\ sold' = [sold EXCEPT ![job] = @ + f]
    /\ UNCHANGED <<job, amount, side, asked, blind>>

PlaceOrderFails == Goto("place", "sleep")

\* A buy that filled nothing has AvgPrice 0 and ddexClient.go:338 divides by it.
Reply == Goto("reply", IF side = "buy" /\ fill = 0 THEN "panicked" ELSE "returned")

\* The order is executed but its reply is an error to the caller.
ReplyLost ==
    /\ hpc = "reply"
    /\ blind[job] < MaxBlind
    /\ hpc' = "sleep"
    /\ fill' = 0
    /\ blind' = [blind EXCEPT ![job] = @ + 1]
    /\ UNCHANGED <<walletVars, job, amount, side, asked, sold>>

\* time.Sleep(time.Second) is over: the whole sale again.
Wake == Goto("sleep", "price")

Forget ==
    /\ hpc' = "idle"
    /\ job' = NoJob
    /\ amount' = 0
    /\ side' = "sell"
    /\ fill' = 0

\* The caller has used the result.
Return ==
    /\ hpc = "returned"
    /\ Forget
    /\ UNCHANGED <<walletVars, asked, sold, blind>>

\* The process ends, maybe in the middle of the call, by itself or by a panic.
Killed ==
    /\ Forget
    /\ UNCHANGED <<walletVars, asked, sold, blind>>

Die == hpc # "idle" /\ Killed

-----------------------------------------------------------------------------
(* The wallet around the call: a bid won turns debt asset into collateral *)

WalletInit ==
    /\ free \in 0 .. MaxWallet
    /\ held = MaxWallet - free

BidWon(k) ==
    /\ k <= free
    /\ free' = free - k
    /\ held' = held + k
    /\ UNCHANGED hedgeVars

Init == WalletInit /\ HedgeInit

\* A trade is handed over once, for an amount the wallet has received.
Call ==
    \E j \in Job, s \in Side, a \in 1 .. held :
        /\ asked[j] = 0
        /\ PromisedMarketSellAsset(j, a, s)

Place == \E f \in 0 .. MaxWallet : PlaceOrder(f)

CallStep ==
    \/ GetMarketPrice \/ GetMarketPriceFails
    \/ BuildOrder \/ BuildOrderFails
    \/ Place \/ PlaceOrderFails
    \/ Reply \/ ReplyLost
    \/ Wake
    \/ Return

Next == Call \/ CallStep \/ Die \/ \E k \in 1 .. MaxWallet : BidWon(k)

Spec == Init /\ [][Next]_vars

\* The exchange answers in the end, when it is asked again and again.
FairSpec ==
    /\ Spec
    /\ WF_vars(CallStep)
    /\ SF_vars(GetMarketPrice)
    /\ SF_vars(BuildOrder)
    /\ SF_vars(Place)

-----------------------------------------------------------------------------
(* Properties *)

TypeOK ==
    /\ free \in Nat
    /\ held \in Nat
    /\ hpc \in {"idle", "price", "build", "place", "reply", "sleep",
                "returned", "panicked"}
    /\ job \in Job \cup {NoJob}
    /\ amount \in Nat
    /\ side \in Side
    /\ fill \in Nat
    /\ asked \in [Job -> Nat]
    /\ sold \in [Job -> Nat]
    /\ blind \in [Job -> Nat]

\* The loop sells the whole amount again only after a reply was lost: a trade
\* is sold at most once more than its lost replies, never for a partial fill,
\* a refused order or a failed price (ddexClient.go:356-363).
OversellBounded ==
    \A j \in Job : sold[j] <= (blind[j] + 1) * asked[j]

\* What the call reports sold is what the exchange sold for this trade, when
\* no reply was lost (ddexClient.go:337, 406).
ReportExact ==
    hpc = "returned" /\ blind[job] = 0 => fill = sold[job]

\* The loop ends for an order the exchange takes, unless the balance does not
\* cover it, which no number of retries repairs.
HedgeReturns ==
    (hpc = "price" /\ Placeable)
        ~> (hpc \in {"returned", "panicked", "idle"} \/ ~Covered)

\* README.md:14-15: the bot buys 10 ETH and sells 10 ETH on ddex.
SoldAtMostBought == \A j \in Job : sold[j] <= asked[j]

-----------------------------------------------------------------------------
(* The inductive invariant behind the safety properties *)

Answered == {"reply", "returned", "panicked"}
Retrying == {"price", "build", "place", "sleep"}

\* The call at hand is about a trade, for the amount asked, and an order
\* never fills more than that.
CallKnown ==
    /\ hpc # "idle" => job \in Job /\ amount = asked[job]
    /\ fill <= amount

\* Before an order, only orders with a lost reply have sold anything; after
\* it, only those and the order itself have.
SoldByLost ==
    /\ hpc \in Retrying => sold[job] <= blind[job] * asked[job]
    /\ hpc \in Answered => sold[job] <= blind[job] * asked[job] + fill

\* The fill of the last order was sold, and with no reply lost nothing else.
SoldIsFill ==
    hpc \in Answered =>
        /\ fill <= sold[job]
        /\ blind[job] = 0 => sold[job] = fill

IInv ==
    /\ TypeOK
    /\ CallKnown
    /\ SoldByLost
    /\ SoldIsFill
    /\ OversellBounded
=============================================================================
