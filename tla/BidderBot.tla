----------------------------- MODULE BidderBot ------------------------------
(***************************************************************************)
(* The bot: BidderBot.Run and tryFillAuction (cli/bot.go), composed with   *)
(* the block feed it listens to, the bid it makes on chain and the hedge   *)
(* it makes on the exchange.  One goroutine runs everything in sequence;   *)
(* it interleaves with the feed's goroutine, the chain, other bidders, the *)
(* exchange, and the operator who stops and restarts the process.          *)
(***************************************************************************)
EXTENDS Integers, FiniteSetsExt

CONSTANTS
    Auction, NoAuction, TxId, NoTx, Funds, Reserve, MaxLeft, \* EthChain
    MaxLostAcks, MaxDeaths,                                  \* FillTx
    Lot, MinOrderSize, MaxBlind,                             \* Hedge
    MaxBlock, Lag,                                           \* BlockFeed
    Monitored,       \* auctions whose market is in MARKETS
    QuoteCollateral, \* auctions whose collateral is the quote of the market
    MinOrderValue,   \* MIN_ORDER_VALUE_USD, as lots of collateral
    InsertsFail      \* whether writing to the sqlite file can fail

ASSUME BotAssumption ==
    /\ NoAuction \notin Auction /\ NoTx \notin TxId
    /\ Funds \in Nat /\ Reserve \in Nat /\ MaxLeft \in Nat
    /\ MaxLostAcks \in Nat /\ MaxDeaths \in Nat
    /\ Lot \in Nat \ {0} /\ MinOrderSize \in Nat /\ MaxBlind \in Nat
    /\ Monitored \subseteq Auction
    /\ QuoteCollateral \subseteq Auction
    /\ MaxBlock \in Nat /\ Lag \in Nat
    /\ MinOrderValue \in Nat
    /\ InsertsFail \in BOOLEAN

VARIABLES
    left, free, held, tx, mined,                              \* EthChain
    fpc, bid, nonce, sent, outcome,                           \* FillTx
    orphan, reported, lostAcks, deaths,
    hpc, job, amount, side, fill, asked, sold, blind,         \* Hedge
    head, feed, blockNum, newBlockNum,                        \* BlockFeed
    pc,       \* where the Run goroutine is, "down" when there is no process
    seen,     \* the block being served
    ids,      \* auctions listed and not fetched yet
    snap,     \* what each auction had left when it was fetched
    todo,     \* auctions fetched and not tried yet
    cur,      \* the auction being tried
    repay,    \* the debt to repay for it
    rows,     \* the rows of trades in the sqlite file
    failed,   \* its rows of failed bids, all zeros but for the hash
    forgotten \* observed: bids with a known result that was never written

wallet == <<free, held>>
chainOnly == <<left, tx, mined>>
chainVars == <<left, free, held, tx, mined>>
fillVars == <<fpc, bid, nonce, sent, outcome, orphan, reported, lostAcks, deaths>>
hedgeVars == <<hpc, job, amount, side, fill, asked, sold, blind>>
feedVars == <<head, feed, blockNum, newBlockNum>>
round == <<seen, ids, snap, todo>>
trial == <<cur, repay>>
books == <<rows, failed, forgotten>>
botVars == <<pc, round, trial, books>>
vars == <<chainVars, fillVars, hedgeVars, feedVars, botVars>>

F == INSTANCE FillTx
H == INSTANCE Hedge WITH Job <- TxId, NoJob <- NoTx, MaxWallet <- Funds + Reserve
B == INSTANCE BlockFeed

BotInit ==
    /\ pc = "wait"
    /\ seen = 0
    /\ ids = {}
    /\ snap = [a \in Auction |-> 0]
    /\ todo = {}
    /\ cur = NoAuction
    /\ repay = 0
    /\ rows = {}
    /\ failed = {}
    /\ forgotten = {}

Init == F!ChainInit /\ F!FillInit /\ H!HedgeInit /\ B!FeedInit /\ BotInit

-----------------------------------------------------------------------------
(* A round: one block, every current auction (bot.go:26-41) *)

Goto(from, to) == pc = from /\ pc' = to

ReceiveBlock ==
    /\ Goto("wait", "list")
    /\ B!HandOver
    /\ seen' = newBlockNum
    /\ UNCHANGED <<chainVars, fillVars, hedgeVars, ids, snap, todo, trial, books>>

Inside == UNCHANGED <<chainVars, fillVars, hedgeVars, feedVars, books>>

\* The contract lists the auctions that are not finished.
GetCurrentAuctionIDs ==
    /\ Goto("list", "scan")
    /\ ids' = {a \in Auction : left[a] > 0}
    /\ UNCHANGED <<seen, snap, todo, trial>>
    /\ Inside

GetCurrentAuctionIDsFails ==
    /\ Goto("list", "wait")
    /\ UNCHANGED <<round, trial>>
    /\ Inside

\* One listed auction is read, by a call of its own, or left out on an error.
GetSingleAuction(a) ==
    /\ Goto("scan", "scan")
    /\ a \in ids
    /\ ids' = ids \ {a}
    /\ snap' = [snap EXCEPT ![a] = left[a]]
    /\ todo' = todo \cup {a}
    /\ UNCHANGED <<seen, trial>>
    /\ Inside

GetSingleAuctionFails(a) ==
    /\ Goto("scan", "scan")
    /\ a \in ids
    /\ ids' = ids \ {a}
    /\ UNCHANGED <<seen, snap, todo, trial>>
    /\ Inside

\* tryFillAuction starts on the next auction that was read.
TryFillAuction(a) ==
    /\ pc = "scan"
    /\ ids = {}
    /\ a \in todo
    /\ todo' = todo \ {a}
    /\ snap' = IF a \in Monitored THEN snap ELSE [snap EXCEPT ![a] = 0]
    /\ IF a \in Monitored THEN pc' = "size" /\ cur' = a ELSE UNCHANGED <<pc, cur>>
    /\ UNCHANGED <<seen, ids, repay>>
    /\ Inside

EndOfRound ==
    /\ Goto("scan", "wait")
    /\ ids = {}
    /\ todo = {}
    /\ UNCHANGED <<round, trial>>
    /\ Inside

\* The try is over; what is kept of it is only what the books say.
TryEnds ==
    /\ pc' = "scan"
    /\ cur' = NoAuction
    /\ repay' = 0
    /\ snap' = [snap EXCEPT ![cur] = 0]
    /\ UNCHANGED <<seen, ids, todo>>

-----------------------------------------------------------------------------
(* Sizing and judging a bid (bot.go:52-91) *)

Sizes(r) ==
    /\ Goto("size", "judge")
    /\ free > 0
    /\ repay' = r
    /\ UNCHANGED <<round, cur>>
    /\ Inside

\* Faulty: the debt is not cut to the free balance; the balance is bid whole.
SizeBidUncut == Sizes(snap[cur])
SizeBidWhole == Sizes(free)

\* The free balance, read at once here (Inventory reads it call by call), then
\* the debt on offer, cut to it.
SizeBid == Sizes(F!Least(free, snap[cur]))

Abandon(from) ==
    /\ pc = from
    /\ TryEnds
    /\ Inside

\* GetInventory fails, or the free balance is zero.
NothingToBid == Abandon("size")

\* GetAssetUSDPrice fails, or the value is at or below the minimum.
TooSmall == Abandon("judge")

\* QuerySellAssetReceiveAmount fails, or what it returns does not pay.
NotProfitable == repay > MinOrderValue /\ Abandon("judge")

\* Prices are abstracted: any bid above the minimum value may be profitable.
PlaceBid ==
    /\ Goto("judge", "bid")
    /\ repay > MinOrderValue
    /\ F!FillAuction(cur, repay)
    /\ UNCHANGED <<hedgeVars, feedVars, round, trial, books>>

-----------------------------------------------------------------------------
(* The bid on chain (bot.go:95-116) *)

BidStep ==
    /\ pc = "bid"
    /\ \/ F!GetNonce \/ F!GetNonceFails
       \/ \E t \in TxId : F!SendRaw(t)
       \/ F!SendRejected
       \/ F!Ack \/ F!AckLost
       \/ F!GetReceipt
    /\ UNCHANGED <<hedgeVars, feedVars, botVars>>

\* FillAuction returned an error.
BidFails ==
    /\ pc = "bid"
    /\ outcome = "error"
    /\ F!Return
    /\ TryEnds
    /\ UNCHANGED <<hedgeVars, feedVars, books>>

\* An insert whose error nobody looks at (bot.go:112 and 129).
Saved == IF InsertsFail THEN BOOLEAN ELSE {TRUE}

\* tryFillAuction is left with the bid reverted; ok tells what is written.
Misses(ok) ==
    /\ pc = "bid"
    /\ outcome = "reverted"
    /\ failed' = IF ok THEN failed \cup {sent} ELSE failed
    /\ F!Return
    /\ TryEnds
    /\ UNCHANGED <<rows, hedgeVars, feedVars>>

\* Faulty: a reverted bid is dropped without a row.
BidRevertedUnwritten == Misses(FALSE) /\ UNCHANGED forgotten

BidReverted ==
    \E ok \in Saved :
        /\ Misses(ok)
        /\ forgotten' = IF ok THEN forgotten ELSE forgotten \cup {sent}

-----------------------------------------------------------------------------
(* The hedge and the history (bot.go:118-141) *)

Hedges(a) ==
    /\ Goto("bid", "hedge")
    /\ outcome = "filled"
    /\ H!PromisedMarketSellAsset(sent, a, IF cur \in QuoteCollateral THEN "buy" ELSE "sell")
    /\ UNCHANGED <<chainOnly, fillVars, feedVars, round, trial, books>>

\* Faulty: what the bid asked for is sold, not what it received.
BidFilledSellsRepay == Hedges(repay)

\* The collateral the receipt names is handed to the hedge.
BidFilled == Hedges(tx[sent].got)

HedgeStep ==
    /\ pc = "hedge"
    /\ H!CallStep
    /\ hpc # "returned"
    /\ UNCHANGED <<chainOnly, fillVars, feedVars, botVars>>

\* tryFillAuction is left with a row for the trade, or without when ~ok.
Records(g, s, ok) ==
    /\ pc = "hedge"
    /\ hpc = "returned"
    /\ rows' = IF ok THEN rows \cup {[tx |-> sent, got |-> g, sold |-> s]} ELSE rows
    /\ F!Return
    /\ H!Return
    /\ TryEnds
    /\ UNCHANGED <<failed, feedVars>>

\* Faulty: all that was bought is written as sold; the repay asked for is
\* written as bought; a trade sold in part is not written.
RecordTradeAllSold == Records(tx[sent].got, tx[sent].got, TRUE) /\ UNCHANGED forgotten
RecordTradeAsked == Records(repay, fill, TRUE) /\ UNCHANGED forgotten
RecordTradeIfWhole == Records(tx[sent].got, fill, fill = amount) /\ UNCHANGED forgotten

RecordTrade ==
    pc = "hedge" /\ \E ok \in Saved :
        /\ Records(tx[sent].got, fill, ok)
        /\ forgotten' = IF ok THEN forgotten ELSE forgotten \cup {sent}

\* The position in the collateral summed up from the history. Of a row only its
\* receiveCollateral and ddexSellCollateral are kept: at one lot for one the
\* debt columns say the same, and gas is left out.
QueryPosition == SumFunctionOnSet([r \in rows |-> r.got - r.sold], rows)

-----------------------------------------------------------------------------
(* The end of the process, and the next one *)

\* Everything in memory is gone; the database is not.
Down ==
    /\ pc' = "down"
    /\ F!Killed
    /\ H!Killed
    /\ B!GoroutineStarts
    /\ seen' = 0
    /\ ids' = {}
    /\ snap' = [a \in Auction |-> 0]
    /\ todo' = {}
    /\ cur' = NoAuction
    /\ repay' = 0
    /\ forgotten' = forgotten \cup (IF fpc = "returned" /\ outcome # "error"
                                    THEN {sent} ELSE {})
    /\ UNCHANGED <<head, rows, failed>>

\* Ctrl-C in the GUI, a signal, a power cut: at any point.
Stop ==
    /\ pc # "down"
    /\ deaths < MaxDeaths
    /\ deaths' = deaths + 1
    /\ Down

\* A division by zero in the hedge ends the process.
Panic ==
    /\ hpc = "panicked"
    /\ Down
    /\ UNCHANGED deaths

Restart ==
    /\ Goto("down", "wait")
    /\ UNCHANGED <<round, trial>>
    /\ Inside

-----------------------------------------------------------------------------
(* The world around the bot *)

MineTx(t) ==
    /\ F!MineTx(t)
    /\ UNCHANGED <<hedgeVars, feedVars, botVars>>

OtherBidder(a, k) ==
    /\ F!OtherBidder(a, k)
    /\ UNCHANGED <<hedgeVars, feedVars, botVars>>

NewBlock ==
    /\ B!NewBlock
    /\ UNCHANGED <<chainVars, fillVars, hedgeVars, botVars>>

Poll(n) ==
    /\ pc # "down"
    /\ B!Poll(n)
    /\ UNCHANGED <<chainVars, fillVars, hedgeVars, botVars>>

Mining == \E t \in TxId : MineTx(t)
Polling == \E n \in 0 .. MaxBlock : Poll(n)

Run ==
    \/ ReceiveBlock
    \/ GetCurrentAuctionIDs \/ GetCurrentAuctionIDsFails
    \/ \E a \in Auction :
        GetSingleAuction(a) \/ GetSingleAuctionFails(a) \/ TryFillAuction(a)
    \/ EndOfRound
    \/ SizeBid \/ NothingToBid
    \/ TooSmall \/ NotProfitable \/ PlaceBid
    \/ BidStep \/ BidFails \/ BidReverted \/ BidFilled
    \/ HedgeStep \/ RecordTrade

Next ==
    \/ Run
    \/ Stop \/ Panic \/ Restart
    \/ Mining
    \/ \E a \in Auction, k \in 1 .. MaxLeft : OtherBidder(a, k)
    \/ NewBlock
    \/ Polling

Spec == Init /\ [][Next]_vars

\* Both goroutines are scheduled, a dead process is started again, miners
\* take the account's next bid, blocks come, and the exchange answers in the
\* end when it is asked again and again.
Fairness ==
    /\ WF_vars(Run)
    /\ WF_vars(Panic)
    /\ WF_vars(Restart)
    /\ WF_vars(Polling)
    /\ WF_vars(NewBlock)
    /\ WF_vars(Mining)
    /\ SF_vars(HedgeStep /\ hpc' = "build")
    /\ SF_vars(HedgeStep /\ hpc' = "place")
    /\ SF_vars(HedgeStep /\ hpc' = "reply")

FairSpec == Spec /\ Fairness

-----------------------------------------------------------------------------
(* Properties *)

TypeOK ==
    /\ F!TypeOK /\ H!TypeOK /\ B!FeedTypeOK
    /\ pc \in {"wait", "list", "scan", "size", "judge", "bid", "hedge", "down"}
    /\ seen \in 0 .. MaxBlock
    /\ ids \subseteq Auction
    /\ todo \subseteq Auction
    /\ snap \in [Auction -> 0 .. MaxLeft]
    /\ cur \in Auction \cup {NoAuction}
    /\ repay \in 0 .. MaxLeft
    /\ rows \subseteq [tx : TxId, got : Nat, sold : Nat]
    /\ failed \subseteq TxId
    /\ forgotten \subseteq TxId

Booked(t) == \E r \in rows : r.tx = t
AtHand(t) == pc \in {"bid", "hedge"} /\ t = sent

\* Every mined bid is in the history, or in the hands of tryFillAuction, or
\* one the bot lost the hash of or could not write: the two gaps the code
\* leaves (bidderClient.go:78, bot.go:129) and the end of the process.
EveryBidAccountedFor ==
    \A t \in TxId :
        /\ F!Filled(t) => Booked(t) \/ AtHand(t) \/ t \in orphan \cup forgotten
        /\ tx[t].state = "reverted" => t \in failed \cup orphan \cup forgotten \/ AtHand(t)

\* A trade is hedged only when its bid was filled, and for exactly what the
\* receipt gave, whatever was asked for or read before (bot.go:101-118).
HedgedIsFilled ==
    \A t \in TxId : asked[t] # 0 => F!Filled(t) /\ asked[t] = tx[t].got

\* A row says what the chain paid out and what the exchange sold; the amount
\* sold can be short only by orders whose reply was lost (bot.go:129-140).
RowsAreTrue ==
    \A r \in rows :
        /\ r.got = tx[r.tx].got
        /\ r.sold <= sold[r.tx]
        /\ blind[r.tx] = 0 => r.sold = sold[r.tx]
        /\ \A q \in rows : q.tx = r.tx => q = r

NothingLost == orphan = {} /\ forgotten = {} /\ \A t \in TxId : blind[t] = 0

\* Collateral in the wallet that no row accounts for yet.
Unbooked == IF pc \in {"bid", "hedge"} /\ sent # NoTx THEN tx[sent].got - sold[sent] ELSE 0

\* The position summed up from the history is what the wallet has gained or
\* lost, with what the trade at hand has gained so far, whenever nothing was
\* lost: the profit and loss view is right between two tries, and no other
\* step ever moves the wallet (bot.go:147, sqliteClient.go:98). The second half
\* follows from the first, as no lot of one asset goes without one of the other.
PositionMatchesWallet ==
    NothingLost =>
        /\ held = Reserve + QueryPosition + Unbooked
        /\ free = Funds - QueryPosition - Unbooked

\* The balance read before a bid is sized still covers the bid while it waits
\* to be mined, unless a bid the bot has lost sight of spends it first
\* (bot.go:53-69): no bid the bot is waiting for is doomed by the bot itself.
BidIsCovered ==
    orphan = {} => \A t \in TxId : F!Pending(t) => tx[t].repay <= free

\* A process serves no block twice and none after a higher one, whatever a
\* lagging node answers and however long a round keeps the feed parked: every
\* block received is higher than the last, and nothing else moves back but the
\* end of the process (web3.go:44).
BlocksRise ==
    [][/\ ReceiveBlock => seen' > seen
       /\ seen' # seen => seen' > seen \/ pc' = "down"]_vars

\* The trade at hand, seen as the arbitrage the README promises.
StageOf(t) ==
    IF t \in orphan \cup forgotten THEN "dropped"
    ELSE IF t \in failed THEN "failed"
    ELSE IF Booked(t) THEN "booked"
    ELSE CASE tx[t].state = "unsent" -> "none"
           [] tx[t].state = "pending" -> "bid"
           [] tx[t].state = "filled" -> "won"
           [] OTHER -> "missed"

A == INSTANCE Arbitrage WITH
        Trade <- TxId,
        MaxBought <- Funds + Reserve,
        stage <- [t \in TxId |-> StageOf(t)],
        bought <- [t \in TxId |-> tx[t].got],
        history <- {[trade |-> r.tx, bought |-> r.got, sold |-> r.sold] : r \in rows}

\* The bot implements the arbitrage: one trade at a time, bought, then sold,
\* then written, each once; a dropped trade is never picked up again.
IsArbitrage == A!Spec

\* README.md:46: the bot tries to fill every current auction when a new block
\* is listened to.  Blocks may be skipped, but a later one must be served.
EveryBlockServed == \A h \in 1 .. MaxBlock : (head >= h) ~> (seen >= h)

\* An order the exchange never takes: too small, or more than the balance.
Unsellable == hpc # "idle" /\ ~(H!Placeable /\ H!Covered)

\* A filled bid reaches the history, unless it is dropped or its collateral
\* cannot be ordered at all.
EveryFillBooked ==
    \A t \in TxId :
        F!Filled(t) ~> (Booked(t) \/ t \in orphan \cup forgotten \/ Unsellable)

\* README.md:56: the bid history is recorded in the sqlite file.
EveryFillRecorded ==
    pc = "wait" => \A t \in TxId : F!Filled(t) => Booked(t)

-----------------------------------------------------------------------------
(* The inductive invariant behind the safety properties *)

\* Amounts and blocks stay within what there was to begin with.
Bounded ==
    /\ \A a \in Auction : left[a] <= MaxLeft
    /\ free + held = Funds + Reserve
    /\ head <= MaxBlock /\ newBlockNum <= head

\* Calls are made only inside a try, the hedge only of the bid just won.
CallsNested ==
    /\ pc \in {"size", "judge", "bid", "hedge"} => cur \in Auction
    /\ fpc # "idle" <=> pc \in {"bid", "hedge"}
    /\ hpc # "idle" <=> pc = "hedge"
    /\ outcome # "none" => fpc = "returned"
    /\ pc = "hedge" => outcome = "filled" /\ job = sent

\* What is handed over is later than what is being served.
FeedAhead ==
    /\ seen = blockNum
    /\ feed = "sending" => blockNum < newBlockNum

\* Only a filled bid has received anything.
OnlyFillsGot == \A t \in TxId : ~F!Filled(t) => tx[t].got = 0

\* What is written or counted as lost was sent, and ended as it is written.
BooksAreOfSent ==
    /\ \A t \in orphan \cup forgotten : tx[t].state # "unsent"
    /\ \A t \in failed : tx[t].state = "reverted"
    /\ \A r \in rows : F!Filled(r.tx)

\* The bid at hand is in no book yet and, until it is won, not hedged.
AtHandFresh ==
    pc \in {"bid", "hedge"} /\ sent \in TxId =>
        /\ sent \notin orphan \cup forgotten \cup failed
        /\ ~Booked(sent)
        /\ pc = "bid" => asked[sent] = 0

\* What is about to be bid is within the balance, unless a lost bid spends it.
SizedWithin ==
    orphan = {} =>
        /\ pc = "judge" => repay <= free
        /\ fpc \in {"nonce", "send"} => bid.repay <= free

IInv ==
    /\ TypeOK /\ F!IInv /\ H!IInv
    /\ Bounded
    /\ CallsNested
    /\ FeedAhead
    /\ OnlyFillsGot
    /\ BooksAreOfSent
    /\ AtHandFresh
    /\ SizedWithin
    /\ EveryBidAccountedFor
    /\ HedgedIsFilled
    /\ RowsAreTrue
    /\ BidIsCovered
=============================================================================
