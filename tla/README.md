# A TLA+ model of the DDEX liquidation bot

The bot under `src/` watches a Dutch auction contract on Ethereum, bids for the
collateral when it can be resold at a profit, waits for its bid to be mined,
sells the collateral on the DDEX exchange and writes the trade to a sqlite file.
This directory holds TLA+ modules of that program, the TLC configurations that
check them on small instances, and TLAPS proofs of the properties that matter
most.

    tlc -config MCFillTx.cfg MCFillTx      # any run: the cfg and its MC module
    tlapm FillTxProofs.tla                 # any proof module

## 1. Inventory of the system

One process runs two goroutines of its own, the GUI's event loop and a Go
routine for every queued GUI update. Around it are an Ethereum node, the miners,
the other bidders, the exchange and the operator.

| component | source | state it keeps | operations |
|---|---|---|---|
| Bidding on chain | `client/bidderClient.go`, `web3/web3.go`, `web3/ethrpc.go` | none between calls: the nonce is read from the node each time, the hash lives in a local | `FillAuction`, `GetFillAuctionRes`, `Send`, `EthGetTransactionCount`, `EthSendRawTransaction`, `EthGetTransactionReceipt` |
| Auction list | `client/bidderClient.go` | none | `GetCurrentAuctionIDs`, `GetSingleAuction`, `GetAllAuctions` |
| Hedging | `client/ddexClient.go` | a cached signature | `PromisedMarketSellAsset`, `MarketSellAsset`, `GetMarketPrice`, `CreateMarketOrder`, `buildUnsignedOrder`, `placeOrder`, `parseDdexOrderResp` |
| Quotes | `client/ddexClient.go` | assets and markets, read once at start-up | `NewDdexClient`, `QuerySellAssetReceiveAmount`, `GetAssetUSDPrice` |
| Inventory | `client/ddexClient.go` | none | `GetInventory`: one call for each asset, one for the locked amounts |
| Block feed | `web3/web3.go` | the last block handed over, an unbuffered channel | the goroutine of `NewBlockChannel` |
| Bot loop | `cli/bot.go` | the parameters | `Run`, `tryFillAuction`, `updatePnlView` |
| History | `utils/sqliteClient.go` | the table `auctions` | `InitDb`, `InsertAuctionRes`, `InsertFailedBid`, `QueryPosition` |
| GUI | `cli/cmdui.go` | four views, `DefaultGui` | `StartGui`, `Update...View`, the log hook, `quit` |
| Start-up | `main.go` | `config.json`, the environment | `setEnv`, `checkEnv`, `loadEnv`, `startBot` |
| Decimals | `utils/general.go`, `utils/converter.go` | none | `SetDecimal`, `SetPrecision`, conversions |
| HTTP, keys, types | `utils/http.go`, `utils/crypto.go`, `web3/types.go`, ... | none | requests, signing, encoding |

How they interact: the feed's goroutine hands block numbers to `Run` over the
unbuffered channel. `Run` calls everything else, in sequence and without a
timeout of its own: one round lists the auctions, reads each by a call of its
own, and tries each in turn. A try reads the inventory, the oracle and the order
book, then bids, then waits for the receipt, then hedges until the exchange
says yes, then inserts a row. Nothing about a try under way is persisted.

What makes it hard:

* **Lost replies.** `eth_sendRawTransaction` and the order POST take effect
  before their reply arrives; both callers treat a lost reply as "it did not
  happen". The first then forgets the bid, the second sells again.
* **Unbounded loops in the only goroutine.** The receipt loop
  (`bidderClient.go:87`) and the hedge loop (`ddexClient.go:356`) have one exit
  each. Whatever keeps them from it stops the whole bot.
* **Nonces.** Each bid reads the account's nonce at "latest", so a forgotten bid
  still pending shares its nonce with the next one.
* **Stale reads.** Auctions, balance and order book are read at different
  moments, minutes before they matter when an earlier bid of the round waits. The
  inventory itself is torn: a call for each asset, then one for what is locked,
  while matches settle (`ddexClient.go:437`).
* **What is read once.** Markets and assets are read when the process starts; an
  auction in a market listed later panics (`bidderClient.go:153`,
  `ddexClient.go:512`).
* **Updates in flight.** The bot starts before the terminal has its views
  (`main.go:90`), and each update reaches gocui's main loop by a goroutine of its
  own, in any order; the list of auctions is cleared outside that loop.
* **Cut digits.** `SetPrecision` cuts the text of a price: it counts a leading zero
  and loses the magnitude of digits before the point (`general.go:17`). The amount of
  an order is cut too, so some of what was won is never sold (`ddexClient.go:280`).
* **A file that is edited.** config.json is read, completed at prompts and written
  back without truncation, while the operator edits it (`main.go:115-161`).
* **Kills.** Ctrl-C, a signal or the panic of a division by zero
  (`ddexClient.go:338`) ends the process between any two steps.
* **Lagging nodes.** The node behind the URL can answer with an older block.

What makes each component correct: a bid's fate is reported as the chain decided
it, and no bid is let go of silently (bidding); the collateral is sold once
(hedging); the quote is what the book really pays (quotes); block numbers rise
and a later block is always served (feed); the history agrees with the chain,
the exchange and the wallet (history, bot loop).

The full list of hazards, each at its line and with the properties that cover it
or the reason why none does, is under "hazards" in `PROJECT.json`.

## 2. The modules

    EthChain      the contract, the balances, the bidder's transactions (external)
      FillTx        one bid: nonce, send, reply, receipt loop       -> FillTxProofs
    Hedge         the sell-until-it-works loop on the exchange      -> HedgeProofs
    BlockFeed     the polling goroutine and its channel
    BidderBot     Run and tryFillAuction, composed of FillTx, Hedge, BlockFeed
                                                                -> BotProofs
      Arbitrage     the abstract specification BidderBot implements
                                                                -> BotRefinement
    Inventory     GetInventory call by call, against a wallet that moves
      Quote         sizing, pricing, judging and hedging a bid, with its numbers
                                                                -> QuoteProofs
    Listing       listing, reading and naming the market of auctions
    Gui           the terminal: views, updates on their way, the main loop
      Round         Run over its processes, composed of Listing and Gui
                                                                -> RoundProofs
    Startup       config.json and the creation of the table, over processes
                                                                -> StartupProofs
    SumTheorems   sums over finite sets, for BotProofs and QuoteProofs
    MC*           the modules TLC runs on

**EthChain** is the world of the bidding client. `tx` holds, for each hash, a
record with the transaction's state ("unsent", "pending", "filled", "reverted"),
auction, nonce, repay and what it received. `mined` is the account's nonce at
"latest". A node accepts a transaction whose nonce is not used up. The
transaction with the next nonce can be mined at any time (the bot is taken to be
the only one that sends from its account), and then it wins what
the auction still has (`MineFill`) or fails (`MineRevert`: the contract or the
gas limit may refuse for reasons the bot cannot see, so failing is always
possible). Amounts are whole lots and one lot of debt buys one lot of
collateral: prices do not matter to any property of these modules, quantities do.

**FillTx** splits `FillAuction` and `GetFillAuctionRes` wherever the node can
answer late or not at all. `fpc` follows the call: "nonce" (before
`EthGetTransactionCount`), "send", "ack" (the transaction is out, its hash is
not back), "receipt" (the polling loop), "returned". `AckLost` is the hazard of
`ethrpc.go:100-120`: the node took the transaction and the caller gets an error.
`Die` is a kill. The variables `orphan` and `reported` are observers: which
transactions the bot let go of without a receipt, and which it saw a receipt of.

**Hedge** is `PromisedMarketSellAsset`. `hpc` follows one turn of its loop:
"price", "build", "place", "reply", and "sleep" after any error. The exchange
refuses an order below `MinOrderSize` or above the balance, and fills a market
order by any amount up to its size, zero included (the price limit). `ReplyLost`
is the order that was executed and whose reply was an error. A buy that filled
nothing has average price zero and the code divides by it: "panicked". `sold`,
`asked` and `blind` are observers: what the exchange sold for each trade, what
was asked, and how many replies were lost.

**BlockFeed** is the goroutine of `NewBlockChannel`. The node answers with any
block up to `Lag` behind the head. `feed = "sending"` is the goroutine parked in
the channel send, `HandOver` moves both sides of the unbuffered channel.

**BidderBot** is the program. `pc` follows the `Run` goroutine: "wait" (on the
channel), "list", "scan" (reading the auctions, then picking the next one),
"size", "judge", "bid", "hedge", and "down" when there is no process. `snap` is
what each auction had left when it was read, the value `tryFillAuction` later
uses, while `left` moves on. `FillTx` and `Hedge` are instantiated and share
their wallet variables `free` and `held`. A bid's profitability depends on
prices, which are abstract here: any bid above the minimum value may be placed or
passed over (`Quote` decides with numbers). `rows` and `failed` are the sqlite
table: rows of trades, and rows of failed bids, which are all zeros. An insert
may fail unseen, since its result is dropped. `forgotten` is an observer: bids
whose result was known and never written. `Stop`, `Panic` and `Restart` end and
start the process, and lose everything but the table.

**Arbitrage** is what the owner is promised: trades are made one at a time, a
trade buys, sells and is written once with what it bought and at most what it
sold; a trade may be dropped, and a dropped trade is never sold or written.
`BidderBot` maps each transaction to a trade: `StageOf` reads the stage off the
books first (let go of, a failed row, a row) and off the chain for a bid that is in
none of them. The run `bot` checks the abstract `Spec` as a PROPERTY and
`BotRefinement` proves it.

**Inventory** is `GetInventory`. `ReadBalance` asks for the balance of one asset, in
the order of a Go map (any), `ReadLocks` for everything that is locked, after
all balances; any call can fail and then nothing is returned. Between the calls
the wallet moves: an order of the account is matched (`Lock`), the match settles on
chain (`Settle`), the owner deposits or withdraws. `departed` observes what left
a balance since it was asked, and the free balance since the locks were.

**Quote** is `tryFillAuction` with its numbers, composed with `Inventory`: cutting
the bid to the free balance (and the division by a zero debt, `bot.go:68`), the
minimum USD value, the walk over one side of the book, the profit test, and the
order of the hedge, its price limit and its amount. The bid is taken to be filled in
full. The walk picks the side of the book by comparing the collateral with the
market's quote (`side`, `ddexClient.go:512`), the order picks its own by comparing it
with the base (`orderSide`, line 312). All divisions are exact but that of the
cut, which rounds to the nearest `Unit` (a sixteenth decimal in the code) and so may
overstate the collateral by less than one. The amount of the order is cut
to `AmountLot`, the last decimal the market takes. Prices are counted in ticks of
10^-`TickDecimals`; the limit has three more decimals, so a percentage of a mid
price is exact before `SetPrecision` and `SetDecimal` cut it. The wallet keeps
moving until the hedge; the book stays as it was quoted. Auctions are those the
contract has: when the debt is paid the collateral left goes back to the borrower, so
an auction without debt has no collateral either (`QuoteAssumption`). The bot
relies on that; it has no check of its own.

**Listing** is what a round lists. `GetCurrentAuctionIDs` takes the open auctions
and `Fetch` reads them one by one; one that cannot be read is left out, one of an
unknown asset panics. `TradingPair` names the market of an auction from the
markets read at the start (`known`). `Named` are the markets that MARKETS names,
`Monitored` is the search for a market's name as a part of that text: symbols are
sequences of letters, so that ETH-DAI is found in TETH-DAI.
`listed` is the exchange, which adds markets at any moment.

**Gui** is the terminal. `gui` follows the main goroutine: "none", "made" (without
views), "views", "loop". `pending` is the bag of updates on their way to the
main loop, which `Apply` takes from in any order. An update that meets no
`DefaultGui` dooms the process: a goroutine will panic. `latest` and `raced` are
observers: what a view was last updated to, and whether two updates of it were on
their way at once.

**Round** is `Run` over one process after another: `pc` is "pnl", "inventory",
"wait", "list", "fetch", "try" or "down". A try is one step (made, refrained from,
or panicking in the quote), since `BidderBot` and `Quote` have it in full. Every
panic ends the process with its terminal and auctions; `Restart` reads the markets
again. `quit` and kills are `Stop` of `BidderBot`, not repeated here.

**Startup** is `main` up to the bot, over one process after another. `pc` is
"load" (`loadEnv`), "ask" (the prompts of `checkEnv`), "write" (between opening
config.json and writing it), "stat", "create", "table" (`InitDb`, split where the
sqlite driver makes the file before the statement runs), "run" and "down". A text
is its length and the parameters a parser finds in it: `Length` gives the length
of what the bot writes for some values. `Edit` leaves any text in place of the file, at
any moment: other values, keys left out or with an empty value, up to `MaxExtra` of
text the bot does not write itself, up to `MaxBroken` of text that is not JSON, or no
file. Opening neither cuts the file nor is its failure to parse looked at:
`Overwrite` leaves the end of a longer text behind, which no longer parses, and
writes to a removed file are lost. `End` is a kill or an error main ends with.
`written`, `edited`, `removed`, `outgrown` and `interrupted` are observers:
`removed` are the parameters the last edit left without a value, `outgrown` says
that it came between a process's reading and writing, or left a text longer than some
answers at the prompts would make the next one (`Covered`).

## 3. The runs

| run | question | bounds |
|---|---|---|
| `filltx` | what can happen to bids: who is filled unseen, which bids compete, when is the receipt loop endless; is `IInv` an invariant | 3 hashes, 1 auction of up to 2 lots, 1 lost reply, 1 kill |
| `hedge` | how much the loop oversells, what it reports, when it ends | 2 trades, lots of 2, wallet of 4, 1 lost reply per trade |
| `hedge_double_sale` | finding: one lost reply sells the collateral twice | same |
| `bot` | books against chain, exchange and wallet, the refinement of `Arbitrage`; is `IInv` an invariant | 2 auctions (one hedged by selling, one by buying), 2 hashes, 2 blocks, a lost transaction reply, a lost order reply per trade, 1 stop, panics, failing inserts, hashes symmetric |
| `bot_live` | blocks are served and fills are booked under fairness | 2 auctions (one not monitored), 2 hashes, 3 blocks, failing inserts and panics, no lost replies, no stop |
| `bot_starved` | finding: an unsellable remainder stops the bot | least order size 2, auction of 2 shared with another bidder |
| `bot_unrecorded` | finding: a filled bid missing from the history | 1 lost reply |
| `quote` | is a bid covered by a torn inventory; quote and decision against an exhaustive search over all ways to sell; where the hedge sells; is `IInv` an invariant | every book of up to 3 levels from 4 prices and 2 sizes, both sides, 5 auctions, 4 wallets of 2 assets, 2 moves of 24, ticks of 0.1, 2 digits of a price, amounts in lots of 24 |
| `quote_slippage` | finding: bids beyond MAX_SLIPPAGE | same |
| `startup` | when the operator is asked again, what the file says, when the table is missing; is `IInv` an invariant | 2 parameters of 2 lengths, edits with 2 more than the bot writes, broken texts of up to 4, 3 processes, 1 row |
| `round` | what is tried, what the screen shows, does the bot get over what killed it; is `IInv` an invariant | 3 markets (one listed from the beginning), 2 auctions, MARKETS of 2 entries, 2 figures, 2 updates on their way |
| `startup_asks_again` | finding: an edited configuration is lost at the second start | same, with one value for each parameter |

Why these bounds are enough to see the interesting cases. A nonce conflict needs
two transactions, and the consequence for a third (waiting behind the winner)
needs three: `filltx` has three. An auction of two lots is the least that can be
filled in part. Amounts of three against lots of two leave dust. One lost reply
per trade shows the double sale and the bound of it; the proof covers any number.
Two auctions make the second one's snapshot stale while the first is bid for. Two
blocks suffice for a round after a restart; the liveness run has three, so that
a block can be skipped while the bot is busy. Books of three levels distinguish
the first, a middle and the last level of the walk. `MarginPct` is 50 so that the
four prices fall below, on and above the threshold. Three processes are the
least for the start-up finding: one writes, one overwrites an edit, one asks.
Two wallet moves are a match
before and a settlement after the reading of a balance, the case that tears the
inventory; wallets have nothing, all or part locked. The mid prices of books from
prices 2 to 6 in ticks of 0.1, less or plus 20 %, have more digits than the two that
the market keeps, so the cut is felt on both sides; in this run no limit has more
digits before the point than the market keeps (see section 6). Levels of 12 and 24,
a lot of 24 and collaterals of 24, 36 and 72 make the dust fall inside a level, on its
edge, or nowhere; an order can be cut to nothing. In `startup` broken texts of up to 4
are shorter than, as long as and longer than some text the bot writes. The
MARKETS of `round` name TETH-DAI, of which the market ETH-DAI is a part, and ETH-USDT.
Both auctions are of ETH-USDT; one's debt is the base of the market and one's
collateral is. Both are foreign until ETH is listed; with only ETH-DAI known, the
one named in the wrong order is passed over, or panics in the quote. Two
updates on their way are the least that can be applied out of order.
Bounds named `Max...` occur only in guards.

Deadlock checking is off where the system may rest: all blocks served, all hashes
used, a bid superseded for ever, a quote decided, or the last process ended.

What the properties say:

* `LiveBidsCompete`, `DeadWaitNeedsOrphan` (FillTx): bids in the pool, whatever
  process sent them, carry a nonce that is next or already used, so at most one
  can be mined next; the receipt loop is endless only when a bid the bot lost
  sight of was mined with the same nonce. `CallReturns` is the other half: under
  fairness the loop ends unless that happened.
* `NoSilentFill`, `ReportIsTrue` (FillTx): a filled bid is reported, awaited, or
  one of those let go of; and the report is what the chain says of that very bid.
* `OversellBounded`, `ReportExact`, `HedgeReturns` (Hedge): a trade is sold at
  most once more than its replies were lost; with none lost, what is reported is
  what was sold; the loop ends for an order that the exchange takes.
* `EveryBidAccountedFor`, `HedgedIsFilled`, `RowsAreTrue`,
  `PositionMatchesWallet`, `BidIsCovered` (BidderBot): every mined bid is in the
  table, at hand, or one of the two named kinds of loss; only filled bids are
  hedged, for what the receipt gave; rows are never wrong; with nothing lost the
  position summed from the table and what the trade at hand has gained so far are
  exactly what the wallet gained, at every step and not only between tries; a bid
  the bot waits for is covered by the balance.
* `BlocksRise`, `EveryBlockServed`, `EveryFillBooked` (BidderBot): each block a
  process receives is higher than the last it received; a later block is always served; a fill reaches
  the table unless dropped or unsellable.
* `BidCovered` (Quote): a bid counts on no more than the free balance of its asset,
  but for what departed while the inventory was read or since. Asking for the
  balances first and the locks after is what makes it so.
* `HedgeWithinSlippage`, `HedgesWhatWasQuoted` (Quote): the hedge sells at no level
  beyond `MAX_SLIPPAGE` from the mid price, by more than the digit the market cuts;
  and at an unchanged book whose levels are within it, all that was won is sold but for
  the dust (less than the last decimal of an amount), at an average price no worse
  than quoted: the dust is taken off the worst level.
* `NamedMarketsTried`, `ScreenIsCurrent`, `Recovers` (Round): an auction of a market
  that MARKETS names is never passed over for the order its name is put together
  in; a view with nothing on its way shows what it was last updated to, unless
  two updates of it raced, and a race is over with the next update that finds none
  on its way; and a process killed by what it did not know is followed
  by one that knows.
* `QuoteIsBest`, `BidsWhenWorthwhile` (Quote): the walk from the top of the book
  is as good as any way of selling; the bot bids exactly when a bid that is
  affordable, large enough and profitable exists.
* `AsksWithReason`, `FileSaysParameters`, `TableUnlessInterrupted` (Startup): what
  was written once is not asked for again, but for a parameter that the last edit left
  without a value, and unless that edit left text the next write does not cover; a file
  that parses says what the process runs with; a bot without a table is always
  the work of a process that ended inside `InitDb`, and then stays without one.

Each property of a passing run has a mutant, a variant of a modelled operation
with a plausible mistake (named "Faulty" in its comment), that violates it.

**Fairness.** `FillTx` and `BidderBot` assume weak fairness of the code's steps
(both goroutines are scheduled), of mining (miners take the account's next
transaction; gas prices are not modelled), of new blocks and of polling (the
loop of `NewBlockChannel` never stops asking). A dead process is restarted. The
hedge calls an exchange that fails at will; strong fairness of its success says
that a call repeated for ever succeeds in the end. It is an assumption about the
exchange, not the code, and it says nothing of an order the exchange refuses:
that step is never enabled, which is what `bot_starved` shows. Nothing is assumed
of other bidders, kills, lost replies or failing inserts.

`Round` assumes weak fairness of `Run`, the main goroutine, gocui's loop and a
doomed goroutine (Go runs them all), of new blocks and of a restart. The events of
the main loop are weakly fair together, not one by one: which update is applied next
is gocui's choice. `Recovers` adds its own premise, `Settled`: the
terminal is there before the first round lists auctions and the exchange lists every
asset that is auctioned. The code guarantees neither, and without either a process
may die in every round; what the property says is that nothing else keeps the bot
from going on.

## 4. Findings

1. `hedge_double_sale`: after a lost reply to an executed order the same
   collateral is sold again, from the bidder's own reserve (`ddexClient.go:358`).
2. `bot_starved`: collateral below the market's least order size can never be
   ordered, the loop retries for ever and no later block is served
   (`ddexClient.go:356`; `MinOrderSize` is parsed and never used).
3. `bot_unrecorded`: when the reply to `eth_sendRawTransaction` is lost, a filled
   bid is neither hedged nor recorded (`bot.go:96`).
4. `quote_slippage`: the slippage of a bid is never compared with `MAX_SLIPPAGE`;
   the parameter only limits the price of the later sale (`bot.go:88`, `118`).
5. `startup_asks_again`: an edit that gives every parameter a value and adds text of
   its own to config.json survives one start only; that start writes over it without
   truncation, and the one after it reads nothing and asks for everything
   (`main.go:157`).

One more disagreement needs no run to be seen. `README.md:70` says that MARKETS are the
markets of interest, but `bot.go:46` searches that text for the name of the auction's
market, so naming TETH-DAI (the default for ropsten, `main.go:142`) has the bot bid in
auctions of ETH-DAI too. `Monitored` has the match as it is in the code;
`NamedMarketsTried` is about the markets that are named and requires nothing of others.

## 5. What is proved

Every safety property of every passing run, the action property `BlocksRise` and
the refinement of `Arbitrage` are theorems of their specifications, for all values
of the constants that meet the named assumptions (`ChainAssumption`,
`FillTxAssumption`, `HedgeAssumption`, `BotAssumption`,
`StartupAssumption`, `InventoryAssumption`, `QuoteAssumption`, `ListingAssumption`,
`GuiAssumption`): bounds are natural numbers, "no auction" is not an auction, a
text has a length, prices divide the unit of amounts, there are finitely many
auctions in a list, and so on. No assumption is made of the number of auctions,
hashes, lots, blocks, lost replies, kills, retries, parameters, processes, markets,
levels of a book or digits of a price. Each proof has an inductive invariant
`IInv`, stated in the module it is about and checked by TLC in that module's run.

| module | what is proved |
|---|---|
| `FillTxProofs` | `TypeOK`, `LiveBidsCompete`, `NoSilentFill`, `DeadWaitNeedsOrphan`, `ReportIsTrue` |
| `HedgeProofs` | `TypeOK`, `OversellBounded`, `ReportExact` |
| `BotProofs` | `TypeOK`, `EveryBidAccountedFor`, `HedgedIsFilled`, `RowsAreTrue`, `BidIsCovered`, `PositionMatchesWallet`, `BlocksRise` |
| `BotRefinement` | `IsArbitrage` |
| `QuoteProofs` | `TypeOK`, `BidCovered`, `QuoteIsBest`, `BidsWhenWorthwhile`, `HedgeWithinSlippage`, `HedgesWhatWasQuoted` |
| `RoundProofs` | `TypeOK`, `NamedMarketsTried`, `ScreenIsCurrent` |
| `StartupProofs` | `TypeOK`, `AsksWithReason`, `FileSaysParameters`, `TableUnlessInterrupted` |
| `SumTheorems` | sums over finite sets (`SumFunctionOnSet` of the community modules) |

*FillTx.* None of the properties is inductive alone. `LiveBidsCompete` is about
bids in the pool and is threatened by the next send, so `NonceRead` says that the
nonce held by a call was next when it was read. `DeadWaitNeedsOrphan` needs to
know who used a nonce: `NoncesUsed` says every nonce below `mined` was used by a
mined bid, `AllWatched` that every bid sent is reported, let go of or awaited, and
`AwaitedLast` that reported bids have lower nonces than the awaited one; the
culprit then can only be an orphan. `InitIInv` and one lemma for each group of
actions show the conjunction of these inductive.

*Hedge.* `SoldByLost` says that while an order is being prepared, only orders
with lost replies have sold anything, each no more than was asked, and after an
order only those and that order's fill; it implies `OversellBounded` and, with
`SoldIsFill`, `ReportExact`. `SoldIsFill` says that, with no reply lost, a trade has
sold nothing until its order is filled and exactly that fill afterwards.
`LotsCut` supplies that an order never exceeds the amount asked.

*BidderBot.* The bot runs the steps of `FillTx` and `Hedge` as they are, so
`BotProofs` instantiates their proof modules and takes what a call keeps from the
lemmas there (`FillKept`, `HedgeKept`); those lemmas are stated for single steps of the
call and not for the specification of the call alone, because here trades are sold
and auctions filled around it. `IInv` adds what ties the parts together.
`CallsNested`: a call is under way only inside a try, and the hedge is that of the
bid just filled. `AtHandFresh`: the bid at hand is in no book yet, and not asked
to be sold before it is won; without it the row about to be written could be a
second one for its bid. `BooksAreOfSent` and `OnlyFillsGot`: what is in a book was
sent and ended as the book says. `SizedWithin`: between the reading of the balance
and the sending of the bid nothing spends the balance, if no bid was let go of: the
argument for `BidIsCovered`, since only bids in the pool spend it and
`PendingWatched` shows that a bid in the pool is awaited or let go of. `FeedAhead`:
what is parked in the channel is later than what is served, hence `BlocksRise`.

*The position.* `PositionMatchesWallet` is proved as a second invariant on top of
`IInv`. The table is a set of rows that grows, so the proof needs that the sum over
a finite set with one more row is larger by that row (`RowAdds`). The library
gives such facts through operators the provers cannot instantiate; `SumTheorems`
proves them from the definition of the fold instead. Its induction is on sets of
subsets: proper inclusion of the subsets of a finite set is well-founded, so a
family of subsets that is not all of them has a least subset outside it
(`LeastOutside`). In the induction step a mined bid moves `Unbooked` with the
wallet, an order moves both back, and the row moves the difference into the table.

*The refinement.* Under the mapping of `BidderBot` each step is a step of
`Arbitrage` or leaves it unchanged: sending the bid is `Bid`; mining it is `Win`
or `Miss`, or `WinUnseen` when it was let go of before; a lost acknowledgement, the
end of the process and a failed insert are `Drop`; a failed row is `BookMissed`,
each order of the hedge that sells something `Sell`, the row `Book`. `HandIsSent`
says that at most one trade is in hand; `StageAtHand` gives its stage.

*Quote.* `BidCovered` is about a bid, long after its inventory was read.
`TotalUpToDepartures` says it of each balance while balances are asked for,
`FreeUpToDepartures` of the free amounts once the locks were taken off, and
`SizedByInventory` that a try past its sizing stays within what it read.
`DepartingKeepsReading` states once what a move of the wallet must do to keep the
two; `WalletMoved` shows it of each move, `CallStep` of the calls.

The walk is described by `WalkIsExact`: the levels behind it are taken whole
(`Taken`), and what they take and are paid is what is priced so far. That the result
is the best of all ways to sell (`QuoteIsBest`) is an exchange argument without an
exchange: `Advantage` compares, level by level, what the walk and another way take there
with the same amounts sold at the last level's price; `SumsCompare` adds that up,
and `SamePrice` says that at one price the two ways earn the same. The divisions of a
buy are exact (`WorthType`). `OneAffordable` says that the balance and the auction leave
one bid to choose from, so `SizedAtRate`, `LargeEnough` and the best quote give
`BidsWhenWorthwhile` in both directions.

For `HedgesWhatWasQuoted` the walk and the order must meet the same levels: `SameSide`
and `SideKept` say that their two tests agree in every market of the two assets.
`OrderFills` gives what the order takes of each level, everything up to one at which it
ends (`LastLevelOf`), so that it sells its amount (`FillTotal`), and `OrderCut` says
how much less than the collateral that is. What it is paid for that is at least its
share of the quote, because what it leaves out are the last, worst levels
(`InProportion`, `AverageFalls`, `OrderEarns`).

The two cuts of the price limit are divisions by powers of ten, one of which divides the
other (`UnitsNest`, from `TenAdds`): so the second cut changes nothing or is the only one
that counts (`CutFiner`, `CutCoarser`), and the limit is less than one unit of the last
digit kept below the exact one (`LimitCut`). `Ten` is a recursive function; that it
is what its equation says, and that every number has digits before the point (the
CHOOSE of `IntDigits`), are inductions made with sets (`LeastOut`), since induction
over a predicate is out of the prover's reach.

*Round.* `ScreenIsCurrent` speaks of views with nothing on their way, and updates
are applied in any order. `OneOnItsWay` is what makes it inductive: a view whose
updates have not raced has at most one on its way, and that one will make the view
show what it was last updated to. `ViewsFit` puts both as a statement about one
view, which each update and each application either keeps or is about.
`NamedMarketsTried` follows from the markets' names: `TradingPair` tries one order
and falls back on the other, a known market has one of the two, and a name is found in
a text that has it as an entry (`NameInItself`).

*Startup.* `AsksWithReason` is about prompts, which come after the file was read
and maybe edited. `FileSolid` says of a file not outgrown that the next write covers
its text, that once written it lacks only what was removed, and that a process between
reading and writing holds what it says: so that the write leaves a text that parses
and gives every parameter its value. `Covered` speaks of all answers the operator can
give, since the length of what is written depends on them. `Answered`
says that past the prompts every parameter has a value. `DbStages` ties the two
steps of `InitDb` to the state of the sqlite file and gives
`TableUnlessInterrupted`.

Model-checked only: all liveness (`CallReturns`, `HedgeReturns`, `EveryBlockServed`,
`EveryFillBooked`, `Recovers`), since fairness and ENABLED are out of the prover's
reach, and the properties of the finding runs, which are violated.

## 6. What is not modelled, and why

* Prices in `BidderBot`, gas prices and gas costs: one lot of debt buys one lot
  of collateral. Only `Quote` has numbers.
* Calls that never answer: `http.DefaultClient` has no timeout and such a call
  stops the bot outright.
* Chain reorganisations and matches that fail to settle: the code takes the first
  receipt and the first reply as final and never looks again.
* Encoding, signing, formatting: pure functions without state of interest.
* `CreateLimitOrder`, `CancelOrder`, `CancelAllPendingOrders`, `GetOrder`: never
  called.
* Parameters that come from the surrounding environment instead of config.json,
  and a JSON text that parses in part (a number where a string belongs).
* The contract's ratio and price of an auction (`bidderClient.go:157-171`): `Quote`
  starts from debt and collateral as they were read.
* A price limit with more digits before the point than its market keeps, as of a buy
  just below a power of ten: `SetPrecision` then loses the magnitude. It is modelled,
  and `FitsPrecision` keeps it out of the two properties of the hedge, which would not
  hold there.
* In `BidderBot` the free balance is one read; only `Quote` has the torn one.
* Transactions of the account that the bot did not send: another user of the same key
  would use up nonces, and a receipt loop could be endless without any lost bid.
* The debt and gas columns of the table: at one lot of debt for one of collateral the
  row of a trade is what it received and sold. The second half of
  `PositionMatchesWallet` follows from its first, as the two balances add up to the
  same at all times.
* A book that moves between quote and hedge: the properties of the hedge are about
  the book that was quoted.
* The loss of an edit that comes while a process waits at its prompts: the process
  writes over it, and the properties only say what can be left behind.
* The info view of log lines, the layout and the key bindings: no code reads them.
* `NETWORK`, and the conversions of `converter.go`: pure, and exact on the values
  the code gives them.

## 7. Plan

Done: all modules of section 2, and proofs of every safety property a passing run
checks, of `BlocksRise` and of the refinement of `Arbitrage`. Next, in order:

1. What `SetPrecision` gives for a limit with more digits than the market keeps, so
   that the properties of the hedge can be stated without `FitsPrecision`.
2. A bound on what the findings can cost, as invariants: what a lost acknowledgement
   leaves unhedged, and what the position is off by when replies were lost
   (`PositionMatchesWallet` without its premise).
3. An abstract specification of `Hedge` (sell once, report what was sold) that the
   loop implements when no reply is lost.
