------------------------------- MODULE FillTx -------------------------------
(***************************************************************************)
(* One bid on chain: BidderClient.FillAuction and GetFillAuctionRes        *)
(* (client/bidderClient.go), with the calls to the node split where the    *)
(* reply can be lost or the chain can move: the nonce is read, the signed  *)
(* transaction is sent, the hash comes back, the receipt is polled.  The   *)
(* bot alone sends transactions from its account: another sender's would   *)
(* use up nonces that no bid of the bot has.                               *)
(***************************************************************************)
EXTENDS EthChain

CONSTANTS
    NoTx,        \* no transaction hash is known
    MaxLostAcks, \* bound: replies to eth_sendRawTransaction that get lost
    MaxDeaths    \* bound: times the process is killed

ASSUME FillTxAssumption ==
    /\ NoTx \notin TxId
    /\ MaxLostAcks \in Nat
    /\ MaxDeaths \in Nat

VARIABLES
    fpc,      \* where the call is
    bid,      \* the auction and the repay of the call
    nonce,    \* the nonce read at "latest"
    sent,     \* the hash of the transaction sent
    outcome,  \* what the call reported
    \* Observed, not in the code:
    orphan,   \* transactions let go of without seeing their receipt
    reported, \* transactions whose receipt the bot has seen
    lostAcks, \* replies lost so far
    deaths    \* kills so far

observed == <<orphan, reported, lostAcks, deaths>>
fillVars == <<fpc, bid, nonce, sent, outcome, observed>>
vars == <<chainVars, fillVars>>

NoBid == [auction |-> NoAuction, repay |-> 0]

FillInit ==
    /\ fpc = "idle"
    /\ bid = NoBid
    /\ nonce = 0
    /\ sent = NoTx
    /\ outcome = "none"
    /\ orphan = {}
    /\ reported = {}
    /\ lostAcks = 0
    /\ deaths = 0

Init == ChainInit /\ FillInit

-----------------------------------------------------------------------------
\* The polling loop ends and reports o of the transaction it waited for.
Received(o) ==
    /\ fpc = "receipt"
    /\ fpc' = "returned"
    /\ outcome' = o
    /\ reported' = reported \cup {sent}
    /\ UNCHANGED <<chainVars, bid, nonce, sent, orphan, lostAcks, deaths>>

\* Reads the nonce n.
ReadNonce(n) ==
    /\ fpc = "nonce"
    /\ fpc' = "send"
    /\ nonce' = n
    /\ UNCHANGED <<chainVars, bid, sent, outcome, observed>>

\* Faulty variants of operations below; a property must tell each apart: the
\* nonce at "pending", a receipt without a block number, its status not looked
\* at, only status 0x1 taken for an end, and a loop that gives up.
GetNonceAtPending ==
    ReadNonce(mined + Cardinality({t \in TxId : Pending(t) /\ tx[t].nonce >= mined}))
GetReceiptUnmined == fpc = "receipt" /\ Received(tx[sent].state)
GetReceiptAnyStatus == fpc = "receipt" /\ IsMined(sent) /\ Received("filled")
GetReceiptFilledOnly == fpc = "receipt" /\ Filled(sent) /\ Received("filled")
GetReceiptGivesUp ==
    \/ fpc = "receipt" /\ IsMined(sent) /\ Received(tx[sent].state)
    \/ /\ fpc = "receipt"
       /\ fpc' = "returned"
       /\ sent' = NoTx
       /\ outcome' = "error"
       /\ UNCHANGED <<chainVars, bid, nonce, observed>>

FillAuction(a, r) ==
    /\ fpc = "idle"
    /\ fpc' = "nonce"
    /\ bid' = [auction |-> a, repay |-> r]
    /\ UNCHANGED <<chainVars, nonce, sent, outcome, observed>>

\* The call ends with an error and without a hash.
Fails(pc) ==
    /\ fpc = pc
    /\ fpc' = "returned"
    /\ outcome' = "error"

\* EthGetTransactionCount(bidderAddress, "latest").
GetNonce == ReadNonce(mined)

GetNonceFails ==
    /\ Fails("nonce")
    /\ UNCHANGED <<chainVars, bid, nonce, sent, observed>>

\* The node takes the transaction into its pool.
SendRaw(t) ==
    /\ fpc = "send"
    /\ Broadcast(t, bid.auction, bid.repay, nonce)
    /\ fpc' = "ack"
    /\ sent' = t
    /\ UNCHANGED <<left, free, held, mined>>
    /\ UNCHANGED <<bid, nonce, outcome, observed>>

\* The node refuses it (nonce too low, underpriced, already known) or is down.
SendRejected ==
    /\ Fails("send")
    /\ UNCHANGED <<chainVars, bid, nonce, sent, observed>>

\* The hash comes back: FillAuction returns, GetFillAuctionRes starts.
Ack ==
    /\ fpc = "ack"
    /\ fpc' = "receipt"
    /\ UNCHANGED <<chainVars, bid, nonce, sent, outcome, observed>>

\* The reply is lost: the transaction is out, FillAuction returns an error.
AckLost ==
    /\ lostAcks < MaxLostAcks
    /\ lostAcks' = lostAcks + 1
    /\ Fails("ack")
    /\ orphan' = orphan \cup {sent}
    /\ sent' = NoTx
    /\ UNCHANGED <<chainVars, bid, nonce, reported, deaths>>

\* The one way out of the polling loop: a receipt with a block number.
GetReceipt ==
    /\ fpc = "receipt"
    /\ IsMined(sent)
    /\ Received(tx[sent].state)

\* The caller has used the result.
Forget ==
    /\ fpc' = "idle"
    /\ bid' = NoBid
    /\ nonce' = 0
    /\ sent' = NoTx
    /\ outcome' = "none"

Return ==
    /\ fpc = "returned"
    /\ Forget
    /\ UNCHANGED <<chainVars, observed>>

\* The transaction that is out and whose receipt has not been seen.
Awaited == IF fpc \in {"ack", "receipt"} THEN {sent} ELSE {}

\* The process ends, maybe in the middle of the call.
Killed ==
    /\ Forget
    /\ orphan' = orphan \cup Awaited
    /\ UNCHANGED <<chainVars, reported, lostAcks>>

Die ==
    /\ fpc # "idle"
    /\ deaths < MaxDeaths
    /\ deaths' = deaths + 1
    /\ Killed

-----------------------------------------------------------------------------
(* The chain goes on meanwhile *)

MineTx(t) ==
    /\ MineFill(t) \/ MineRevert(t)
    /\ UNCHANGED fillVars

OtherBidder(a, k) ==
    /\ OthersFill(a, k)
    /\ UNCHANGED fillVars

\* The bidder's orders on the exchange turn collateral into debt asset.
Trade(k) ==
    /\ k \in 1 .. held
    /\ held' = held - k
    /\ free' = free + k
    /\ UNCHANGED <<left, tx, mined, fillVars>>

Call == \E a \in Auction, r \in 1 .. free : FillAuction(a, r)

CallStep ==
    \/ GetNonce \/ GetNonceFails
    \/ \E t \in TxId : SendRaw(t)
    \/ SendRejected
    \/ Ack \/ AckLost
    \/ GetReceipt
    \/ Return

Next ==
    \/ Call
    \/ CallStep
    \/ Die
    \/ \E t \in TxId : MineTx(t)
    \/ \E a \in Auction, k \in 1 .. MaxLeft : OtherBidder(a, k)
    \/ \E k \in 1 .. held : Trade(k)

Spec == Init /\ [][Next]_vars

\* The goroutine is scheduled, and miners take the account's next transaction.
FairSpec ==
    /\ Spec
    /\ WF_vars(CallStep)
    /\ WF_vars(\E t \in TxId : MineTx(t))

-----------------------------------------------------------------------------
(* Properties *)

\* Every variable has its type; the balances never go below zero.
TypeOK ==
    /\ ChainTypeOK
    /\ fpc \in {"idle", "nonce", "send", "ack", "receipt", "returned"}
    /\ bid \in [auction : Auction \cup {NoAuction}, repay : Nat]
    /\ nonce \in Nat
    /\ sent \in TxId \cup {NoTx}
    /\ outcome \in {"none", "error", "filled", "reverted"}
    /\ orphan \subseteq TxId
    /\ reported \subseteq TxId
    /\ lostAcks \in Nat
    /\ deaths \in Nat

\* Bids the chain may still mine all carry the account's next nonce, lost
\* ones and ones of an earlier process included: whatever the bot has let go
\* of, at most one of its bids can ever be mined next (bidderClient.go:65).
LiveBidsCompete ==
    \A t \in TxId : Pending(t) => tx[t].nonce <= mined

\* A bid that was filled is one whose receipt the bot has seen, one it is
\* waiting for, or one it lost the hash of: no path of the code returns from
\* a bid it knows the hash of without its receipt (bidderClient.go:87-94).
NoSilentFill ==
    \A t \in TxId : Filled(t) => t \in reported \cup orphan \cup Awaited

\* The receipt loop has no exit: it waits for ever exactly when another bid
\* was mined with the nonce of the awaited one.  That other bid is always one
\* whose reply was lost or that an earlier process sent (bidderClient.go:78).
Superseded == fpc \in {"ack", "receipt"} /\ Pending(sent) /\ tx[sent].nonce < mined

DeadWaitNeedsOrphan ==
    Superseded => \E u \in orphan : IsMined(u) /\ tx[u].nonce = tx[sent].nonce

\* What a call reports is what the chain says of the very transaction it
\* sent; an error is reported only when no receipt can be claimed.
ReportIsTrue ==
    fpc = "returned" =>
        \/ outcome = "error" /\ sent = NoTx
        \/ sent \in reported /\ outcome = tx[sent].state

\* A call that has the hash of its bid gets the receipt, or its bid has been
\* superseded: there is no other way to be stuck in the receipt loop.
CallReturns ==
    (fpc = "receipt") ~> (fpc # "receipt" \/ Superseded)

-----------------------------------------------------------------------------
(* The inductive invariant behind the safety properties *)

\* A hash is known exactly from the send on, and then the bid is out.
SentKnown ==
    /\ fpc \in {"idle", "nonce", "send"} => sent = NoTx
    /\ fpc \in {"ack", "receipt"} => sent \in TxId /\ tx[sent].state # "unsent"

\* The nonce about to be used was the next one when it was read.
NonceRead == fpc = "send" => nonce <= mined

\* A bid that is out, or about to be, is for an auction of the contract.
BidsNameAuctions ==
    /\ fpc \in {"nonce", "send"} => bid.auction \in Auction
    /\ \A t \in TxId : Pending(t) => tx[t].auction \in Auction

\* Every nonce below the next one was used by a mined bid, none above it.
NoncesUsed ==
    /\ \A t \in TxId : IsMined(t) => tx[t].nonce < mined
    /\ \A k \in 0 .. mined - 1 : \E t \in TxId : IsMined(t) /\ tx[t].nonce = k

\* No bid is sent and then neither watched, reported nor counted as let go.
AllWatched ==
    \A t \in TxId : tx[t].state # "unsent" => t \in reported \cup orphan \cup Awaited

ReportedMined == \A t \in reported : IsMined(t)

\* The awaited bid is later, in nonce order, than every bid reported.
AwaitedLast ==
    fpc \in {"ack", "receipt"} => \A u \in reported : tx[u].nonce < tx[sent].nonce

IInv ==
    /\ TypeOK
    /\ SentKnown
    /\ NonceRead
    /\ BidsNameAuctions
    /\ LiveBidsCompete
    /\ NoncesUsed
    /\ AllWatched
    /\ ReportedMined
    /\ AwaitedLast
    /\ ReportIsTrue
=============================================================================
