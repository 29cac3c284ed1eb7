------------------------------ MODULE EthChain ------------------------------
(***************************************************************************)
(* The chain as the bot sees it through its node: the auctions of the      *)
(* Hydro contract, the bidder's trading balances and the transactions the  *)
(* bidder's key has signed.  None of it is code under src/: it is modelled *)
(* from how client/bidderClient.go and web3/ethrpc.go use it.              *)
(*                                                                         *)
(* Amounts are whole lots.  One lot of debt buys one lot of collateral:    *)
(* prices are abstracted, quantities are kept.                             *)
(***************************************************************************)
EXTENDS Integers, FiniteSets

CONSTANTS
    Auction,    \* the auctions of the Hydro contract
    NoAuction,  \* the auction of a transaction that was never sent
    TxId,       \* hashes the bidder's transactions can have
    Funds,      \* debt asset the bidder starts with
    Reserve,    \* collateral asset the bidder starts with
    MaxLeft     \* most lots an auction opens with

ASSUME ChainAssumption ==
    /\ NoAuction \notin Auction
    /\ Funds \in Nat
    /\ Reserve \in Nat
    /\ MaxLeft \in Nat

VARIABLES
    left,   \* lots each auction still sells; 0 when it is finished
    free,   \* the bidder's free balance of the debt asset
    held,   \* the bidder's balance of the collateral asset
    tx,     \* the bidder's transactions, by hash
    mined   \* transactions of the bidder in blocks: its nonce at "latest"

chainVars == <<left, free, held, tx, mined>>

TxState == {"unsent", "pending", "filled", "reverted"}
Mined == {"filled", "reverted"}

NeverSent == [state |-> "unsent", auction |-> NoAuction,
              nonce |-> 0, repay |-> 0, got |-> 0]

Pending(t) == tx[t].state = "pending"
Filled(t) == tx[t].state = "filled"
IsMined(t) == tx[t].state \in Mined

Least(m, n) == IF m < n THEN m ELSE n

ChainInit ==
    /\ left \in [Auction -> 0 .. MaxLeft]
    /\ free = Funds
    /\ held = Reserve
    /\ tx = [t \in TxId |-> NeverSent]
    /\ mined = 0

\* A node accepts a signed bid: its nonce is not used up, its hash is new.
Broadcast(t, a, r, n) ==
    /\ tx[t].state = "unsent"
    /\ n >= mined
    /\ tx' = [tx EXCEPT ![t] = [state |-> "pending", auction |-> a,
                                nonce |-> n, repay |-> r, got |-> 0]]

\* What the contract gives for transaction t: never more than is left.
Award(t) == Least(tx[t].repay, left[tx[t].auction])

\* The next bid in nonce order is mined and wins what the auction still has.
MineFill(t) ==
    /\ Pending(t)
    /\ tx[t].nonce = mined
    /\ Award(t) > 0
    /\ Award(t) <= free
    /\ tx' = [tx EXCEPT ![t] = [@ EXCEPT !.state = "filled", !.got = Award(t)]]
    /\ left' = [left EXCEPT ![tx[t].auction] = @ - Award(t)]
    /\ free' = free - Award(t)
    /\ held' = held + Award(t)
    /\ mined' = mined + 1

\* The next bid in nonce order is mined with status 0x0: another bidder was
\* first, the balance is too small, or the gas limit was.
MineRevert(t) ==
    /\ Pending(t)
    /\ tx[t].nonce = mined
    /\ tx' = [tx EXCEPT ![t].state = "reverted"]
    /\ mined' = mined + 1
    /\ UNCHANGED <<left, free, held>>

\* Another bidder takes k lots of auction a.
OthersFill(a, k) ==
    /\ k \in 1 .. left[a]
    /\ left' = [left EXCEPT ![a] = @ - k]
    /\ UNCHANGED <<free, held, tx, mined>>

ChainTypeOK ==
    /\ left \in [Auction -> Nat]
    /\ free \in Nat
    /\ held \in Nat
    /\ tx \in [TxId -> [state : TxState, auction : Auction \cup {NoAuction},
                        nonce : Nat, repay : Nat, got : Nat]]
    /\ mined \in Nat
=============================================================================
