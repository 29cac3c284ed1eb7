----------------------------- MODULE Arbitrage ------------------------------
(***************************************************************************)
(* What the bot promises its owner (README.md:11-16 and 56): trades are    *)
(* made one at a time; a trade buys collateral in an auction, sells it on  *)
(* the exchange and is then written to the history, once and for good.     *)
(* A trade can be dropped on the way, by a lost reply or the end of the    *)
(* process; a dropped trade is never sold nor written.                     *)
(***************************************************************************)
EXTENDS Integers

CONSTANTS
    Trade,    \* the trades
    MaxBought \* bound: collateral one trade can buy or sell at once

VARIABLES
    stage,  \* how far each trade is
    bought, \* collateral it received
    sold,   \* collateral it sold
    history \* rows of the history, as trade, bought, reported sold

vars == <<stage, bought, sold, history>>

Init ==
    /\ stage = [t \in Trade |-> "none"]
    /\ bought = [t \in Trade |-> 0]
    /\ sold = [t \in Trade |-> 0]
    /\ history = {}

InHand(t) == stage[t] \in {"bid", "won", "missed"}
Advance(t, from, to) == stage[t] = from /\ stage' = [stage EXCEPT ![t] = to]

\* A new bid is made only when the trade before it is done with.
Bid(t) ==
    /\ \A u \in Trade : ~InHand(u)
    /\ Advance(t, "none", "bid")
    /\ UNCHANGED <<bought, sold, history>>

Win(t, k) ==
    /\ Advance(t, "bid", "won")
    /\ bought' = [bought EXCEPT ![t] = k]
    /\ UNCHANGED <<sold, history>>

Miss(t) ==
    /\ Advance(t, "bid", "missed")
    /\ UNCHANGED <<bought, sold, history>>

Sell(t, k) ==
    /\ stage[t] = "won"
    /\ k > 0
    /\ sold' = [sold EXCEPT ![t] = @ + k]
    /\ UNCHANGED <<stage, bought, history>>

\* A won trade is written with what it bought and at most what it sold.
Book(t) ==
    /\ Advance(t, "won", "booked")
    /\ \E r \in 0 .. sold[t] :
        history' = history \cup {[trade |-> t, bought |-> bought[t], sold |-> r]}
    /\ UNCHANGED <<bought, sold>>

\* A bid that failed is written too, as a row of zeros: kept out of history.
BookMissed(t) ==
    /\ Advance(t, "missed", "failed")
    /\ UNCHANGED <<bought, sold, history>>

Drop(t) ==
    /\ InHand(t)
    /\ stage' = [stage EXCEPT ![t] = "dropped"]
    /\ UNCHANGED <<bought, sold, history>>

\* A dropped bid can still be mined, unseen.
WinUnseen(t, k) ==
    /\ stage[t] = "dropped"
    /\ bought[t] = 0
    /\ bought' = [bought EXCEPT ![t] = k]
    /\ UNCHANGED <<stage, sold, history>>

Next ==
    \E t \in Trade :
        \/ Bid(t)
        \/ Miss(t)
        \/ Book(t)
        \/ BookMissed(t)
        \/ Drop(t)
        \/ \E k \in 1 .. MaxBought : Win(t, k) \/ Sell(t, k) \/ WinUnseen(t, k)

Spec == Init /\ [][Next]_vars
=============================================================================
