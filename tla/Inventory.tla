----------------------------- MODULE Inventory ------------------------------
(***************************************************************************)
(* DdexClient.GetInventory (client/ddexClient.go:437): the balance of each *)
(* asset is asked from the contract by a call of its own, in the order of  *)
(* a Go map, and what is locked in orders from the exchange by one more.   *)
(* Total and lock are of different moments, and the wallet, external here, *)
(* moves between them: orders of this account are matched (their amount is *)
(* locked) and settled on chain later, and the owner deposits, withdraws.  *)
(***************************************************************************)
EXTENDS Integers

CONSTANTS
    Asset,      \* assets the exchange trades
    Wallets,    \* balances to start from: [total, locked], of each asset
    Portion,    \* the step by which balances move
    MaxBalance, \* bound: the balance of an asset
    MaxMoves    \* bound: moves of the wallet from the first call on

ASSUME InventoryAssumption ==
    /\ Portion \in Nat \ {0}
    /\ MaxBalance \in Nat
    /\ MaxMoves \in Nat
    /\ \A w \in Wallets :
        /\ w.total \in [Asset -> 0 .. MaxBalance]
        /\ w.locked \in [Asset -> 0 .. MaxBalance]
        /\ \A s \in Asset : w.locked[s] <= w.total[s]

VARIABLES
    total,     \* the contract's balance of each asset
    locked,    \* the part of it in orders matched and not settled
    toRead,    \* assets whose balance has not been asked
    inventory, \* Free of each asset, as far as it is read
    reading,   \* the call: "asking", "done" or "failed"
    moves,     \* moves of the wallet so far
    departed   \* observed: what left the balance since it was asked and, from
               \* the reading of the locks on, what left the free balance

walletVars == <<total, locked>>
inventoryVars == <<walletVars, toRead, inventory, reading, moves, departed>>

Free(s) == total[s] - locked[s]

InventoryInit ==
    /\ \E w \in Wallets : total = w.total /\ locked = w.locked
    /\ toRead = Asset
    /\ inventory = [s \in Asset |-> 0]
    /\ reading = "asking"
    /\ moves = 0
    /\ departed = [s \in Asset |-> 0]

-----------------------------------------------------------------------------
(* The call *)

ReadBalance(s) ==
    /\ reading = "asking"
    /\ s \in toRead
    /\ toRead' = toRead \ {s}
    /\ inventory' = [inventory EXCEPT ![s] = total[s]]
    /\ UNCHANGED <<walletVars, reading, moves, departed>>

ReadsLocksAs(free) ==
    /\ reading = "asking"
    /\ toRead = {}
    /\ reading' = "done"
    /\ inventory' = [s \in Asset |-> free[s]]
    /\ UNCHANGED <<walletVars, toRead, moves, departed>>

\* Faulty: what the exchange has locked is not taken off.
ReadLocksIgnored == ReadsLocksAs(inventory)

ReadLocks == ReadsLocksAs([s \in Asset |-> inventory[s] - locked[s]])

FailsAs(how) ==
    /\ reading = "asking"
    /\ reading' = how
    /\ UNCHANGED <<walletVars, toRead, inventory, moves, departed>>

\* Faulty: the error is dropped and what was read so far is returned.
ReadFailureDropped == FailsAs("done")

\* One of the calls fails, and GetInventory with it.
ReadFails == FailsAs("failed")

-----------------------------------------------------------------------------
(* The wallet *)

Departs(s, k) ==
    departed' = [departed EXCEPT ![s] = IF s \in toRead THEN @ ELSE @ + k]

Moves ==
    /\ moves < MaxMoves
    /\ moves' = moves + 1
    /\ UNCHANGED <<toRead, inventory, reading>>

\* An order of this account is matched.
Lock(s) ==
    /\ Moves
    /\ Portion <= Free(s)
    /\ locked' = [locked EXCEPT ![s] = @ + Portion]
    /\ IF reading = "done" THEN Departs(s, Portion) ELSE UNCHANGED departed
    /\ UNCHANGED total

\* The match settles on chain: one asset for the other.
Settle(s, u) ==
    /\ Moves
    /\ s # u
    /\ Portion <= locked[s]
    /\ total[u] + Portion <= MaxBalance
    /\ locked' = [locked EXCEPT ![s] = @ - Portion]
    /\ total' = [total EXCEPT ![s] = @ - Portion, ![u] = @ + Portion]
    /\ IF reading = "asking" THEN Departs(s, Portion) ELSE UNCHANGED departed

Deposit(s) ==
    /\ Moves
    /\ total[s] + Portion <= MaxBalance
    /\ total' = [total EXCEPT ![s] = @ + Portion]
    /\ UNCHANGED <<locked, departed>>

Withdraw(s) ==
    /\ Moves
    /\ Portion <= Free(s)
    /\ total' = [total EXCEPT ![s] = @ - Portion]
    /\ Departs(s, Portion)
    /\ UNCHANGED locked

WalletStep ==
    \/ \E s \in Asset : Lock(s) \/ Deposit(s) \/ Withdraw(s)
    \/ \E s, u \in Asset : Settle(s, u)

-----------------------------------------------------------------------------
(* Properties *)

InventoryTypeOK ==
    /\ total \in [Asset -> 0 .. MaxBalance]
    /\ locked \in [Asset -> 0 .. MaxBalance]
    /\ \A s \in Asset : locked[s] <= total[s]
    /\ toRead \subseteq Asset
    /\ inventory \in [Asset -> -MaxBalance .. MaxBalance]
    /\ reading \in {"asking", "done", "failed"}
    /\ moves \in 0 .. MaxMoves
    /\ departed \in [Asset -> Nat]

\* The inventory is read when every asset was asked.
AllAsked == reading = "done" => toRead = {}

\* While balances are asked for, each exceeds what is there now by no more than
\* what departed since.
TotalUpToDepartures ==
    reading = "asking" =>
        /\ \A s \in Asset : inventory[s] >= 0
        /\ \A s \in Asset \ toRead : inventory[s] <= total[s] + departed[s]

\* What GetInventory calls free exceeds the free balance by no more than what
\* departed meanwhile: by settlements and withdrawals while it was reading,
\* by matches and withdrawals since (ddexClient.go:439-463).
FreeUpToDepartures ==
    reading = "done" =>
        \A s \in Asset : inventory[s] <= Free(s) + departed[s]
=============================================================================
