----------------------------- MODULE BlockFeed ------------------------------
(***************************************************************************)
(* Web3.NewBlockChannel (web3/web3.go:37): a goroutine polls the node and  *)
(* hands every higher block number to the bot through an unbuffered        *)
(* channel.  While the bot is busy the goroutine is parked in its send.    *)
(***************************************************************************)
EXTENDS Integers

CONSTANTS
    MaxBlock, \* bound: the last block
    Lag       \* how far behind the head an answer of the node can be

VARIABLES
    head,       \* the last block of the chain
    feed,       \* "polling", or "sending" while parked in c <- newBlockNum
    blockNum,   \* the last block handed over
    newBlockNum \* the answer being handed over

feedVars == <<head, feed, blockNum, newBlockNum>>

GoroutineStarts ==
    /\ feed' = "polling"
    /\ blockNum' = 0
    /\ newBlockNum' = 0

FeedInit ==
    /\ head = 0
    /\ feed = "polling"
    /\ blockNum = 0
    /\ newBlockNum = 0

NewBlock ==
    /\ head < MaxBlock
    /\ head' = head + 1
    /\ UNCHANGED <<feed, blockNum, newBlockNum>>

Answers(n) ==
    /\ feed = "polling"
    /\ n \in head - Lag .. head
    /\ feed' = "sending"
    /\ newBlockNum' = n
    /\ UNCHANGED <<head, blockNum>>

\* Faulty: an answer no lower is handed over; the block right after the last is not.
PollAgain(n) == n >= blockNum /\ Answers(n)
PollSkipsNext(n) == n > blockNum + 1 /\ Answers(n)

\* An answer at or below blockNum, and an error, is polled again: no change.
Poll(n) == n > blockNum /\ Answers(n)

\* The bot receives: both sides of the channel move together.
HandOver ==
    /\ feed = "sending"
    /\ feed' = "polling"
    /\ blockNum' = newBlockNum
    /\ UNCHANGED <<head, newBlockNum>>

FeedTypeOK ==
    /\ head \in Nat
    /\ feed \in {"polling", "sending"}
    /\ blockNum \in Nat
    /\ newBlockNum \in Nat
=============================================================================
