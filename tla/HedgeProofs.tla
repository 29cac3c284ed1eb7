---------------------------- MODULE HedgeProofs -----------------------------
(***************************************************************************)
(* The safety properties of Hedge, for every market, wallet and number of  *)
(* lost replies, from the inductive invariant IInv.                        *)
(***************************************************************************)
EXTENDS Hedge, TLAPS

USE HedgeAssumption
USE DEF Answered, Retrying

\* Cutting an amount to whole lots never makes it larger.
LEMMA LotsCut ==
  ASSUME amount \in Nat
  PROVE  OrderAmount \in Nat /\ OrderAmount <= amount
  <1>1. amount % Lot \in 0 .. Lot - 1 /\ amount % Lot <= amount
    OBVIOUS
  <1>2. QED
    BY <1>1 DEF OrderAmount

LEMMA InitIInv == Init => IInv
  BY DEF Init, WalletInit, HedgeInit, IInv, TypeOK, Side, CallKnown, SoldByLost,
         SoldIsFill, OversellBounded

\* A move between two steps before the order leaves every sum alone.
LEMMA RetryStep ==
  ASSUME IInv, \E from, to \in Retrying : Goto(from, to)
  PROVE  IInv'
  BY DEF Goto, Move, walletVars, IInv, TypeOK, CallKnown, SoldByLost, SoldIsFill,
         OversellBounded

\* The reply is read: returned or panicked, the order still counts as answered.
LEMMA ReplyStep ==
  ASSUME IInv, Reply
  PROVE  IInv'
  BY DEF Reply, Goto, Move, walletVars, IInv, TypeOK, CallKnown, SoldByLost,
         SoldIsFill, OversellBounded

LEMMA PlaceOrderStep ==
  ASSUME IInv, NEW f \in 0 .. MaxWallet, PlaceOrder(f)
  PROVE  IInv'
  <1> USE DEF PlaceOrder, IInv
  <1>1. /\ job \in Job /\ amount = asked[job] /\ amount \in Nat
        /\ f \in Nat /\ f <= OrderAmount
        /\ sold[job] \in Nat /\ blind[job] \in Nat /\ sold \in [Job -> Nat]
    BY DEF CallKnown, TypeOK
  <1>2. f <= amount /\ f <= held
    BY <1>1, LotsCut DEF Covered, TypeOK
  <1>3. sold' = [sold EXCEPT ![job] = @ + f] /\ sold'[job] = sold[job] + f
    BY <1>1
  <1>4. TypeOK'
    BY <1>1, <1>2, <1>3 DEF TypeOK
  <1>5. CallKnown'
    BY <1>1, <1>2 DEF CallKnown
  <1>6. sold[job] <= blind[job] * asked[job]
    BY DEF SoldByLost
  <1>7. SoldByLost' /\ SoldIsFill'
    <2>1. sold'[job] <= blind[job] * asked[job] + f
      BY <1>1, <1>3, <1>6
    <2>2. blind[job] = 0 => sold'[job] = f
      BY <1>1, <1>3, <1>6
    <2>3. f <= sold'[job]
      BY <1>1, <1>3
    <2>4. SoldByLost'
      BY <2>1 DEF SoldByLost
    <2>5. SoldIsFill'
      BY <2>2, <2>3 DEF SoldIsFill
    <2>6. QED
      BY <2>4, <2>5
  <1>8. OversellBounded'
    <2>1. sold'[job] <= (blind[job] + 1) * asked[job]
      BY <1>1, <1>2, <1>3, <1>6
    <2>2. \A j \in Job : j # job => sold'[j] = sold[j]
      BY <1>1, <1>3
    <2>3. QED
      BY <2>1, <2>2 DEF OversellBounded
  <1>9. QED
    BY <1>4, <1>5, <1>7, <1>8

\* The lost reply raises the bound by the one order it hides.
LEMMA ReplyLostStep ==
  ASSUME IInv, ReplyLost
  PROVE  IInv'
  <1> USE DEF ReplyLost, walletVars, IInv
  <1>1. /\ job \in Job /\ amount = asked[job] /\ fill <= amount
        /\ sold[job] \in Nat /\ blind[job] \in Nat /\ asked[job] \in Nat
        /\ fill \in Nat /\ blind'[job] = blind[job] + 1
    BY DEF CallKnown, TypeOK
  <1>2. TypeOK' /\ CallKnown' /\ SoldIsFill'
    BY <1>1 DEF TypeOK, CallKnown, SoldIsFill
  <1>3. sold[job] <= (blind[job] + 1) * asked[job]
    BY <1>1 DEF OversellBounded
  <1>4. SoldByLost'
    BY <1>1, <1>3 DEF SoldByLost
  <1>5. OversellBounded'
    <2>1. (blind[job] + 1) * asked[job] <= (blind[job] + 1 + 1) * asked[job]
      BY <1>1
    <2>2. sold[job] <= (blind'[job] + 1) * asked[job]
      BY <1>1, <1>3, <2>1
    <2>3. \A j \in Job : j # job => blind'[j] = blind[j]
      BY DEF TypeOK
    <2>4. QED
      BY <2>2, <2>3 DEF OversellBounded
  <1>6. QED
    BY <1>2, <1>4, <1>5

\* A trade asked for the first time has sold nothing yet.
LEMMA CallStarts ==
  ASSUME IInv, NEW j \in Job, NEW s \in Side, NEW a \in Nat,
         asked[j] = 0, PromisedMarketSellAsset(j, a, s)
  PROVE  IInv'
  <1> USE DEF PromisedMarketSellAsset, walletVars, IInv
  <1>1. sold[j] = 0 /\ blind[j] \in Nat
    <2>1. sold[j] <= (blind[j] + 1) * 0 /\ sold[j] \in Nat /\ blind[j] \in Nat
      BY DEF OversellBounded, TypeOK
    <2>2. QED
      BY <2>1
  <1>2. TypeOK' /\ CallKnown' /\ SoldIsFill'
    BY <1>1 DEF TypeOK, CallKnown, SoldIsFill
  <1>3. 0 <= blind[j] * a /\ 0 <= (blind[j] + 1) * a
    BY <1>1
  <1>4. SoldByLost'
    BY <1>1, <1>3 DEF SoldByLost, TypeOK
  <1>5. OversellBounded'
    BY <1>1, <1>3 DEF OversellBounded, TypeOK
  <1>6. QED
    BY <1>2, <1>4, <1>5

\* The call is over, or the process is: what was sold stays within its bound.
LEMMA ForgetStep ==
  ASSUME IInv, Forget, UNCHANGED <<walletVars, asked, sold, blind>>
  PROVE  IInv'
  BY DEF Forget, walletVars, IInv, TypeOK, Side, CallKnown, SoldByLost, SoldIsFill,
         OversellBounded

\* The call never sees the wallet move: an order it no longer covers is refused.
LEMMA WalletStep ==
  ASSUME IInv, UNCHANGED hedgeVars, free' \in Nat, held' \in Nat
  PROVE  IInv'
  BY DEF hedgeVars, IInv, TypeOK, CallKnown, SoldByLost, SoldIsFill,
         OversellBounded

LEMMA CallStepKeeps ==
  ASSUME IInv, CallStep
  PROVE  IInv'
  <1>1. CASE GetMarketPrice \/ GetMarketPriceFails \/ BuildOrder \/ BuildOrderFails
             \/ PlaceOrderFails \/ Wake
    <2>1. \E from, to \in Retrying : Goto(from, to)
      BY <1>1 DEF GetMarketPrice, GetMarketPriceFails, BuildOrder, BuildOrderFails,
         PlaceOrderFails, Wake
    <2>2. QED
      BY <2>1, RetryStep
  <1>2. CASE Reply
    BY <1>2, ReplyStep
  <1>3. CASE Place
    BY <1>3, PlaceOrderStep DEF Place
  <1>4. CASE ReplyLost
    BY <1>4, ReplyLostStep
  <1>5. CASE Return
    BY <1>5, ForgetStep DEF Return
  <1>6. QED
    BY <1>1, <1>2, <1>3, <1>4, <1>5 DEF CallStep

LEMMA StepIInv == IInv /\ [Next]_vars => IInv'
  <1> SUFFICES ASSUME IInv, [Next]_vars PROVE IInv'
    OBVIOUS
  <1>1. CASE Call
    <2>1. PICK j \in Job, s \in Side, a \in 1 .. held :
            asked[j] = 0 /\ PromisedMarketSellAsset(j, a, s)
      BY <1>1 DEF Call
    <2>2. a \in Nat
      BY DEF IInv, TypeOK
    <2>3. QED
      BY <2>1, <2>2, CallStarts
  <1>2. CASE CallStep
    BY <1>2, CallStepKeeps
  <1>3. CASE Die
    BY <1>3, ForgetStep DEF Die, Killed
  <1>4. CASE \E k \in 1 .. MaxWallet : BidWon(k)
    BY <1>4, WalletStep DEF BidWon, IInv, TypeOK
  <1>5. CASE UNCHANGED vars
    BY <1>5, WalletStep DEF vars, walletVars, IInv, TypeOK
  <1>6. QED
    BY <1>1, <1>2, <1>3, <1>4, <1>5 DEF Next

\* IInv holds in every reachable state of Hedge.
THEOREM Inductive == Spec => []IInv
  BY InitIInv, StepIInv, PTL DEF Spec

\* Every variable keeps its type; no order sells more than the wallet holds.
THEOREM TypeCorrect == Spec => []TypeOK
  <1>1. IInv => TypeOK
    BY DEF IInv
  <1>2. QED
    BY <1>1, Inductive, PTL

\* A trade is sold at most once, and once more for every lost reply.
THEOREM Oversell == Spec => []OversellBounded
  <1>1. IInv => OversellBounded
    BY DEF IInv
  <1>2. QED
    BY <1>1, Inductive, PTL

\* With no reply lost, the amount reported is the amount sold.
THEOREM Reports == Spec => []ReportExact
  <1>1. IInv => ReportExact
    BY DEF IInv, SoldIsFill, ReportExact
  <1>2. QED
    BY <1>1, Inductive, PTL
=============================================================================
