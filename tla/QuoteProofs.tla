---------------------------- MODULE QuoteProofs -----------------------------
(***************************************************************************)
(* A bid counts on nothing that is not there, is worth making, is quoted   *)
(* the best price of the book, and its hedge keeps to the slippage: for    *)
(* every wallet, auction, book, precision and setting of the bot.          *)
(***************************************************************************)
EXTENDS Quote, SumTheorems, NaturalsInduction

-----------------------------------------------------------------------------
(* Levels of the book *)

Sides == side \in {"sell", "buy"}

\* A quote is for one of them,
LEMMA SidesOnly == Sides
  BY DEF Sides, side

\* the side of the order, whichever way the market is named,
LEMMA SameSide ==
  ASSUME tradingPair \in TradingPairs
  PROVE  orderSide = side
  BY QuoteAssumption DEF QuoteAssumption, TradingPairs, orderSide, side

\* and stays what it is.
LEMMA SideKept ==
  ASSUME UNCHANGED tradingPair
  PROVE  side' = side /\ orderSide' = orderSide
  BY DEF side, orderSide

\* Amounts are multiples of Unit.
LEMMA Multiple ==
  ASSUME NEW q \in Nat, q % Unit = 0
  PROVE  q \div Unit \in Nat /\ q = (q \div Unit) * Unit
  BY QuoteAssumption DEF QuoteAssumption

\* What a level takes is a multiple of Unit, and its price divides Unit.
LEMMA LevelType ==
  ASSUME NEW l \in Level, Sides
  PROVE  /\ l.price \in Nat \ {0} /\ Unit % l.price = 0
         /\ Depth(l) \in Nat \ {0} /\ Depth(l) % Unit = 0
  <1>1. /\ l.price \in Nat \ {0} /\ Unit % l.price = 0
        /\ l.amount \in Nat \ {0} /\ l.amount % Unit = 0 /\ Unit \in Nat \ {0}
    BY QuoteAssumption DEF QuoteAssumption, Level
  <1> DEFINE n == l.amount \div Unit
  <1>2. n \in Nat /\ l.amount = n * Unit
    BY <1>1, Multiple
  <1> HIDE DEF n
  <1>3. l.price * l.amount = (l.price * n) * Unit /\ l.price * n \in Nat
    BY <1>1, <1>2
  <1>4. ((l.price * n) * Unit) % Unit = 0
    BY <1>1, <1>3
  <1>5. l.price * l.amount \in Nat \ {0}
    BY <1>1
  <1>6. QED
    BY <1>1, <1>3, <1>4, <1>5 DEF Sides, Depth

\* Dividing a multiple.
LEMMA ExactDivision ==
  ASSUME NEW p \in Nat \ {0}, NEW n \in Nat
  PROVE  (n * p) \div p = n
  OBVIOUS

\* No division of the walk rounds.
LEMMA WorthType ==
  ASSUME NEW l \in Level, Sides, NEW q \in Nat, q % Unit = 0
  PROVE  /\ Worth(l, q) \in Nat /\ (q = 0 => Worth(l, q) = 0)
         /\ side = "sell" => Worth(l, q) = l.price * q
         /\ side = "buy" => q = l.price * Worth(l, q)
  <1> DEFINE p == l.price
  <1>1. /\ p \in Nat \ {0} /\ Unit % p = 0 /\ Unit \in Nat \ {0}
    BY LevelType, QuoteAssumption DEF QuoteAssumption
  <1> DEFINE m == q \div Unit
             n == Unit \div p
  <1>2. m \in Nat /\ q = m * Unit
    BY Multiple
  <1>3. n \in Nat /\ Unit = n * p
    BY <1>1
  <1> HIDE DEF m, n
  <1>4. q = (m * n) * p /\ m * n \in Nat
    BY <1>1, <1>2, <1>3
  <1>5. q \div p = m * n /\ q = p * (m * n)
    <2> HIDE DEF p
    <2>1. \A r \in Nat : q = r * p /\ p \in Nat \ {0} => q \div p = r /\ q = p * r
      BY ExactDivision
    <2>2. QED
      BY <1>1, <1>4, <2>1
  <1>6. CASE side = "sell"
    BY <1>1, <1>6 DEF Worth
  <1>7. CASE side = "buy"
    <2>1. Worth(l, q) = q \div p
      BY <1>7 DEF Worth
    <2>2. q = 0 => q \div p = 0
      BY <1>1
    <2>3. QED
      BY <1>4, <1>5, <1>7, <2>1, <2>2
  <1>8. QED
    BY <1>6, <1>7 DEF Sides

\* A better level gains at least as much by what is moved to it as the other
\* loses: m takes b instead of a.
LEMMA Advantage ==
  ASSUME Sides, NEW m \in Level, NEW n \in Level,
         m.price = n.price \/ Better(m.price, n.price),
         NEW a \in Nat, a % Unit = 0, NEW b \in Nat, b % Unit = 0, a <= b
  PROVE  Worth(n, b) + Worth(m, a) <= Worth(m, b) + Worth(n, a)
  <1>1. m.price \in Nat \ {0} /\ n.price \in Nat \ {0}
    BY LevelType
  <1> DEFINE x == m.price
             y == n.price
  <1>2. CASE side = "sell"
    <2>1. /\ Worth(n, b) = y * b /\ Worth(m, a) = x * a
          /\ Worth(m, b) = x * b /\ Worth(n, a) = y * a
      BY <1>2, WorthType
    <2>2. x - y \in Nat /\ b - a \in Nat
      BY <1>1, <1>2 DEF Better
    <2>3. (x - y) * (b - a) \in Nat
      BY <2>2
    <2>4. (x - y) * (b - a) = (x * b + y * a) - (y * b + x * a)
      BY <1>1
    <2>5. x * b \in Nat /\ y * a \in Nat /\ y * b \in Nat /\ x * a \in Nat
      BY <1>1
    <2> HIDE DEF x, y
    <2>6. QED
      BY <2>1, <2>3, <2>4, <2>5
  <1>3. CASE side = "buy"
    <2> DEFINE s == Worth(m, b)
               t == Worth(m, a)
               u == Worth(n, b)
               v == Worth(n, a)
    <2>1. /\ s \in Nat /\ t \in Nat /\ u \in Nat /\ v \in Nat
          /\ b = x * s /\ a = x * t /\ b = y * u /\ a = y * v
      BY <1>3, WorthType
    <2>2. x <= y /\ x \in Nat \ {0} /\ y \in Nat \ {0}
      BY <1>1, <1>3 DEF Better
    <2> HIDE DEF x, y, s, t, u, v
    <2>3. s >= t
      <3>1. CASE s < t
        <4>1. x * (t - s) = x * t - x * s /\ x * (t - s) \in Nat \ {0}
          BY <2>1, <2>2, <3>1
        <4>2. QED
          BY <2>1, <4>1
      <3>2. QED
        BY <2>1, <3>1
    <2>4. x * (s - t) = b - a /\ y * (u - v) = b - a
      BY <2>1, <2>2
    <2>5. (y - x) * (s - t) \in Nat /\ (y - x) * (s - t) = y * (s - t) - x * (s - t)
      BY <2>1, <2>2, <2>3
    <2>6. y * (s - t) \in Int /\ y * (u - v) \in Int /\ y * (s - t) >= y * (u - v)
      BY <2>1, <2>2, <2>4, <2>5
    <2>7. s - t >= u - v
      <3>1. CASE s - t < u - v
        <4>1. y * ((u - v) - (s - t)) \in Nat \ {0}
          BY <2>1, <2>2, <3>1
        <4>2. y * ((u - v) - (s - t)) = y * (u - v) - y * (s - t)
          BY <2>1, <2>2
        <4>3. QED
          BY <2>6, <4>1, <4>2
      <3>2. QED
        BY <2>1, <3>1
    <2>8. u + t <= s + v
      BY <2>1, <2>7
    <2>9. QED
      BY <2>8 DEF s, t, u, v
  <1>4. QED
    BY <1>2, <1>3 DEF Sides

-----------------------------------------------------------------------------
(* The walk *)

Listed == Sides /\ book \in Seq(Level) /\ BestFirst(book)

\* The levels of a book as it is listed.
LEMMA BookType ==
  ASSUME Listed
  PROVE  /\ Len(book) \in Nat /\ DOMAIN book = 1 .. Len(book) /\ IsFiniteSet(DOMAIN book)
         /\ \A k \in DOMAIN book :
                /\ book[k] \in Level /\ book[k].price \in Nat \ {0}
                /\ Depth(book[k]) \in Nat \ {0} /\ Depth(book[k]) % Unit = 0
  <1>1. Len(book) \in Nat /\ DOMAIN book = 1 .. Len(book)
    BY DEF Listed
  <1>2. IsFiniteSet(1 .. Len(book))
    BY <1>1, FS_Interval
  <1>3. \A k \in DOMAIN book : book[k] \in Level
    BY DEF Listed
  <1>4. QED
    BY <1>1, <1>2, <1>3, LevelType DEF Listed

\* An amount of collateral for each level, in steps of Unit.
Amounts(w) ==
    DOMAIN w = DOMAIN book /\ \A k \in DOMAIN book : w[k] \in Nat /\ w[k] % Unit = 0

Total(w) == SumFunctionOnSet(w, DOMAIN book)

\* The same amounts, all of them sold at level l.
AllAt(l, w) ==
    SumFunctionOnSet([k \in DOMAIN book |-> Worth(l, w[k])], DOMAIN book)

\* The amounts sold, their total and what they earn are natural numbers.
LEMMA ProceedsType ==
  ASSUME Listed, NEW w, Amounts(w)
  PROVE  /\ Total(w) \in Nat
         /\ \A k \in DOMAIN book : w[k] <= Total(w)
         /\ \A k \in DOMAIN book : Worth(book[k], w[k]) \in Nat
         /\ Proceeds(w) \in Nat
         /\ \A l \in Level : \A k \in DOMAIN book : Worth(l, w[k]) \in Nat
         /\ \A l \in Level : AllAt(l, w) \in Nat
  <1> DEFINE f == [k \in DOMAIN book |-> Worth(book[k], w[k])]
  <1>1. \A l \in Level : \A k \in DOMAIN book : Worth(l, w[k]) \in Nat
    BY WorthType DEF Listed, Amounts
  <1>2. \A k \in DOMAIN book : f[k] \in Nat
    BY <1>1, BookType
  <1>3. Total(w) \in Nat /\ \A k \in DOMAIN book : w[k] <= Total(w)
    BY BookType, SumOfNats DEF Amounts, Total
  <1>4. Proceeds(w) \in Nat
    <2> HIDE DEF f
    <2>1. SumFunctionOnSet(f, DOMAIN book) \in Nat
      BY <1>2, BookType, SumOfNats
    <2>2. QED
      BY <2>1 DEF Proceeds, f
  <1>5. ASSUME NEW l \in Level PROVE AllAt(l, w) \in Nat
    <2> DEFINE g == [k \in DOMAIN book |-> Worth(l, w[k])]
    <2>1. \A k \in DOMAIN book : g[k] \in Nat
      BY <1>1
    <2> HIDE DEF g
    <2>2. SumFunctionOnSet(g, DOMAIN book) \in Nat
      BY <2>1, BookType, SumOfNats
    <2>3. QED
      BY <2>2 DEF AllAt, g
  <1>6. QED
    BY <1>1, <1>2, <1>3, <1>4, <1>5

\* More at every level is more in all.
LEMMA TotalGrows ==
  ASSUME Listed, NEW v, Amounts(v), NEW w, Amounts(w), \A k \in DOMAIN book : v[k] <= w[k]
  PROVE  Total(v) <= Total(w)
  <1>1. IsFiniteSet(DOMAIN book)
    BY BookType
  <1>2. \A k \in DOMAIN book : v[k] \in Int /\ w[k] \in Int /\ v[k] + v[k] <= w[k] + w[k]
    BY DEF Amounts
  <1>3. Total(v) + Total(v) <= Total(w) + Total(w)
    BY <1>1, <1>2, SumsCompare DEF Total
  <1>4. QED
    BY <1>3, ProceedsType

\* At a single price it does not matter how an amount is spread.
LEMMA SamePrice ==
  ASSUME Listed, NEW l \in Level, NEW v, Amounts(v), NEW w, Amounts(w), Total(v) = Total(w)
  PROVE  AllAt(l, v) = AllAt(l, w)
  <1> DEFINE f == [k \in DOMAIN book |-> Worth(l, v[k])]
             g == [k \in DOMAIN book |-> Worth(l, w[k])]
             p == l.price
  <1>0. IsFiniteSet(DOMAIN book)
    BY BookType
  <1>1. p \in Nat \ {0} /\ p \in Int /\ Sides
    BY LevelType DEF Listed
  <1>2. \A k \in DOMAIN book : f[k] = Worth(l, v[k]) /\ g[k] = Worth(l, w[k])
    OBVIOUS
  <1>3. \A k \in DOMAIN book : f[k] \in Int /\ g[k] \in Int /\ v[k] \in Int /\ w[k] \in Int
    BY ProceedsType DEF Amounts
  <1>4. AllAt(l, v) = SumFunctionOnSet(f, DOMAIN book)
        /\ AllAt(l, w) = SumFunctionOnSet(g, DOMAIN book)
    BY DEF AllAt
  <1>5. CASE side = "sell"
    <2>1. \A k \in DOMAIN book : f[k] = p * v[k] /\ g[k] = p * w[k]
      BY <1>1, <1>2, <1>5, WorthType DEF Amounts
    <2> HIDE DEF f, g, p
    <2>2. SumFunctionOnSet(f, DOMAIN book) = p * Total(v)
      BY <1>0, <1>1, <1>3, <2>1, SumScaled DEF Total
    <2>3. SumFunctionOnSet(g, DOMAIN book) = p * Total(w)
      BY <1>0, <1>1, <1>3, <2>1, SumScaled DEF Total
    <2>4. QED
      BY <1>4, <2>2, <2>3
  <1>6. CASE side = "buy"
    <2>1. \A k \in DOMAIN book : v[k] = p * f[k] /\ w[k] = p * g[k]
      BY <1>1, <1>2, <1>6, WorthType DEF Amounts
    <2>2. AllAt(l, v) \in Nat /\ AllAt(l, w) \in Nat
      BY ProceedsType
    <2> HIDE DEF f, g, p
    <2>3. Total(v) = p * SumFunctionOnSet(f, DOMAIN book)
      BY <1>0, <1>1, <1>3, <2>1, SumScaled DEF Total
    <2>4. Total(w) = p * SumFunctionOnSet(g, DOMAIN book)
      BY <1>0, <1>1, <1>3, <2>1, SumScaled DEF Total
    <2>5. \A x, y \in Nat : p * x = p * y => x = y
      BY <1>1
    <2>6. QED
      BY <1>4, <2>2, <2>3, <2>4, <2>5
  <1>7. QED
    BY <1>1, <1>5, <1>6 DEF Sides

\* Filling the levels from the top is the best way to sell the same amount.
LEMMA BestFromTheTop ==
  ASSUME Listed, NEW j \in DOMAIN book, NEW t, Amounts(t), NEW w, Amounts(w),
         Total(t) = Total(w),
         \A k \in DOMAIN book : k < j => w[k] <= t[k],
         \A k \in DOMAIN book : k > j => t[k] = 0
  PROVE  Proceeds(w) <= Proceeds(t)
  <1> DEFINE l == book[j]
             f == [k \in DOMAIN book |-> Worth(book[k], w[k])]
             g == [k \in DOMAIN book |-> Worth(l, t[k])]
             p == [k \in DOMAIN book |-> Worth(book[k], t[k])]
             q == [k \in DOMAIN book |-> Worth(l, w[k])]
  <1>1. l \in Level /\ Sides
    BY BookType DEF Listed
  <1>2. \A k \in DOMAIN book : /\ f[k] \in Int /\ g[k] \in Int
                               /\ p[k] \in Int /\ q[k] \in Int
    BY <1>1, ProceedsType
  <1>3. ASSUME NEW k \in DOMAIN book
        PROVE  Worth(book[k], w[k]) + Worth(l, t[k]) <= Worth(book[k], t[k]) + Worth(l, w[k])
    <2>1. /\ book[k] \in Level /\ k \in Nat /\ j \in Nat
          /\ t[k] \in Nat /\ t[k] % Unit = 0 /\ w[k] \in Nat /\ w[k] % Unit = 0
      BY BookType DEF Amounts
    <2>2. /\ Worth(book[k], w[k]) \in Nat /\ Worth(l, t[k]) \in Nat
          /\ Worth(book[k], t[k]) \in Nat /\ Worth(l, w[k]) \in Nat
      BY <1>1, ProceedsType
    <2>3. CASE k < j
      <3>1. Better(book[k].price, l.price) /\ w[k] <= t[k]
        BY <2>1, <2>3 DEF Listed, BestFirst
      <3> HIDE DEF l
      <3>2. Worth(l, t[k]) + Worth(book[k], w[k]) <= Worth(book[k], t[k]) + Worth(l, w[k])
        BY <1>1, <2>1, <3>1, Advantage
      <3>3. QED
        BY <2>2, <3>2
    <2>4. CASE k = j
      BY <2>2, <2>4
    <2>5. CASE k > j
      <3>1. Better(l.price, book[k].price) /\ t[k] <= w[k]
        BY <2>1, <2>5 DEF Listed, BestFirst
      <3> HIDE DEF l
      <3>2. Worth(book[k], w[k]) + Worth(l, t[k]) <= Worth(l, w[k]) + Worth(book[k], t[k])
        BY <1>1, <2>1, <3>1, Advantage
      <3>3. QED
        BY <2>2, <3>2
    <2>6. QED
      BY <2>1, <2>3, <2>4, <2>5
  <1>4. \A k \in DOMAIN book : f[k] + g[k] <= p[k] + q[k]
    BY <1>3
  <1>5. AllAt(l, t) = AllAt(l, w) /\ AllAt(l, t) \in Nat
    BY <1>1, SamePrice, ProceedsType
  <1>6. /\ Proceeds(w) = SumFunctionOnSet(f, DOMAIN book)
        /\ Proceeds(t) = SumFunctionOnSet(p, DOMAIN book)
        /\ AllAt(l, t) = SumFunctionOnSet(g, DOMAIN book)
        /\ AllAt(l, w) = SumFunctionOnSet(q, DOMAIN book)
    BY DEF Proceeds, AllAt
  <1> HIDE DEF f, g, p, q
  <1>7. SumFunctionOnSet(f, DOMAIN book) + SumFunctionOnSet(g, DOMAIN book)
           <= SumFunctionOnSet(p, DOMAIN book) + SumFunctionOnSet(q, DOMAIN book)
    BY <1>2, <1>4, BookType, SumsCompare
  <1>8. Proceeds(w) \in Nat /\ Proceeds(t) \in Nat
    BY ProceedsType
  <1>9. Proceeds(w) + AllAt(l, t) <= Proceeds(t) + AllAt(l, t)
    BY <1>5, <1>6, <1>7
  <1>10. QED
    BY <1>5, <1>8, <1>9

\* The levels as far as the walk went.
LEMMA TakenType ==
  ASSUME Listed, i \in Nat, NEW q \in Nat, q % Unit = 0
  PROVE  Amounts(Taken(q))
  <1>1. 0 \in Nat /\ 0 % Unit = 0
    BY QuoteAssumption DEF QuoteAssumption
  <1>2. QED
    BY <1>1, BookType DEF Amounts, Taken

\* What the i-th level adds to those before it.
LEMMA TakenMore ==
  ASSUME Listed, i \in DOMAIN book, NEW q \in Nat, q % Unit = 0
  PROVE  /\ Total(Taken(q)) = Total(Taken(0)) + q
         /\ Proceeds(Taken(q)) = Proceeds(Taken(0)) + Worth(book[i], q)
  <1> DEFINE f == [k \in DOMAIN book |-> Worth(book[k], Taken(0)[k])]
             g == [k \in DOMAIN book |-> Worth(book[k], Taken(q)[k])]
  <1>0. IsFiniteSet(DOMAIN book)
    BY BookType
  <1>1. i \in Nat /\ book[i] \in Level /\ 0 \in Nat /\ 0 % Unit = 0
    BY BookType, QuoteAssumption DEF QuoteAssumption
  <1>2. Amounts(Taken(0)) /\ Amounts(Taken(q))
    BY <1>1, TakenType
  <1>3. /\ \A k \in DOMAIN book \ {i} : Taken(0)[k] = Taken(q)[k]
        /\ Taken(0)[i] = 0 /\ Taken(q)[i] = q
    BY <1>1, BookType DEF Taken
  <1>4. Total(Taken(q)) = Total(Taken(0)) + q
    <2>1. \A k \in DOMAIN book : Taken(0)[k] \in Int /\ Taken(q)[k] \in Int
      BY <1>2 DEF Amounts
    <2>2. Total(Taken(q)) = Total(Taken(0)) - Taken(0)[i] + Taken(q)[i]
      BY <1>0, <1>3, <2>1, SumChanged DEF Total
    <2>3. Total(Taken(0)) \in Nat
      BY <1>2, ProceedsType
    <2>4. QED
      BY <1>3, <2>2, <2>3
  <1>5. \A k \in DOMAIN book : f[k] \in Int /\ g[k] \in Int
    BY <1>2, ProceedsType
  <1>6. \A k \in DOMAIN book \ {i} : f[k] = g[k]
    BY <1>3
  <1>7. f[i] = 0 /\ g[i] = Worth(book[i], q) /\ g[i] \in Int
    BY <1>1, <1>3, <1>5, WorthType DEF Listed
  <1>8. Proceeds(Taken(0)) = SumFunctionOnSet(f, DOMAIN book)
        /\ Proceeds(Taken(q)) = SumFunctionOnSet(g, DOMAIN book)
    BY DEF Proceeds
  <1>9. Proceeds(Taken(0)) \in Nat
    BY <1>2, ProceedsType
  <1> HIDE DEF f, g
  <1>10. SumFunctionOnSet(g, DOMAIN book) = SumFunctionOnSet(f, DOMAIN book) - f[i] + g[i]
    BY <1>0, <1>5, <1>6, SumChanged
  <1>11. QED
    BY <1>4, <1>7, <1>8, <1>9, <1>10

-----------------------------------------------------------------------------
(* The size of the bid *)

\* The amounts of an auction as it was read.
LEMMA AuctionType ==
  ASSUME auction \in Offer
  PROVE  /\ auction.debt \in Nat /\ auction.collateral \in Nat
         /\ auction.collateral % Unit = 0
         /\ auction.debt = 0 => auction.collateral = 0
         /\ Unit \in Nat \ {0}
  BY QuoteAssumption DEF QuoteAssumption

\* A half more is rounded off.
LEMMA HalfCut ==
  ASSUME NEW h \in Nat \ {0}, NEW n \in Nat
  PROVE  (n * (2 * h) + h) \div (2 * h) = n
  <1> DEFINE m == 2 * h
  <1>1. m \in Nat \ {0} /\ h \in 0 .. m - 1
    OBVIOUS
  <1> HIDE DEF m
  <1>2. (n * m + h) \div m = n
    BY <1>1
  <1>3. QED
    BY <1>2 DEF m

\* The whole debt is worth the whole collateral.
LEMMA AtRateOfWhole ==
  ASSUME auction \in Offer, auction.debt # 0
  PROVE  AtRate(auction.debt) = auction.collateral
  <1> DEFINE d == auction.debt
             c == auction.collateral
             n == c \div Unit
  <1>1. d \in Nat \ {0} /\ Unit \in Nat \ {0} /\ n \in Nat /\ c = n * Unit
    BY AuctionType, Multiple
  <1> HIDE DEF d, c, n
  <1> DEFINE h == d * Unit
  <1>2. h \in Nat \ {0} /\ 2 * d * c + h = n * (2 * h) + h
    BY <1>1
  <1> HIDE DEF h
  <1>3. (2 * d * c + h) \div (2 * h) = n
    BY <1>1, <1>2, HalfCut
  <1>4. QED
    BY <1>1, <1>3 DEF AtRate, d, c, h

\* A cut bid is in steps of Unit too.
LEMMA AtRateType ==
  ASSUME auction \in Offer, auction.debt # 0, NEW d \in Int
  PROVE  AtRate(d) \in Int /\ AtRate(d) % Unit = 0
  <1> DEFINE h == auction.debt * Unit
             n == (2 * d * auction.collateral + h) \div (2 * h)
  <1>1. h \in Nat \ {0} /\ 2 * d * auction.collateral \in Int /\ Unit \in Nat \ {0}
    BY AuctionType
  <1>2. AtRate(d) = n * Unit
    BY DEF AtRate
  <1> HIDE DEF h
  <1>3. n \in Int
    BY <1>1
  <1> HIDE DEF n
  <1>4. n * Unit \in Int /\ (n * Unit) % Unit = 0
    BY <1>1, <1>3
  <1>5. QED
    BY <1>2, <1>4

\* There is one affordable bid at most.
LEMMA OneAffordable ==
  ASSUME auction \in Offer, free \in Int, NEW d, NEW c, Affordable(d, c),
         NEW e, NEW f, Affordable(e, f)
  PROVE  d = e /\ c = f
  <1>1. auction.debt \in Int
    BY AuctionType
  <1>2. d = e
    BY <1>1 DEF Affordable
  <1>3. QED
    BY <1>2 DEF Affordable

\* From the value of the bid on, it is for something and an affordable one.
LEMMA BidSize ==
  ASSUME IInv, pc \in {"book"} \cup Priced
  PROVE  /\ collateral \in Nat \ {0} /\ collateral % Unit = 0
         /\ auction.debt # 0 /\ Affordable(debt, collateral)
  <1>1. /\ collateral \in Int /\ usd \in Nat \ {0} /\ MinOrderValue \in Nat
        /\ collateral * usd > MinOrderValue
    BY QuoteAssumption DEF QuoteAssumption, IInv, TypeOK, LargeEnough
  <1>2. collateral > 0
    <2>1. CASE collateral <= 0
      <3>1. collateral * usd <= 0
        BY <1>1, <2>1
      <3>2. QED
        BY <1>1, <3>1
    <2>2. QED
      BY <1>1, <2>1
  <1>3. auction.debt # 0 /\ Affordable(debt, collateral)
    BY <1>2 DEF IInv, SizedAtRate
  <1>4. collateral % Unit = 0
    BY <1>3, AtRateType DEF IInv, SizedByInventory, TypeOK, Affordable
  <1>5. QED
    BY <1>1, <1>2, <1>3, <1>4

FreeType == free \in Int

\* A balance read in parts can be below zero, but it is a number.
LEMMA FreeIsInt ==
  ASSUME InventoryTypeOK
  PROVE  FreeType
  BY InventoryAssumption, QuoteAssumption
     DEF InventoryAssumption, QuoteAssumption, InventoryTypeOK, FreeType, free

\* What sells no better than the bid of the try is no reason to bid.
LEMMA OnlyTheBid ==
  ASSUME auction \in Offer, FreeType, Affordable(debt, collateral),
         collateral * usd <= MinOrderValue
         \/ \A w \in Ways(collateral) : Proceeds(w) * 100 <= debt * (100 + MarginPct),
         \A w \in Ways(collateral) : Proceeds(w) \in Int,
         usd \in Int, debt \in Int, collateral \in Int
  PROVE  NoneWorthwhile
  <1>1. MinOrderValue \in Int /\ MarginPct \in Int
    BY QuoteAssumption DEF QuoteAssumption
  <1>2. ASSUME NEW d, NEW c, Worthwhile(d, c) PROVE FALSE
    <2>1. d = debt /\ c = collateral
      BY <1>2, OneAffordable DEF Worthwhile, FreeType
    <2>2. /\ collateral * usd > MinOrderValue
          /\ \E w \in Ways(collateral) : Proceeds(w) * 100 > debt * (100 + MarginPct)
      BY <1>2, <2>1 DEF Worthwhile
    <2>3. PICK w \in Ways(collateral) : Proceeds(w) * 100 > debt * (100 + MarginPct)
      BY <2>2
    <2>4. Proceeds(w) \in Int
      OBVIOUS
    <2>5. collateral * usd \in Int /\ debt * (100 + MarginPct) \in Int
      BY <1>1
    <2>6. QED
      BY <1>1, <2>2, <2>3, <2>4, <2>5
  <1>3. QED
    BY <1>2 DEF NoneWorthwhile

\* Nothing is affordable with nothing free.
LEMMA NothingFree ==
  ASSUME auction \in Offer, free = 0
  PROVE  NoneWorthwhile
  <1>1. ASSUME NEW d, NEW n \in 1 .. auction.collateral \div Unit, Affordable(d, n * Unit)
        PROVE  FALSE
    <2>1. /\ auction.debt \in Nat \ {0} /\ auction.collateral \in Nat /\ Unit \in Nat \ {0}
          /\ n \in Nat \ {0}
      BY <1>1, AuctionType DEF Affordable
    <2>2. d = 0
      BY <1>1, <2>1 DEF Affordable
    <2>3. n * Unit = AtRate(0)
      BY <1>1, <2>2 DEF Affordable
    <2> DEFINE h == auction.debt * Unit
    <2>4. h \in Nat \ {0} /\ 2 * 0 * auction.collateral + h = h
      BY <2>1
    <2>5. h \div (2 * h) = 0
      <3>1. 0 * (2 * h) + h = h
        BY <2>4
      <3> HIDE DEF h
      <3>2. QED
        BY <2>4, <3>1, HalfCut
    <2>6. AtRate(0) = 0
      BY <2>1, <2>4, <2>5 DEF AtRate
    <2>7. n * Unit \in Nat \ {0}
      BY <2>1
    <2>8. QED
      BY <2>3, <2>6, <2>7
  <1>2. QED
    BY <1>1 DEF NoneWorthwhile, Worthwhile

\* Nor with no debt left.
LEMMA NoDebt ==
  ASSUME auction.debt = 0
  PROVE  NoneWorthwhile
  BY DEF NoneWorthwhile, Worthwhile, Affordable

-----------------------------------------------------------------------------
(* The quote *)

\* Integer division is monotonic.
LEMMA DivisionGrows ==
  ASSUME NEW a \in Nat, NEW b \in Nat, a <= b, NEW u \in Nat \ {0}
  PROVE  a \div u <= b \div u /\ a \div u \in Nat
  OBVIOUS

\* A way to sell c of the collateral is a choice of amounts.
LEMMA WaysType ==
  ASSUME Listed, NEW c \in Nat, NEW w \in Ways(c)
  PROVE  /\ Amounts(w) /\ Total(w) = c
         /\ \A k \in DOMAIN book : w[k] <= Depth(book[k])
  <1>1. Unit \in Nat \ {0}
    BY QuoteAssumption DEF QuoteAssumption
  <1>2. \A n \in Nat : n * Unit \in Nat /\ (n * Unit) % Unit = 0
    BY <1>1
  <1>3. w \in [DOMAIN book -> {n * Unit : n \in 0 .. c \div Unit}]
    BY DEF Ways
  <1>4. ASSUME NEW k \in DOMAIN book PROVE w[k] \in Nat /\ w[k] % Unit = 0
    <2>1. PICK n \in 0 .. c \div Unit : w[k] = n * Unit
      BY <1>3
    <2>2. c \div Unit \in Nat
      BY <1>1
    <2>3. QED
      BY <1>2, <2>1, <2>2
  <1>5. QED
    BY <1>3, <1>4 DEF Ways, Amounts, Total

\* So is what the walk takes.
LEMMA TakenIsAWay ==
  ASSUME Listed, i \in DOMAIN book, NEW q \in Nat, q % Unit = 0, q <= Depth(book[i]),
         NEW c \in Nat, c = Total(Taken(q))
  PROVE  Taken(q) \in Ways(c)
  <1>1. Unit \in Nat \ {0}
    BY QuoteAssumption DEF QuoteAssumption
  <1>2. Amounts(Taken(q)) /\ \A k \in DOMAIN book : Taken(q)[k] <= c
    <2>1. Amounts(Taken(q))
      BY BookType, TakenType
    <2>2. QED
      BY <2>1, ProceedsType
  <1> DEFINE t == Taken(q)
  <1>3. \A k \in DOMAIN book : t[k] <= Depth(book[k])
    BY BookType DEF Taken
  <1>4. t = [k \in DOMAIN book |-> t[k]]
    BY DEF Taken
  <1> HIDE DEF t
  <1>5. ASSUME NEW k \in DOMAIN book
        PROVE  t[k] \in {n * Unit : n \in 0 .. c \div Unit}
    <2>1. t[k] \in Nat /\ t[k] % Unit = 0 /\ t[k] <= c
      BY <1>2 DEF Amounts, t
    <2>2. t[k] = (t[k] \div Unit) * Unit
      BY <2>1, Multiple
    <2>3. t[k] \div Unit \in 0 .. c \div Unit
      BY <1>1, <2>1, DivisionGrows
    <2>4. QED
      BY <2>2, <2>3
  <1>6. SumFunctionOnSet(t, DOMAIN book) = c
    BY DEF Total, t
  <1>7. t \in Ways(c)
    BY <1>3, <1>4, <1>5, <1>6 DEF Ways
  <1>8. QED
    BY <1>7 DEF t

\* The book is listed in every state of the invariant.
LEMMA InvLists ==
  ASSUME IInv
  PROVE  Listed
  BY SidesOnly DEF IInv, BookRead, Listed

\* The walk sells all that is won, and no way to sell it earns more.
LEMMA QuoteBest ==
  ASSUME IInv, pc \in Quoted
  PROVE  /\ \E w \in Ways(collateral) : Proceeds(w) = receive
         /\ \A w \in Ways(collateral) : Proceeds(w) \in Nat /\ Proceeds(w) <= receive
  <1>1. Listed /\ i \in DOMAIN book /\ collateral \in Nat
    BY InvLists, BidSize DEF IInv, WalkIsExact, Quoted, Priced
  <1>2. PICK q \in 1 .. Depth(book[i]) : q % Unit = 0 /\ Sold(q)
    BY DEF IInv, WalkIsExact
  <1>3. q \in Nat /\ q <= Depth(book[i]) /\ i \in Nat
    BY <1>1, <1>2, BookType
  <1>4. Amounts(Taken(q)) /\ Total(Taken(q)) \in Nat
    BY <1>1, <1>2, <1>3, TakenType, ProceedsType
  <1>5. collateral = Total(Taken(q)) /\ receive = Proceeds(Taken(q))
    BY <1>2, <1>4 DEF Sold, Total, IInv, WalkIsExact
  <1>6. Taken(q) \in Ways(collateral)
    BY <1>1, <1>2, <1>3, <1>5, TakenIsAWay
  <1>7. ASSUME NEW w \in Ways(collateral)
        PROVE  Proceeds(w) \in Nat /\ Proceeds(w) <= receive
    <2>1. Amounts(w) /\ Total(w) = collateral /\ \A k \in DOMAIN book : w[k] <= Depth(book[k])
      BY <1>1, WaysType
    <2>2. /\ \A k \in DOMAIN book : k < i => w[k] <= Taken(q)[k]
          /\ \A k \in DOMAIN book : k > i => Taken(q)[k] = 0
      BY <1>1, <2>1, BookType DEF Taken
    <2>3. Proceeds(w) <= Proceeds(Taken(q))
      BY <1>1, <1>4, <1>5, <2>1, <2>2, BestFromTheTop
    <2>4. QED
      BY <1>1, <1>5, <2>1, <2>3, ProceedsType
  <1>8. QED
    BY <1>5, <1>6, <1>7

-----------------------------------------------------------------------------
(* Powers of ten *)

\* A set of natural numbers has a least one.
LEMMA LeastNat ==
  ASSUME NEW T \in SUBSET Nat, T # {}
  PROVE  \E n \in T : \A m \in T : n <= m
  <1> DEFINE R == OpToRel(<, Nat)
  <1>1. IsWellFoundedOn(R, Nat)
    BY NatLessThanWellFounded
  <1>2. \A m, n \in Nat : m < n => <<m, n>> \in R
    BY DEF OpToRel
  <1> HIDE DEF R
  <1>3. \E n \in T : \A m \in T : ~ (<<m, n>> \in R)
    BY <1>1, WFMin
  <1>4. PICK n \in T : \A m \in T : ~ (<<m, n>> \in R)
    BY <1>3
  <1>5. n \in Nat /\ \A m \in T : m \in Nat
    OBVIOUS
  <1>6. ASSUME NEW m \in T PROVE n <= m
    <2>1. ~ (m < n)
      BY <1>2, <1>4, <1>5
    <2>2. QED
      BY <1>5, <2>1
  <1>7. QED
    BY <1>6

\* Induction on the natural numbers, for a set of them.
LEMMA LeastOut ==
  ASSUME NEW Good, 0 \in Good, NEW w \in Nat, w \notin Good
  PROVE  \E n \in Nat : n \in Good /\ n + 1 \notin Good
  <1> DEFINE Bad == {n \in Nat : n \notin Good}
  <1>1. PICK n \in Bad : \A m \in Bad : n <= m
    <2>1. Bad \in SUBSET Nat /\ Bad # {}
      OBVIOUS
    <2> HIDE DEF Bad
    <2>2. QED
      BY <2>1, LeastNat
  <1>2. n \in Nat /\ n # 0 /\ n \notin Good
    OBVIOUS
  <1>3. n - 1 \in Nat /\ n - 1 \in Good /\ (n - 1) + 1 = n
    BY <1>1, <1>2
  <1>4. QED
    BY <1>2, <1>3

\* The first powers of ten, up to the n-th.
Powers(h, n) ==
    /\ h \in [0 .. n -> Nat]
    /\ h[0] = 1
    /\ \A k \in 1 .. n : h[k] = 10 * h[k - 1]

\* There are tables of powers of any length.
LEMMA PowersExist ==
  ASSUME NEW n \in Nat
  PROVE  \E h : Powers(h, n)
  <1> DEFINE Good == {k \in Nat : \E h : Powers(h, k)}
  <1>1. SUFFICES ASSUME n \notin Good PROVE FALSE
    OBVIOUS
  <1>2. 0 \in Good
    <2>1. Powers([k \in 0 .. 0 |-> 1], 0)
      BY DEF Powers
    <2>2. QED
      BY <2>1
  <1>3. PICK k \in Nat : k \in Good /\ k + 1 \notin Good
    <2> HIDE DEF Good
    <2>1. QED
      BY <1>1, <1>2, LeastOut
  <1>4. PICK h : Powers(h, k)
    BY <1>3
  <1>5. Powers([j \in 0 .. k + 1 |-> IF j <= k THEN h[j] ELSE 10 * h[k]], k + 1)
    BY <1>4 DEF Powers
  <1>6. QED
    BY <1>3, <1>5

\* And two of them agree as far as both go.
LEMMA PowersUnique ==
  ASSUME NEW n \in Nat, NEW m \in Nat, m <= n, NEW g, Powers(g, n), NEW h, Powers(h, m)
  PROVE  g[m] = h[m]
  <1> DEFINE Good == {k \in Nat : k <= m => g[k] = h[k]}
  <1>1. SUFFICES ASSUME m \notin Good PROVE FALSE
    OBVIOUS
  <1>2. 0 \in Good
    BY DEF Powers
  <1>3. PICK k \in Nat : k \in Good /\ k + 1 \notin Good
    <2> HIDE DEF Good
    <2>1. QED
      BY <1>1, <1>2, LeastOut
  <1>4. k + 1 <= m /\ g[k] = h[k] /\ g[k + 1] # h[k + 1]
    BY <1>3
  <1>5. k + 1 \in 1 .. m /\ k + 1 \in 1 .. n /\ (k + 1) - 1 = k
    BY <1>4
  <1>6. g[k + 1] = 10 * g[k] /\ h[k + 1] = 10 * h[k]
    BY <1>5 DEF Powers
  <1>7. QED
    BY <1>4, <1>6

IsTen(t) == t = [n \in Nat |-> IF n = 0 THEN 1 ELSE 10 * t[n - 1]]

\* So the recursive definition of Ten defines what it says.
LEMMA TenIsTen == IsTen(Ten)
  <1> DEFINE h == [n \in Nat |-> CHOOSE g : Powers(g, n)]
             t == [n \in Nat |-> h[n][n]]
  <1>1. \A n \in Nat : Powers(h[n], n)
    BY PowersExist
  <1> HIDE DEF h
  <1>2. t[0] = 1
    BY <1>1 DEF Powers
  <1>3. ASSUME NEW n \in Nat, n # 0 PROVE t[n] = 10 * t[n - 1]
    <2>1. n - 1 \in Nat /\ n - 1 <= n /\ n \in 1 .. n
      BY <1>3
    <2>2. h[n][n] = 10 * h[n][n - 1]
      BY <1>1, <2>1 DEF Powers
    <2>3. h[n][n - 1] = h[n - 1][n - 1]
      BY <1>1, <2>1, PowersUnique
    <2>4. QED
      BY <2>1, <2>2, <2>3
  <1>4. IsTen(t)
    BY <1>2, <1>3 DEF IsTen
  <1>5. Ten = CHOOSE g : IsTen(g)
    BY DEF Ten, IsTen
  <1>6. QED
    BY <1>4, <1>5

\* The equations of Ten.
LEMMA TenGrows ==
  /\ Ten[0] = 1
  /\ \A n \in Nat : Ten[n + 1] = 10 * Ten[n]
  <1>1. \A n \in Nat : Ten[n] = IF n = 0 THEN 1 ELSE 10 * Ten[n - 1]
    BY TenIsTen DEF IsTen
  <1>2. QED
    BY <1>1

\* Every power of ten is larger than its exponent.
LEMMA TenType ==
  ASSUME NEW n \in Nat
  PROVE  Ten[n] \in Nat /\ Ten[n] > n
  <1> DEFINE Good == {k \in Nat : Ten[k] \in Nat /\ Ten[k] > k}
  <1>1. SUFFICES ASSUME n \notin Good PROVE FALSE
    OBVIOUS
  <1>2. 0 \in Good
    BY TenGrows
  <1>3. PICK k \in Nat : k \in Good /\ k + 1 \notin Good
    <2> HIDE DEF Good
    <2>1. QED
      BY <1>1, <1>2, LeastOut
  <1>4. QED
    BY <1>3, TenGrows

\* Exponents add.
LEMMA TenAdds ==
  ASSUME NEW m \in Nat, NEW n \in Nat
  PROVE  Ten[m + n] = Ten[m] * Ten[n]
  <1> DEFINE Good == {k \in Nat : Ten[m + k] = Ten[m] * Ten[k]}
  <1>1. SUFFICES ASSUME n \notin Good PROVE FALSE
    OBVIOUS
  <1>2. 0 \in Good
    <2>1. Ten[m] \in Nat /\ m + 0 = m
      BY TenType
    <2>2. QED
      BY <2>1, TenGrows
  <1>3. PICK k \in Nat : k \in Good /\ k + 1 \notin Good
    <2> HIDE DEF Good
    <2>1. QED
      BY <1>1, <1>2, LeastOut
  <1>4. Ten[m + (k + 1)] = 10 * Ten[m + k] /\ Ten[k + 1] = 10 * Ten[k]
    <2>1. m + k \in Nat /\ m + (k + 1) = (m + k) + 1
      OBVIOUS
    <2>2. QED
      BY <2>1, TenGrows
  <1>5. Ten[m] \in Nat /\ Ten[k] \in Nat
    BY TenType
  <1>6. Ten[m] * (10 * Ten[k]) = 10 * (Ten[m] * Ten[k])
    BY <1>5
  <1>7. QED
    BY <1>3, <1>4, <1>6
-----------------------------------------------------------------------------
(* The digits of the price limit *)

Grains == Grain \in Nat /\ PricePrecision \in Nat /\ PriceDecimal \in Nat

\* The digits of a price are counted in natural numbers.
LEMMA GrainType == Grains
  BY QuoteAssumption DEF QuoteAssumption, Grain, Grains

\* Every number has digits before the point, one at least.
LEMMA Digits ==
  ASSUME NEW d \in Nat
  PROVE  IntDigits(d) \in Nat \ {0}
  <1> DEFINE Fits == {n \in 1 .. d + 1 : d < Ten[Grain + n]}
  <1>1. Grain \in Nat
    BY GrainType DEF Grains
  <1>2. d + 1 \in Fits
    <2>1. Grain + (d + 1) \in Nat
      BY <1>1
    <2>2. Ten[Grain + (d + 1)] \in Nat /\ Ten[Grain + (d + 1)] > Grain + (d + 1)
      BY <2>1, TenType
    <2>3. d < Ten[Grain + (d + 1)]
      BY <1>1, <2>2
    <2>4. QED
      BY <2>3
  <1>3. PICK n \in Fits : \A m \in Fits : n <= m
    <2>1. Fits \in SUBSET Nat /\ Fits # {}
      BY <1>2
    <2> HIDE DEF Fits
    <2>2. QED
      BY <2>1, LeastNat
  <1>4. n > 1 => d >= Ten[Grain + n - 1]
    <2>1. SUFFICES ASSUME n > 1 PROVE d >= Ten[Grain + n - 1]
      OBVIOUS
    <2>2. n - 1 \in 1 .. d + 1 /\ n - 1 \notin Fits
      BY <1>3, <2>1
    <2>3. Grain + (n - 1) \in Nat /\ Grain + (n - 1) = Grain + n - 1
      BY <1>1, <1>3
    <2>4. Ten[Grain + (n - 1)] \in Nat
      BY <2>3, TenType
    <2>5. QED
      BY <2>2, <2>3, <2>4
  <1>5. \E k \in 1 .. d + 1 : d < Ten[Grain + k] /\ (k > 1 => d >= Ten[Grain + k - 1])
    BY <1>3, <1>4
  <1>6. IntDigits(d) \in 1 .. d + 1
    BY <1>5 DEF IntDigits
  <1>7. QED
    BY <1>6

\* The unit of the n-th decimal, in Grain.
UnitOf(n) == IF n >= Grain THEN 1 ELSE Ten[Grain - n]

\* A unit is a positive number.
LEMMA UnitType ==
  ASSUME NEW n \in Nat
  PROVE  UnitOf(n) \in Nat \ {0}
  <1>1. Grain \in Nat
    BY GrainType DEF Grains
  <1>2. CASE n >= Grain
    BY <1>2 DEF UnitOf
  <1>3. CASE ~ n >= Grain
    <2>1. Grain - n \in Nat
      BY <1>1, <1>3
    <2>2. Ten[Grain - n] \in Nat \ {0}
      BY <2>1, TenType
    <2>3. QED
      BY <1>3, <2>2 DEF UnitOf
  <1>4. QED
    BY <1>2, <1>3

\* A cut takes off less than a unit of the last digit kept.
LEMMA CutType ==
  ASSUME NEW d \in Nat, NEW n \in Nat
  PROVE  /\ CutTo(d, n) = (d \div UnitOf(n)) * UnitOf(n)
         /\ CutTo(d, n) \in Nat /\ CutTo(d, n) <= d /\ d < CutTo(d, n) + UnitOf(n)
  <1> DEFINE u == UnitOf(n)
  <1>1. u \in Nat \ {0}
    BY UnitType
  <1>2. CutTo(d, n) = (d \div u) * u
    <2>1. CASE n >= Grain
      BY <2>1 DEF CutTo, UnitOf
    <2>2. CASE ~ n >= Grain
      BY <2>2 DEF CutTo, UnitOf
    <2>3. QED
      BY <2>1, <2>2
  <1> HIDE DEF u
  <1>3. (d \div u) * u \in Nat /\ (d \div u) * u <= d /\ d < (d \div u) * u + u
    BY <1>1
  <1>4. QED
    BY <1>2, <1>3 DEF u

\* Cutting a cut to a digit further on changes nothing.
LEMMA CutFiner ==
  ASSUME NEW u \in Nat \ {0}, NEW v \in Nat \ {0}, NEW x \in Nat, NEW c \in Nat, c = x * u,
         NEW m \in Nat \ {0}, u = m * v
  PROVE  (c \div v) * v = c
  <1>1. c = (x * m) * v /\ x * m \in Nat
    OBVIOUS
  <1>2. c \div v = x * m
    BY <1>1, ExactDivision
  <1>3. QED
    BY <1>1, <1>2

\* Cutting a cut to a digit before it is cutting once.
LEMMA CutCoarser ==
  ASSUME NEW u \in Nat \ {0}, NEW v \in Nat \ {0}, NEW m \in Nat \ {0}, v = m * u,
         NEW d \in Nat, NEW x \in Nat, d < x * u + u,
         NEW y \in Nat, x * u < y * v + v
  PROVE  d < y * v + v
  <1> DEFINE z == (y + 1) * m
  <1>1. z \in Nat /\ y * v + v = z * u
    <2>1. y * v + v = (y + 1) * v
      OBVIOUS
    <2>2. (y + 1) * (m * u) = ((y + 1) * m) * u
      OBVIOUS
    <2>3. QED
      BY <2>1, <2>2
  <1> HIDE DEF z
  <1>2. x + 1 <= z
    <2>1. CASE x >= z
      <3>1. (x - z) * u \in Nat /\ (x - z) * u = x * u - z * u
        BY <1>1, <2>1
      <3>2. QED
        BY <1>1, <3>1
    <2>2. QED
      BY <1>1, <2>1
  <1>3. (z - (x + 1)) * u \in Nat /\ (z - (x + 1)) * u = z * u - (x * u + u)
    BY <1>1, <1>2
  <1>4. z * u \in Nat /\ x * u \in Nat
    BY <1>1
  <1>5. QED
    BY <1>1, <1>3, <1>4

\* The least of three numbers, two of them in order.
LEMMA LeastOfThree ==
  ASSUME NEW a \in Int, NEW b \in Int, NEW c \in Int, a <= b
  PROVE  Min({a, b, c}) = IF a <= c THEN a ELSE c
  BY DEF Min

\* The unit of an earlier decimal is so many of that of a later one.
LEMMA UnitsNest ==
  ASSUME NEW m \in Nat, NEW n \in Nat, m <= n
  PROVE  /\ \E k \in Nat \ {0} : UnitOf(m) = k * UnitOf(n)
         /\ Ten[Grain - Min({m, n, Grain})] = UnitOf(m)
         /\ Ten[Grain - Min({n, m, Grain})] = UnitOf(m)
  <1>1. Grain \in Nat
    BY GrainType DEF Grains
  <1>2. {n, m, Grain} = {m, n, Grain}
    OBVIOUS
  <1>3. Min({m, n, Grain}) = IF m <= Grain THEN m ELSE Grain
    BY <1>1, LeastOfThree
  <1>4. CASE m >= Grain
    <2>1. UnitOf(m) = 1 /\ UnitOf(n) = 1
      BY <1>1, <1>4 DEF UnitOf
    <2>2. Grain - Min({m, n, Grain}) = 0
      BY <1>1, <1>3, <1>4
    <2>3. UnitOf(m) = 1 * UnitOf(n)
      BY <2>1
    <2>4. /\ Ten[Grain - Min({m, n, Grain})] = UnitOf(m)
          /\ Ten[Grain - Min({n, m, Grain})] = UnitOf(m)
      BY <1>2, <2>1, <2>2, TenGrows
    <2>5. QED
      BY <2>3, <2>4
  <1>5. CASE m < Grain
    <2>1. Grain - m \in Nat /\ UnitOf(m) = Ten[Grain - m]
      BY <1>1, <1>5 DEF UnitOf
    <2>2. UnitOf(m) \in Nat \ {0}
      BY <2>1, TenType
    <2>3. Min({m, n, Grain}) = m
      BY <1>1, <1>3, <1>5
    <2>4. UnitOf(n) \in Nat \ {0} /\ \E k \in Nat \ {0} : UnitOf(m) = k * UnitOf(n)
      <3>1. CASE n >= Grain
        BY <2>2, <3>1 DEF UnitOf
      <3>2. CASE n < Grain
        <4>1. /\ Grain - n \in Nat /\ n - m \in Nat /\ UnitOf(n) = Ten[Grain - n]
              /\ Grain - m = (n - m) + (Grain - n)
          BY <1>1, <3>2 DEF UnitOf
        <4>2. Ten[Grain - m] = Ten[n - m] * Ten[Grain - n]
          BY <4>1, TenAdds
        <4>3. Ten[n - m] \in Nat \ {0} /\ Ten[Grain - n] \in Nat \ {0}
          BY <4>1, TenType
        <4>4. QED
          BY <2>1, <4>1, <4>2, <4>3
      <3>3. QED
        BY <1>1, <3>1, <3>2
    <2>5. QED
      BY <1>2, <2>1, <2>2, <2>3, <2>4
  <1>6. QED
    BY <1>1, <1>4, <1>5

\* The limit is where it should be, or less than Place below.
LEMMA LimitCut ==
  ASSUME NEW d \in Nat, IntDigits(d) <= PricePrecision
  PROVE  LET c == SetDecimal(SetPrecision(d, PricePrecision), PriceDecimal)
             p == Ten[Grain - Min({PricePrecision - IntDigits(d), PriceDecimal, Grain})]
         IN  c \in Nat /\ p \in Nat /\ c <= d /\ d < c + p
  <1> DEFINE n == PricePrecision - IntDigits(d)
             u == UnitOf(n)
             v == UnitOf(PriceDecimal)
             a == CutTo(d, n)
             c == CutTo(a, PriceDecimal)
  <1>1. Grain \in Nat /\ PriceDecimal \in Nat /\ PricePrecision \in Nat /\ IntDigits(d) \in Nat
    BY GrainType, Digits DEF Grains
  <1>2. n \in Nat
    BY <1>1
  <1>3. SetDecimal(SetPrecision(d, PricePrecision), PriceDecimal) = c
    BY <1>1 DEF SetDecimal, SetPrecision
  <1>4. u \in Nat \ {0} /\ v \in Nat \ {0}
    <2>1. \A k \in Nat : UnitOf(k) \in Nat \ {0}
      BY UnitType
    <2>2. QED
      BY <1>1, <1>2, <2>1
  <1> HIDE DEF n
  <1>0. \A e, k \in Nat :
           /\ CutTo(e, k) = (e \div UnitOf(k)) * UnitOf(k)
           /\ CutTo(e, k) \in Nat /\ CutTo(e, k) <= e /\ e < CutTo(e, k) + UnitOf(k)
    BY CutType
  <1>5. a = (d \div u) * u /\ a \in Nat /\ a <= d /\ d < a + u
    BY <1>0, <1>2
  <1> HIDE DEF a
  <1>6. c = (a \div v) * v /\ c \in Nat /\ c <= a
    BY <1>0, <1>1, <1>5
  <1> HIDE DEF c, u, v
  <1> DEFINE p == Ten[Grain - Min({n, PriceDecimal, Grain})]
  <1>7. CASE n <= PriceDecimal
    <2>1. PICK m \in Nat \ {0} : u = m * v
      BY <1>1, <1>2, <1>7, UnitsNest DEF u, v
    <2>2. p = u
      BY <1>1, <1>2, <1>7, UnitsNest DEF u
    <2>3. c = a
      <3>1. d \div u \in Nat
        BY <1>4
      <3>2. QED
        BY <1>4, <1>5, <1>6, <2>1, <3>1, CutFiner
    <2> HIDE DEF p
    <2>4. QED
      BY <1>3, <1>4, <1>5, <2>2, <2>3 DEF p, n
  <1>8. CASE n > PriceDecimal
    <2>1. PICK m \in Nat \ {0} : v = m * u
      <3>1. PriceDecimal <= n
        BY <1>1, <1>2, <1>8
      <3>2. QED
        BY <1>1, <1>2, <3>1, UnitsNest DEF u, v
    <2>2. p = v
      <3>1. PriceDecimal <= n
        BY <1>1, <1>2, <1>8
      <3>2. QED
        BY <1>1, <1>2, <3>1, UnitsNest DEF v
    <2>3. d < c + v
      <3>1. d \div u \in Nat /\ a \div v \in Nat /\ a < (a \div v) * v + v
        BY <1>4, <1>5
      <3>2. QED
        BY <1>4, <1>5, <1>6, <2>1, <3>1, CutCoarser
    <2>4. c <= d
      BY <1>5, <1>6
    <2> HIDE DEF p
    <2>5. QED
      BY <1>3, <1>4, <1>6, <2>2, <2>3, <2>4 DEF p, n
  <1>9. QED
    BY <1>1, <1>2, <1>7, <1>8

\* A limit is a number, whatever the digits of the price.
LEMMA LimitType ==
  ASSUME NEW d \in Nat
  PROVE  SetDecimal(SetPrecision(d, PricePrecision), PriceDecimal) \in Nat
  <1>1. /\ Grain \in Nat /\ PriceDecimal \in Nat /\ PricePrecision \in Nat
        /\ IntDigits(d) \in Nat
    BY GrainType, Digits DEF Grains
  <1>2. \A e \in Nat : \A n \in Nat : CutTo(e, n) \in Nat
    BY CutType
  <1>3. SetPrecision(d, PricePrecision) \in Nat
    <2>1. CASE IntDigits(d) > PricePrecision
      <3>1. Grain + IntDigits(d) - PricePrecision \in Nat
        BY <1>1, <2>1
      <3>2. /\ Ten[Grain + IntDigits(d) - PricePrecision] \in Nat \ {0}
            /\ Ten[Grain] \in Nat
        BY <1>1, <3>1, TenType
      <3>3. (d \div Ten[Grain + IntDigits(d) - PricePrecision]) * Ten[Grain] \in Nat
        BY <3>2
      <3>4. QED
        BY <2>1, <3>3 DEF SetPrecision
    <2>2. CASE ~ IntDigits(d) > PricePrecision
      <3>1. PricePrecision - IntDigits(d) \in Nat
        BY <1>1, <2>2
      <3>2. QED
        BY <1>2, <2>2, <3>1 DEF SetPrecision
    <2>3. QED
      BY <2>1, <2>2
  <1>4. QED
    BY <1>1, <1>2, <1>3 DEF SetDecimal

-----------------------------------------------------------------------------
(* The inventory *)

USE InventoryAssumption DEF InventoryAssumption

Reading == InventoryTypeOK /\ AllAsked /\ TotalUpToDepartures /\ FreeUpToDepartures

\* A balance is entered as it is; the locks are taken off what has departed in
\* part at most.
LEMMA CallStep ==
  ASSUME Reading, ReadLocks \/ ReadFails \/ \E s \in Asset : ReadBalance(s)
  PROVE  Reading'
  <1> USE DEF Reading, InventoryTypeOK, AllAsked, TotalUpToDepartures, FreeUpToDepartures,
              walletVars, Free
  <1>1. CASE ReadLocks
    <2>1. /\ reading' = "done"
          /\ toRead = {}
          /\ inventory' = [s \in Asset |-> inventory[s] - locked[s]]
          /\ UNCHANGED <<total, locked, toRead, moves, departed>>
      BY <1>1 DEF ReadLocks, ReadsLocksAs
    <2>2. \A s \in Asset : inventory[s] <= total[s] + departed[s]
      BY <1>1 DEF ReadLocks, ReadsLocksAs
    <2>3. InventoryTypeOK'
      <3>1. \A s \in Asset : inventory[s] - locked[s] \in -MaxBalance .. MaxBalance
        BY <1>1 DEF ReadLocks, ReadsLocksAs
      <3>2. QED
        BY <2>1, <3>1
    <2>4. QED
      BY <2>1, <2>2, <2>3
  <1>2. CASE ReadFails
    BY <1>2 DEF ReadFails, FailsAs
  <1>3. ASSUME NEW s \in Asset, ReadBalance(s)
        PROVE  Reading'
    BY <1>3 DEF ReadBalance
  <1>4. QED
    BY <1>1, <1>2, <1>3

\* A move of the wallet keeps Reading when what leaves a balance departs.
LEMMA DepartingKeepsReading ==
  ASSUME Reading,
         total' \in [Asset -> 0 .. MaxBalance], locked' \in [Asset -> 0 .. MaxBalance],
         \A s \in Asset : locked'[s] <= total'[s],
         moves' \in 0 .. MaxMoves, departed' \in [Asset -> Nat],
         UNCHANGED <<toRead, inventory, reading>>,
         reading = "asking" =>
            \A s \in Asset \ toRead : total[s] + departed[s] <= total'[s] + departed'[s],
         reading = "done" =>
            \A s \in Asset : total[s] - locked[s] + departed[s]
                              <= total'[s] - locked'[s] + departed'[s]
  PROVE  Reading'
  <1>1. InventoryTypeOK'
    BY DEF Reading, InventoryTypeOK
  <1>2. TotalUpToDepartures'
    BY DEF Reading, InventoryTypeOK, TotalUpToDepartures
  <1>3. FreeUpToDepartures'
    BY DEF Reading, InventoryTypeOK, FreeUpToDepartures, Free
  <1>4. QED
    BY <1>1, <1>2, <1>3 DEF Reading, AllAsked

\* Every move of the wallet is a departing one.
LEMMA WalletMoved ==
  ASSUME Reading, WalletStep
  PROVE  Reading'
  <1> USE DEF Moves, Free, InventoryTypeOK
  <1>0. InventoryTypeOK
    BY DEF Reading
  <1>1. ASSUME NEW s \in Asset, Lock(s)
        PROVE  Reading'
    <2>1. /\ moves' \in 0 .. MaxMoves
          /\ UNCHANGED <<total, toRead, inventory, reading>>
          /\ locked' = [locked EXCEPT ![s] = @ + Portion]
          /\ locked[s] + Portion <= total[s]
      BY <1>0, <1>1 DEF Lock
    <2>2. locked' \in [Asset -> 0 .. MaxBalance] /\ \A u \in Asset : locked'[u] <= total'[u]
      BY <1>0, <2>1
    <2>3. /\ departed' \in [Asset -> Nat]
          /\ \A u \in Asset : departed'[u] >= departed[u]
      BY <1>0, <1>1 DEF Lock, Departs
    <2>4. CASE reading = "done" /\ s \notin toRead
      <3>1. departed' = [departed EXCEPT ![s] = @ + Portion]
        BY <1>1, <2>4 DEF Lock, Departs
      <3>2. \A u \in Asset : total[u] - locked[u] + departed[u]
                              <= total'[u] - locked'[u] + departed'[u]
        BY <1>0, <2>1, <3>1
      <3>3. QED
        BY <1>0, <2>1, <2>2, <2>3, <2>4, <3>2, DepartingKeepsReading
    <2>5. CASE reading # "done"
      <3>1. ASSUME NEW u \in Asset
            PROVE  total[u] + departed[u] <= total'[u] + departed'[u]
        <4>1. total[u] \in Int /\ departed[u] \in Int /\ departed'[u] \in Int
          BY <1>0, <2>3
        <4>2. total' = total /\ departed'[u] >= departed[u]
          BY <2>1, <2>3
        <4>3. QED
          BY <4>1, <4>2
      <3>2. QED
        BY <1>0, <2>1, <2>2, <2>3, <2>5, <3>1, DepartingKeepsReading
    <2>6. QED
      BY <1>0, <2>4, <2>5 DEF Reading, AllAsked
  <1>2. ASSUME NEW s \in Asset, Deposit(s)
        PROVE  Reading'
    BY <1>0, <1>2, DepartingKeepsReading DEF Deposit
  <1>3. ASSUME NEW s \in Asset, Withdraw(s)
        PROVE  Reading'
    <2>1. /\ moves' \in 0 .. MaxMoves
          /\ UNCHANGED <<locked, toRead, inventory, reading>>
          /\ total' = [total EXCEPT ![s] = @ - Portion]
          /\ locked[s] + Portion <= total[s]
          /\ departed' = [departed EXCEPT ![s] = IF s \in toRead THEN @ ELSE @ + Portion]
      BY <1>0, <1>3 DEF Withdraw, Departs
    <2>2. /\ total' \in [Asset -> 0 .. MaxBalance] /\ departed' \in [Asset -> Nat]
          /\ \A u \in Asset : locked'[u] <= total'[u]
      BY <1>0, <2>1
    <2>3. \A u \in Asset \ toRead : total[u] + departed[u] <= total'[u] + departed'[u]
      BY <1>0, <2>1
    <2>4. reading = "done" => toRead = {}
      BY DEF Reading, AllAsked
    <2>5. QED
      BY <1>0, <2>1, <2>2, <2>3, <2>4, DepartingKeepsReading
  <1>4. ASSUME NEW s \in Asset, NEW u \in Asset, Settle(s, u)
        PROVE  Reading'
    <2>1. /\ moves' \in 0 .. MaxMoves
          /\ UNCHANGED <<toRead, inventory, reading>>
          /\ s # u /\ Portion <= locked[s] /\ total[u] + Portion <= MaxBalance
          /\ locked' = [locked EXCEPT ![s] = @ - Portion]
          /\ total' = [total EXCEPT ![s] = @ - Portion, ![u] = @ + Portion]
      BY <1>0, <1>4 DEF Settle
    <2>2. /\ total' \in [Asset -> 0 .. MaxBalance]
          /\ locked' \in [Asset -> 0 .. MaxBalance]
          /\ \A v \in Asset : locked'[v] <= total'[v]
          /\ \A v \in Asset : total'[v] - locked'[v] >= total[v] - locked[v]
      BY <1>0, <2>1
    <2>3. /\ departed' \in [Asset -> Nat]
          /\ \A v \in Asset : departed'[v] >= departed[v]
      BY <1>0, <1>4 DEF Settle, Departs
    <2>4. ASSUME reading = "asking", NEW v \in Asset \ toRead
          PROVE  total[v] + departed[v] <= total'[v] + departed'[v]
      <3>1. departed' = [departed EXCEPT ![s] = IF s \in toRead THEN @ ELSE @ + Portion]
        BY <1>4, <2>4 DEF Settle, Departs
      <3>2. QED
        BY <1>0, <2>1, <2>4, <3>1
    <2>5. ASSUME NEW v \in Asset
          PROVE  total[v] - locked[v] + departed[v]
                    <= total'[v] - locked'[v] + departed'[v]
      BY <1>0, <2>2, <2>3
    <2>6. QED
      BY <2>1, <2>2, <2>3, <2>4, <2>5, DepartingKeepsReading
  <1>5. QED
    BY <1>1, <1>2, <1>3, <1>4 DEF WalletStep

HIDE InventoryAssumption DEF InventoryAssumption

-----------------------------------------------------------------------------
(* The try, step by step *)

TryType ==
    /\ pc \in {"size", "value", "book", "walk", "quoted", "bid", "hedged",
              "skip", "error", "panic"}
    /\ debt \in Int /\ collateral \in Int
    /\ i \in 1 .. Len(book) + 1
    /\ pay \in Nat /\ receive \in Nat /\ limit \in Nat /\ ordered \in Nat

TryInv ==
    TryType /\ SizedByInventory /\ SizedAtRate /\ LargeEnough /\ BookRead /\ WalkIsExact /\ Decided

\* The invariant is about the inventory and about the try.
LEMMA InvParts == IInv <=> Reading /\ TryInv
  BY DEF IInv, TypeOK, TryType, Reading, TryInv

\* A step that leaves the inventory alone.
LEMMA ReadingKept ==
  ASSUME Reading, UNCHANGED inventoryVars
  PROVE  Reading'
  BY DEF Reading, inventoryVars, walletVars, InventoryTypeOK, Free,
         AllAsked, TotalUpToDepartures, FreeUpToDepartures

\* What is quoted does not change when neither the book nor the walk does.
LEMMA SoldKept ==
  ASSUME UNCHANGED <<market, collateral, walk>>, NEW q
  PROVE  Sold(q)' <=> Sold(q)
  BY SideKept DEF market, walk, Sold, Proceeds, Taken, Worth, Depth

\* Nor does what could be bid when neither the balance nor the market does.
LEMMA NoneKept ==
  ASSUME UNCHANGED <<inventory, auction, usd, market>>
  PROVE  NoneWorthwhile' <=> NoneWorthwhile
  BY SideKept
     DEF market, NoneWorthwhile, Worthwhile, Affordable, AtRate, free, Ways, Proceeds, Worth, Depth

\* Neither the inventory is read on nor the wallet moves in a way that a try,
\* once it goes on, would see.
LEMMA TryKept ==
  ASSUME TryInv, UNCHANGED tryVars,
         reading = "asking" \/ UNCHANGED <<inventory, reading>>
  PROVE  TryInv'
  <1> USE DEF tryVars, market, bidSize, walk, order, Priced, Quoted
  <1>1. TryType' /\ LargeEnough'
    BY DEF TryInv, TryType, LargeEnough
  <1>2. BookRead'
    BY DEF TryInv, BookRead, BestFirst, Better, side
  <1>3. WalkIsExact'
    <2>1. \A q : Sold(q)' <=> Sold(q)
      BY SoldKept
    <2>2. Depth(book[i])' = Depth(book[i])
      BY SideKept DEF Depth
    <2>3. QED
      BY <2>1, <2>2 DEF TryInv, WalkIsExact
  <1>4. CASE UNCHANGED <<inventory, reading>>
    <2>1. SizedByInventory' /\ SizedAtRate'
      BY <1>4 DEF TryInv, SizedByInventory, SizedAtRate, Affordable, AtRate, free
    <2>2. NoneWorthwhile' <=> NoneWorthwhile
      BY <1>4, NoneKept
    <2>3. Decided'
      BY <2>2, SideKept
         DEF TryInv, Decided, SetDecimal, SetPrecision, CutTo, ExactLimit, LimitPct, IntDigits,
             OrderAmount
    <2>4. QED
      BY <1>1, <1>2, <1>3, <2>1, <2>3 DEF TryInv
  <1>5. CASE reading = "asking"
    <2>1. pc \notin {"value", "book", "skip", "panic"} \cup Priced
      BY <1>5 DEF TryInv, SizedByInventory
    <2>2. SizedByInventory' /\ SizedAtRate' /\ Decided'
      BY <2>1 DEF TryInv, SizedByInventory, SizedAtRate, Decided
    <2>3. QED
      BY <1>1, <1>2, <1>3, <2>2 DEF TryInv
  <1>6. QED
    BY <1>4, <1>5

\* The try ends without a bid.
LEMMA StepEnds ==
  ASSUME TryInv, NEW how \in {"skip", "error", "panic"}, Ends(how),
         how \in {"skip", "panic"} => reading = "done" /\ NoneWorthwhile
  PROVE  TryInv'
  <1> USE DEF Ends, inventoryVars, market, bidSize, walk, order, Priced, Quoted
  <1>1. TryType' /\ LargeEnough' /\ SizedAtRate' /\ SizedByInventory' /\ WalkIsExact'
    BY DEF TryInv, TryType, LargeEnough, SizedAtRate, SizedByInventory, WalkIsExact
  <1>2. BookRead'
    BY DEF TryInv, BookRead, BestFirst, Better, side
  <1>3. NoneWorthwhile' <=> NoneWorthwhile
    BY NoneKept
  <1>4. Decided'
    BY <1>3 DEF Decided
  <1>5. QED
    BY <1>1, <1>2, <1>4 DEF TryInv

\* The bid gets its size.
LEMMA StepSized ==
  ASSUME TryInv, Sizes, NEW d \in Int, NEW c \in Int, SizedAs(d, c), d <= free,
         IF auction.debt = 0 THEN c = 0 ELSE Affordable(d, c)
  PROVE  TryInv'
  <1> USE DEF Sizes, SizedAs, inventoryVars, market, bidSize, walk, order, Priced, Quoted
  <1>1. TryType' /\ LargeEnough' /\ SizedByInventory' /\ WalkIsExact' /\ Decided'
    BY DEF TryInv, TryType, LargeEnough, SizedByInventory, WalkIsExact, Decided, free
  <1>2. BookRead'
    BY DEF TryInv, BookRead, BestFirst, Better, side
  <1>3. SizedAtRate'
    BY DEF SizedAtRate, Affordable, AtRate, free
  <1>4. QED
    BY <1>1, <1>2, <1>3 DEF TryInv

\* The balance pays for the whole auction.
LEMMA StepSizeWhole ==
  ASSUME TryInv, Reading, SizeWhole
  PROVE  TryInv'
  <1>1. auction \in Offer /\ free \in Int
    BY FreeIsInt DEF TryInv, SizedByInventory, Reading, FreeType
  <1>2. auction.debt \in Int /\ auction.collateral \in Int /\ auction.debt <= free
    BY <1>1, AuctionType DEF SizeWhole
  <1>3. IF auction.debt = 0 THEN auction.collateral = 0
                            ELSE Affordable(auction.debt, auction.collateral)
    BY <1>1, <1>2, AuctionType, AtRateOfWhole DEF Affordable
  <1>4. QED
    BY <1>2, <1>3, StepSized DEF SizeWhole

\* The bid is cut to the balance.
LEMMA StepSizeCut ==
  ASSUME TryInv, Reading, SizeCut
  PROVE  TryInv'
  <1>1. auction \in Offer /\ free \in Int
    BY FreeIsInt DEF TryInv, SizedByInventory, Reading, FreeType
  <1>2. auction.debt \in Int /\ free < auction.debt /\ auction.debt # 0
    BY <1>1, AuctionType DEF SizeCut
  <1>3. AtRate(free) \in Int /\ Affordable(free, AtRate(free))
    BY <1>1, <1>2, AtRateType DEF Affordable
  <1>4. QED
    BY <1>1, <1>2, <1>3, StepSized DEF SizeCut

\* The value of the bid: too small a bid is not worthwhile.
LEMMA StepValue ==
  ASSUME TryInv, Reading, GetAssetUSDPrice
  PROVE  TryInv'
  <1> USE DEF GetAssetUSDPrice, inventoryVars, market, bidSize, walk, order, Priced, Quoted
  <1>0. usd' \in UsdPrice /\ usd' \in Nat \ {0} /\ MinOrderValue \in Nat
    BY QuoteAssumption DEF QuoteAssumption
  <1>1. TryType' /\ SizedByInventory' /\ WalkIsExact'
    BY DEF TryInv, TryType, SizedByInventory, WalkIsExact, free
  <1>2. BookRead'
    BY DEF TryInv, BookRead, BestFirst, Better, side
  <1>3. SizedAtRate'
    BY DEF TryInv, SizedAtRate, Affordable, AtRate, free
  <1>4. LargeEnough'
    <2> DEFINE v == collateral * usd'
    <2>1. v \in Int
      BY <1>0 DEF TryInv, TryType
    <2>2. pc' = IF v <= MinOrderValue THEN "skip" ELSE "book"
      OBVIOUS
    <2> HIDE DEF v
    <2>3. pc' = "skip" \/ v > MinOrderValue
      BY <1>0, <2>1, <2>2
    <2>4. QED
      BY <1>0, <2>3 DEF LargeEnough, v
  <1>5. Decided'
    <2>1. CASE pc' = "skip"
      <3>1. collateral * usd' <= MinOrderValue
        BY <2>1
      <3>2. IF auction.debt = 0 THEN collateral = 0 ELSE Affordable(debt, collateral)
        BY DEF TryInv, SizedAtRate
      <3>3. auction \in Offer /\ free \in Int /\ free' = free
        BY FreeIsInt DEF TryInv, SizedByInventory, Reading, FreeType, free
      <3>4. ASSUME NEW d, NEW c, Affordable(d, c)' PROVE c * usd' <= MinOrderValue
        <4>1. Affordable(d, c)
          BY <3>3, <3>4 DEF Affordable, AtRate
        <4>2. Affordable(debt, collateral)
          BY <3>2, <4>1 DEF Affordable
        <4>3. c = collateral
          BY <3>3, <4>1, <4>2, OneAffordable
        <4>4. QED
          BY <3>1, <4>3
      <3>5. ASSUME NEW d, NEW n \in 1 .. auction.collateral \div Unit, Worthwhile(d, n * Unit)'
            PROVE  FALSE
        <4>1. (n * Unit) * usd' <= MinOrderValue /\ (n * Unit) * usd' > MinOrderValue
          BY <3>4, <3>5 DEF Worthwhile
        <4>2. n * Unit \in Int
          <5>1. n \in Int /\ Unit \in Int
            BY QuoteAssumption DEF QuoteAssumption
          <5>2. QED
            BY <5>1
        <4>3. QED
          BY <1>0, <4>1, <4>2
      <3>6. NoneWorthwhile'
        BY <3>5 DEF NoneWorthwhile
      <3>7. QED
        BY <2>1, <3>6 DEF Decided
    <2>2. CASE pc' = "book"
      BY <2>2 DEF Decided
    <2>3. QED
      BY <2>1, <2>2
  <1>6. QED
    BY <1>1, <1>2, <1>3, <1>4, <1>5 DEF TryInv

-----------------------------------------------------------------------------
(* The walk and the hedge, step by step *)

\* From the walk to the hedge neither the bid nor the book changes.
LEMMA StepGoesOn ==
  ASSUME TryInv, pc \in {"walk", "quoted", "bid"}, pc' \in Priced,
         UNCHANGED <<inventoryVars, auction, usd, market, bidSize>>
  PROVE  SizedByInventory' /\ SizedAtRate' /\ LargeEnough' /\ BookRead'
  <1> USE DEF inventoryVars, market, bidSize, Priced
  <1>1. SizedByInventory' /\ LargeEnough'
    BY DEF TryInv, SizedByInventory, LargeEnough, free
  <1>2. SizedAtRate'
    BY DEF TryInv, SizedAtRate, Affordable, AtRate, free
  <1>3. BookRead'
    BY DEF TryInv, BookRead, BestFirst, Better, side
  <1>4. QED
    BY <1>1, <1>2, <1>3

\* The book is read and nothing is sold into it yet.
LEMMA StepOrderbook ==
  ASSUME TryInv, Reading, GetOrderbook
  PROVE  TryInv'
  <1> USE DEF GetOrderbook, inventoryVars, bidSize, order, Priced, Quoted
  <1>0. IInv
    BY InvParts
  <1>1. /\ collateral \in Nat \ {0} /\ collateral % Unit = 0
        /\ i = 1 /\ receive = 0 /\ Sides
    BY <1>0, BidSize, SidesOnly DEF TryInv, BookRead
  <1>2. book' \in Seq(Level)
    <2>1. PICK m \in 0 .. MaxLevels : book' \in [1 .. m -> Level]
      BY DEF BoundedSeq, SeqOf
    <2>2. m \in Nat
      BY QuoteAssumption DEF QuoteAssumption
    <2>3. QED
      BY <2>1, <2>2
  <1>3. Len(book') \in Nat /\ DOMAIN book' = 1 .. Len(book') /\ IsFiniteSet(DOMAIN book')
    <2>1. Len(book') \in Nat /\ DOMAIN book' = 1 .. Len(book')
      BY <1>2
    <2>2. IsFiniteSet(1 .. Len(book'))
      BY <2>1, FS_Interval
    <2>3. QED
      BY <2>1, <2>2
  <1>4. TryType'
    BY <1>1, <1>3 DEF TryInv, TryType
  <1>5. SizedByInventory' /\ LargeEnough' /\ Decided'
    BY DEF TryInv, SizedByInventory, LargeEnough, Decided, free
  <1>6. SizedAtRate'
    BY DEF TryInv, SizedAtRate, Affordable, AtRate, free
  <1>7. BookRead'
    BY <1>2 DEF TryInv, BookRead, BestFirst, Better, side
  <1>8. Sold(0)'
    <2> DEFINE t == Taken(0)'
               f == [k \in DOMAIN book' |-> Worth(book[k], Taken(0)[k])']
    <2>1. \A k \in DOMAIN book' : t[k] = 0
      BY <1>1, <1>3 DEF Taken
    <2>2. \A k \in DOMAIN book' : book'[k] \in Level
      BY <1>2
    <2>3. \A k \in DOMAIN book' : f[k] = 0
      <3>1. \A l \in Level : 0 * l.price = 0 /\ 0 \div l.price = 0
        BY <1>1, LevelType
      <3>2. QED
        BY <2>1, <2>2, <3>1 DEF Worth
    <2>4. receive' = SumFunctionOnSet(f, DOMAIN book')
      <3> HIDE DEF f
      <3>1. SumFunctionOnSet(f, DOMAIN book') = 0
        BY <1>3, <2>3, SumOfZeros
      <3>2. QED
        BY <1>1, <3>1
    <2>5. receive' = Proceeds(Taken(0))'
      BY <2>4 DEF Proceeds
    <2>6. SumFunctionOnSet(t, DOMAIN book') = 0
      <3> HIDE DEF t
      <3>1. QED
        BY <1>3, <2>1, SumOfZeros
    <2>7. collateral' = pay' + SumFunctionOnSet(Taken(0), DOMAIN book)'
      BY <1>1, <2>6
    <2>8. QED
      BY <2>5, <2>7 DEF Sold
  <1>9. WalkIsExact'
    BY <1>1, <1>8 DEF WalkIsExact
  <1>10. QED
    BY <1>4, <1>5, <1>6, <1>7, <1>9 DEF TryInv

\* Multiples of Unit can be subtracted.
LEMMA MultipleMinus ==
  ASSUME NEW a \in Nat, NEW b \in Nat, b <= a, a % Unit = 0, b % Unit = 0
  PROVE  (a - b) % Unit = 0
  <1>1. Unit \in Nat \ {0}
    BY QuoteAssumption DEF QuoteAssumption
  <1> DEFINE m == a \div Unit
             n == b \div Unit
  <1>2. m \in Nat /\ n \in Nat /\ a = m * Unit /\ b = n * Unit
    BY Multiple
  <1> HIDE DEF m, n
  <1>3. a - b = (m - n) * Unit /\ m - n \in Int
    BY <1>1, <1>2
  <1>4. \A k \in Int : (k * Unit) % Unit = 0
    BY <1>1
  <1>5. QED
    BY <1>3, <1>4

\* Where the walk is, in numbers.
LEMMA AtLevelType ==
  ASSUME IInv, AtLevel
  PROVE  /\ Listed /\ i \in DOMAIN book /\ i \in Nat
         /\ Depth(book[i]) \in Nat \ {0} /\ Depth(book[i]) % Unit = 0
         /\ pay \in Nat \ {0} /\ pay % Unit = 0 /\ receive \in Nat
         /\ Total(Taken(0)) \in Nat /\ collateral = pay + Total(Taken(0))
         /\ receive = Proceeds(Taken(0))
         /\ \A q \in Nat : q % Unit = 0 => Worth(book[i], q) \in Nat
  <1>1. Listed
    BY InvLists
  <1>2. Len(book) \in Nat /\ DOMAIN book = 1 .. Len(book)
    BY <1>1, BookType
  <1>3. i \in DOMAIN book /\ i \in Nat
    BY <1>2 DEF IInv, TypeOK, AtLevel
  <1>4. /\ Depth(book[i]) \in Nat \ {0} /\ Depth(book[i]) % Unit = 0 /\ book[i] \in Level
    BY <1>1, <1>3, BookType
  <1>5. pay \in Nat \ {0} /\ pay % Unit = 0 /\ receive \in Nat /\ Sold(0)
    BY DEF IInv, TypeOK, WalkIsExact, AtLevel
  <1>6. Total(Taken(0)) \in Nat
    <2>1. 0 \in Nat /\ 0 % Unit = 0
      BY QuoteAssumption DEF QuoteAssumption
    <2>2. Amounts(Taken(0))
      BY <1>1, <1>3, <2>1, TakenType
    <2>3. QED
      BY <1>1, <2>2, ProceedsType
  <1>7. \A q \in Nat : q % Unit = 0 => Worth(book[i], q) \in Nat
    BY <1>1, <1>4, WorthType DEF Listed
  <1>8. QED
    BY <1>1, <1>3, <1>4, <1>5, <1>6, <1>7 DEF Sold, Total

\* A level too small is taken whole.
LEMMA StepTakeLevel ==
  ASSUME TryInv, Reading, TakeLevel
  PROVE  TryInv'
  <1> USE DEF TakeLevel, Take
  <1>0. IInv /\ AtLevel /\ pc = "walk" /\ pc' = "walk"
    BY InvParts DEF AtLevel
  <1> DEFINE q == Depth(book[i])
  <1>1. /\ q \in Nat \ {0} /\ q % Unit = 0 /\ Listed /\ i \in DOMAIN book /\ i \in Nat
        /\ pay \in Nat \ {0} /\ pay % Unit = 0 /\ receive \in Nat
        /\ Total(Taken(0)) \in Nat /\ collateral = pay + Total(Taken(0))
        /\ receive = Proceeds(Taken(0)) /\ Worth(book[i], q) \in Nat
    BY <1>0, AtLevelType
  <1>2. UNCHANGED <<side, book, collateral, pc>> /\ i' = i + 1
    BY SideKept DEF market, bidSize
  <1>3. q < pay /\ pay' = pay - q /\ receive' = receive + Worth(book[i], q)
    OBVIOUS
  <1>4. TryType'
    <2>1. i + 1 \in 1 .. Len(book) + 1
      BY <1>1, BookType
    <2>2. pay' \in Nat /\ receive' \in Nat
      BY <1>1, <1>3
    <2>3. UNCHANGED <<debt, limit, ordered>>
      BY DEF bidSize, order
    <2>4. QED
      BY <1>2, <2>1, <2>2, <2>3 DEF TryInv, TryType
  <1>5. SizedByInventory' /\ SizedAtRate' /\ LargeEnough' /\ BookRead'
    BY <1>0, StepGoesOn DEF Priced
  <1>6. Taken(0)' = Taken(q)
    <2>1. \A k \in DOMAIN book : Depth(book[k])' = Depth(book[k])
      BY <1>2 DEF Depth
    <2>2. \A k \in DOMAIN book : k \in Int /\ (k < i + 1 <=> k < i \/ k = i)
      BY <1>1, BookType
    <2>3. ASSUME NEW k \in DOMAIN book
          PROVE  (IF k < i + 1 THEN Depth(book[k]) ELSE IF k = i + 1 THEN 0 ELSE 0)
                   = IF k < i THEN Depth(book[k]) ELSE IF k = i THEN q ELSE 0
      <3>1. ~ (k = i /\ k < i)
        BY <1>1
      <3>2. QED
        BY <2>2, <3>1
    <2>4. QED
      BY <1>2, <2>1, <2>3 DEF Taken
  <1> HIDE DEF q
  <1>7. /\ Total(Taken(q)) = Total(Taken(0)) + q
        /\ Proceeds(Taken(q)) = Proceeds(Taken(0)) + Worth(book[i], q)
    BY <1>1, TakenMore
  <1>8. Sold(0)'
    <2>1. collateral' = pay' + SumFunctionOnSet(Taken(0)', DOMAIN book')
      BY <1>1, <1>2, <1>3, <1>6, <1>7 DEF Total
    <2>2. receive' = Proceeds(Taken(q))
      BY <1>1, <1>3, <1>7
    <2>3. Proceeds(Taken(0))' = Proceeds(Taken(q))
      BY <1>2, <1>6 DEF Proceeds, Worth
    <2>4. QED
      BY <2>1, <2>2, <2>3 DEF Sold
  <1>9. pay' > 0 /\ pay' % Unit = 0
    <2>1. q \in Nat /\ pay \in Nat /\ q <= pay
      BY <1>1, <1>3
    <2>2. (pay - q) % Unit = 0
      BY <1>1, <2>1, MultipleMinus
    <2>3. QED
      BY <1>1, <1>3, <2>2
  <1>10. WalkIsExact' /\ Decided'
    BY <1>0, <1>8, <1>9 DEF WalkIsExact, Decided, Quoted
  <1>11. QED
    BY <1>4, <1>5, <1>10 DEF TryInv

\* The first level that takes all that is left ends the walk.
LEMMA StepLastLevel ==
  ASSUME TryInv, Reading, LastLevel
  PROVE  TryInv'
  <1> USE DEF LastLevel, LastLevelFor
  <1>0. IInv /\ AtLevel /\ pc = "walk" /\ pc' = "quoted"
    BY InvParts DEF AtLevel
  <1>1. /\ Depth(book[i]) \in Nat \ {0} /\ Listed /\ i \in DOMAIN book /\ i \in Nat
        /\ pay \in Nat \ {0} /\ pay % Unit = 0 /\ receive \in Nat
        /\ Total(Taken(0)) \in Nat /\ collateral = pay + Total(Taken(0))
        /\ receive = Proceeds(Taken(0)) /\ Worth(book[i], pay) \in Nat
    BY <1>0, AtLevelType
  <1>2. UNCHANGED <<side, book, collateral, i>>
    BY SideKept DEF market, bidSize
  <1>3. pay <= Depth(book[i]) /\ pay' = 0 /\ receive' = receive + Worth(book[i], pay)
    BY <1>1
  <1>4. TryType'
    BY <1>1, <1>2, <1>3 DEF TryInv, TryType, bidSize, order
  <1>5. SizedByInventory' /\ SizedAtRate' /\ LargeEnough' /\ BookRead'
    BY <1>0, StepGoesOn DEF Priced
  <1>6. /\ Total(Taken(pay)) = Total(Taken(0)) + pay
        /\ Proceeds(Taken(pay)) = Proceeds(Taken(0)) + Worth(book[i], pay)
    BY <1>1, TakenMore
  <1>7. \E q \in 1 .. Depth(book[i])' : q % Unit = 0 /\ Sold(q)'
    <2>1. pay \in 1 .. Depth(book[i])'
      BY <1>1, <1>2, <1>3 DEF Depth
    <2>2. PICK q : q = pay
      OBVIOUS
    <2>3. Taken(q)' = Taken(q)
      BY <1>2 DEF Taken, Depth
    <2>4. Proceeds(Taken(q))' = Proceeds(Taken(q))
      BY <1>2, <2>3 DEF Proceeds, Worth
    <2>5. collateral' = pay' + SumFunctionOnSet(Taken(q)', DOMAIN book')
      BY <1>1, <1>2, <1>3, <1>6, <2>2, <2>3 DEF Total
    <2>6. receive' = Proceeds(Taken(q))
      BY <1>1, <1>3, <1>6, <2>2
    <2>7. Sold(q)'
      BY <2>4, <2>5, <2>6 DEF Sold
    <2>8. QED
      BY <1>1, <2>1, <2>2, <2>7
  <1>8. WalkIsExact' /\ Decided'
    BY <1>0, <1>1, <1>2, <1>3, <1>7 DEF WalkIsExact, Decided, Quoted
  <1>9. QED
    BY <1>4, <1>5, <1>8 DEF TryInv

\* What is judged, in numbers.
LEMMA JudgedType ==
  ASSUME IInv, pc \in Priced
  PROVE  /\ collateral \in Nat /\ Affordable(debt, collateral) /\ auction \in Offer /\ FreeType
         /\ usd \in Int /\ debt \in Int /\ reading = "done" /\ receive \in Nat
  <1>1. collateral \in Nat /\ Affordable(debt, collateral)
    BY BidSize
  <1>2. FreeType
    BY FreeIsInt DEF IInv, TypeOK
  <1>3. usd \in Int
    <2>1. usd \in UsdPrice
      BY DEF IInv, LargeEnough
    <2>2. QED
      BY <2>1, QuoteAssumption DEF QuoteAssumption
  <1>4. QED
    BY <1>1, <1>2, <1>3 DEF IInv, TypeOK, SizedByInventory

\* The book is too thin for the bid: all of it is less than the collateral.
LEMMA StepThinBook ==
  ASSUME TryInv, Reading, ThinBook
  PROVE  TryInv'
  <1>0. IInv /\ pc = "walk" /\ i > Len(book) /\ Ends("skip")
    BY InvParts DEF ThinBook
  <1>1. Listed /\ Len(book) \in Nat /\ DOMAIN book = 1 .. Len(book) /\ i \in Nat
    BY <1>0, InvLists, BookType DEF TryInv, TryType
  <1>2. /\ collateral \in Nat /\ Affordable(debt, collateral) /\ auction \in Offer /\ FreeType
        /\ usd \in Int /\ debt \in Int /\ reading = "done"
    BY <1>0, JudgedType DEF Priced
  <1>3. Amounts(Taken(0)) /\ Total(Taken(0)) \in Nat
    <2>1. 0 \in Nat /\ 0 % Unit = 0
      BY QuoteAssumption DEF QuoteAssumption
    <2>2. Amounts(Taken(0))
      BY <1>1, <2>1, TakenType
    <2>3. QED
      BY <1>1, <2>2, ProceedsType
  <1>4. collateral > Total(Taken(0))
    BY <1>0, <1>2, <1>3 DEF TryInv, WalkIsExact, Sold, Total, TryType
  <1>5. ASSUME NEW w \in Ways(collateral) PROVE FALSE
    <2>1. Amounts(w) /\ Total(w) = collateral /\ \A k \in DOMAIN book : w[k] <= Depth(book[k])
      BY <1>1, <1>2, WaysType
    <2>2. \A k \in DOMAIN book : w[k] <= Taken(0)[k]
      BY <1>0, <1>1, <2>1 DEF Taken
    <2>3. Total(w) <= Total(Taken(0))
      BY <1>1, <1>3, <2>1, <2>2, TotalGrows
    <2>4. QED
      BY <1>2, <1>3, <1>4, <2>1, <2>3
  <1>6. NoneWorthwhile
    BY <1>2, <1>5, OnlyTheBid
  <1>7. QED
    BY <1>0, <1>2, <1>6, StepEnds

\* The decision: what is not bid on was not worthwhile by any way to sell.
LEMMA StepJudge ==
  ASSUME TryInv, Reading, Judge
  PROVE  TryInv'
  <1>0. IInv /\ pc = "quoted"
    BY InvParts DEF Judge, Decides
  <1> DEFINE profitable == receive * 100 > debt * (100 + MarginPct)
  <1>1. Ends(IF profitable THEN "bid" ELSE "skip")
    BY DEF Judge, Decides
  <1>2. /\ collateral \in Nat /\ Affordable(debt, collateral) /\ auction \in Offer /\ FreeType
        /\ usd \in Int /\ debt \in Int /\ reading = "done" /\ receive \in Nat
    BY <1>0, JudgedType DEF Priced
  <1>3. debt * (100 + MarginPct) \in Int
    BY <1>2, QuoteAssumption DEF QuoteAssumption
  <1>4. CASE profitable
    <2>1. pc' = "bid" /\ UNCHANGED <<inventoryVars, auction, usd, market, bidSize, walk, order>>
      BY <1>1, <1>4 DEF Ends
    <2>2. TryType'
      BY <2>1 DEF TryInv, TryType, bidSize, walk, market, order
    <2>3. SizedByInventory' /\ SizedAtRate' /\ LargeEnough' /\ BookRead'
      BY <1>0, <2>1, StepGoesOn DEF Priced
    <2>4. WalkIsExact'
      <3>1. \A q : Sold(q)' <=> Sold(q)
        BY <2>1, SoldKept DEF bidSize
      <3>2. Depth(book[i])' = Depth(book[i])
        BY <2>1, SideKept DEF Depth, market, walk
      <3>3. QED
        BY <1>0, <2>1, <3>1, <3>2 DEF TryInv, WalkIsExact, Quoted, market, walk
    <2>5. Decided'
      BY <1>4, <2>1 DEF Decided, bidSize, walk
    <2>6. QED
      BY <2>2, <2>3, <2>4, <2>5 DEF TryInv
  <1>5. CASE ~profitable
    <2>1. \A w \in Ways(collateral) : Proceeds(w) \in Int /\ Proceeds(w) <= receive
      BY <1>0, QuoteBest DEF Quoted
    <2>2. \A w \in Ways(collateral) : Proceeds(w) * 100 <= debt * (100 + MarginPct)
      BY <1>2, <1>3, <1>5, <2>1
    <2>3. NoneWorthwhile
      BY <1>2, <2>1, <2>2, OnlyTheBid
    <2>4. QED
      BY <1>1, <1>2, <1>5, <2>3, StepEnds
  <1>6. QED
    BY <1>4, <1>5

\* The two ways to write the exact limit.
LEMMA ExactIsBound ==
  ASSUME IInv, pc \in {"bid", "hedged"}
  PROVE  ExactLimit \in Nat /\ ExactLimit = SlippageBound
  <1>1. Listed /\ i \in DOMAIN book /\ opposite \in Price
    BY InvLists DEF IInv, WalkIsExact, BookRead, Quoted, Priced
  <1>2. 1 \in DOMAIN book
    BY <1>1, BookType
  <1>3. book[1].price \in Nat /\ opposite \in Nat /\ SlippagePct \in 0 .. 100
    BY <1>1, <1>2, BookType, QuoteAssumption DEF QuoteAssumption
  <1>4. LimitPct \in Nat /\ orderSide = side
    BY <1>3, SameSide DEF LimitPct, IInv, BookRead
  <1> DEFINE m == book[1].price + opposite
  <1>5. m \in Nat
    BY <1>3
  <1>6. ExactLimit = m * LimitPct * 5 /\ SlippageBound = m * 5 * LimitPct
    BY <1>4 DEF ExactLimit, SlippageBound, LimitPct
  <1> HIDE DEF m
  <1>7. m * LimitPct * 5 \in Nat /\ m * LimitPct * 5 = m * 5 * LimitPct
    BY <1>4, <1>5
  <1>8. QED
    BY <1>6, <1>7

\* A cut takes off less than the last decimal.
LEMMA OrderCut ==
  ASSUME NEW c \in Nat
  PROVE  /\ OrderAmount(c) \in Nat /\ OrderAmount(c) <= c /\ c < OrderAmount(c) + AmountLot
         /\ OrderAmount(c) % Unit = 0
  <1>1. AmountLot \in Nat \ {0} /\ AmountLot % Unit = 0 /\ Unit \in Nat \ {0}
    BY QuoteAssumption DEF QuoteAssumption
  <1> DEFINE n == c \div AmountLot
             m == AmountLot \div Unit
  <1>2. /\ n \in Nat /\ n * AmountLot \in Nat
        /\ n * AmountLot <= c /\ c < n * AmountLot + AmountLot
    BY <1>1
  <1>3. m \in Nat /\ AmountLot = m * Unit
    BY <1>1, Multiple
  <1>4. OrderAmount(c) = n * AmountLot
    BY DEF OrderAmount
  <1> HIDE DEF m, n
  <1>5. n * AmountLot = (n * m) * Unit /\ n * m \in Nat
    BY <1>1, <1>2, <1>3
  <1>6. ((n * m) * Unit) % Unit = 0
    BY <1>1, <1>5
  <1>7. QED
    BY <1>2, <1>4, <1>5, <1>6

\* The hedge is limited.
LEMMA StepHedge ==
  ASSUME TryInv, Reading, MarketSellAsset
  PROVE  TryInv'
  <1>0. IInv /\ pc = "bid" /\ pc' = "hedged"
    BY InvParts DEF MarketSellAsset
  <1>1. /\ limit' = SetDecimal(SetPrecision(ExactLimit, PricePrecision), PriceDecimal)
        /\ ordered' = OrderAmount(collateral)
        /\ UNCHANGED <<inventoryVars, auction, usd, market, bidSize, walk>>
    BY DEF MarketSellAsset
  <1>2. limit' \in Nat /\ ordered' \in Nat
    <2>1. collateral \in Nat
      BY <1>0, BidSize DEF Priced
    <2>2. QED
      BY <1>0, <1>1, <2>1, ExactIsBound, LimitType, OrderCut
  <1>3. TryType'
    BY <1>0, <1>1, <1>2 DEF TryInv, TryType, bidSize, walk, market
  <1>4. SizedByInventory' /\ SizedAtRate' /\ LargeEnough' /\ BookRead'
    BY <1>0, <1>1, StepGoesOn DEF Priced
  <1>5. WalkIsExact'
    <2>1. \A q : Sold(q)' <=> Sold(q)
      BY <1>1, SoldKept DEF bidSize
    <2>2. Depth(book[i])' = Depth(book[i])
      BY <1>1, SideKept DEF Depth, market, walk
    <2>3. QED
      BY <1>0, <1>1, <2>1, <2>2 DEF TryInv, WalkIsExact, Quoted, market, walk
  <1>6. Decided'
    <2>1. ExactLimit' = ExactLimit
      BY <1>1, SideKept DEF ExactLimit, LimitPct, market
    <2>2. SetDecimal(SetPrecision(ExactLimit, PricePrecision), PriceDecimal)'
            = SetDecimal(SetPrecision(ExactLimit, PricePrecision), PriceDecimal)
      BY <2>1 DEF SetDecimal, SetPrecision, CutTo, IntDigits
    <2>3. QED
      BY <1>0, <1>1, <2>2 DEF Decided, OrderAmount, bidSize
  <1>7. QED
    BY <1>3, <1>4, <1>5, <1>6 DEF TryInv

-----------------------------------------------------------------------------
(* The hedge *)

\* An amount between nothing and what the level takes.
LEMMA MaxMin ==
  ASSUME NEW a \in Nat, NEW b \in Int
  PROVE  Max({0, Min({a, b})}) = IF b <= 0 THEN 0 ELSE IF b <= a THEN b ELSE a
  <1>1. Min({a, b}) = IF b <= a THEN b ELSE a
    BY DEF Min
  <1>2. \A c \in Int : Max({0, c}) = IF c <= 0 THEN 0 ELSE c
    BY DEF Max
  <1>3. QED
    BY <1>1, <1>2

\* The levels before the k-th, taken whole.
Upper(k) == [j \in DOMAIN book |-> IF j < k THEN Depth(book[j]) ELSE 0]

\* They are amounts.
LEMMA UpperType ==
  ASSUME Listed, NEW k \in Nat
  PROVE  Amounts(Upper(k))
  <1>1. 0 \in Nat /\ 0 % Unit = 0
    BY QuoteAssumption DEF QuoteAssumption
  <1>2. QED
    BY <1>1, BookType DEF Amounts, Upper

\* What the order sells into the levels before the k-th.
LEMMA AheadIsUpper ==
  ASSUME Listed, NEW k \in DOMAIN book
  PROVE  Ahead(k) = Total(Upper(k)) /\ Ahead(k) \in Nat
  <1>1. /\ Len(book) \in Nat /\ DOMAIN book = 1 .. Len(book) /\ IsFiniteSet(DOMAIN book)
        /\ k \in Nat
    BY BookType
  <1>2. Amounts(Upper(k))
    BY <1>1, UpperType
  <1> DEFINE R == 1 .. k - 1
             f == [j \in R |-> Depth(book[j])]
             g == Upper(k)
  <1>3. R \in SUBSET DOMAIN book /\ \A j \in DOMAIN book \ R : g[j] = 0
    BY <1>1 DEF Upper
  <1>4. \A j \in R : g[j] \in Int /\ g[j] = f[j]
    BY <1>1, BookType DEF Upper
  <1>5. \A j \in DOMAIN book : g[j] \in Int
    BY <1>2 DEF Amounts
  <1>6. IsFiniteSet(R)
    BY <1>1, <1>3, FS_Subset
  <1> HIDE DEF R, f, g
  <1>7. SumFunctionOnSet(g, DOMAIN book) = SumFunctionOnSet(g, R)
    BY <1>1, <1>3, <1>5, SumOfRest
  <1>8. SumFunctionOnSet(g, R) = SumFunctionOnSet(f, R)
    BY <1>4, <1>6, SumOfSame
  <1>9. Ahead(k) = Total(Upper(k))
    BY <1>7, <1>8 DEF Ahead, Total, R, f, g
  <1>10. QED
    BY <1>2, <1>9, ProceedsType

\* A sum of multiples of Unit is one.
LEMMA TotalMultiple ==
  ASSUME Listed, NEW w, Amounts(w)
  PROVE  Total(w) % Unit = 0
  <1> DEFINE m == [k \in DOMAIN book |-> w[k] \div Unit]
  <1>1. Unit \in Nat \ {0} /\ IsFiniteSet(DOMAIN book)
    BY BookType, QuoteAssumption DEF QuoteAssumption
  <1>2. \A k \in DOMAIN book : m[k] \in Nat /\ w[k] = Unit * m[k]
    BY <1>1, Multiple DEF Amounts
  <1> HIDE DEF m
  <1>3. SumFunctionOnSet(m, DOMAIN book) \in Nat
    BY <1>1, <1>2, SumOfNats
  <1>4. Total(w) = Unit * SumFunctionOnSet(m, DOMAIN book)
    BY <1>1, <1>2, SumScaled DEF Total
  <1>5. \A n \in Nat : (Unit * n) % Unit = 0
    BY <1>1
  <1>6. QED
    BY <1>3, <1>4, <1>5

\* The levels before the j-th taken whole, and r of that.
Fill(j, r) ==
    [k \in DOMAIN book |-> IF k < j THEN Depth(book[k]) ELSE IF k = j THEN r ELSE 0]

\* What they come to.
LEMMA FillTotal ==
  ASSUME Listed, NEW j \in DOMAIN book, NEW r \in Nat, r % Unit = 0
  PROVE  Amounts(Fill(j, r)) /\ Total(Fill(j, r)) = Ahead(j) + r
  <1>1. 0 \in Nat /\ 0 % Unit = 0
    BY QuoteAssumption DEF QuoteAssumption
  <1>2. j \in Nat /\ IsFiniteSet(DOMAIN book)
    BY BookType
  <1>3. Amounts(Fill(j, r)) /\ Amounts(Upper(j))
    BY <1>1, <1>2, BookType, UpperType DEF Amounts, Fill
  <1> DEFINE f == Upper(j)
             g == Fill(j, r)
  <1>4. /\ \A k \in DOMAIN book : f[k] \in Int /\ g[k] \in Int
        /\ \A k \in DOMAIN book \ {j} : f[k] = g[k]
        /\ f[j] = 0 /\ g[j] = r
    BY <1>2, <1>3 DEF Amounts, Upper, Fill
  <1> HIDE DEF f, g
  <1>5. SumFunctionOnSet(g, DOMAIN book) = SumFunctionOnSet(f, DOMAIN book) - f[j] + g[j]
    BY <1>2, <1>4, SumChanged
  <1>6. Total(g) = Ahead(j) + r
    BY <1>4, <1>5, AheadIsUpper DEF Total, f
  <1>7. QED
    BY <1>3, <1>6 DEF g

\* What is before a level is at least what an earlier one and those before it take.
LEMMA AheadGrows ==
  ASSUME Listed, NEW j \in DOMAIN book, NEW k \in DOMAIN book, j < k
  PROVE  Ahead(j) + Depth(book[j]) <= Ahead(k)
  <1>1. /\ j \in Nat /\ k \in Nat
        /\ Depth(book[j]) \in Nat /\ Depth(book[j]) % Unit = 0
    BY BookType
  <1>2. /\ Amounts(Fill(j, Depth(book[j])))
        /\ Total(Fill(j, Depth(book[j]))) = Ahead(j) + Depth(book[j])
    BY <1>1, FillTotal
  <1>3. Amounts(Upper(k)) /\ Ahead(k) = Total(Upper(k))
    BY <1>1, UpperType, AheadIsUpper
  <1>4. \A n \in DOMAIN book : Fill(j, Depth(book[j]))[n] <= Upper(k)[n]
    BY <1>1, BookType DEF Fill, Upper
  <1>5. QED
    BY <1>2, <1>3, <1>4, TotalGrows

\* No more than the walk sold ends at a level the walk reached.
LEMMA LastLevelOf ==
  ASSUME Listed, i \in DOMAIN book, NEW q \in Nat, q <= Depth(book[i]),
         NEW a \in Nat \ {0}, a <= Ahead(i) + q
  PROVE  \E j \in 1 .. i : Ahead(j) < a /\ a <= Ahead(j) + Depth(book[j])
  <1>1. DOMAIN book = 1 .. Len(book) /\ Len(book) \in Nat /\ i \in Nat
    BY BookType
  <1>2. \A k \in DOMAIN book : Ahead(k) \in Nat /\ Depth(book[k]) \in Nat
    BY AheadIsUpper, BookType
  <1> DEFINE Good == {n \in Nat : n + 1 <= i /\ Ahead(n + 1) < a}
  <1>3. 0 \in Good
    <2>1. 1 \in DOMAIN book
      BY <1>1
    <2>2. 1 .. 1 - 1 = {}
      OBVIOUS
    <2>3. Ahead(1) = 0
      BY <2>2, SumOfNone DEF Ahead
    <2>4. QED
      BY <1>1, <2>3
  <1>4. i \notin Good
    BY <1>1
  <1>5. PICK n \in Nat : n \in Good /\ n + 1 \notin Good
    <2> HIDE DEF Good
    <2>1. QED
      BY <1>1, <1>3, <1>4, LeastOut
  <1> DEFINE j == n + 1
  <1>6. j \in 1 .. i /\ j \in DOMAIN book /\ Ahead(j) < a
    BY <1>1, <1>5
  <1>7. j = i \/ (j + 1 \in DOMAIN book /\ j + 1 <= i /\ ~ (Ahead(j + 1) < a))
    BY <1>1, <1>5
  <1> HIDE DEF j
  <1>8. a <= Ahead(j) + Depth(book[j])
    <2>1. CASE j = i
      BY <1>2, <1>6, <2>1
    <2>2. CASE j + 1 \in DOMAIN book /\ j + 1 <= i /\ ~ (Ahead(j + 1) < a)
      <3>1. Ahead(j + 1) = Ahead(j) + Depth(book[j])
        <4>1. /\ j \in Nat /\ j + 1 \in Nat /\ j + 1 \in DOMAIN book
              /\ Depth(book[j]) \in Nat /\ Depth(book[j]) % Unit = 0
          BY <1>1, <1>6, <2>2, BookType
        <4>2. Upper(j + 1) = Fill(j, Depth(book[j]))
          <5>1. \A k \in DOMAIN book : k < j + 1 <=> k < j \/ k = j
            BY <1>1, <4>1
          <5>2. \A k \in DOMAIN book :
                   (IF k < j + 1 THEN Depth(book[k]) ELSE 0)
                      = IF k < j THEN Depth(book[k]) ELSE IF k = j THEN Depth(book[j]) ELSE 0
            BY <5>1
          <5>3. QED
            BY <5>2 DEF Upper, Fill
        <4>3. Ahead(j + 1) = Total(Upper(j + 1))
          BY <4>1, AheadIsUpper
        <4>4. QED
          BY <1>6, <4>1, <4>2, <4>3, FillTotal
      <3>2. QED
        BY <1>2, <1>6, <2>2, <3>1
    <2>3. QED
      BY <1>7, <2>1, <2>2
  <1>9. QED
    BY <1>6, <1>8

\* The order fills the levels up to the one it ends at, when the limit allows them.
LEMMA OrderFills ==
  ASSUME Listed, NEW j \in DOMAIN book, ordered \in Nat,
         Ahead(j) < ordered, ordered <= Ahead(j) + Depth(book[j]),
         \A k \in 1 .. j : WithinLimit(book[k])
  PROVE  [k \in DOMAIN book |-> SoldAt(k)] = Fill(j, ordered - Ahead(j))
  <1>1. DOMAIN book = 1 .. Len(book) /\ Len(book) \in Nat /\ j \in Nat
    BY BookType
  <1>2. SUFFICES ASSUME NEW k \in DOMAIN book PROVE SoldAt(k) = Fill(j, ordered - Ahead(j))[k]
    BY DEF Fill
  <1>3. /\ k \in Nat /\ Depth(book[k]) \in Nat \ {0} /\ Ahead(k) \in Nat
        /\ Depth(book[j]) \in Nat \ {0} /\ Ahead(j) \in Nat
    BY <1>1, BookType, AheadIsUpper
  <1> DEFINE left == ordered - Ahead(k)
  <1>4. SoldAt(k) = IF WithinLimit(book[k])
                    THEN IF left <= 0 THEN 0
                         ELSE IF left <= Depth(book[k]) THEN left ELSE Depth(book[k])
                    ELSE 0
    <2>1. left \in Int /\ Depth(book[k]) \in Nat
      BY <1>3
    <2>2. Max({0, Min({Depth(book[k]), left})})
            = IF left <= 0 THEN 0
              ELSE IF left <= Depth(book[k]) THEN left ELSE Depth(book[k])
      BY <2>1, MaxMin
    <2>3. QED
      BY <2>2 DEF SoldAt
  <1>5. CASE k < j
    <2>1. Ahead(k) + Depth(book[k]) <= Ahead(j)
      BY <1>5, AheadGrows
    <2>2. left > Depth(book[k]) /\ WithinLimit(book[k])
      BY <1>1, <1>3, <1>5, <2>1
    <2>3. SoldAt(k) = Depth(book[k])
      BY <1>3, <1>4, <2>2
    <2>4. QED
      BY <1>5, <2>3 DEF Fill
  <1>6. CASE k = j
    <2>1. left > 0 /\ left <= Depth(book[k]) /\ WithinLimit(book[k])
      BY <1>1, <1>3, <1>6
    <2>2. SoldAt(k) = left
      BY <1>3, <1>4, <2>1
    <2>3. QED
      BY <1>1, <1>6, <2>2 DEF Fill
  <1>7. CASE k > j
    <2>1. Ahead(j) + Depth(book[j]) <= Ahead(k)
      BY <1>1, <1>3, <1>7, AheadGrows
    <2>2. left <= 0
      BY <1>3, <2>1
    <2>3. SoldAt(k) = 0
      BY <1>4, <2>2
    <2>4. QED
      BY <1>1, <1>3, <1>7, <2>3 DEF Fill
  <1>8. QED
    BY <1>1, <1>3, <1>5, <1>6, <1>7

\* At a single price, what two amounts earn is in proportion to them.
LEMMA InProportion ==
  ASSUME Listed, NEW l \in Level, NEW v, Amounts(v), NEW w, Amounts(w)
  PROVE  AllAt(l, v) * Total(w) = AllAt(l, w) * Total(v)
  <1>1. l.price \in Nat \ {0} /\ Sides
    BY LevelType DEF Listed
  <1>2. /\ AllAt(l, v) \in Nat /\ AllAt(l, w) \in Nat
        /\ Total(v) \in Nat /\ Total(w) \in Nat
    BY ProceedsType
  <1>3. ASSUME NEW u, Amounts(u)
        PROVE  /\ side = "sell" => AllAt(l, u) = l.price * Total(u)
               /\ side = "buy" => Total(u) = l.price * AllAt(l, u)
    <2> DEFINE f == [k \in DOMAIN book |-> Worth(l, u[k])]
               p == l.price
    <2>1. IsFiniteSet(DOMAIN book) /\ p \in Int
      BY <1>1, BookType
    <2>2. \A k \in DOMAIN book : f[k] \in Int /\ u[k] \in Int
      BY <1>3, ProceedsType DEF Amounts
    <2>3. AllAt(l, u) = SumFunctionOnSet(f, DOMAIN book)
      BY DEF AllAt
    <2>4. /\ side = "sell" => \A k \in DOMAIN book : f[k] = p * u[k]
          /\ side = "buy" => \A k \in DOMAIN book : u[k] = p * f[k]
      BY <1>1, <1>3, WorthType DEF Amounts
    <2> HIDE DEF f, p
    <2>5. side = "sell" => SumFunctionOnSet(f, DOMAIN book) = p * Total(u)
      BY <2>1, <2>2, <2>4, SumScaled DEF Total
    <2>6. side = "buy" => Total(u) = p * SumFunctionOnSet(f, DOMAIN book)
      BY <2>1, <2>2, <2>4, SumScaled DEF Total
    <2>7. QED
      BY <2>3, <2>5, <2>6 DEF p
  <1> DEFINE p == l.price
             a == AllAt(l, v)
             b == AllAt(l, w)
             x == Total(v)
             y == Total(w)
  <1>4. CASE side = "sell"
    <2>1. a = p * x /\ b = p * y
      BY <1>3, <1>4
    <2>2. p \in Nat /\ x \in Nat /\ y \in Nat
      BY <1>1, <1>2
    <2> HIDE DEF p, a, b, x, y
    <2>3. a * y = b * x
      BY <2>1, <2>2
    <2>4. QED
      BY <2>3 DEF a, b, x, y
  <1>5. CASE side = "buy"
    <2>1. x = p * a /\ y = p * b
      BY <1>3, <1>5
    <2>2. p \in Nat /\ a \in Nat /\ b \in Nat
      BY <1>1, <1>2
    <2> HIDE DEF p, a, b, x, y
    <2>3. a * y = b * x
      BY <2>1, <2>2
    <2>4. QED
      BY <2>3 DEF a, b, x, y
  <1>6. QED
    BY <1>1, <1>4, <1>5 DEF Sides

\* An amount that fills the levels from the top earns at least what it would at
\* the level it ends at, and what is sold beyond it earns no more than that.
LEMMA AroundTheLast ==
  ASSUME Listed, NEW j \in DOMAIN book, NEW v, Amounts(v), NEW t, Amounts(t),
         \A k \in DOMAIN book : k < j => v[k] = t[k],
         v[j] <= t[j],
         \A k \in DOMAIN book : k > j => v[k] = 0
  PROVE  /\ AllAt(book[j], v) <= Proceeds(v)
         /\ Proceeds(t) + AllAt(book[j], v) <= Proceeds(v) + AllAt(book[j], t)
  <1> DEFINE l == book[j]
             f == [k \in DOMAIN book |-> Worth(book[k], v[k])]
             g == [k \in DOMAIN book |-> Worth(l, v[k])]
             p == [k \in DOMAIN book |-> Worth(book[k], t[k])]
             q == [k \in DOMAIN book |-> Worth(l, t[k])]
  <1>0. 0 \in Nat /\ 0 % Unit = 0
    BY QuoteAssumption DEF QuoteAssumption
  <1>1. l \in Level /\ Sides /\ IsFiniteSet(DOMAIN book)
    BY BookType DEF Listed
  <1>2. \A k \in DOMAIN book : /\ f[k] \in Nat /\ g[k] \in Nat
                               /\ p[k] \in Nat /\ q[k] \in Nat
    BY <1>1, ProceedsType
  <1>3. ASSUME NEW k \in DOMAIN book
        PROVE  g[k] + g[k] <= f[k] + f[k] /\ p[k] + g[k] <= f[k] + q[k]
    <2>1. /\ book[k] \in Level /\ k \in Nat /\ j \in Nat
          /\ v[k] \in Nat /\ v[k] % Unit = 0 /\ t[k] \in Nat /\ t[k] % Unit = 0
      BY BookType DEF Amounts
    <2>2. /\ f[k] = Worth(book[k], v[k]) /\ g[k] = Worth(l, v[k])
          /\ p[k] = Worth(book[k], t[k]) /\ q[k] = Worth(l, t[k])
      OBVIOUS
    <2> HIDE DEF f, g, p, q
    <2>3. CASE k < j
      <3>1. Better(book[k].price, l.price) /\ v[k] = t[k]
        BY <2>1, <2>3 DEF Listed, BestFirst
      <3>2. Worth(book[k], 0) = 0 /\ Worth(l, 0) = 0
        BY <1>0, <1>1, <2>1, WorthType
      <3> HIDE DEF l
      <3>3. Worth(l, v[k]) + Worth(book[k], 0) <= Worth(book[k], v[k]) + Worth(l, 0)
        BY <1>0, <1>1, <2>1, <3>1, Advantage
      <3>4. QED
        BY <1>2, <2>2, <3>1, <3>2, <3>3
    <2>4. CASE k = j
      BY <1>2, <2>2, <2>4
    <2>5. CASE k > j
      <3>1. Better(l.price, book[k].price) /\ v[k] = 0 /\ v[k] <= t[k]
        BY <2>1, <2>5 DEF Listed, BestFirst
      <3>2. Worth(book[k], 0) = 0 /\ Worth(l, 0) = 0
        BY <1>0, <1>1, <2>1, WorthType
      <3> HIDE DEF l
      <3>3. Worth(book[k], t[k]) + Worth(l, v[k]) <= Worth(l, t[k]) + Worth(book[k], v[k])
        BY <1>1, <2>1, <3>1, Advantage
      <3>4. QED
        BY <1>2, <2>2, <3>1, <3>2, <3>3
    <2>6. QED
      BY <2>1, <2>3, <2>4, <2>5
  <1>4. /\ Proceeds(v) = SumFunctionOnSet(f, DOMAIN book)
        /\ Proceeds(t) = SumFunctionOnSet(p, DOMAIN book)
        /\ AllAt(l, v) = SumFunctionOnSet(g, DOMAIN book)
        /\ AllAt(l, t) = SumFunctionOnSet(q, DOMAIN book)
    BY DEF Proceeds, AllAt
  <1> HIDE DEF f, g, p, q
  <1>5. SumFunctionOnSet(g, DOMAIN book) + SumFunctionOnSet(g, DOMAIN book)
           <= SumFunctionOnSet(f, DOMAIN book) + SumFunctionOnSet(f, DOMAIN book)
    BY <1>1, <1>2, <1>3, SumsCompare
  <1>6. SumFunctionOnSet(p, DOMAIN book) + SumFunctionOnSet(g, DOMAIN book)
           <= SumFunctionOnSet(f, DOMAIN book) + SumFunctionOnSet(q, DOMAIN book)
    BY <1>1, <1>2, <1>3, SumsCompare
  <1>7. /\ Proceeds(v) \in Nat /\ Proceeds(t) \in Nat
        /\ AllAt(l, v) \in Nat /\ AllAt(l, t) \in Nat
    BY <1>1, ProceedsType
  <1>8. QED
    BY <1>4, <1>5, <1>6, <1>7

\* More than the average for a part, and no more than it for the rest: a and b
\* are what the part and the whole would earn at the price between the two.
LEMMA AverageFalls ==
  ASSUME NEW a \in Nat, NEW b \in Nat, NEW x \in Nat, NEW y \in Nat,
         NEW part \in Nat, NEW whole \in Nat, part <= whole,
         a <= x, y + a <= x + b, a * whole = b * part
  PROVE  y * part <= x * whole
  <1>1. (x - a) * (whole - part) \in Nat /\ (x + b - a - y) * part \in Nat
    BY SMT
  <1>2. (x - a) * (whole - part) = x * whole - x * part - a * whole + a * part
    OBVIOUS
  <1>3. (x + b - a - y) * part = x * part + b * part - a * part - y * part
    OBVIOUS
  <1> DEFINE m == (x - a) * (whole - part)
             n == (x + b - a - y) * part
             xw == x * whole
             xp == x * part
             aw == a * whole
             ap == a * part
             bp == b * part
             yp == y * part
  <1>4. /\ m \in Nat /\ n \in Nat /\ xw \in Nat /\ xp \in Nat /\ aw \in Nat
        /\ ap \in Nat /\ bp \in Nat /\ yp \in Nat
    BY <1>1
  <1>5. m = xw - xp - aw + ap /\ n = xp + bp - ap - yp /\ aw = bp
    BY <1>2, <1>3
  <1> HIDE DEF m, n, xw, xp, aw, ap, bp, yp
  <1>6. yp <= xw
    BY <1>4, <1>5
  <1>7. QED
    BY <1>6 DEF yp, xw

\* An order for no more than the walk sold is filled, and earns on average no
\* less than the walk did.
LEMMA OrderEarns ==
  ASSUME Listed, i \in DOMAIN book, NEW q \in Nat, q % Unit = 0, q <= Depth(book[i]),
         ordered \in Nat, ordered % Unit = 0, ordered <= Total(Taken(q)),
         \A k \in 1 .. i : WithinLimit(book[k])
  PROVE  /\ HedgeSells = ordered
         /\ HedgeReceives * Total(Taken(q)) >= Proceeds(Taken(q)) * HedgeSells
  <1> DEFINE t == Taken(q)
             v == [k \in DOMAIN book |-> SoldAt(k)]
  <1>0. 0 \in Nat /\ 0 % Unit = 0
    BY QuoteAssumption DEF QuoteAssumption
  <1>1. DOMAIN book = 1 .. Len(book) /\ Len(book) \in Nat /\ i \in Nat
    BY BookType
  <1>2. Taken(q) = Fill(i, q)
    BY DEF Taken, Fill
  <1>3. Amounts(t) /\ Total(t) = Ahead(i) + q /\ Total(t) \in Nat /\ Proceeds(t) \in Nat
    <2>1. Amounts(t) /\ Total(t) = Ahead(i) + q
      BY <1>2, FillTotal
    <2> HIDE DEF t
    <2>2. QED
      BY <2>1, ProceedsType
  <1>4. HedgeSells = Total(v) /\ HedgeReceives = Proceeds(v)
    BY DEF HedgeSells, HedgeReceives, Total
  <1>5. CASE ordered = 0
    <2>1. ASSUME NEW k \in DOMAIN book PROVE SoldAt(k) = 0
      <3>1. Depth(book[k]) \in Nat /\ Ahead(k) \in Nat
        BY BookType, AheadIsUpper
      <3>2. ordered - Ahead(k) \in Int /\ ordered - Ahead(k) <= 0
        BY <1>5, <3>1
      <3>3. Max({0, Min({Depth(book[k]), ordered - Ahead(k)})}) = 0
        BY <3>1, <3>2, MaxMin
      <3>4. QED
        BY <3>3 DEF SoldAt
    <2>2. Amounts(v) /\ \A k \in DOMAIN book : v[k] = 0
      BY <1>0, <2>1 DEF Amounts
    <2> HIDE DEF v, t
    <2>3. Total(v) = 0
      BY <2>2, BookType, SumOfZeros DEF Total
    <2>4. Proceeds(v) \in Nat
      BY <2>2, ProceedsType
    <2>5. Proceeds(v) * Total(t) >= Proceeds(t) * 0
      <3>1. Proceeds(v) * Total(t) \in Nat /\ Proceeds(t) * 0 = 0
        BY <1>3, <2>4
      <3>2. QED
        BY <3>1
    <2>6. QED
      BY <1>4, <1>5, <2>3, <2>5 DEF t
  <1>6. CASE ordered # 0
    <2>1. PICK j \in 1 .. i :
             Ahead(j) < ordered /\ ordered <= Ahead(j) + Depth(book[j])
      BY <1>3, <1>6, LastLevelOf
    <2>2. j \in DOMAIN book /\ j \in Nat /\ \A k \in 1 .. j : WithinLimit(book[k])
      BY <1>1
    <2> DEFINE r == ordered - Ahead(j)
    <2>3. v = Fill(j, r)
      BY <2>1, <2>2, OrderFills
    <2>4. /\ Ahead(j) \in Nat /\ Ahead(j) % Unit = 0
          /\ Depth(book[j]) \in Nat
      <3>1. Amounts(Upper(j)) /\ Ahead(j) = Total(Upper(j))
        BY <2>2, UpperType, AheadIsUpper
      <3>2. QED
        BY <2>2, <3>1, TotalMultiple, AheadIsUpper, BookType
    <2>5. r \in Nat /\ r % Unit = 0 /\ r <= Depth(book[j])
      BY <2>1, <2>4, MultipleMinus
    <2> HIDE DEF r
    <2>6. Amounts(v) /\ Total(v) = Ahead(j) + r
      BY <2>2, <2>3, <2>5, FillTotal
    <2>7. Total(v) = ordered
      BY <2>4, <2>6 DEF r
    <2>8. v[j] = r /\ v[j] <= t[j]
      <3>1. v[j] = r
        BY <2>2, <2>3 DEF Fill
      <3>2. CASE j = i
        <4>1. Ahead(i) + r <= Ahead(i) + q /\ Ahead(i) \in Nat
          BY <1>3, <2>4, <2>6, <2>7, <3>2
        <4>2. r <= q
          BY <2>5, <4>1
        <4>3. t[j] = q
          BY <1>1, <3>2 DEF Taken
        <4>4. QED
          BY <3>1, <4>2, <4>3
      <3>3. CASE j < i
        BY <2>2, <2>5, <3>1, <3>3 DEF Taken
      <3>4. QED
        BY <1>1, <2>2, <3>1, <3>2, <3>3
    <2>9. /\ \A k \in DOMAIN book : k < j => v[k] = t[k]
          /\ \A k \in DOMAIN book : k > j => v[k] = 0
      BY <1>1, <2>2, <2>3 DEF Fill, Taken
    <2> DEFINE a == AllAt(book[j], v)
               b == AllAt(book[j], t)
    <2> HIDE DEF v, t
    <2>10. a <= Proceeds(v) /\ Proceeds(t) + a <= Proceeds(v) + b
      BY <1>3, <2>2, <2>6, <2>8, <2>9, AroundTheLast
    <2>11. book[j] \in Level
      BY <2>2, BookType
    <2>12. a * Total(t) = b * Total(v)
      BY <1>3, <2>6, <2>11, InProportion
    <2>13. a \in Nat /\ b \in Nat /\ Proceeds(v) \in Nat /\ Total(v) \in Nat
      BY <1>3, <2>6, <2>11, ProceedsType
    <2> HIDE DEF a, b
    <2>14. Total(v) <= Total(t)
      BY <2>7 DEF t
    <2>15. Proceeds(t) * Total(v) <= Proceeds(v) * Total(t)
      BY <1>3, <2>10, <2>12, <2>13, <2>14, AverageFalls
    <2>16. Proceeds(v) * Total(t) >= Proceeds(t) * Total(v)
      <3>1. Proceeds(v) * Total(t) \in Nat /\ Proceeds(t) * Total(v) \in Nat
        BY <1>3, <2>13
      <3>2. QED
        BY <2>15, <3>1
    <2>17. QED
      BY <1>4, <2>7, <2>16 DEF t
  <1>7. QED
    BY <1>5, <1>6

-----------------------------------------------------------------------------
(* The invariant *)

\* The invariant holds at the start of a try,
LEMMA InitIInv == Init => IInv
  <1> SUFFICES ASSUME Init PROVE IInv
    OBVIOUS
  <1>1. InventoryTypeOK /\ AllAsked /\ TotalUpToDepartures /\ FreeUpToDepartures
    BY InventoryAssumption
       DEF Init, InventoryInit, InventoryAssumption, InventoryTypeOK, AllAsked,
           TotalUpToDepartures, FreeUpToDepartures
  <1>2. book = <<>> /\ book \in Seq(Level) /\ Len(book) = 0 /\ DOMAIN book = {}
    BY DEF Init
  <1>3. TryInv
    <2>1. TryType /\ SizedByInventory /\ SizedAtRate /\ LargeEnough /\ Decided
      BY <1>2 DEF Init, TryType, SizedByInventory, SizedAtRate, LargeEnough, Decided, Priced
    <2>2. BookRead /\ WalkIsExact
      BY <1>2 DEF Init, BookRead, BestFirst, WalkIsExact, Priced, Quoted
    <2>3. QED
      BY <2>1, <2>2 DEF TryInv
  <1>4. QED
    BY <1>1, <1>3, InvParts DEF Reading

Trying ==
    \/ CallFails
    \/ NoBalance \/ DivisionByZero \/ SizeWhole \/ SizeCut
    \/ GetAssetUSDPrice \/ GetOrderbook
    \/ TakeLevel \/ LastLevel \/ ThinBook
    \/ Judge
    \/ MarketSellAsset

\* A step of the try leaves the inventory alone.
LEMMA TryingKeepsReading ==
  ASSUME Trying
  PROVE  UNCHANGED inventoryVars
  BY DEF Trying, CallFails, NoBalance, DivisionByZero, SizeWhole, SizeCut, SizedAs,
         GetAssetUSDPrice, GetOrderbook, TakeLevel, Take, LastLevel, LastLevelFor, ThinBook,
         Judge, Decides, MarketSellAsset, Ends

\* Every step of the try keeps its part of the invariant.
LEMMA TryStep ==
  ASSUME IInv, Trying
  PROVE  TryInv'
  <1>1. TryInv /\ Reading
    BY InvParts
  <1>2. CASE CallFails
    BY <1>1, <1>2, StepEnds DEF CallFails
  <1>3. CASE NoBalance
    BY <1>1, <1>3, StepEnds, NothingFree DEF NoBalance, Sizes, TryInv, SizedByInventory
  <1>4. CASE DivisionByZero
    BY <1>1, <1>4, StepEnds, NoDebt DEF DivisionByZero, Sizes
  <1>5. CASE SizeWhole
    BY <1>1, <1>5, StepSizeWhole
  <1>6. CASE SizeCut
    BY <1>1, <1>6, StepSizeCut
  <1>7. CASE GetAssetUSDPrice
    BY <1>1, <1>7, StepValue
  <1>8. CASE GetOrderbook
    BY <1>1, <1>8, StepOrderbook
  <1>9. CASE TakeLevel
    BY <1>1, <1>9, StepTakeLevel
  <1>10. CASE LastLevel
    BY <1>1, <1>10, StepLastLevel
  <1>11. CASE ThinBook
    BY <1>1, <1>11, StepThinBook
  <1>12. CASE Judge
    BY <1>1, <1>12, StepJudge
  <1>13. CASE MarketSellAsset
    BY <1>1, <1>13, StepHedge
  <1>14. QED
    BY <1>2, <1>3, <1>4, <1>5, <1>6, <1>7, <1>8, <1>9, <1>10, <1>11, <1>12, <1>13 DEF Trying

\* and every step keeps it.
LEMMA NextIInv == IInv /\ [Next]_vars => IInv'
  <1> SUFFICES ASSUME IInv, [Next]_vars PROVE Reading' /\ TryInv'
    BY InvParts DEF IInv, TypeOK, TryType, Reading, TryInv
  <1>0. Reading /\ TryInv
    BY InvParts
  <1>1. CASE GetInventory
    <2>1. Reading'
      BY <1>0, <1>1, CallStep DEF GetInventory
    <2>2. reading = "asking" /\ UNCHANGED tryVars
      BY <1>1 DEF GetInventory, ReadLocks, ReadsLocksAs, ReadFails, FailsAs, ReadBalance
    <2>3. QED
      BY <1>0, <2>1, <2>2, TryKept
  <1>2. CASE Trying
    <2>1. UNCHANGED inventoryVars
      BY <1>2, TryingKeepsReading
    <2>2. QED
      BY <1>0, <1>2, <2>1, ReadingKept, TryStep
  <1>3. CASE WalletMoves
    <2>1. Reading'
      BY <1>0, <1>3, WalletMoved DEF WalletMoves
    <2>2. UNCHANGED <<tryVars, inventory, reading>>
      BY <1>3 DEF WalletMoves, WalletStep, Lock, Deposit, Withdraw, Settle, Moves
    <2>3. QED
      BY <1>0, <2>1, <2>2, TryKept
  <1>4. CASE UNCHANGED vars
    <2>1. UNCHANGED inventoryVars /\ UNCHANGED tryVars /\ UNCHANGED <<inventory, reading>>
      BY <1>4 DEF vars, inventoryVars
    <2>2. QED
      BY <1>0, <2>1, ReadingKept, TryKept
  <1>5. QED
    BY <1>1, <1>2, <1>3, <1>4 DEF Next, Trying

-----------------------------------------------------------------------------
(* The theorems *)

\* The strengthening the theorems below follow from.
THEOREM Invariance == Spec => []IInv
  BY InitIInv, NextIInv, PTL DEF Spec

\* Every amount of a try is of its kind, and the price limit a number whatever
\* digits the market keeps of it.
THEOREM TypeCorrect == Spec => []TypeOK
  <1>1. IInv => TypeOK
    BY DEF IInv
  <1>2. QED
    BY <1>1, Invariance, PTL

\* However a torn reading of the inventory went and whatever the wallet did
\* since, a bid counts on nothing but what is free or departed meanwhile.
THEOREM Covered == Spec => []BidCovered
  <1>1. ASSUME IInv, pc = "bid" PROVE debt <= Free(DebtAsset) + departed[DebtAsset]
    <2>1. DebtAsset \in Asset
      BY QuoteAssumption DEF QuoteAssumption
    <2>2. reading = "done" /\ debt <= inventory[DebtAsset]
      BY <1>1 DEF IInv, SizedByInventory, Priced, free
    <2>3. inventory[DebtAsset] <= Free(DebtAsset) + departed[DebtAsset]
      BY <1>1, <2>1, <2>2 DEF IInv, FreeUpToDepartures
    <2>4. /\ debt \in Int /\ inventory[DebtAsset] \in Int
          /\ Free(DebtAsset) + departed[DebtAsset] \in Int
      BY <1>1, <2>1, InventoryAssumption
         DEF IInv, TypeOK, InventoryTypeOK, InventoryAssumption, Free
    <2>5. QED
      BY <2>2, <2>3, <2>4
  <1>2. IInv => BidCovered
    BY <1>1 DEF BidCovered
  <1>3. QED
    BY <1>2, Invariance, PTL

\* The walk from the top with its early exit earns as much as any way to sell
\* the collateral into the book, for books of any length and any prices.
THEOREM BestQuote == Spec => []QuoteIsBest
  <1>1. IInv => QuoteIsBest
    BY QuoteBest DEF QuoteIsBest, Quoted
  <1>2. QED
    BY <1>1, Invariance, PTL

\* A bid is made exactly when there is a worthwhile one, for every auction,
\* balance, book, margin and least value of an order.
THEOREM WorthBidding == Spec => []BidsWhenWorthwhile
  <1>1. ASSUME IInv, pc = "bid" PROVE Worthwhile(debt, collateral)
    <2>1. Affordable(debt, collateral) /\ collateral * usd > MinOrderValue
      BY <1>1, BidSize DEF Priced, IInv, LargeEnough
    <2>2. receive * 100 > debt * (100 + MarginPct)
      BY <1>1 DEF IInv, Decided
    <2>3. \E w \in Ways(collateral) : Proceeds(w) = receive
      BY <1>1, QuoteBest DEF Quoted
    <2>4. QED
      BY <2>1, <2>2, <2>3 DEF Worthwhile
  <1>2. IInv => BidsWhenWorthwhile
    BY <1>1 DEF BidsWhenWorthwhile, IInv, Decided
  <1>3. QED
    BY <1>2, Invariance, PTL

\* Where the limit is, once cut.
LEMMA LimitIs ==
  ASSUME IInv, pc = "hedged", FitsPrecision
  PROVE  /\ SlippageBound \in Nat /\ Place \in Nat /\ limit \in Nat
         /\ limit <= SlippageBound /\ SlippageBound < limit + Place
  <1>1. SlippageBound \in Nat /\ ExactLimit = SlippageBound
    BY ExactIsBound
  <1>2. limit = SetDecimal(SetPrecision(SlippageBound, PricePrecision), PriceDecimal)
    BY <1>1 DEF IInv, Decided
  <1>3. QED
    BY <1>1, <1>2, LimitCut DEF FitsPrecision, Place

\* However the limit is cut, no hedge sells beyond MAX_SLIPPAGE by more than
\* the last digit kept: for every precision, number of decimals and slippage.
THEOREM WithinPlace == Spec => []HedgeWithinSlippage
  <1>1. ASSUME IInv, pc = "hedged", FitsPrecision, NEW k \in DOMAIN book, SoldAt(k) > 0
        PROVE  IF side = "sell" THEN book[k].price * 1000 > SlippageBound - Place
                                ELSE book[k].price * 1000 <= SlippageBound
    <2>1. WithinLimit(book[k])
      BY <1>1 DEF SoldAt
    <2>2. book[k].price \in Nat
      BY <1>1, InvLists, BookType
    <2>3. QED
      BY <1>1, <2>1, <2>2, LimitIs DEF WithinLimit
  <1>2. IInv => HedgeWithinSlippage
    BY <1>1 DEF HedgeWithinSlippage
  <1>3. QED
    BY <1>2, Invariance, PTL

\* A hedge at the book of the quote sells what was won, less the dust the market
\* does not take, at an average price no worse than quoted: for books of any
\* length, every lot and either way to name the market.
THEOREM SellsWhatWasQuoted == Spec => []HedgesWhatWasQuoted
  <1>1. ASSUME IInv, pc = "hedged", FitsPrecision,
               \A k \in 1 .. i :
                  IF side = "sell" THEN book[k].price * 1000 >= SlippageBound
                                   ELSE book[k].price * 1000 <= SlippageBound - Place
        PROVE  /\ HedgeSells <= collateral /\ collateral < HedgeSells + AmountLot
               /\ HedgeReceives * collateral >= receive * HedgeSells
    <2>1. Listed /\ i \in DOMAIN book
      BY <1>1, InvLists DEF IInv, WalkIsExact, Quoted
    <2>2. i \in Nat /\ Len(book) \in Nat /\ DOMAIN book = 1 .. Len(book)
      BY <2>1, BookType
    <2>3. PICK q \in 1 .. Depth(book[i]) : q % Unit = 0 /\ Sold(q)
      BY <1>1 DEF IInv, WalkIsExact, Quoted
    <2>4. q \in Nat /\ q <= Depth(book[i])
      BY <2>1, <2>3, BookType
    <2>5. Amounts(Taken(q)) /\ Total(Taken(q)) \in Nat
      <3>1. Amounts(Taken(q))
        BY <2>1, <2>2, <2>3, <2>4, TakenType
      <3>2. QED
        BY <2>1, <3>1, ProceedsType
    <2>6. collateral = Total(Taken(q)) /\ receive = Proceeds(Taken(q))
      BY <1>1, <2>3, <2>5 DEF Sold, Total, IInv, WalkIsExact, Quoted
    <2>7. ASSUME NEW k \in 1 .. i PROVE WithinLimit(book[k])
      <3>1. book[k].price \in Nat
        BY <2>1, <2>2, BookType
      <3>2. orderSide = side
        BY <1>1, SameSide DEF IInv, BookRead
      <3>3. QED
        BY <1>1, <3>1, <3>2, LimitIs DEF WithinLimit
    <2>8. /\ ordered \in Nat /\ ordered <= collateral /\ collateral < ordered + AmountLot
          /\ ordered % Unit = 0
      <3>1. ordered = OrderAmount(collateral)
        BY <1>1 DEF IInv, Decided
      <3>2. QED
        BY <2>5, <2>6, <3>1, OrderCut
    <2>9. /\ HedgeSells = ordered
          /\ HedgeReceives * Total(Taken(q)) >= Proceeds(Taken(q)) * HedgeSells
      BY <2>1, <2>3, <2>4, <2>6, <2>7, <2>8, OrderEarns
    <2>10. QED
      BY <2>6, <2>8, <2>9
  <1>2. IInv => HedgesWhatWasQuoted
    BY <1>1 DEF HedgesWhatWasQuoted
  <1>3. QED
    BY <1>2, Invariance, PTL
=============================================================================
