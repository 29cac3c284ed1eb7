---------------------------- MODULE SumTheorems ----------------------------
(***************************************************************************)
(* SumFunctionOnSet over finite sets: the sum of nothing is zero, and one  *)
(* more index adds its value, whichever order the fold takes them in.      *)
(***************************************************************************)
EXTENDS Integers, Functions, FiniteSets, FiniteSetTheorems, TLAPS

\* g sums f over every subset of S, whichever element is taken out first.
Sums(g, f, S) ==
    /\ g \in [SUBSET S -> Int]
    /\ g[{}] = 0
    /\ \A T \in SUBSET S : \A x \in T : g[T] = f[x] + g[T \ {x}]

\* What the fold is: a function equal to its own unfolding.
IsFold(g, f, S) ==
    g = [T \in SUBSET S |-> IF T = {} THEN 0
                            ELSE f[CHOOSE x \in T : TRUE] + g[T \ {CHOOSE x \in T : TRUE}]]

LEMMA SumIsFold ==
  ASSUME NEW f, NEW S
  PROVE  SumFunctionOnSet(f, S) = (CHOOSE g : IsFold(g, f, S))[S]
  BY DEF SumFunctionOnSet, FoldFunctionOnSet, MapThenFoldSet, IsFold

\* Induction on finite sets, for a set of subsets: if a family is not all the
\* subsets, some subset is outside it and all its parts are inside.
LEMMA LeastOutside ==
  ASSUME NEW S, IsFiniteSet(S), NEW Good, NEW W \in SUBSET S, W \notin Good
  PROVE  \E T \in SUBSET S : T \notin Good /\ \A x \in T : T \ {x} \in Good
  <1> DEFINE Bad == (SUBSET S) \ Good
  <1>1. IsWellFoundedOn(StrictSubsetOrdering(S), SUBSET S)
    BY FS_StrictSubsetOrderingWellFounded, FS_FiniteSubsetsOfFinite
  <1>2. \E T \in Bad : \A U \in Bad : ~ (<<U, T>> \in StrictSubsetOrdering(S))
    <2>1. Bad \subseteq SUBSET S /\ Bad # {}
      OBVIOUS
    <2> HIDE DEF Bad
    <2>2. QED
      BY <1>1, <2>1, WFMin
  <1>3. PICK T \in SUBSET S :
          T \notin Good /\ \A U \in SUBSET S : U \in Good \/ <<U, T>> \notin StrictSubsetOrdering(S)
    BY <1>2
  <1>4. ASSUME NEW x \in T PROVE T \ {x} \in Good
    <2>1. T \ {x} \in SUBSET S /\ <<T \ {x}, T>> \in StrictSubsetOrdering(S)
      BY <1>4 DEF StrictSubsetOrdering
    <2>2. QED
      BY <1>3, <2>1
  <1>5. QED
    BY <1>3, <1>4

LEMMA SumsExtends ==
  ASSUME NEW S, NEW x \in S, NEW f, \A y \in S : f[y] \in Int,
         NEW g, Sums(g, f, S \ {x})
  PROVE  Sums([T \in SUBSET S |-> g[T \ {x}] + IF x \in T THEN f[x] ELSE 0], f, S)
  <1> DEFINE h == [T \in SUBSET S |-> g[T \ {x}] + IF x \in T THEN f[x] ELSE 0]
  <1>1. \A T \in SUBSET S : T \ {x} \in SUBSET (S \ {x})
    OBVIOUS
  <1>2. h \in [SUBSET S -> Int]
    BY <1>1 DEF Sums
  <1>3. h[{}] = 0
    <2>1. {} \ {x} = {}
      OBVIOUS
    <2>2. QED
      BY <2>1 DEF Sums
  <1>4. ASSUME NEW T \in SUBSET S, NEW y \in T
        PROVE  h[T] = f[y] + h[T \ {y}]
    <2>1. /\ T \ {y} \in SUBSET S
          /\ g[T \ {x}] \in Int /\ g[(T \ {y}) \ {x}] \in Int
          /\ f[x] \in Int /\ f[y] \in Int
      BY <1>1 DEF Sums
    <2>2. CASE y = x
      <3>1. (T \ {y}) \ {x} = T \ {x} /\ x \in T /\ x \notin T \ {y}
        BY <2>2
      <3>2. h[T] = g[T \ {x}] + f[x] /\ h[T \ {y}] = g[T \ {x}] + 0
        BY <2>1, <3>1
      <3>3. QED
        BY <2>1, <2>2, <3>2
    <2>3. CASE y # x
      <3>1. /\ (T \ {y}) \ {x} = (T \ {x}) \ {y}
            /\ y \in T \ {x} /\ T \ {x} \in SUBSET (S \ {x})
            /\ x \in T <=> x \in T \ {y}
        BY <2>3
      <3>2. g[T \ {x}] = f[y] + g[(T \ {x}) \ {y}]
        <4>1. \A U \in SUBSET (S \ {x}) : \A z \in U : g[U] = f[z] + g[U \ {z}]
          BY DEF Sums
        <4>2. QED
          BY <3>1, <4>1
      <3>3. h[T] = g[T \ {x}] + IF x \in T THEN f[x] ELSE 0
        OBVIOUS
      <3>4. h[T \ {y}] = g[(T \ {x}) \ {y}] + IF x \in T THEN f[x] ELSE 0
        BY <2>1, <3>1
      <3>5. g[(T \ {x}) \ {y}] \in Int
        BY <2>1, <3>1
      <3>6. QED
        <4> HIDE DEF h
        <4>1. QED
          BY <2>1, <3>2, <3>3, <3>4, <3>5
    <2>4. QED
      BY <2>2, <2>3
  <1>5. QED
    BY <1>2, <1>3, <1>4 DEF Sums

LEMMA SumsExist ==
  ASSUME NEW S, IsFiniteSet(S), NEW f, \A x \in S : f[x] \in Int
  PROVE  \E g : Sums(g, f, S)
  <1> DEFINE Good == {T \in SUBSET S : \E g : Sums(g, f, T)}
  <1>1. SUFFICES ASSUME S \notin Good PROVE FALSE
    OBVIOUS
  <1>2. PICK T \in SUBSET S : T \notin Good /\ \A x \in T : T \ {x} \in Good
    <2>1. S \in SUBSET S
      OBVIOUS
    <2> HIDE DEF Good
    <2>2. QED
      BY <1>1, <2>1, LeastOutside
  <1>3. CASE T = {}
    <2>1. Sums([U \in SUBSET T |-> 0], f, T)
      BY <1>3 DEF Sums
    <2>2. QED
      BY <1>2, <2>1
  <1>4. ASSUME NEW x \in T PROVE FALSE
    <2>1. PICK g : Sums(g, f, T \ {x})
      BY <1>2
    <2>2. \E h : Sums(h, f, T)
      BY <2>1, SumsExtends
    <2>3. QED
      BY <1>2, <2>2
  <1>5. QED
    BY <1>3, <1>4

LEMMA SumsIsTheFold ==
  ASSUME NEW S, IsFiniteSet(S), NEW f, NEW g, Sums(g, f, S), NEW h, IsFold(h, f, S)
  PROVE  h = g
  <1> DEFINE Good == {T \in SUBSET S : h[T] = g[T]}
  <1>1. ASSUME NEW W \in SUBSET S, W \notin Good PROVE FALSE
    <2>1. PICK T \in SUBSET S : T \notin Good /\ \A x \in T : T \ {x} \in Good
      <3> HIDE DEF Good
      <3>1. QED
        BY <1>1, LeastOutside
    <2>2. CASE T = {}
      BY <2>1, <2>2 DEF Sums, IsFold
    <2>3. CASE T # {}
      <3> DEFINE x == CHOOSE y \in T : TRUE
      <3>1. x \in T
        BY <2>3
      <3>2. h[T] = f[x] + h[T \ {x}]
        BY <2>3 DEF IsFold
      <3>3. g[T] = f[x] + g[T \ {x}]
        BY <3>1 DEF Sums
      <3>4. h[T \ {x}] = g[T \ {x}]
        BY <2>1, <3>1
      <3>5. QED
        BY <2>1, <3>2, <3>3, <3>4
    <2>4. QED
      BY <2>2, <2>3
  <1>2. \A T \in SUBSET S : h[T] = g[T]
    BY <1>1
  <1>3. DOMAIN h = SUBSET S /\ h = [T \in SUBSET S |-> h[T]]
    BY DEF IsFold
  <1>4. QED
    BY <1>2, <1>3 DEF Sums

LEMMA SumsAreFolds ==
  ASSUME NEW S, NEW f, NEW g, Sums(g, f, S)
  PROVE  IsFold(g, f, S)
  <1>1. ASSUME NEW T \in SUBSET S, T # {}
        PROVE  g[T] = f[CHOOSE x \in T : TRUE] + g[T \ {CHOOSE x \in T : TRUE}]
    BY <1>1 DEF Sums
  <1>2. QED
    BY <1>1 DEF Sums, IsFold

LEMMA SumIsSums ==
  ASSUME NEW S, IsFiniteSet(S), NEW f, NEW g, Sums(g, f, S)
  PROVE  SumFunctionOnSet(f, S) = g[S]
  <1> DEFINE h == CHOOSE k : IsFold(k, f, S)
  <1>1. IsFold(h, f, S)
    BY SumsAreFolds
  <1> HIDE DEF h
  <1>2. h = g
    BY <1>1, SumsIsTheFold
  <1>3. QED
    BY <1>2, SumIsFold DEF h

\* The sum of nothing.
THEOREM SumOfNone ==
  ASSUME NEW f
  PROVE  SumFunctionOnSet(f, {}) = 0
  <1>1. IsFiniteSet({})
    BY FS_EmptySet
  <1>2. PICK g : Sums(g, f, {})
    BY <1>1, SumsExist
  <1>3. QED
    BY <1>1, <1>2, SumIsSums DEF Sums

\* The sum over finitely many integers is an integer, and the sum without one
\* of them is smaller by it.
THEOREM SumWithout ==
  ASSUME NEW S, IsFiniteSet(S), NEW f, \A y \in S : f[y] \in Int, NEW x \in S
  PROVE  /\ SumFunctionOnSet(f, S) \in Int
         /\ SumFunctionOnSet(f, S) = f[x] + SumFunctionOnSet(f, S \ {x})
  <1>1. PICK g : Sums(g, f, S \ {x})
    BY FS_RemoveElement, SumsExist
  <1> DEFINE h == [T \in SUBSET S |-> g[T \ {x}] + IF x \in T THEN f[x] ELSE 0]
  <1>2. Sums(h, f, S)
    BY <1>1, SumsExtends
  <1>3. SumFunctionOnSet(f, S \ {x}) = g[S \ {x}]
    BY <1>1, FS_RemoveElement, SumIsSums
  <1>4. h[S] = g[S \ {x}] + f[x]
    OBVIOUS
  <1>5. g[S \ {x}] \in Int
    BY <1>1 DEF Sums
  <1> HIDE DEF h
  <1>6. SumFunctionOnSet(f, S) = h[S]
    BY <1>2, SumIsSums
  <1>7. QED
    BY <1>3, <1>4, <1>5, <1>6

LEMMA SumsAgree ==
  ASSUME NEW S, NEW f, NEW h, \A y \in S : f[y] = h[y], NEW g, Sums(g, f, S)
  PROVE  Sums(g, h, S)
  BY DEF Sums

\* Only the values on the set count.
THEOREM SumOfSame ==
  ASSUME NEW S, IsFiniteSet(S), NEW f, NEW h,
         \A y \in S : f[y] \in Int /\ f[y] = h[y]
  PROVE  SumFunctionOnSet(f, S) = SumFunctionOnSet(h, S)
  <1>1. PICK g : Sums(g, f, S)
    BY SumsExist
  <1>2. Sums(g, h, S)
    BY <1>1, SumsAgree
  <1>3. QED
    BY <1>1, <1>2, SumIsSums

THEOREM SumIsInt ==
  ASSUME NEW S, IsFiniteSet(S), NEW f, \A y \in S : f[y] \in Int
  PROVE  SumFunctionOnSet(f, S) \in Int
  <1>1. PICK g : Sums(g, f, S)
    BY SumsExist
  <1>2. g[S] \in Int
    BY <1>1 DEF Sums
  <1>3. QED
    BY <1>1, <1>2, SumIsSums

\* A sum of natural numbers is one, and no term is larger than it.
THEOREM SumOfNats ==
  ASSUME NEW S, IsFiniteSet(S), NEW f, \A y \in S : f[y] \in Nat
  PROVE  /\ SumFunctionOnSet(f, S) \in Nat
         /\ \A y \in S : f[y] <= SumFunctionOnSet(f, S)
  <1>1. PICK g : Sums(g, f, S)
    BY SumsExist
  <1> DEFINE Good == {T \in SUBSET S : g[T] \in Nat}
  <1>2. ASSUME NEW W \in SUBSET S, W \notin Good PROVE FALSE
    <2>1. PICK T \in SUBSET S : T \notin Good /\ \A x \in T : T \ {x} \in Good
      <3> HIDE DEF Good
      <3>1. QED
        BY <1>2, LeastOutside
    <2>2. CASE T = {}
      BY <1>1, <2>1, <2>2 DEF Sums
    <2>3. ASSUME NEW x \in T PROVE FALSE
      <3>1. g[T] = f[x] + g[T \ {x}]
        BY <1>1 DEF Sums
      <3>2. g[T \ {x}] \in Nat /\ f[x] \in Nat
        BY <2>1
      <3>3. QED
        BY <2>1, <3>1, <3>2
    <2>4. QED
      BY <2>2, <2>3
  <1>3. \A T \in SUBSET S : g[T] \in Nat
    BY <1>2
  <1>4. ASSUME NEW y \in S PROVE f[y] <= g[S]
    <2>1. g[S] = f[y] + g[S \ {y}]
      BY <1>1 DEF Sums
    <2>2. g[S] \in Nat /\ g[S \ {y}] \in Nat
      BY <1>3
    <2>3. QED
      BY <2>1, <2>2
  <1>5. QED
    BY <1>1, <1>3, <1>4, SumIsSums

\* Sums compare as their terms do, two by two.
THEOREM SumsCompare ==
  ASSUME NEW S, IsFiniteSet(S), NEW f, NEW g, NEW p, NEW q,
         \A y \in S : /\ f[y] \in Int /\ g[y] \in Int /\ p[y] \in Int /\ q[y] \in Int
                      /\ f[y] + g[y] <= p[y] + q[y]
  PROVE  SumFunctionOnSet(f, S) + SumFunctionOnSet(g, S)
            <= SumFunctionOnSet(p, S) + SumFunctionOnSet(q, S)
  <1>1. PICK F : Sums(F, f, S)
    BY SumsExist
  <1>2. PICK G : Sums(G, g, S)
    BY SumsExist
  <1>3. PICK P : Sums(P, p, S)
    BY SumsExist
  <1>4. PICK Q : Sums(Q, q, S)
    BY SumsExist
  <1> DEFINE Good == {T \in SUBSET S : F[T] + G[T] <= P[T] + Q[T]}
  <1>5. ASSUME NEW W \in SUBSET S, W \notin Good PROVE FALSE
    <2>1. PICK T \in SUBSET S : T \notin Good /\ \A x \in T : T \ {x} \in Good
      <3> HIDE DEF Good
      <3>1. QED
        BY <1>5, LeastOutside
    <2>2. CASE T = {}
      BY <1>1, <1>2, <1>3, <1>4, <2>1, <2>2 DEF Sums
    <2>3. ASSUME NEW x \in T PROVE FALSE
      <3>1. /\ F[T] = f[x] + F[T \ {x}] /\ G[T] = g[x] + G[T \ {x}]
            /\ P[T] = p[x] + P[T \ {x}] /\ Q[T] = q[x] + Q[T \ {x}]
        BY <1>1, <1>2, <1>3, <1>4 DEF Sums
      <3>2. F[T \ {x}] + G[T \ {x}] <= P[T \ {x}] + Q[T \ {x}]
        BY <2>1
      <3>3. /\ T \ {x} \in SUBSET S /\ x \in S
            /\ F[T \ {x}] \in Int /\ G[T \ {x}] \in Int
            /\ P[T \ {x}] \in Int /\ Q[T \ {x}] \in Int
        BY <1>1, <1>2, <1>3, <1>4 DEF Sums
      <3>4. /\ f[x] \in Int /\ g[x] \in Int /\ p[x] \in Int /\ q[x] \in Int
            /\ f[x] + g[x] <= p[x] + q[x]
        BY <3>3
      <3>5. F[T] + G[T] <= P[T] + Q[T]
        BY <3>1, <3>2, <3>3, <3>4
      <3>6. QED
        BY <2>1, <3>5
    <2>4. QED
      BY <2>2, <2>3
  <1>6. F[S] + G[S] <= P[S] + Q[S]
    BY <1>5
  <1>7. QED
    BY <1>1, <1>2, <1>3, <1>4, <1>6, SumIsSums

\* A common factor.
THEOREM SumScaled ==
  ASSUME NEW S, IsFiniteSet(S), NEW c \in Int, NEW f, NEW h,
         \A y \in S : f[y] \in Int /\ h[y] = c * f[y]
  PROVE  SumFunctionOnSet(h, S) = c * SumFunctionOnSet(f, S)
  <1>0. \A y \in S : h[y] \in Int
    OBVIOUS
  <1>1. PICK F : Sums(F, f, S)
    BY SumsExist
  <1>2. PICK H : Sums(H, h, S)
    BY <1>0, SumsExist
  <1> DEFINE Good == {T \in SUBSET S : H[T] = c * F[T]}
  <1>3. ASSUME NEW W \in SUBSET S, W \notin Good PROVE FALSE
    <2>1. PICK T \in SUBSET S : T \notin Good /\ \A x \in T : T \ {x} \in Good
      <3> HIDE DEF Good
      <3>1. QED
        BY <1>3, LeastOutside
    <2>2. CASE T = {}
      BY <1>1, <1>2, <2>1, <2>2 DEF Sums
    <2>3. ASSUME NEW x \in T PROVE FALSE
      <3>1. F[T] = f[x] + F[T \ {x}] /\ H[T] = h[x] + H[T \ {x}]
        BY <1>1, <1>2 DEF Sums
      <3>2. H[T \ {x}] = c * F[T \ {x}]
        BY <2>1
      <3>3. F[T \ {x}] \in Int /\ f[x] \in Int
        BY <1>1 DEF Sums
      <3>4. h[x] = c * f[x]
        OBVIOUS
      <3>5. c * (f[x] + F[T \ {x}]) = c * f[x] + c * F[T \ {x}]
        BY <3>3
      <3>6. H[T] = c * F[T]
        BY <3>1, <3>2, <3>4, <3>5
      <3>7. QED
        BY <2>1, <3>6
    <2>4. QED
      BY <2>2, <2>3
  <1>4. H[S] = c * F[S]
    BY <1>3
  <1>5. QED
    BY <1>1, <1>2, <1>4, SumIsSums

\* A change of one term changes the sum by as much.
THEOREM SumChanged ==
  ASSUME NEW S, IsFiniteSet(S), NEW x \in S, NEW f, NEW h,
         \A y \in S : f[y] \in Int /\ h[y] \in Int,
         \A y \in S \ {x} : f[y] = h[y]
  PROVE  SumFunctionOnSet(h, S) = SumFunctionOnSet(f, S) - f[x] + h[x]
  <1>1. IsFiniteSet(S \ {x})
    BY FS_RemoveElement
  <1>2. /\ SumFunctionOnSet(f, S) = f[x] + SumFunctionOnSet(f, S \ {x})
        /\ SumFunctionOnSet(h, S) = h[x] + SumFunctionOnSet(h, S \ {x})
    BY SumWithout
  <1>3. SumFunctionOnSet(f, S \ {x}) = SumFunctionOnSet(h, S \ {x})
    BY <1>1, SumOfSame
  <1>4. SumFunctionOnSet(f, S \ {x}) \in Int
    BY <1>1, SumIsInt
  <1>5. QED
    BY <1>2, <1>3, <1>4

\* Terms that are zero can be left out.
THEOREM SumOfRest ==
  ASSUME NEW S, IsFiniteSet(S), NEW R \in SUBSET S, NEW f,
         \A y \in S : f[y] \in Int, \A y \in S \ R : f[y] = 0
  PROVE  SumFunctionOnSet(f, S) = SumFunctionOnSet(f, R)
  <1>1. PICK F : Sums(F, f, S)
    BY SumsExist
  <1> DEFINE Good == {T \in SUBSET S : F[T] = F[T \cap R]}
  <1>2. ASSUME NEW W \in SUBSET S, W \notin Good PROVE FALSE
    <2>1. PICK T \in SUBSET S : T \notin Good /\ \A x \in T : T \ {x} \in Good
      <3> HIDE DEF Good
      <3>1. QED
        BY <1>2, LeastOutside
    <2>2. PICK x \in T : x \notin R
      <3>1. CASE T \subseteq R
        <4>1. T \cap R = T
          BY <3>1
        <4>2. QED
          BY <2>1, <4>1
      <3>2. QED
        BY <3>1
    <2>3. F[T] = f[x] + F[T \ {x}] /\ f[x] = 0 /\ F[T \ {x}] \in Int
      BY <1>1, <2>2 DEF Sums
    <2>4. F[T \ {x}] = F[T \cap R]
      <3>1. (T \ {x}) \cap R = T \cap R
        BY <2>2
      <3>2. F[T \ {x}] = F[(T \ {x}) \cap R]
        BY <2>1
      <3>3. QED
        BY <3>1, <3>2
    <2>5. F[T] = F[T \cap R]
      BY <2>3, <2>4
    <2>6. QED
      BY <2>1, <2>5
  <1>3. F[S] = F[S \cap R] /\ S \cap R = R
    BY <1>2
  <1>4. Sums([T \in SUBSET R |-> F[T]], f, R)
    BY <1>1 DEF Sums
  <1>5. IsFiniteSet(R)
    BY FS_Subset
  <1>6. SumFunctionOnSet(f, R) = F[R]
    BY <1>4, <1>5, SumIsSums
  <1>7. QED
    BY <1>1, <1>3, <1>6, SumIsSums

\* The sum of zeros.
THEOREM SumOfZeros ==
  ASSUME NEW S, IsFiniteSet(S), NEW f, \A y \in S : f[y] = 0
  PROVE  SumFunctionOnSet(f, S) = 0
  <1>1. SumFunctionOnSet(f, S) = SumFunctionOnSet(f, {})
    BY SumOfRest
  <1>2. QED
    BY <1>1, SumOfNone
=============================================================================
