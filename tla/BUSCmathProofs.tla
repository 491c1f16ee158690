---------------------------- MODULE BUSCmathProofs --------------------------
(***************************************************************************)
(* What the rounding divisions and the overflow checks of BUSCmath do, for *)
(* every word width, every scale and every argument; and facts about       *)
(* SumFunction, the sum of the values of a function with a finite domain,  *)
(* on which the theorems about books, ledgers and values rest.             *)
(* SumFunction removes one element of the domain after the other, so the   *)
(* proofs go by induction on the number of elements.                       *)
(***************************************************************************)
EXTENDS BUSCmath, Functions, FiniteSets, FiniteSetTheorems, WellFoundedInduction, TLAPS


\* The numbers that MathAssumption speaks of.
LEMMA MathFacts ==
    /\ MaxUint \in Nat
    /\ WAD \in Nat \ {0} /\ WAD <= MaxUint
    /\ FEED \in Nat \ {0}
  BY MathAssumption

-----------------------------------------------------------------------------
(* Natural division                                                        *)

\* The quotient is the largest number of times that d fits into x.
LEMMA DivBounds ==
    ASSUME NEW x \in Nat, NEW d \in Nat \ {0}
    PROVE  /\ x \div d \in Nat
           /\ d * (x \div d) <= x
           /\ x < d * ((x \div d) + 1)
  BY Z3

LEMMA TimesMonotone ==
    ASSUME NEW a \in Nat, NEW b \in Nat, NEW d \in Nat, a <= b
    PROVE  d * a <= d * b
  BY Z3

LEMMA TimesNat ==
    ASSUME NEW a \in Nat, NEW b \in Nat
    PROVE  a * b \in Nat
  BY Z3

\* A quotient is at least k exactly when k times the divisor fits.
LEMMA DivAtLeast ==
    ASSUME NEW x \in Nat, NEW d \in Nat \ {0}, NEW k \in Nat
    PROVE  k <= x \div d <=> d * k <= x
<1> DEFINE q == x \div d
<1>1. q \in Nat /\ d * q <= x /\ x < d * (q + 1)
  BY DivBounds
<1>2. d * q \in Nat /\ d * k \in Nat /\ d * (q + 1) \in Nat
  BY <1>1, TimesNat
<1>3. k <= q => d * k <= d * q
  BY <1>1, TimesMonotone
<1>4. q + 1 <= k => d * (q + 1) <= d * k
  BY <1>1, TimesMonotone
<1> HIDE DEF q
<1>5. k <= q <=> d * k <= x
  BY <1>1, <1>2, <1>3, <1>4
<1> QED
  BY <1>5 DEF q

LEMMA DivMonotone ==
    ASSUME NEW x \in Nat, NEW y \in Nat, NEW d \in Nat \ {0}, x <= y
    PROVE  x \div d <= y \div d
<1>1. x \div d \in Nat /\ d * (x \div d) <= x
  BY DivBounds
<1>2. d * (x \div d) \in Nat
  BY <1>1, TimesNat
<1>3. d * (x \div d) <= y
  BY <1>1, <1>2
<1> QED
  BY <1>1, <1>3, DivAtLeast

\* Dividing in parts never gains.
LEMMA DivSuperadditive ==
    ASSUME NEW x \in Nat, NEW y \in Nat, NEW d \in Nat \ {0}
    PROVE  (x \div d) + (y \div d) <= (x + y) \div d
<1> DEFINE p == x \div d
           q == y \div d
<1>1. p \in Nat /\ d * p <= x /\ q \in Nat /\ d * q <= y
  BY DivBounds
<1>2. d * p \in Nat /\ d * q \in Nat
  BY <1>1, TimesNat
<1>3. d * (p + q) = d * p + d * q
  BY <1>1, Z3
<1>4. d * (p + q) <= x + y
  BY <1>1, <1>2, <1>3
<1>5. p + q \in Nat /\ x + y \in Nat
  BY <1>1
<1> QED
  BY <1>4, <1>5, DivAtLeast

LEMMA DivAtMost ==
    ASSUME NEW x \in Nat, NEW d \in Nat \ {0}
    PROVE  x \div d <= x
<1>1. x \div d \in Nat /\ d * (x \div d) <= x
  BY DivBounds
<1>2. (x \div d) * 1 <= (x \div d) * d
  BY <1>1, TimesMonotone
<1> QED
  BY <1>1, <1>2, Z3

-----------------------------------------------------------------------------
(* The checks of the compiler                                              *)

(***************************************************************************)
(* The division in the check of a product is exact: it fails precisely     *)
(* when the product leaves the word.                                       *)
(***************************************************************************)
THEOREM MulExact ==
    ASSUME NEW a \in Nat, NEW b \in Nat
    PROVE  MulOK(a, b) <=> a * b <= MaxUint
<1>1. CASE a = 0
  <2>1. a * b = 0
    BY <1>1, Z3
  <2> QED
    BY <1>1, <2>1, MathFacts DEF MulOK
<1>2. CASE a # 0
  <2>1. a \in Nat \ {0}
    BY <1>2
  <2>2. b <= MaxUint \div a <=> a * b <= MaxUint
    BY <2>1, MathFacts, DivAtLeast
  <2> QED
    BY <1>2, <2>2 DEF MulOK
<1> QED
  BY <1>1, <1>2


-----------------------------------------------------------------------------
(* The health factor                                                       *)

LEMMA ThresholdFacts ==
    ASSUME NEW value \in Nat
    PROVE  /\ AdjustedCollateralThreshold(value) \in Nat
           /\ \A debt \in Nat :
                 debt <= AdjustedCollateralThreshold(value) <=> 2 * debt <= value
  BY DEF AdjustedCollateralThreshold, LIQUIDATION_THRESHOLD_PERCENT,
         LIQUIDATION_PRECISION

LEMMA HealthFactorNat ==
    ASSUME NEW debt \in Nat, NEW value \in Nat
    PROVE  CalculateHealthFactor(debt, value) \in Nat
<1> DEFINE threshold == AdjustedCollateralThreshold(value)
<1>1. threshold \in Nat
  BY ThresholdFacts
<1>2. threshold * WAD \in Nat
  BY <1>1, TimesNat, MathFacts
<1>3. CASE debt = 0
  BY <1>3, MathFacts DEF CalculateHealthFactor
<1>4. CASE debt # 0
  <2>1. (threshold * WAD) \div debt \in Nat
    BY <1>2, <1>4, DivBounds
  <2> QED
    BY <1>4, <2>1 DEF CalculateHealthFactor
<1> QED
  BY <1>3, <1>4

\* Health factors grow with the value of the collateral.
LEMMA HealthFactorMonotone ==
  ASSUME NEW debt \in Nat, NEW v \in Nat, NEW w \in Nat, v <= w
  PROVE  CalculateHealthFactor(debt, v) <= CalculateHealthFactor(debt, w)
<1> DEFINE a == AdjustedCollateralThreshold(v)
           b == AdjustedCollateralThreshold(w)
<1>1. a \in Nat /\ b \in Nat
  BY ThresholdFacts
<1>2. a <= b
  <2>1. a <= a
    BY <1>1
  <2>2. 2 * a <= v
    BY <1>1, <2>1, ThresholdFacts
  <2>3. 2 * a <= w
    <3> HIDE DEF a
    <3> QED BY <1>1, <2>2
  <2> QED BY <1>1, <2>3, ThresholdFacts
<1>3. CASE debt = 0
  BY <1>3, MathFacts DEF CalculateHealthFactor
<1>4. CASE debt # 0
  <2> HIDE DEF a, b
  <2>1. a * WAD \in Nat /\ b * WAD \in Nat
    BY <1>1, MathFacts, TimesNat
  <2>2. a * WAD <= b * WAD
    <3>1. WAD * a <= WAD * b
      BY <1>1, <1>2, MathFacts, TimesMonotone
    <3>2. WAD * a = a * WAD /\ WAD * b = b * WAD
      BY <1>1, MathFacts, Z3
    <3> QED BY <3>1, <3>2
  <2>3. (a * WAD) \div debt <= (b * WAD) \div debt
    BY <1>4, <2>1, <2>2, DivMonotone
  <2> QED BY <1>4, <2>3 DEF CalculateHealthFactor, a, b
<1> QED BY <1>3, <1>4

(***************************************************************************)
(* _calculateHealthFactor reaches the minimum exactly when the collateral  *)
(* is worth at least twice the debt: its two rounding divisions neither    *)
(* let a poorer position pass nor stop one that is rich enough.            *)
(***************************************************************************)
THEOREM HealthThreshold ==
    ASSUME NEW debt \in Nat, NEW value \in Nat
    PROVE  CalculateHealthFactor(debt, value) >= MINIMUM_HEALTH_FACTOR
              <=> value >= 2 * debt
<1> DEFINE threshold == AdjustedCollateralThreshold(value)
<1>1. threshold \in Nat /\ (debt <= threshold <=> 2 * debt <= value)
  BY ThresholdFacts
<1>2. CASE debt = 0
  BY <1>2, MathFacts DEF CalculateHealthFactor, MINIMUM_HEALTH_FACTOR
<1>3. CASE debt # 0
  <2>1. threshold * WAD \in Nat /\ debt * WAD \in Nat
    BY <1>1, TimesNat, MathFacts
  <2>2. WAD <= (threshold * WAD) \div debt <=> debt * WAD <= threshold * WAD
    BY <1>3, <2>1, DivAtLeast, MathFacts
  <2>3. debt * WAD <= threshold * WAD <=> debt <= threshold
    BY <1>1, MathFacts, Z3
  <2>4. CalculateHealthFactor(debt, value) = (threshold * WAD) \div debt
    BY <1>3 DEF CalculateHealthFactor
  <2>5. (threshold * WAD) \div debt \in Nat
    BY <1>3, <2>1, DivBounds
  <2> QED
    BY <1>1, <2>2, <2>3, <2>4, <2>5, MathFacts DEF MINIMUM_HEALTH_FACTOR
<1> QED
  BY <1>2, <1>3

-----------------------------------------------------------------------------
(* Values and seizures                                                     *)

LEMMA PriceNat ==
    ASSUME NEW answer \in Int
    PROVE  Price(answer) \in Nat
<1>1. Wrap(answer) \in Nat
  BY MathFacts DEF Wrap
<1> QED
  BY <1>1, MathFacts, TimesNat DEF Price

LEMMA ValueNat ==
    ASSUME NEW answer \in Int, NEW scale \in Nat, NEW amount \in Nat
    PROVE  ValueInUSD(answer, scale, amount) \in Nat
<1>1. amount * scale \in Nat
  BY TimesNat
<1>2. Price(answer) * (amount * scale) \in Nat
  BY <1>1, PriceNat, TimesNat
<1> QED
  BY <1>2, MathFacts, DivBounds DEF ValueInUSD

\* More collateral is worth no less.
LEMMA ValueMonotone ==
    ASSUME NEW answer \in Int, NEW scale \in Nat,
           NEW less \in Nat, NEW more \in Nat, less <= more
    PROVE  ValueInUSD(answer, scale, less) <= ValueInUSD(answer, scale, more)
<1>1. /\ less * scale \in Nat
      /\ more * scale \in Nat
      /\ less * scale <= more * scale
  BY TimesNat, TimesMonotone, Z3
<1>2. /\ Price(answer) * (less * scale) \in Nat
      /\ Price(answer) * (more * scale) \in Nat
      /\ Price(answer) * (less * scale) <= Price(answer) * (more * scale)
  BY <1>1, PriceNat, TimesNat, TimesMonotone
<1> QED
  BY <1>2, MathFacts, DivMonotone DEF ValueInUSD

\* A deposit split over several users is worth no more than in one piece.
LEMMA ValueSuperadditive ==
    ASSUME NEW answer \in Int, NEW scale \in Nat, NEW some \in Nat, NEW more \in Nat
    PROVE  ValueInUSD(answer, scale, some) + ValueInUSD(answer, scale, more)
              <= ValueInUSD(answer, scale, some + more)
<1> DEFINE p == Price(answer)
<1>1. p \in Nat /\ some * scale \in Nat /\ more * scale \in Nat
  BY PriceNat, TimesNat
<1>2. p * (some * scale) \in Nat /\ p * (more * scale) \in Nat
  BY <1>1, TimesNat
<1>3. p * ((some + more) * scale) = p * (some * scale) + p * (more * scale)
  <2> HIDE DEF p
  <2>1. (some + more) * scale = some * scale + more * scale
    BY Z3
  <2>2. ASSUME NEW a \in Nat, NEW b \in Nat PROVE p * (a + b) = p * a + p * b
    BY <1>1, Z3
  <2> QED BY <1>1, <2>1, <2>2
<1> HIDE DEF p
<1>4. ((p * (some * scale)) \div WAD) + ((p * (more * scale)) \div WAD)
         <= (p * (some * scale) + p * (more * scale)) \div WAD
  BY <1>2, DivSuperadditive, MathFacts
<1> QED BY <1>3, <1>4 DEF ValueInUSD, p

(***************************************************************************)
(* getTokenAmountFromUSDwei and _getValueInUSD are inverse up to rounding  *)
(* down: for a token of 18 decimals the amount is the largest one worth no *)
(* more than the sum of USD.                                               *)
(***************************************************************************)
THEOREM LargestAmountCovered ==
    ASSUME NEW answer \in Int, NEW usd \in Nat, TokenAmountFromUSDweiOK(answer, usd)
    PROVE  LET covered == TokenAmountFromUSDwei(answer, usd)
           IN  /\ ValueInUSD(answer, 1, covered) <= usd
               /\ usd * WAD < Price(answer) * (covered + 1)
<1> DEFINE price == Price(answer)
           covered == TokenAmountFromUSDwei(answer, usd)
<1>1. price \in Nat \ {0}
  BY PriceNat DEF TokenAmountFromUSDweiOK
<1>2. usd * WAD \in Nat
  BY TimesNat, MathFacts
<1>3. /\ covered \in Nat
      /\ price * covered <= usd * WAD
      /\ usd * WAD < price * (covered + 1)
  BY <1>1, <1>2, DivBounds DEF TokenAmountFromUSDwei
<1>4. price * covered \in Nat
  BY <1>1, <1>3, TimesNat
<1>5. (price * covered) \div WAD <= (usd * WAD) \div WAD
  BY <1>2, <1>3, <1>4, DivMonotone, MathFacts
<1>6. (usd * WAD) \div WAD <= usd
  <2>1. (usd * WAD) \div WAD \in Nat /\ WAD * ((usd * WAD) \div WAD) <= usd * WAD
    BY <1>2, DivBounds, MathFacts
  <2> QED
    BY <2>1, MathFacts, Z3
<1>7. (usd * WAD) \div WAD \in Nat /\ (price * covered) \div WAD \in Nat
  BY <1>2, <1>4, DivBounds, MathFacts
<1>8. covered * 1 = covered
  BY <1>3
<1>9. ValueInUSD(answer, 1, covered) = (price * covered) \div WAD
  BY <1>8 DEF ValueInUSD
<1> QED
  BY <1>3, <1>5, <1>6, <1>7, <1>9

LEMMA BonusFacts ==
    ASSUME NEW a \in Nat, NEW b \in Nat, NEW c \in Nat, a + b <= c
    PROVE  /\ LiquidationBonus(a) \in Nat
           /\ LiquidationBonus(c) \in Nat
           /\ LiquidationBonus(a) + LiquidationBonus(b) <= LiquidationBonus(c)
  BY DEF LiquidationBonus, LIQUIDATION_BONUS, LIQUIDATION_PRECISION

(***************************************************************************)
(* For a token of 18 decimals what liquidate seizes, bonus included, is    *)
(* worth no more than 110% of the debt it covers.                          *)
(***************************************************************************)
THEOREM SeizureWorth ==
    ASSUME NEW answer \in Int, NEW debt \in Nat, SeizedCollateralOK(answer, debt)
    PROVE  100 * ValueInUSD(answer, 1, SeizedCollateral(answer, debt)) <= 110 * debt
<1> DEFINE price == Price(answer)
           amount == TokenAmountFromUSDwei(answer, debt)
           seized == SeizedCollateral(answer, debt)
           value == ValueInUSD(answer, 1, seized)
<1>1. price \in Nat \ {0}
  BY PriceNat DEF SeizedCollateralOK, TokenAmountFromUSDweiOK
<1>2. debt * WAD \in Nat
  BY TimesNat, MathFacts
<1>3. amount \in Nat /\ price * amount <= debt * WAD
  BY <1>1, <1>2, DivBounds DEF TokenAmountFromUSDwei
<1>4. seized \in Nat /\ 100 * seized <= 110 * amount
  <2>1. seized = amount + LiquidationBonus(amount)
    BY DEF SeizedCollateral
  <2> HIDE DEF amount, seized
  <2> QED BY <1>3, <2>1 DEF LiquidationBonus, LIQUIDATION_BONUS, LIQUIDATION_PRECISION
<1>5. price * seized \in Nat
  BY <1>1, <1>4, TimesNat
<1>6. value \in Nat /\ WAD * value <= price * seized
  <2>1. value = (price * seized) \div WAD
    <3>1. seized * 1 = seized
      BY <1>4
    <3> QED BY <3>1 DEF ValueInUSD
  <2> HIDE DEF price, seized, value
  <2> QED BY <1>5, <2>1, DivBounds, MathFacts
<1> HIDE DEF price, amount, seized, value
<1>7. price * (100 * seized) <= price * (110 * amount)
  <2>1. 100 * seized \in Nat /\ 110 * amount \in Nat
    BY <1>3, <1>4
  <2> QED BY <1>1, <1>4, <2>1, TimesMonotone
<1>8. WAD * (100 * value) <= WAD * (110 * debt)
  BY <1>1, <1>3, <1>4, <1>6, <1>7, MathFacts, Z3
<1>9. 100 * value <= 110 * debt
  BY <1>6, <1>8, MathFacts, Z3
<1> QED BY <1>9 DEF value, seized

(***************************************************************************)
(* Covering a debt in two liquidations at one price never seizes more than *)
(* covering it in one.                                                     *)
(***************************************************************************)
THEOREM SplitSeizure ==
    ASSUME NEW answer \in Int, NEW a \in Nat, NEW b \in Nat, Price(answer) # 0
    PROVE  SeizedCollateral(answer, a) + SeizedCollateral(answer, b)
              <= SeizedCollateral(answer, a + b)
<1> DEFINE amount(usd) == TokenAmountFromUSDwei(answer, usd)
<1>1. Price(answer) \in Nat \ {0}
  BY PriceNat
<1>2. /\ a * WAD \in Nat /\ b * WAD \in Nat
      /\ (a + b) * WAD = a * WAD + b * WAD
  BY TimesNat, MathFacts, Z3
<1>3. amount(a) \in Nat /\ amount(b) \in Nat
  BY <1>1, <1>2, DivBounds DEF TokenAmountFromUSDwei
<1>4. (a + b) * WAD \in Nat
  BY <1>2
<1>5. amount(a + b) \in Nat
  BY <1>1, <1>4, DivBounds DEF TokenAmountFromUSDwei
<1>6. amount(a) + amount(b) <= amount(a + b)
  BY <1>1, <1>2, DivSuperadditive DEF TokenAmountFromUSDwei
<1> HIDE DEF amount
<1>7. /\ LiquidationBonus(amount(a)) \in Nat
      /\ LiquidationBonus(amount(a + b)) \in Nat
      /\ LiquidationBonus(amount(a)) + LiquidationBonus(amount(b))
            <= LiquidationBonus(amount(a + b))
  BY <1>3, <1>5, <1>6, BonusFacts
<1>8. LiquidationBonus(amount(b)) \in Nat
  BY <1>3 DEF LiquidationBonus, LIQUIDATION_BONUS, LIQUIDATION_PRECISION
<1>9. amount(a) + LiquidationBonus(amount(a)) + (amount(b) + LiquidationBonus(amount(b)))
         <= amount(a + b) + LiquidationBonus(amount(a + b))
  BY <1>3, <1>5, <1>6, <1>7, <1>8
<1> QED
  BY <1>9 DEF SeizedCollateral, amount

-----------------------------------------------------------------------------
(* Sums.  First induction, done inside set theory.                         *)

Less == {p \in Nat \X Nat : p[1] < p[2]}

\* A set of natural numbers closed under successor is all of Nat.
LEMMA SetInduction ==
  ASSUME NEW T, T \subseteq Nat, 0 \in T, \A n \in T : n + 1 \in T
  PROVE  T = Nat
<1>1. SUFFICES ASSUME Nat \ T # {} PROVE FALSE
  OBVIOUS
<1>2. PICK n \in Nat \ T : \A m \in Nat \ T : <<m, n>> \notin Less
  <2>1. Nat \ T \subseteq Nat
    OBVIOUS
  <2>2. IsWellFoundedOn(Less, Nat)
    BY NatLessThanWellFounded DEF OpToRel, Less
  <2> QED BY <1>1, <2>1, <2>2, WFMin
<1>3. n # 0 /\ n - 1 \in Nat
  OBVIOUS
<1>4. n - 1 \notin T
  BY <1>3
<1>5. <<n - 1, n>> \in Less
  BY <1>3 DEF Less
<1> QED BY <1>2, <1>3, <1>4, <1>5

-----------------------------------------------------------------------------

First(s) == CHOOSE x \in s : TRUE

\* The sum of f over s, when g holds the sums over smaller sets.
SumStep(f, g, s) == IF s = {} THEN 0 ELSE f[First(s)] + g[s \ {First(s)}]

\* g maps every subset of S to the sum of f over it.
SumsOver(f, S, g) == \A s \in SUBSET S : g[s] = SumStep(f, g, s)

LEMMA FirstRemoved ==
  ASSUME NEW S, IsFiniteSet(S), NEW s \in SUBSET S, s # {}
  PROVE  /\ First(s) \in s /\ First(s) \in S
         /\ s \ {First(s)} \in SUBSET S
         /\ Cardinality(s) \in Nat
         /\ Cardinality(s \ {First(s)}) \in Nat
         /\ Cardinality(s) = Cardinality(s \ {First(s)}) + 1
<1>1. First(s) \in s
  BY DEF First
<1>2. IsFiniteSet(s) /\ Cardinality(s) \in Nat
  BY FS_Subset, FS_CardinalityType
<1>3. Cardinality(s \ {First(s)}) = Cardinality(s) - 1
  BY <1>1, <1>2, FS_RemoveElement
<1>4. Cardinality(s \ {First(s)}) \in Nat
  BY <1>2, FS_RemoveElement, FS_CardinalityType
<1> QED BY <1>1, <1>2, <1>3, <1>4

LEMMA EmptyCardinality ==
  ASSUME NEW S, IsFiniteSet(S), NEW s \in SUBSET S
  PROVE  Cardinality(s) \in Nat /\ (Cardinality(s) = 0 <=> s = {})
BY FS_Subset, FS_CardinalityType, FS_EmptySet

\* A set P of subsets of a finite set S that holds a subset whenever it holds
\* that subset without its first element holds all of them.
LEMMA SubsetInduction ==
  ASSUME NEW S, IsFiniteSet(S), NEW P,
         \A s \in SUBSET S : (s # {} => s \ {First(s)} \in P) => s \in P
  PROVE  \A s \in SUBSET S : s \in P
<1> DEFINE T == {n \in Nat : \A s \in SUBSET S : Cardinality(s) = n => s \in P}
<1>1. 0 \in T
  <2>1. ASSUME NEW s \in SUBSET S, Cardinality(s) = 0 PROVE s \in P
    <3>1. s = {}
      BY <2>1, EmptyCardinality
    <3> QED BY <3>1
  <2> QED BY <2>1
<1>2. ASSUME NEW n \in T PROVE n + 1 \in T
  <2>1. ASSUME NEW s \in SUBSET S, Cardinality(s) = n + 1 PROVE s \in P
    <3>1. CASE s = {}
      BY <3>1
    <3>2. CASE s # {}
      <4>1. Cardinality(s \ {First(s)}) = n /\ s \ {First(s)} \in SUBSET S
        BY <2>1, <3>2, FirstRemoved
      <4> QED BY <4>1
    <3> QED BY <3>1, <3>2
  <2> QED BY <2>1
<1>3. T = Nat
  <2>1. T \subseteq Nat
    OBVIOUS
  <2> HIDE DEF T
  <2> QED BY <1>1, <1>2, <2>1, SetInduction
<1> QED BY <1>3, EmptyCardinality

\* A sum of integers is an integer, one of natural numbers a natural number.
LEMMA SumsType ==
  ASSUME NEW S, IsFiniteSet(S), NEW R, R \in {Int, Nat}, NEW f \in [S -> R],
         NEW g, SumsOver(f, S, g)
  PROVE  \A s \in SUBSET S : g[s] \in R
<1> DEFINE P == {s \in SUBSET S : g[s] \in R}
<1>1. ASSUME NEW s \in SUBSET S, s # {} => s \ {First(s)} \in P
      PROVE  s \in P
  <2>1. CASE s = {}
    <3>1. g[s] = 0
      BY <2>1 DEF SumsOver, SumStep
    <3> QED BY <3>1
  <2>2. CASE s # {}
    <3>1. f[First(s)] \in R /\ g[s \ {First(s)}] \in R
      BY <1>1, <2>2, FirstRemoved
    <3> QED BY <2>2, <3>1 DEF SumsOver, SumStep
  <2> QED BY <2>1, <2>2
<1>2. \A s \in SUBSET S : s \in P
  <2> HIDE DEF P
  <2> QED BY <1>1, SubsetInduction
<1> QED BY <1>2

\* The function of all these sums.
IsSums(f, S, g) == g = [s \in SUBSET S |-> SumStep(f, g, s)]

\* The sums of f over all subsets of a finite set exist.
LEMMA SumsExist ==
  ASSUME NEW S, IsFiniteSet(S), NEW f
  PROVE  \E g : IsSums(f, S, g)
<1> DEFINE Sub(n) == {s \in SUBSET S : Cardinality(s) <= n}
           Upto(n) == \E g : g = [s \in Sub(n) |-> SumStep(f, g, s)]
           T == {n \in Nat : Upto(n)}
<1>1. 0 \in T
  <2> DEFINE g == [s \in Sub(0) |-> 0]
  <2>1. \A s \in Sub(0) : s = {}
    BY EmptyCardinality
  <2>2. g = [s \in Sub(0) |-> SumStep(f, g, s)]
    BY <2>1 DEF SumStep
  <2> QED BY <2>2
<1>2. ASSUME NEW n \in T PROVE n + 1 \in T
  <2>1. PICK g : g = [s \in Sub(n) |-> SumStep(f, g, s)]
    OBVIOUS
  <2> DEFINE h == [s \in Sub(n + 1) |-> SumStep(f, g, s)]
  <2>2. ASSUME NEW s \in Sub(n + 1), s # {}
        PROVE  s \ {First(s)} \in Sub(n) /\ s \ {First(s)} \in Sub(n + 1)
    BY <2>2, FirstRemoved
  <2>3. \A s \in Sub(n) : s \in Sub(n + 1)
    BY EmptyCardinality
  <2>4. \A s \in Sub(n) : h[s] = g[s]
    BY <2>1, <2>3
  <2>5. ASSUME NEW s \in Sub(n + 1) PROVE SumStep(f, g, s) = SumStep(f, h, s)
    <3>1. CASE s = {}
      BY <3>1 DEF SumStep
    <3>2. CASE s # {}
      <4>1. h[s \ {First(s)}] = g[s \ {First(s)}]
        BY <2>2, <2>4, <3>2
      <4> QED BY <3>2, <4>1 DEF SumStep
    <3> QED BY <3>1, <3>2
  <2>6. h = [s \in Sub(n + 1) |-> SumStep(f, h, s)]
    BY <2>5
  <2>7. Upto(n + 1)
    <3> HIDE DEF h
    <3> QED BY <2>6
  <2>8. n + 1 \in Nat
    OBVIOUS
  <2> HIDE DEF Upto
  <2> QED BY <2>7, <2>8
<1>3. T = Nat
  <2>1. T \subseteq Nat
    OBVIOUS
  <2> HIDE DEF T
  <2> QED BY <1>1, <1>2, <2>1, SetInduction
<1>4. Cardinality(S) \in T
  BY <1>3, FS_CardinalityType
<1>5. Sub(Cardinality(S)) = SUBSET S
  BY FS_Subset
<1> QED BY <1>4, <1>5 DEF IsSums

\* SumFunction is the value of these sums for the whole domain.
LEMMA SumFunctionSums ==
  ASSUME NEW S, IsFiniteSet(S), NEW f, DOMAIN f = S
  PROVE  \E g : SumsOver(f, S, g) /\ SumFunction(f) = g[S]
<1> DEFINE Sums(g) == g = [s \in SUBSET S |->
                              IF s = {} THEN 0
                              ELSE LET x == CHOOSE x \in s : TRUE
                                   IN  f[x] + g[s \ {x}]]
           sums == CHOOSE g : Sums(g)
<1>1. SumFunction(f) = sums[S]
  BY DEF SumFunction, SumFunctionOnSet, FoldFunctionOnSet, MapThenFoldSet
<1>2. PICK g : IsSums(f, S, g)
  BY SumsExist
<1>3. Sums(g)
  BY <1>2 DEF IsSums, SumStep, First
<1>4. Sums(sums)
  <2> HIDE DEF Sums
  <2> QED BY <1>3
<1>5. SumsOver(f, S, sums)
  BY <1>4 DEF SumsOver, SumStep, First
<1> QED BY <1>1, <1>5

-----------------------------------------------------------------------------
(* What the specifications use.                                            *)

LEMMA SumFunctionNat ==
  ASSUME NEW S, IsFiniteSet(S), NEW f \in [S -> Nat]
  PROVE  SumFunction(f) \in Nat
<1>1. PICK g : SumsOver(f, S, g) /\ SumFunction(f) = g[S]
  BY SumFunctionSums
<1>2. \A s \in SUBSET S : g[s] \in Nat
  <2>1. Nat \in {Int, Nat}
    OBVIOUS
  <2> QED BY <1>1, <2>1, SumsType
<1> QED BY <1>1, <1>2

\* Changing one value changes the sum by as much.
LEMMA SumFunctionUpdate ==
  ASSUME NEW S, IsFiniteSet(S), NEW f \in [S -> Int], NEW x \in S, NEW v \in Int
  PROVE  SumFunction([f EXCEPT ![x] = v]) = SumFunction(f) - f[x] + v
<1> DEFINE f2 == [f EXCEPT ![x] = v]
<1>1. f2 \in [S -> Int]
  OBVIOUS
<1>2. PICK g : SumsOver(f, S, g) /\ SumFunction(f) = g[S]
  BY SumFunctionSums
<1>3. PICK g2 : SumsOver(f2, S, g2) /\ SumFunction(f2) = g2[S]
  BY <1>1, SumFunctionSums
<1>4. \A s \in SUBSET S : g[s] \in Int /\ g2[s] \in Int
  BY <1>1, <1>2, <1>3, SumsType
<1> DEFINE P == {s \in SUBSET S : g2[s] = g[s] + (IF x \in s THEN v - f[x] ELSE 0)}
<1>5. ASSUME NEW s \in SUBSET S, s # {} => s \ {First(s)} \in P
      PROVE  s \in P
  <2>1. CASE s = {}
    <3>1. g[s] = 0 /\ g2[s] = 0
      BY <2>1, <1>2, <1>3 DEF SumsOver, SumStep
    <3> QED BY <2>1, <3>1
  <2>2. CASE s # {}
    <3> DEFINE y == First(s)
               r == s \ {y}
    <3>1. y \in s /\ y \in S /\ r \in SUBSET S
      BY <2>2, FirstRemoved
    <3>2. g[s] = f[y] + g[r] /\ g2[s] = f2[y] + g2[r]
      BY <2>2, <1>2, <1>3 DEF SumsOver, SumStep
    <3>3. g2[r] = g[r] + (IF x \in r THEN v - f[x] ELSE 0)
      BY <1>5, <2>2
    <3>4. x \in r <=> (x \in s /\ x # y)
      OBVIOUS
    <3>5. f2[y] = (IF x = y THEN v ELSE f[y]) /\ f[y] \in Int /\ f[x] \in Int
      BY <3>1
    <3> HIDE DEF f2, r, y
    <3> QED BY <3>1, <3>2, <3>3, <3>4, <3>5, <1>4
  <2> QED BY <2>1, <2>2
<1>6. \A s \in SUBSET S : s \in P
  <2> HIDE DEF P
  <2> QED BY <1>5, SubsetInduction
<1>7. g2[S] = g[S] + (v - f[x])
  BY <1>6
<1>8. f[x] \in Int /\ g[S] \in Int
  BY <1>4
<1> QED BY <1>2, <1>3, <1>7, <1>8

\* A sum of natural numbers is at least each of them.
LEMMA SumFunctionMember ==
  ASSUME NEW S, IsFiniteSet(S), NEW f \in [S -> Nat], NEW x \in S
  PROVE  f[x] <= SumFunction(f)
<1>1. SumFunction([f EXCEPT ![x] = 0]) = SumFunction(f) - f[x] + 0
  <2>1. f \in [S -> Int] /\ 0 \in Int
    OBVIOUS
  <2> QED BY <2>1, SumFunctionUpdate
<1>2. [f EXCEPT ![x] = 0] \in [S -> Nat]
  OBVIOUS
<1>3. SumFunction([f EXCEPT ![x] = 0]) \in Nat /\ SumFunction(f) \in Nat
  BY <1>2, SumFunctionNat
<1> QED BY <1>1, <1>3

\* A sum of zeros is zero.
LEMMA SumFunctionZero ==
  ASSUME NEW S, IsFiniteSet(S)
  PROVE  SumFunction([x \in S |-> 0]) = 0
<1> DEFINE f == [x \in S |-> 0]
<1>1. PICK g : SumsOver(f, S, g) /\ SumFunction(f) = g[S]
  BY SumFunctionSums
<1> DEFINE P == {s \in SUBSET S : g[s] = 0}
<1>2. ASSUME NEW s \in SUBSET S, s # {} => s \ {First(s)} \in P
      PROVE  s \in P
  <2>1. CASE s = {}
    BY <2>1, <1>1 DEF SumsOver, SumStep
  <2>2. CASE s # {}
    <3>1. f[First(s)] = 0 /\ g[s \ {First(s)}] = 0
      BY <1>2, <2>2, FirstRemoved
    <3> QED BY <1>1, <2>2, <3>1 DEF SumsOver, SumStep
  <2> QED BY <2>1, <2>2
<1>3. \A s \in SUBSET S : s \in P
  <2> HIDE DEF P
  <2> QED BY <1>2, SubsetInduction
<1> QED BY <1>1, <1>3

\* Raising values does not lower the sum.
LEMMA SumFunctionMonotone ==
  ASSUME NEW S, IsFiniteSet(S), NEW f \in [S -> Nat], NEW h \in [S -> Nat],
         \A x \in S : f[x] <= h[x]
  PROVE  SumFunction(f) <= SumFunction(h)
<1>1. PICK g : SumsOver(f, S, g) /\ SumFunction(f) = g[S]
  BY SumFunctionSums
<1>2. PICK k : SumsOver(h, S, k) /\ SumFunction(h) = k[S]
  BY SumFunctionSums
<1>3. \A s \in SUBSET S : g[s] \in Nat /\ k[s] \in Nat
  <2>1. Nat \in {Int, Nat}
    OBVIOUS
  <2> QED BY <1>1, <1>2, <2>1, SumsType
<1> DEFINE P == {s \in SUBSET S : g[s] <= k[s]}
<1>4. ASSUME NEW s \in SUBSET S, s # {} => s \ {First(s)} \in P
      PROVE  s \in P
  <2>1. CASE s = {}
    <3>1. g[s] = 0 /\ k[s] = 0
      BY <2>1, <1>1, <1>2 DEF SumsOver, SumStep
    <3> QED BY <3>1
  <2>2. CASE s # {}
    <3> DEFINE y == First(s)
               r == s \ {y}
    <3>1. y \in S /\ r \in SUBSET S /\ g[r] <= k[r]
      BY <1>4, <2>2, FirstRemoved
    <3>2. g[s] = f[y] + g[r] /\ k[s] = h[y] + k[r]
      BY <2>2, <1>1, <1>2 DEF SumsOver, SumStep
    <3> HIDE DEF y, r
    <3>3. f[y] \in Nat /\ h[y] \in Nat /\ f[y] <= h[y]
      BY <3>1
    <3> QED BY <1>3, <3>1, <3>2, <3>3
  <2> QED BY <2>1, <2>2
<1>5. \A s \in SUBSET S : s \in P
  <2> HIDE DEF P
  <2> QED BY <1>4, SubsetInduction
<1> QED BY <1>1, <1>2, <1>5

\* The sum of sums.
LEMMA SumFunctionAdd ==
  ASSUME NEW S, IsFiniteSet(S), NEW f \in [S -> Int], NEW h \in [S -> Int]
  PROVE  SumFunction([x \in S |-> f[x] + h[x]]) = SumFunction(f) + SumFunction(h)
<1> DEFINE e == [x \in S |-> f[x] + h[x]]
<1>1. PICK g : SumsOver(f, S, g) /\ SumFunction(f) = g[S]
  BY SumFunctionSums
<1>2. PICK k : SumsOver(h, S, k) /\ SumFunction(h) = k[S]
  BY SumFunctionSums
<1>3. PICK m : SumsOver(e, S, m) /\ SumFunction(e) = m[S]
  BY SumFunctionSums
<1>4. \A s \in SUBSET S : g[s] \in Int /\ k[s] \in Int
  BY <1>1, <1>2, SumsType
<1> DEFINE P == {s \in SUBSET S : m[s] = g[s] + k[s]}
<1>5. ASSUME NEW s \in SUBSET S, s # {} => s \ {First(s)} \in P
      PROVE  s \in P
  <2>1. CASE s = {}
    <3>1. g[s] = 0 /\ k[s] = 0 /\ m[s] = 0
      BY <2>1, <1>1, <1>2, <1>3 DEF SumsOver, SumStep
    <3> QED BY <3>1
  <2>2. CASE s # {}
    <3> DEFINE y == First(s)
               r == s \ {y}
    <3>1. y \in S /\ r \in SUBSET S /\ m[r] = g[r] + k[r]
      BY <1>5, <2>2, FirstRemoved
    <3>2. /\ g[s] = f[y] + g[r]
          /\ k[s] = h[y] + k[r]
          /\ m[s] = e[y] + m[r]
      BY <2>2, <1>1, <1>2, <1>3 DEF SumsOver, SumStep
    <3>3. e[y] = f[y] + h[y] /\ f[y] \in Int /\ h[y] \in Int
      BY <3>1
    <3> HIDE DEF e, y, r
    <3> QED BY <1>4, <3>1, <3>2, <3>3
  <2> QED BY <2>1, <2>2
<1>6. \A s \in SUBSET S : s \in P
  <2> HIDE DEF P
  <2> QED BY <1>5, SubsetInduction
<1> QED BY <1>1, <1>2, <1>3, <1>6

\* The sums do not depend on the order in which elements are removed.
LEMMA SumsRemoveAny ==
  ASSUME NEW S, IsFiniteSet(S), NEW f \in [S -> Int], NEW g, SumsOver(f, S, g)
  PROVE  \A s \in SUBSET S : \A y \in s : g[s] = f[y] + g[s \ {y}]
<1>1. \A s \in SUBSET S : g[s] \in Int
  BY SumsType
<1> DEFINE Any(s) == \A y \in s : g[s] = f[y] + g[s \ {y}]
           T == {n \in Nat : \A s \in SUBSET S : Cardinality(s) = n => Any(s)}
<1>2. 0 \in T
  BY EmptyCardinality
<1>3. ASSUME NEW n \in T PROVE n + 1 \in T
  <2>1. ASSUME NEW s \in SUBSET S, Cardinality(s) = n + 1, NEW y \in s
        PROVE  g[s] = f[y] + g[s \ {y}]
    <3> DEFINE z == First(s)
    <3>1. z \in s /\ g[s] = f[z] + g[s \ {z}]
      BY <2>1, FirstRemoved DEF SumsOver, SumStep
    <3>2. CASE y = z
      BY <3>1, <3>2
    <3>3. CASE y # z
      <4> HIDE DEF z
      <4>1. IsFiniteSet(s) /\ IsFiniteSet(s \ {y}) /\ IsFiniteSet(s \ {z})
        BY FS_Subset
      <4>2. Cardinality(s \ {y}) = n /\ Cardinality(s \ {z}) = n
        <5>1. Cardinality(s \ {y}) = (n + 1) - 1 /\ Cardinality(s \ {z}) = (n + 1) - 1
          BY <2>1, <3>1, <4>1, FS_RemoveElement
        <5>2. n \in Nat
          OBVIOUS
        <5> HIDE DEF T
        <5> QED BY <5>1, <5>2
      <4>3. g[s \ {z}] = f[y] + g[(s \ {z}) \ {y}]
        BY <3>3, <4>2
      <4>4. g[s \ {y}] = f[z] + g[(s \ {y}) \ {z}]
        BY <3>1, <3>3, <4>2
      <4>5. (s \ {z}) \ {y} = (s \ {y}) \ {z}
        OBVIOUS
      <4>6. f[y] \in Int /\ f[z] \in Int /\ g[(s \ {y}) \ {z}] \in Int
        BY <1>1, <3>1
      <4>7. g[s] = f[z] + (f[y] + g[(s \ {y}) \ {z}])
        BY <3>1, <4>3, <4>5
      <4>8. f[z] + (f[y] + g[(s \ {y}) \ {z}]) = f[y] + (f[z] + g[(s \ {y}) \ {z}])
        <5> DEFINE a == f[z]
                   b == f[y]
                   c == g[(s \ {y}) \ {z}]
        <5>1. a \in Int /\ b \in Int /\ c \in Int
          BY <4>6
        <5> HIDE DEF a, b, c, T
        <5>2. a + (b + c) = b + (a + c)
          BY <5>1
        <5> QED BY <5>2 DEF a, b, c
      <4> HIDE DEF T
      <4> QED BY <4>4, <4>7, <4>8
    <3> QED BY <3>2, <3>3
  <2> QED BY <2>1
<1>4. T = Nat
  <2>1. T \subseteq Nat
    OBVIOUS
  <2> HIDE DEF T
  <2> QED BY <1>2, <1>3, <2>1, SetInduction
<1> QED BY <1>4, EmptyCardinality

\* One element more adds its value.
LEMMA SumFunctionExtend ==
  ASSUME NEW S, IsFiniteSet(S), NEW x, x \notin S, NEW f \in [S \cup {x} -> Int]
  PROVE  SumFunction(f) = SumFunction([y \in S |-> f[y]]) + f[x]
<1> DEFINE R == S \cup {x}
           h == [y \in S |-> f[y]]
<1>1. IsFiniteSet(R)
  BY FS_AddElement
<1>2. PICK g : SumsOver(f, R, g) /\ SumFunction(f) = g[R]
  BY <1>1, SumFunctionSums
<1>3. PICK k : SumsOver(h, S, k) /\ SumFunction(h) = k[S]
  BY SumFunctionSums
<1> DEFINE P == {s \in SUBSET S : g[s] = k[s]}
<1>4. ASSUME NEW s \in SUBSET S, s # {} => s \ {First(s)} \in P
      PROVE  s \in P
  <2>0. s \in SUBSET R
    OBVIOUS
  <2>1. CASE s = {}
    <3>1. g[s] = 0 /\ k[s] = 0
      BY <2>0, <2>1, <1>2, <1>3 DEF SumsOver, SumStep
    <3> QED BY <3>1
  <2>2. CASE s # {}
    <3>1. First(s) \in S /\ g[s \ {First(s)}] = k[s \ {First(s)}]
      BY <1>4, <2>2, FirstRemoved
    <3>2. g[s] = f[First(s)] + g[s \ {First(s)}] /\ k[s] = h[First(s)] + k[s \ {First(s)}]
      BY <2>0, <2>2, <1>2, <1>3 DEF SumsOver, SumStep
    <3> QED BY <3>1, <3>2
  <2> QED BY <2>1, <2>2
<1>5. S \in P
  <2> HIDE DEF P
  <2>1. \A s \in SUBSET S : s \in P
    BY <1>4, SubsetInduction
  <2> QED BY <2>1
<1>6. g[R] = f[x] + g[R \ {x}]
  <2>1. R \in SUBSET R /\ x \in R
    OBVIOUS
  <2> HIDE DEF R
  <2> QED BY <1>1, <1>2, <2>1, SumsRemoveAny DEF R
<1>7. R \ {x} = S
  OBVIOUS
<1>8. f[x] \in Int /\ g[S] \in Int
  <2>1. S \in SUBSET R /\ x \in R
    OBVIOUS
  <2> HIDE DEF R
  <2> QED BY <1>1, <1>2, <2>1, SumsType DEF R
<1>9. g[S] = k[S]
  BY <1>5
<1> HIDE DEF P, h, R
<1>10. SumFunction(f) = f[x] + SumFunction(h)
  BY <1>2, <1>3, <1>6, <1>7, <1>9
<1>11. SumFunction(h) \in Int
  BY <1>3, <1>8, <1>9
<1> QED BY <1>8, <1>10, <1>11 DEF h

=============================================================================
