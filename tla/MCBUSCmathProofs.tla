-------------------------- MODULE MCBUSCmathProofs --------------------------
(***************************************************************************)
(* The invariants of MCBUSCmath for every grid of inputs, every width of   *)
(* the word and every pair of scales: each holds of all integers there,    *)
(* by the theorems of BUSCmathProofs.                                      *)
(***************************************************************************)
EXTENDS MCBUSCmath, BUSCmathProofs

\* The points that the steps lead to.
OnGrid == answer \in Int /\ amount \in Nat /\ usd \in Nat

LEMMA GridInvariance == Spec => []OnGrid
<1>1. Init => OnGrid
  BY DEF Init, OnGrid
<1>2. OnGrid /\ [Next]_<<answer, amount, usd>> => OnGrid'
  BY DEF OnGrid, Next, NextAnswer, NextAmount, NextUSD
<1> QED BY <1>1, <1>2, PTL DEF Spec

-----------------------------------------------------------------------------

(***************************************************************************)
(* The two roundings of _calculateHealthFactor leave its threshold at      *)
(* exactly twice the debt.                                                 *)
(***************************************************************************)
THEOREM HealthIsTwiceTheDebt == Spec => []HealthMeansTwiceTheDebt
<1>1. OnGrid => HealthMeansTwiceTheDebt
  BY HealthThreshold DEF OnGrid, HealthMeansTwiceTheDebt
<1> QED BY <1>1, GridInvariance, PTL

(***************************************************************************)
(* getTokenAmountFromUSDwei returns the largest amount worth no more than  *)
(* the sum it is asked for.                                                *)
(***************************************************************************)
THEOREM AmountIsLargest == Spec => []AmountIsTheLargestCovered
<1>1. ASSUME OnGrid, TokenAmountFromUSDweiOK(answer, usd)
      PROVE  LET covered == TokenAmountFromUSDwei(answer, usd)
             IN  /\ ValueInUSD(answer, 1, covered) <= usd
                 /\ Price(answer) * (covered + 1) > usd * WAD
  <2> DEFINE covered == TokenAmountFromUSDwei(answer, usd)
             least == usd * WAD
             more == Price(answer) * (covered + 1)
  <2>1. ValueInUSD(answer, 1, covered) <= usd /\ least < more
    BY <1>1, LargestAmountCovered DEF OnGrid
  <2> HIDE DEF least, more
  <2>2. more > least
    BY <2>1
  <2> QED BY <2>1, <2>2 DEF least, more
<1>2. OnGrid => AmountIsTheLargestCovered
  BY <1>1 DEF AmountIsTheLargestCovered
<1> QED BY <1>2, GridInvariance, PTL

(***************************************************************************)
(* liquidate called twice for parts of a debt takes no more than once for  *)
(* all of it.                                                              *)
(***************************************************************************)
THEOREM SplittingNeverPays == Spec => []SplittingSeizesNoMore
<1>1. ASSUME OnGrid, NEW part \in 0..usd, SeizedCollateralOK(answer, usd)
      PROVE  SeizedCollateral(answer, part) + SeizedCollateral(answer, usd - part)
                <= SeizedCollateral(answer, usd)
  <2>1. /\ answer \in Int /\ part \in Nat /\ usd - part \in Nat
        /\ part + (usd - part) = usd
    BY <1>1 DEF OnGrid
  <2>2. Price(answer) # 0
    BY <1>1 DEF SeizedCollateralOK, TokenAmountFromUSDweiOK
  <2> DEFINE rest == usd - part
  <2> HIDE DEF rest
  <2>3. SeizedCollateral(answer, part) + SeizedCollateral(answer, rest)
           <= SeizedCollateral(answer, part + rest)
    BY <2>1, <2>2, SplitSeizure DEF rest
  <2> QED BY <2>1, <2>3 DEF rest
<1>2. OnGrid => SplittingSeizesNoMore
  BY <1>1 DEF SplittingSeizesNoMore
<1> QED BY <1>2, GridInvariance, PTL

=============================================================================
