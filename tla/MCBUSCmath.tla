----------------------------- MODULE MCBUSCmath -----------------------------
(***************************************************************************)
(* The functions of BUSCmath over a grid of inputs: an answer of the feed, *)
(* an amount of collateral and a sum of USD.  A step moves to a neighbour, *)
(* so the reachable states are the points of the grid.                     *)
(***************************************************************************)
EXTENDS BUSCmath

CONSTANTS MaxAnswer, MaxAmount, MaxUSD

VARIABLES answer, amount, usd

Init == answer = -1 /\ amount = 0 /\ usd = 0

NextAnswer == answer < MaxAnswer /\ answer' = answer + 1 /\ UNCHANGED <<amount, usd>>
NextAmount == amount < MaxAmount /\ amount' = amount + 1 /\ UNCHANGED <<answer, usd>>
NextUSD == usd < MaxUSD /\ usd' = usd + 1 /\ UNCHANGED <<answer, amount>>

Next == NextAnswer \/ NextAmount \/ NextUSD

Spec == Init /\ [][Next]_<<answer, amount, usd>>

(***************************************************************************)
(* _calculateHealthFactor, with its two rounding divisions, reaches the    *)
(* minimum exactly when the collateral is worth at least twice the debt    *)
(* (here usd), and always for a debt of zero.                              *)
(***************************************************************************)
HealthMeansTwiceTheDebt ==
    CalculateHealthFactor(usd, amount) >= MINIMUM_HEALTH_FACTOR <=> amount >= 2 * usd

(***************************************************************************)
(* getTokenAmountFromUSDwei and _getValueInUSD are inverse up to rounding: *)
(* the amount is the largest one worth no more than the sum.               *)
(***************************************************************************)
AmountIsTheLargestCovered ==
    TokenAmountFromUSDweiOK(answer, usd) =>
        LET covered == TokenAmountFromUSDwei(answer, usd)
        IN  /\ ValueInUSD(answer, 1, covered) <= usd
            /\ Price(answer) * (covered + 1) > usd * WAD

(***************************************************************************)
(* Covering a debt in two liquidations never seizes more than covering it  *)
(* in one: liquidate rounds down the amount and the bonus.                 *)
(***************************************************************************)
SplittingSeizesNoMore ==
    \A part \in 0..usd :
        SeizedCollateralOK(answer, usd) =>
            SeizedCollateral(answer, part) + SeizedCollateral(answer, usd - part)
                <= SeizedCollateral(answer, usd)

=============================================================================
