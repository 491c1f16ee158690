------------------------------ MODULE BUSCmath ------------------------------
(***************************************************************************)
(* The fixed-point arithmetic of BUSCmotor.sol: the value of an amount of  *)
(* collateral, the amount of collateral a sum of USD is worth, and the     *)
(* health factor.  Every product is Solidity 0.8 checked uint256           *)
(* arithmetic, so each function comes with a predicate (...OK) that says   *)
(* when the call returns instead of reverting.                             *)
(*                                                                         *)
(* The width of uint256 and the two decimal scales are parameters: a model *)
(* checker gets a narrow word and few decimals, a proof all values.        *)
(***************************************************************************)
EXTENDS Integers

CONSTANTS MaxUint,   \* type(uint256).max
          WAD,       \* SOLIDITY_PRECISION_FACTOR and MINIMUM_HEALTH_FACTOR
          FEED       \* PRICEFEED_PRECISION_FACTOR

ASSUME MathAssumption == /\ MaxUint \in Nat
                         /\ WAD \in Nat \ {0} /\ WAD <= MaxUint
                         /\ FEED \in Nat \ {0}

Uint == 0..MaxUint

LIQUIDATION_THRESHOLD_PERCENT == 50
LIQUIDATION_PRECISION == 100
\* Mutation: twice the bonus.
DoubleBonus == 20

LIQUIDATION_BONUS == 10
MINIMUM_HEALTH_FACTOR == WAD

(***************************************************************************)
(* Checked uint256 addition and multiplication.  MulOK divides, as the     *)
(* compiled check does, so that no intermediate result exceeds the word.   *)
(***************************************************************************)
AddOK(a, b) == a + b <= MaxUint
MulOK(a, b) == a # 0 => b <= MaxUint \div a

\* Unchecked arithmetic and the cast uint256(int256) wrap.
Wrap(i) == i % (MaxUint + 1)

-----------------------------------------------------------------------------
(* _getValueInUSD: scale is 10 ** (18 - decimals) of the token.            *)

Price(answer) == Wrap(answer) * FEED
PriceOK(answer) == MulOK(Wrap(answer), FEED)

ValueInUSD(answer, scale, amount) ==
    (Price(answer) * (amount * scale)) \div WAD

ValueInUSDOK(answer, scale, amount) ==
    /\ MulOK(amount, scale)
    /\ PriceOK(answer)
    /\ MulOK(Price(answer), amount * scale)

-----------------------------------------------------------------------------
(* getTokenAmountFromUSDwei: the token's decimals play no part in it.      *)

\* Mutation: rounded up.
TokenAmountRoundedUp(answer, usd) ==
    (usd * WAD + Price(answer) - 1) \div Price(answer)

TokenAmountFromUSDwei(answer, usd) == (usd * WAD) \div Price(answer)

TokenAmountFromUSDweiOK(answer, usd) ==
    /\ MulOK(usd, WAD)
    /\ PriceOK(answer)
    /\ Price(answer) # 0                  \* division by zero panics

-----------------------------------------------------------------------------
(* What liquidate takes for a debt: the amount above and a bonus of 10%.   *)

\* Mutation: rounded up.
BonusRoundedUp(amount) ==
    (amount * LIQUIDATION_BONUS + LIQUIDATION_PRECISION - 1) \div LIQUIDATION_PRECISION

LiquidationBonus(amount) ==
    (amount * LIQUIDATION_BONUS) \div LIQUIDATION_PRECISION

SeizedCollateral(answer, debt) ==
    LET amount == TokenAmountFromUSDwei(answer, debt)
    IN  amount + LiquidationBonus(amount)

SeizedCollateralOK(answer, debt) ==
    /\ TokenAmountFromUSDweiOK(answer, debt)
    /\ LET amount == TokenAmountFromUSDwei(answer, debt)
       IN  /\ MulOK(amount, LIQUIDATION_BONUS)
           /\ AddOK(amount, LiquidationBonus(amount))

-----------------------------------------------------------------------------
(* _calculateHealthFactor                                                  *)

\* Mutation: the threshold of 50% is forgotten.
UnadjustedThreshold(value) == value

AdjustedCollateralThreshold(value) ==
    (value * LIQUIDATION_THRESHOLD_PERCENT) \div LIQUIDATION_PRECISION

\* Mutation: no debt gives the lowest health factor, not the highest.
DebtFreeUnhealthy(debt, value) ==
    IF debt = 0 THEN 0
    ELSE (AdjustedCollateralThreshold(value) * WAD) \div debt

CalculateHealthFactor(debt, value) ==
    IF debt = 0 THEN MaxUint
    ELSE (AdjustedCollateralThreshold(value) * WAD) \div debt

CalculateHealthFactorOK(debt, value) ==
    debt # 0 => /\ MulOK(value, LIQUIDATION_THRESHOLD_PERCENT)
                /\ MulOK(AdjustedCollateralThreshold(value), WAD)

=============================================================================
