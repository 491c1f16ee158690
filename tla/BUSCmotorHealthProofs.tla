------------------------ MODULE BUSCmotorHealthProofs -----------------------
(***************************************************************************)
(* Proofs about the health of positions, for any users, tokens, prices and *)
(* any width of the machine word: which steps can make a healthy user      *)
(* unhealthy, which can take collateral from a user, what healthy          *)
(* positions add up to, that the motor implements BUSCvault, when exit and *)
(* liquidation cannot fail, and that nobody gains by answers which are no  *)
(* prices.                                                                 *)
(***************************************************************************)
EXTENDS BUSCmotorProofs

\* The health factor of a position at the prices of the given feeds.
ValueAt(feeds, deposits) ==
    [t \in Listed |-> ValueInUSD(feeds[t].answer, Scale[t], deposits[t])]

HealthAt(feeds, deposits, debt) ==
    CalculateHealthFactor(debt, SumFunction(ValueAt(feeds, deposits)))

LEMMA HealthFactorIs ==
  ASSUME NEW deposits, NEW debt
  PROVE  HealthFactor(deposits, debt) = HealthAt(priceFeed, deposits, debt)
BY DEF HealthFactor, CollateralValue, ValueOf, HealthAt, ValueAt

LEMMA HealthOfIs ==
  ASSUME NEW u
  PROVE  /\ HealthOf(u) = HealthAt(priceFeed, s_userCollateralDeposits[u],
                                   s_BuscAmountMintedByUser[u])
         /\ HealthOf(u)' = HealthAt(priceFeed', s_userCollateralDeposits'[u],
                                    s_BuscAmountMintedByUser'[u])
BY DEF HealthOf, HealthFactor, CollateralValue, ValueOf, HealthAt, ValueAt

LEMMA FeedsFinite == IsFiniteSet(Listed)
BY MotorAssumption, FS_Subset

\* Values and health factors are natural numbers.
LEMMA HealthNat ==
  ASSUME WorldOK, NEW deposits, \A t \in Listed : deposits[t] \in Nat, NEW debt \in Nat
  PROVE  /\ ValueAt(priceFeed, deposits) \in [Listed -> Nat]
         /\ SumFunction(ValueAt(priceFeed, deposits)) \in Nat
         /\ HealthAt(priceFeed, deposits, debt) \in Nat
<1>1. ASSUME NEW t \in Listed
      PROVE  ValueInUSD(priceFeed[t].answer, Scale[t], deposits[t]) \in Nat
  <2>1. priceFeed[t].answer \in Int /\ Scale[t] \in Nat
    BY MotorAssumption DEF WorldOK, PriceFeed
  <2> QED BY <2>1, ValueNat
<1>2. ValueAt(priceFeed, deposits) \in [Listed -> Nat]
  BY <1>1 DEF ValueAt
<1>3. SumFunction(ValueAt(priceFeed, deposits)) \in Nat
  BY <1>2, FeedsFinite, SumFunctionNat
<1> QED BY <1>2, <1>3, HealthFactorNat DEF HealthAt

\* More collateral at the same debt is no less healthy.
LEMMA HealthRaised ==
  ASSUME NEW feeds \in [Listed -> PriceFeed], NEW debt \in Nat, NEW less, NEW more,
         \A t \in Listed : less[t] \in Nat /\ more[t] \in Nat /\ less[t] <= more[t]
  PROVE  /\ HealthAt(feeds, less, debt) \in Nat /\ HealthAt(feeds, more, debt) \in Nat
         /\ HealthAt(feeds, less, debt) <= HealthAt(feeds, more, debt)
<1> DEFINE v == ValueAt(feeds, less)
           w == ValueAt(feeds, more)
<1>1. ASSUME NEW t \in Listed
      PROVE  v[t] \in Nat /\ w[t] \in Nat /\ v[t] <= w[t]
  <2>1. feeds[t].answer \in Int /\ Scale[t] \in Nat
    BY MotorAssumption DEF PriceFeed
  <2> QED BY <2>1, ValueNat, ValueMonotone DEF ValueAt
<1>2. v \in [Listed -> Nat] /\ w \in [Listed -> Nat]
  BY <1>1 DEF ValueAt
<1> HIDE DEF v, w
<1>3. /\ SumFunction(v) \in Nat /\ SumFunction(w) \in Nat
      /\ SumFunction(v) <= SumFunction(w)
  BY <1>1, <1>2, FeedsFinite, SumFunctionNat, SumFunctionMonotone
<1> QED BY <1>3, HealthFactorNat, HealthFactorMonotone DEF HealthAt, v, w

LEMMA PositionNat ==
  ASSUME IInv, NEW u \in Users
  PROVE  /\ \A t \in Listed : s_userCollateralDeposits[u][t] \in Nat
         /\ s_BuscAmountMintedByUser[u] \in Nat
         /\ HealthOf(u) \in Nat
<1>1. \A t \in Listed : s_userCollateralDeposits[u][t] \in Nat
  BY NaturalState, MotorAssumption
<1>2. s_BuscAmountMintedByUser[u] \in Nat
  BY UintNat DEF IInv, DebtsOK
<1>3. HealthOf(u) \in Nat
  BY <1>1, <1>2, HealthNat, HealthOfIs DEF IInv
<1> QED BY <1>1, <1>2, <1>3

-----------------------------------------------------------------------------
(* Positions after a step.                                                 *)

\* Calls write the position of one user only.
LEMMA OthersKept ==
  ASSUME IInv, NEW u \in Users, NEW w \in Users \ {u}, NEW t \in Tokens, NEW amount
  PROVE  /\ Deposited(u, t, amount)[w] = s_userCollateralDeposits[w]
         /\ Pulled(u, t, amount)[w] = s_userCollateralDeposits[w]
         /\ Repaid(u, amount)[w] = s_BuscAmountMintedByUser[w]
         /\ [s_BuscAmountMintedByUser EXCEPT ![u] = @ + amount][w]
               = s_BuscAmountMintedByUser[w]
BY DEF IInv, BooksOK, DebtsOK, Deposited, Pulled, Repaid

LEMMA KeptHealthy ==
  ASSUME NEW u \in Users, Healthy(u), UNCHANGED priceFeed,
         s_userCollateralDeposits'[u] = s_userCollateralDeposits[u],
         s_BuscAmountMintedByUser'[u] = s_BuscAmountMintedByUser[u]
  PROVE  Healthy(u)'
BY HealthOfIs DEF Healthy

\* _revertOnBrokenHealthFactor returned for the position left behind.
LEMMA CheckedHealthy ==
  ASSUME NEW u \in Users, UNCHANGED priceFeed, NEW deposits, NEW debt,
         HealthChecked(deposits, debt),
         s_userCollateralDeposits'[u] = deposits,
         s_BuscAmountMintedByUser'[u] = debt
  PROVE  Healthy(u)'
BY HealthOfIs, HealthFactorIs DEF Healthy, HealthChecked

\* With more of some tokens and the same debt a user stays healthy.
LEMMA RaisedHealthy ==
  ASSUME IInv, IInv', NEW u \in Users, Healthy(u), UNCHANGED priceFeed,
         \A t \in Tokens : s_userCollateralDeposits'[u][t] >= s_userCollateralDeposits[u][t],
         s_BuscAmountMintedByUser'[u] = s_BuscAmountMintedByUser[u]
  PROVE  Healthy(u)'
<1> DEFINE deposits == s_userCollateralDeposits[u]
           after == s_userCollateralDeposits'[u]
           debt == s_BuscAmountMintedByUser[u]
<1>1. /\ debt \in Nat
      /\ \A t \in Listed : deposits[t] \in Nat /\ after[t] \in Nat /\ deposits[t] <= after[t]
  <2>1. \A t \in Tokens : after[t] \in Uint
    BY DEF IInv, BooksOK
  <2>2. \A t \in Tokens : after[t] \in Nat
    BY <2>1, UintNat
  <2> QED BY <2>2, PositionNat, MotorAssumption
<1>2. priceFeed \in [Listed -> PriceFeed]
  BY DEF IInv, WorldOK
<1> HIDE DEF deposits, after, debt
<1>3. /\ HealthAt(priceFeed, deposits, debt) \in Nat
      /\ HealthAt(priceFeed, after, debt) \in Nat
      /\ HealthAt(priceFeed, deposits, debt) <= HealthAt(priceFeed, after, debt)
  BY <1>1, <1>2, HealthRaised
<1>4. HealthAt(priceFeed, after, debt) >= MINIMUM_HEALTH_FACTOR
  BY <1>3, HealthOfIs, MathFacts DEF Healthy, MINIMUM_HEALTH_FACTOR, deposits, debt
<1> QED BY <1>4, HealthOfIs DEF Healthy, after, debt

-----------------------------------------------------------------------------
(* Only prices hurt.                                                       *)

StaysHealthy == \A w \in Users : Healthy(w) => Healthy(w)'

LEMMA PositionsKeptHealthy ==
  ASSUME UNCHANGED <<positions, priceFeed>>
  PROVE  StaysHealthy
BY KeptHealthy DEF StaysHealthy, positions

\* What a call leaves that ends with a check of its user's health: that
\* user is healthy and nobody else's position has moved.
OwnChecked(u) ==
    /\ UNCHANGED priceFeed
    /\ Healthy(u)'
    /\ \A w \in Users \ {u} :
          /\ s_userCollateralDeposits'[w] = s_userCollateralDeposits[w]
          /\ s_BuscAmountMintedByUser'[w] = s_BuscAmountMintedByUser[w]

LEMMA CheckLeaves ==
  ASSUME NEW u \in Users, UNCHANGED priceFeed, NEW deposits, NEW debt,
         HealthChecked(deposits, debt),
         s_userCollateralDeposits'[u] = deposits,
         s_BuscAmountMintedByUser'[u] = debt,
         \A w \in Users \ {u} :
            /\ s_userCollateralDeposits'[w] = s_userCollateralDeposits[w]
            /\ s_BuscAmountMintedByUser'[w] = s_BuscAmountMintedByUser[w]
  PROVE  OwnChecked(u)
BY CheckedHealthy DEF OwnChecked

\* Every call but depositCollateral and liquidate ends with that check.
CheckedCall(u) ==
    \/ \E b \in BuscAmounts : MintBUSC(u, b) \/ BurnBUSC(u, b)
    \/ \E t \in Tokens, a \in CollateralAmounts :
          \/ PullCollateral(u, t, a)
          \/ \E b \in BuscAmounts : \/ DepositCollateralAndMintBUSC(u, t, a, b)
                                    \/ PullCollateralAndBurnBUSC(u, t, a, b)

LEMMA CheckedCallLeaves ==
  ASSUME IInv, NEW u \in Users, CheckedCall(u)
  PROVE  OwnChecked(u)
<1>1. ASSUME NEW b \in BuscAmounts, MintBUSC(u, b)
      PROVE  OwnChecked(u)
  <2> DEFINE debt == s_BuscAmountMintedByUser[u] + b
  <2>1. /\ HealthChecked(s_userCollateralDeposits[u], debt)
        /\ UNCHANGED <<priceFeed, s_userCollateralDeposits>>
    BY <1>1 DEF MintBUSC, MintBUSCOK, world
  <2>2. /\ s_BuscAmountMintedByUser'[u] = debt
        /\ \A w \in Users \ {u} : s_BuscAmountMintedByUser'[w] = s_BuscAmountMintedByUser[w]
    BY <1>1 DEF MintBUSC, IInv, DebtsOK
  <2> HIDE DEF debt
  <2> QED BY <2>1, <2>2, CheckLeaves
<1>2. ASSUME NEW t \in Tokens, NEW a \in CollateralAmounts, NEW b \in BuscAmounts,
             DepositCollateralAndMintBUSC(u, t, a, b)
      PROVE  OwnChecked(u)
  <2> DEFINE deposits == Deposited(u, t, a)[u]
             debt == s_BuscAmountMintedByUser[u] + b
  <2>1. /\ HealthChecked(deposits, debt)
        /\ UNCHANGED priceFeed
        /\ s_userCollateralDeposits' = Deposited(u, t, a)
    BY <1>2 DEF DepositCollateralAndMintBUSC, MintBUSCOK, world
  <2>2. /\ s_BuscAmountMintedByUser'[u] = debt
        /\ \A w \in Users \ {u} : s_BuscAmountMintedByUser'[w] = s_BuscAmountMintedByUser[w]
    BY <1>2 DEF DepositCollateralAndMintBUSC, IInv, DebtsOK
  <2>3. \A w \in Users \ {u} : s_userCollateralDeposits'[w] = s_userCollateralDeposits[w]
    BY <2>1, OthersKept
  <2> HIDE DEF debt
  <2> QED BY <2>1, <2>2, <2>3, CheckLeaves
<1>3. ASSUME NEW t \in Tokens, NEW a \in CollateralAmounts, PullCollateral(u, t, a)
      PROVE  OwnChecked(u)
  <2>1. /\ HealthChecked(Pulled(u, t, a)[u], s_BuscAmountMintedByUser[u])
        /\ UNCHANGED <<priceFeed, s_BuscAmountMintedByUser>>
        /\ s_userCollateralDeposits' = Pulled(u, t, a)
    BY <1>3 DEF PullCollateral, PullCollateralOK, world
  <2>2. \A w \in Users \ {u} : s_userCollateralDeposits'[w] = s_userCollateralDeposits[w]
    BY <2>1, OthersKept
  <2> QED BY <2>1, <2>2, CheckLeaves
<1>4. ASSUME NEW b \in BuscAmounts, BurnBUSC(u, b)
      PROVE  OwnChecked(u)
  <2>1. /\ HealthChecked(s_userCollateralDeposits[u], Repaid(u, b)[u])
        /\ UNCHANGED <<priceFeed, s_userCollateralDeposits>>
        /\ s_BuscAmountMintedByUser' = Repaid(u, b)
    BY <1>4 DEF BurnBUSC, BurnBUSCOK, world
  <2>2. \A w \in Users \ {u} : s_BuscAmountMintedByUser'[w] = s_BuscAmountMintedByUser[w]
    BY <2>1 DEF Repaid, IInv, DebtsOK
  <2> QED BY <2>1, <2>2, CheckLeaves
<1>5. ASSUME NEW t \in Tokens, NEW a \in CollateralAmounts, NEW b \in BuscAmounts,
             PullCollateralAndBurnBUSC(u, t, a, b)
      PROVE  OwnChecked(u)
  <2>1. /\ HealthChecked(Pulled(u, t, a)[u], Repaid(u, b)[u])
        /\ UNCHANGED priceFeed
        /\ s_userCollateralDeposits' = Pulled(u, t, a)
        /\ s_BuscAmountMintedByUser' = Repaid(u, b)
    BY <1>5 DEF PullCollateralAndBurnBUSC, world
  <2>2. \A w \in Users \ {u} :
            /\ s_userCollateralDeposits'[w] = s_userCollateralDeposits[w]
            /\ s_BuscAmountMintedByUser'[w] = s_BuscAmountMintedByUser[w]
    BY <2>1, OthersKept
  <2> QED BY <2>1, <2>2, CheckLeaves
<1> QED BY <1>1, <1>2, <1>3, <1>4, <1>5 DEF CheckedCall

LEMMA MotorCallHealthy ==
  ASSUME IInv, IInv', NEW u \in Users, MotorCall(u)
  PROVE  StaysHealthy
<1>1. ASSUME NEW t \in Tokens, NEW a \in CollateralAmounts, DepositCollateral(u, t, a)
      PROVE  StaysHealthy
  <2>1. a \in Uint
    BY MotorAssumption
  <2>2. \A w \in Users, s \in Tokens :
            s_userCollateralDeposits'[w][s] >= s_userCollateralDeposits[w][s]
    BY <1>1, <2>1, DepositSound DEF DepositCollateral, IInv
  <2> QED BY <1>1, <2>2, RaisedHealthy DEF DepositCollateral, StaysHealthy, world
<1>2. CASE CheckedCall(u)
  <2>1. OwnChecked(u)
    BY <1>2, CheckedCallLeaves
  <2> QED BY <2>1, KeptHealthy DEF OwnChecked, StaysHealthy
<1>3. ASSUME NEW b \in BuscAmounts, NEW t \in Tokens, NEW v \in Users,
             Liquidate(u, t, v, b)
      PROVE  StaysHealthy
  <2> DEFINE deposits == Pulled(v, t, Seized(t, b))
             debts == Repaid(v, b)
  <2>1. /\ s_userCollateralDeposits' = deposits
        /\ s_BuscAmountMintedByUser' = debts
        /\ HealthChecked(deposits[u], debts[u])
        /\ UNCHANGED priceFeed
        /\ Liquidatable(v)
    BY <1>3 DEF Liquidate, LiquidateOK, SeizureOK, LiquidationHelped, world
  <2>2. ~Healthy(v)
    <3>1. HealthOf(v) \in Nat /\ HealthOf(v) < MINIMUM_HEALTH_FACTOR
      BY <2>1, PositionNat DEF Liquidatable, HealthOf
    <3> QED BY <3>1, MathFacts DEF Healthy, MINIMUM_HEALTH_FACTOR
  <2>3. Healthy(u)'
    <3> HIDE DEF deposits, debts
    <3> QED BY <2>1, CheckedHealthy
  <2>4. ASSUME NEW w \in Users \ {v}, Healthy(w) PROVE Healthy(w)'
    <3>1. deposits[w] = s_userCollateralDeposits[w] /\ debts[w] = s_BuscAmountMintedByUser[w]
      BY OthersKept
    <3> HIDE DEF deposits, debts
    <3> QED BY <2>1, <2>4, <3>1, KeptHealthy
  <2> QED BY <2>2, <2>3, <2>4 DEF StaysHealthy
<1> QED BY <1>1, <1>2, <1>3 DEF MotorCall, CheckedCall

LEMMA TokenCallKeeps ==
  ASSUME NEW u \in Users, TokenCall(u)
  PROVE  UNCHANGED <<positions, priceFeed>>
BY DEF TokenCall, BUSCTransfer, BUSCApprove, BUSCTransferFrom, BUSCBurnFrom,
       CollateralTransfer, CollateralApprove, world

LEMMA StepHealthy ==
  ASSUME IInv, [Next]_vars, UNCHANGED priceFeed
  PROVE  StaysHealthy
<1>1. IInv'
  BY StepSound DEF StepOK
<1>2. CASE \E u \in Users : MotorCall(u)
  BY <1>1, <1>2, MotorCallHealthy
<1>3. CASE \E u \in Users : TokenCall(u)
  BY <1>3, TokenCallKeeps, PositionsKeptHealthy
<1>4. CASE \E t \in Listed, answer \in Answers :
              \/ UpdateAnswer(t, answer)
              \/ \E time \in RoundTimes : UpdateRoundData(t, answer, time)
  BY <1>4, PositionsKeptHealthy DEF UpdateAnswer, UpdateRoundData
<1>5. CASE Tick
  BY <1>5, PositionsKeptHealthy DEF Tick
<1>6. CASE UNCHANGED vars
  BY <1>6, PositionsKeptHealthy DEF vars, world
<1> QED BY <1>2, <1>3, <1>4, <1>5, <1>6 DEF Next, WorldStep

(***************************************************************************)
(* Whatever is called, by whomever, a healthy user stays healthy until a   *)
(* feed reports a new round.                                               *)
(***************************************************************************)
THEOREM PricesOnlyHurt == Spec => OnlyPricesHurt
<1>1. IInv /\ [Next]_vars =>
         [UNCHANGED priceFeed => \A u \in Users : Healthy(u) => Healthy(u)']_vars
  BY StepHealthy DEF StaysHealthy
<1> QED BY <1>1, Invariance, PTL DEF Spec, OnlyPricesHurt

-----------------------------------------------------------------------------
(* Only unhealthy users lose.                                              *)

Lost(u, t) == s_userCollateralDeposits[u][t] - s_userCollateralDeposits'[u][t]
Gained(u, t) == collateral'[t].balances[u] - collateral[t].balances[u]

\* A liquidation took the deposit, for a debt that it cleared.
TakenForDebt(u, t) ==
    \E debt \in BuscAmounts :
        /\ t \in Listed /\ SeizedCollateralOK(priceFeed[t].answer, debt)
        /\ Lost(u, t) = Seized(t, debt)
        /\ s_BuscAmountMintedByUser[u] - s_BuscAmountMintedByUser'[u] = debt

LossesFair ==
    \A u \in Users, t \in Tokens :
        (Lost(u, t) > 0 /\ Gained(u, t) < Lost(u, t)) =>
            /\ TakenForDebt(u, t)
            /\ ~Healthy(u)
            /\ s_BuscAmountMintedByUser'[u] < s_BuscAmountMintedByUser[u]
            /\ HealthOf(u)' > HealthOf(u)

LEMMA NothingLost ==
  ASSUME IInv, IInv',
         \A u \in Users, t \in Tokens :
            s_userCollateralDeposits'[u][t] >= s_userCollateralDeposits[u][t]
  PROVE  LossesFair
<1>1. \A u \in Users, t \in Tokens : /\ s_userCollateralDeposits[u][t] \in Nat
                                     /\ s_userCollateralDeposits'[u][t] \in Nat
  <2>1. \A u \in Users, t \in Tokens : /\ s_userCollateralDeposits[u][t] \in Uint
                                       /\ s_userCollateralDeposits'[u][t] \in Uint
    BY DEF IInv, BooksOK
  <2> QED BY <2>1, UintNat
<1>2. \A u \in Users, t \in Tokens : ~(Lost(u, t) > 0)
  BY <1>1 DEF Lost
<1> QED BY <1>2 DEF LossesFair

LEMMA PositionsKeptFair ==
  ASSUME IInv, IInv', UNCHANGED positions
  PROVE  LossesFair
<1>1. \A u \in Users, t \in Tokens : s_userCollateralDeposits[u][t] \in Nat
  BY NaturalState
<1>2. \A u \in Users, t \in Tokens :
          s_userCollateralDeposits'[u][t] >= s_userCollateralDeposits[u][t]
  BY <1>1 DEF positions
<1> QED BY <1>2, NothingLost

\* What a pull takes from a deposit, and that no other deposit is touched.
LEMMA PulledIs ==
  ASSUME IInv, NEW from \in Users, NEW t \in Tokens, NEW amount \in Nat,
         PullOK(from, t, amount)
  PROVE  /\ Pulled(from, t, amount)[from][t] = s_userCollateralDeposits[from][t] - amount
         /\ \A w \in Users, s \in Tokens : (w # from \/ s # t) =>
               Pulled(from, t, amount)[w][s] = s_userCollateralDeposits[w][s]
         /\ amount \in Uint
<1>1. s_userCollateralDeposits \in [Users -> [Tokens -> Uint]]
  BY DEF IInv, BooksOK
<1>2. amount <= s_userCollateralDeposits[from][t]
  BY DEF PullOK
<1>3. amount \in Uint
  BY <1>1, <1>2, MathAssumption DEF Uint
<1> QED BY <1>1, <1>3 DEF Pulled

\* A user who pulls out of an own deposit gets all of it.
LEMMA OwnPullFair ==
  ASSUME IInv, NEW u \in Users, NEW t \in Tokens, NEW amount \in Nat,
         PullOK(u, t, amount),
         s_userCollateralDeposits' = Pulled(u, t, amount),
         collateral' = CollateralPaidOut(u, t, amount)
  PROVE  LossesFair
<1>1. /\ s_userCollateralDeposits[u][t] \in Nat
      /\ \A w \in Users, s \in Tokens : s_userCollateralDeposits[w][s] \in Nat
  BY NaturalState
<1>2. Lost(u, t) = amount
  BY <1>1, PulledIs DEF Lost
<1>3. \A w \in Users, s \in Tokens : (w # u \/ s # t) => Lost(w, s) = 0
  BY <1>1, PulledIs DEF Lost
<1>4. /\ SoundLedger(collateral[t]) /\ collateral \in [Tokens -> ERC20Ledger]
      /\ TransferOK(collateral[t], Motor, amount)
  BY DEF IInv, BooksOK, PullOK
<1>5. collateral[t].balances[u] \in Nat
  BY <1>4, BalanceBounded, MotorFacts
<1>6. collateral'[t] = Transfer(collateral[t], Motor, u, amount)
  BY <1>4 DEF CollateralPaidOut
<1>7. collateral'[t].balances[u] = collateral[t].balances[u]
                                      + (IF u = u THEN amount ELSE 0)
                                      - (IF u = Motor THEN amount ELSE 0)
  BY <1>4, <1>6, MotorFacts, PulledIs, TransferSound
<1>8. Gained(u, t) = amount
  BY <1>5, <1>7, MotorFacts DEF Gained
<1> QED BY <1>2, <1>3, <1>8 DEF LossesFair

\* A liquidation takes from the user it names, who was unhealthy, owes less
\* afterwards and is better off.
LEMMA LiquidateLeaves ==
  ASSUME IInv, NEW l \in Users, NEW t \in Tokens, NEW v \in Users,
         NEW debt \in BuscAmounts, Liquidate(l, t, v, debt)
  PROVE  /\ UNCHANGED priceFeed
         /\ ~Healthy(v)
         /\ s_BuscAmountMintedByUser'[v] < s_BuscAmountMintedByUser[v]
         /\ HealthOf(v)' > HealthOf(v)
         /\ \A w \in Users \ {v} :
               /\ s_userCollateralDeposits'[w] = s_userCollateralDeposits[w]
               /\ s_BuscAmountMintedByUser'[w] = s_BuscAmountMintedByUser[w]
         /\ \A s \in Tokens :
               s_userCollateralDeposits'[v][s] <= s_userCollateralDeposits[v][s]
<1> DEFINE amount == Seized(t, debt)
           deposits == Pulled(v, t, amount)
           debts == Repaid(v, debt)
<1>1. /\ s_userCollateralDeposits' = deposits
      /\ s_BuscAmountMintedByUser' = debts
      /\ UNCHANGED priceFeed
      /\ debt > 0 /\ t \in Listed
      /\ SeizedCollateralOK(priceFeed[t].answer, debt)
      /\ PullOK(v, t, amount)
      /\ Liquidatable(v)
      /\ HealthFactor(deposits[v], debts[v]) > HealthOf(v)
  BY DEF Liquidate, LiquidateOK, SeizureOK, LiquidationHelped, HealthOf, world
<1>2. debt \in Uint /\ debt \in Nat
  BY MotorAssumption, UintNat
<1>3. amount \in Nat
  <2>1. priceFeed[t].answer \in Int
    BY <1>1 DEF IInv, WorldOK, PriceFeed
  <2> QED BY <1>1, <1>2, <2>1, SeizedNat DEF Seized
<1>4. \A w \in Users \ {v} :
         deposits[w] = s_userCollateralDeposits[w] /\ debts[w] = s_BuscAmountMintedByUser[w]
  BY OthersKept
<1>5. ~Healthy(v)
  <2>1. HealthOf(v) \in Nat /\ HealthOf(v) < MINIMUM_HEALTH_FACTOR
    BY <1>1, PositionNat DEF Liquidatable, HealthOf
  <2> QED BY <2>1, MathFacts DEF Healthy, MINIMUM_HEALTH_FACTOR
<1>6. s_BuscAmountMintedByUser'[v] < s_BuscAmountMintedByUser[v]
  <2>1. s_BuscAmountMintedByUser[v] \in Nat
    BY PositionNat
  <2>2. debts[v] = s_BuscAmountMintedByUser[v] - debt
    BY DEF IInv, DebtsOK, Repaid
  <2> HIDE DEF debts
  <2> QED BY <1>1, <1>2, <2>1, <2>2
<1>7. HealthOf(v)' > HealthOf(v)
  <2> HIDE DEF deposits, debts
  <2>1. HealthOf(v)' = HealthFactor(deposits[v], debts[v])
    BY <1>1, HealthOfIs, HealthFactorIs
  <2> QED BY <1>1, <2>1
<1>8. \A s \in Tokens : deposits[v][s] <= s_userCollateralDeposits[v][s]
  <2> HIDE DEF amount
  <2>1. \A s \in Tokens : s_userCollateralDeposits[v][s] \in Nat
    BY NaturalState
  <2> QED BY <1>1, <1>3, <2>1, PulledIs
<1> HIDE DEF amount, deposits, debts
<1> QED BY <1>1, <1>4, <1>5, <1>6, <1>7, <1>8

LEMMA LiquidateFair ==
  ASSUME IInv, NEW l \in Users, NEW t \in Tokens, NEW v \in Users,
         NEW debt \in BuscAmounts, Liquidate(l, t, v, debt)
  PROVE  LossesFair
<1>1. \A w \in Users, s \in Tokens : s_userCollateralDeposits[w][s] \in Nat
  BY NaturalState
<1>2. \A w \in Users \ {v}, s \in Tokens : Lost(w, s) = 0
  BY <1>1, LiquidateLeaves DEF Lost
<1> DEFINE amount == Seized(t, debt)
           debts == s_BuscAmountMintedByUser
<1>3. /\ t \in Listed /\ SeizedCollateralOK(priceFeed[t].answer, debt)
      /\ PullOK(v, t, amount)
      /\ s_userCollateralDeposits' = Pulled(v, t, amount)
      /\ s_BuscAmountMintedByUser' = Repaid(v, debt)
  BY DEF Liquidate, LiquidateOK, SeizureOK
<1>4. debt \in Uint /\ debt \in Nat
  BY MotorAssumption, UintNat
<1>5. amount \in Nat
  <2>1. priceFeed[t].answer \in Int
    BY <1>3 DEF IInv, WorldOK, PriceFeed
  <2> QED BY <1>3, <1>4, <2>1, SeizedNat DEF Seized
<1>6. debts[v] - s_BuscAmountMintedByUser'[v] = debt
  <2>1. debts[v] \in Nat
    BY PositionNat
  <2>2. s_BuscAmountMintedByUser'[v] = debts[v] - debt
    BY <1>3 DEF IInv, DebtsOK, Repaid
  <2> QED BY <1>4, <2>1, <2>2
<1> HIDE DEF amount
<1>7. Lost(v, t) = amount /\ \A s \in Tokens \ {t} : Lost(v, s) = 0
  BY <1>1, <1>3, <1>5, PulledIs DEF Lost
<1>8. TakenForDebt(v, t)
  BY <1>3, <1>6, <1>7 DEF TakenForDebt, amount
<1> QED BY <1>2, <1>7, <1>8, LiquidateLeaves DEF LossesFair

LEMMA MotorCallFair ==
  ASSUME IInv, IInv', NEW u \in Users, MotorCall(u)
  PROVE  LossesFair
<1>1. ASSUME NEW t \in Tokens, NEW a \in CollateralAmounts, DepositOK(u, t, a),
             s_userCollateralDeposits' = Deposited(u, t, a)
      PROVE  LossesFair
  <2>1. a \in Uint
    BY MotorAssumption
  <2> QED BY <1>1, <2>1, DepositSound, NothingLost DEF IInv
<1>2. ASSUME UNCHANGED s_userCollateralDeposits
      PROVE  LossesFair
  <2>1. \A w \in Users, s \in Tokens : s_userCollateralDeposits[w][s] \in Nat
    BY NaturalState
  <2> QED BY <1>2, <2>1, NothingLost
<1>3. CollateralAmounts \subseteq Nat
  BY MotorAssumption, UintNat
<1>4. ASSUME NEW t \in Tokens, NEW a \in CollateralAmounts, DepositCollateral(u, t, a)
      PROVE  LossesFair
  BY <1>1, <1>4 DEF DepositCollateral
<1>5. ASSUME NEW t \in Tokens, NEW a \in CollateralAmounts, NEW b \in BuscAmounts,
             DepositCollateralAndMintBUSC(u, t, a, b)
      PROVE  LossesFair
  BY <1>1, <1>5 DEF DepositCollateralAndMintBUSC
<1>6. ASSUME NEW t \in Tokens, NEW a \in CollateralAmounts, PullCollateral(u, t, a)
      PROVE  LossesFair
  BY <1>3, <1>6, OwnPullFair DEF PullCollateral, PullCollateralOK
<1>7. ASSUME NEW t \in Tokens, NEW a \in CollateralAmounts, NEW b \in BuscAmounts,
             PullCollateralAndBurnBUSC(u, t, a, b)
      PROVE  LossesFair
  BY <1>3, <1>7, OwnPullFair DEF PullCollateralAndBurnBUSC
<1>8. ASSUME NEW b \in BuscAmounts, MintBUSC(u, b) \/ BurnBUSC(u, b)
      PROVE  LossesFair
  BY <1>2, <1>8 DEF MintBUSC, BurnBUSC
<1> QED BY <1>4, <1>5, <1>6, <1>7, <1>8, LiquidateFair DEF MotorCall

LEMMA StepFair ==
  ASSUME IInv, [Next]_vars
  PROVE  LossesFair
<1>1. IInv'
  BY StepSound DEF StepOK
<1>2. CASE \E u \in Users : MotorCall(u)
  BY <1>1, <1>2, MotorCallFair
<1>3. CASE \E u \in Users : TokenCall(u)
  BY <1>1, <1>3, TokenCallKeeps, PositionsKeptFair
<1>4. CASE \E t \in Listed, answer \in Answers :
              \/ UpdateAnswer(t, answer)
              \/ \E time \in RoundTimes : UpdateRoundData(t, answer, time)
  BY <1>1, <1>4, PositionsKeptFair DEF UpdateAnswer, UpdateRoundData
<1>5. CASE Tick
  BY <1>1, <1>5, PositionsKeptFair DEF Tick
<1>6. CASE UNCHANGED vars
  BY <1>1, <1>6, PositionsKeptFair DEF vars
<1> QED BY <1>2, <1>3, <1>4, <1>5, <1>6 DEF Next, WorldStep

(***************************************************************************)
(* Collateral that leaves a user's deposit goes to that user's own wallet, *)
(* unless liquidate takes it: then the user was unhealthy, owes less and   *)
(* has a better health factor than before.                                 *)
(***************************************************************************)
THEOREM UnhealthyLose == Spec => OnlyUnhealthyLose
<1>1. IInv /\ [Next]_vars =>
         [\A u \in Users, t \in Tokens :
             LET lost == s_userCollateralDeposits[u][t] - s_userCollateralDeposits'[u][t]
                 gained == collateral'[t].balances[u] - collateral[t].balances[u]
             IN  (lost > 0 /\ gained < lost) =>
                    /\ ~Healthy(u)
                    /\ s_BuscAmountMintedByUser'[u] < s_BuscAmountMintedByUser[u]
                    /\ HealthOf(u)' > HealthOf(u)]_vars
  BY StepFair DEF LossesFair, Lost, Gained
<1> QED BY <1>1, Invariance, PTL DEF Spec, OnlyUnhealthyLose

(***************************************************************************)
(* With tokens of 18 decimals, liquidate never takes more than 110% of the *)
(* debt that it clears; for fewer decimals it does (the run decimals).     *)
(***************************************************************************)
THEOREM SeizureWithinBonus ==
  ASSUME \A t \in Listed : Scale[t] = 1
  PROVE  Spec => SeizureBounded
<1>1. ASSUME IInv, [Next]_vars, NEW u \in Users, NEW t \in Listed,
             Lost(u, t) > 0, Gained(u, t) < Lost(u, t)
      PROVE  100 * ValueOf(t, Lost(u, t)) <=
                110 * (s_BuscAmountMintedByUser[u] - s_BuscAmountMintedByUser'[u])
  <2>1. t \in Tokens
    BY MotorAssumption
  <2>2. TakenForDebt(u, t)
    BY <1>1, <2>1, StepFair DEF LossesFair
  <2>3. PICK debt \in BuscAmounts :
           /\ SeizedCollateralOK(priceFeed[t].answer, debt)
           /\ Lost(u, t) = SeizedCollateral(priceFeed[t].answer, debt)
           /\ s_BuscAmountMintedByUser[u] - s_BuscAmountMintedByUser'[u] = debt
    BY <2>2 DEF TakenForDebt, Seized
  <2>4. debt \in Nat /\ priceFeed[t].answer \in Int
    BY <1>1, MotorAssumption, UintNat DEF IInv, WorldOK, PriceFeed
  <2> QED BY <2>3, <2>4, SeizureWorth DEF ValueOf
<1>2. IInv /\ [Next]_vars =>
         [\A u \in Users, t \in Listed :
             LET lost == s_userCollateralDeposits[u][t] - s_userCollateralDeposits'[u][t]
                 gained == collateral'[t].balances[u] - collateral[t].balances[u]
                 cleared == s_BuscAmountMintedByUser[u] - s_BuscAmountMintedByUser'[u]
             IN  (lost > 0 /\ gained < lost)
                    => 100 * ValueOf(t, lost) <= 110 * cleared]_vars
  BY <1>1 DEF Lost, Gained
<1> QED BY <1>2, Invariance, PTL DEF Spec, SeizureBounded

-----------------------------------------------------------------------------
(* Healthy positions add up.                                               *)

\* The deposits and the debts of some users, the others' left out.
DepositsIn(t, s) == [u \in Users |-> IF u \in s THEN s_userCollateralDeposits[u][t] ELSE 0]
DebtsIn(s) == [u \in Users |-> IF u \in s THEN s_BuscAmountMintedByUser[u] ELSE 0]

\* What all deposits of these users are worth, those of one token valued in
\* one piece.
WorthIn(s) == [t \in Listed |-> ValueOf(t, SumFunction(DepositsIn(t, s)))]

LEMMA WorthNat ==
  ASSUME IInv, NEW s \in SUBSET Users
  PROVE  /\ \A t \in Listed : SumFunction(DepositsIn(t, s)) \in Nat
         /\ WorthIn(s) \in [Listed -> Nat]
         /\ SumFunction(WorthIn(s)) \in Nat
         /\ SumFunction(DebtsIn(s)) \in Nat
<1>1. ASSUME NEW t \in Listed PROVE SumFunction(DepositsIn(t, s)) \in Nat
  <2>1. DepositsIn(t, s) \in [Users -> Nat]
    BY PositionNat DEF DepositsIn
  <2> QED BY <2>1, SumFunctionNat, MotorAssumption
<1>2. ASSUME NEW t \in Listed PROVE ValueOf(t, SumFunction(DepositsIn(t, s))) \in Nat
  <2>1. priceFeed[t].answer \in Int /\ Scale[t] \in Nat
    BY MotorAssumption DEF IInv, WorldOK, PriceFeed
  <2> QED BY <1>1, <2>1, ValueNat DEF ValueOf
<1>3. WorthIn(s) \in [Listed -> Nat]
  BY <1>2 DEF WorthIn
<1>4. DebtsIn(s) \in [Users -> Nat]
  BY PositionNat DEF DebtsIn
<1> QED BY <1>1, <1>3, <1>4, SumFunctionNat, FeedsFinite, MotorAssumption

\* One healthy user more keeps the worth above twice the debts.
LEMMA HealthyUserAdds ==
  ASSUME IInv, NEW r \in SUBSET Users, NEW w \in Users \ r, Healthy(w),
         SumFunction(WorthIn(r)) >= 2 * SumFunction(DebtsIn(r))
  PROVE  SumFunction(WorthIn(r \cup {w})) >= 2 * SumFunction(DebtsIn(r \cup {w}))
<1> DEFINE s == r \cup {w}
           debt == s_BuscAmountMintedByUser[w]
           deposits == s_userCollateralDeposits[w]
           value == ValueAt(priceFeed, deposits)
<1>1. /\ debt \in Nat /\ \A t \in Listed : deposits[t] \in Nat
      /\ IsFiniteSet(Users) /\ IsFiniteSet(Listed)
  BY PositionNat, FeedsFinite, MotorAssumption
<1>2. SumFunction(DebtsIn(s)) = SumFunction(DebtsIn(r)) + debt
  <2>1. DebtsIn(r) \in [Users -> Nat] /\ DebtsIn(r)[w] = 0
    BY PositionNat DEF DebtsIn
  <2>2. DebtsIn(s) = [DebtsIn(r) EXCEPT ![w] = debt]
    BY DEF DebtsIn
  <2>3. SumFunction([DebtsIn(r) EXCEPT ![w] = debt])
           = SumFunction(DebtsIn(r)) - DebtsIn(r)[w] + debt
    <3>1. DebtsIn(r) \in [Users -> Int] /\ debt \in Int
      BY <1>1, <2>1
    <3> HIDE DEF debt
    <3> QED BY <1>1, <3>1, SumFunctionUpdate
  <2> HIDE DEF debt, s
  <2> QED BY <1>1, <2>1, <2>2, <2>3, WorthNat
<1>3. ASSUME NEW t \in Listed
      PROVE  SumFunction(DepositsIn(t, s)) = SumFunction(DepositsIn(t, r)) + deposits[t]
  <2>1. DepositsIn(t, r) \in [Users -> Nat] /\ DepositsIn(t, r)[w] = 0
    BY PositionNat DEF DepositsIn
  <2>2. DepositsIn(t, s) = [DepositsIn(t, r) EXCEPT ![w] = deposits[t]]
    BY DEF DepositsIn
  <2>3. SumFunction([DepositsIn(t, r) EXCEPT ![w] = deposits[t]])
           = SumFunction(DepositsIn(t, r)) - DepositsIn(t, r)[w] + deposits[t]
    <3>1. DepositsIn(t, r) \in [Users -> Int] /\ deposits[t] \in Int
      BY <1>1, <2>1
    <3> HIDE DEF deposits
    <3> QED BY <1>1, <3>1, SumFunctionUpdate
  <2> HIDE DEF deposits, s
  <2> QED BY <1>1, <2>1, <2>2, <2>3, WorthNat
<1>4. value \in [Listed -> Nat] /\ SumFunction(value) \in Nat
  <2> HIDE DEF deposits
  <2> QED BY <1>1, HealthNat DEF IInv
<1>5. SumFunction(value) >= 2 * debt
  <2>1. CalculateHealthFactor(debt, SumFunction(value)) >= MINIMUM_HEALTH_FACTOR
    BY HealthOfIs DEF Healthy, HealthAt
  <2> HIDE DEF value, debt
  <2> QED BY <1>1, <1>4, <2>1, HealthThreshold
<1>6. ASSUME NEW t \in Listed
      PROVE  WorthIn(r)[t] + value[t] <= WorthIn(s)[t]
  <2>1. priceFeed[t].answer \in Int /\ Scale[t] \in Nat
    BY MotorAssumption DEF IInv, WorldOK, PriceFeed
  <2> HIDE DEF deposits, s
  <2> QED BY <1>1, <1>3, <2>1, WorthNat, ValueSuperadditive DEF WorthIn, ValueOf, ValueAt
<1> HIDE DEF value
<1> DEFINE sum == [t \in Listed |-> WorthIn(r)[t] + value[t]]
<1>7. /\ WorthIn(r) \in [Listed -> Nat] /\ SumFunction(WorthIn(r)) \in Nat
      /\ WorthIn(s) \in [Listed -> Nat] /\ SumFunction(WorthIn(s)) \in Nat
      /\ SumFunction(DebtsIn(r)) \in Nat
  BY WorthNat
<1>8. SumFunction(sum) = SumFunction(WorthIn(r)) + SumFunction(value)
  <2>1. WorthIn(r) \in [Listed -> Int] /\ value \in [Listed -> Int]
    BY <1>4, <1>7
  <2> QED BY <1>1, <2>1, SumFunctionAdd
<1>9. SumFunction(sum) <= SumFunction(WorthIn(s))
  <2>1. ASSUME NEW t \in Listed PROVE WorthIn(r)[t] + value[t] \in Nat
    <3>1. WorthIn(r)[t] \in Nat /\ value[t] \in Nat
      BY <1>4, <1>7
    <3> QED BY <3>1
  <2>2. sum \in [Listed -> Nat]
    BY <2>1
  <2>3. \A t \in Listed : sum[t] <= WorthIn(s)[t]
    BY <1>6
  <2> HIDE DEF sum, s
  <2> QED BY <1>1, <1>7, <2>2, <2>3, SumFunctionMonotone
<1> HIDE DEF sum, s, debt
<1>10. SumFunction(WorthIn(s)) >= 2 * SumFunction(DebtsIn(s))
  BY <1>1, <1>2, <1>4, <1>5, <1>7, <1>8, <1>9
<1> QED BY <1>10 DEF s

LEMMA HealthyUsersCovered ==
  ASSUME IInv, \A u \in Users : Healthy(u)
  PROVE  SumFunction(WorthIn(Users)) >= 2 * TotalDebt
<1> DEFINE P == {s \in SUBSET Users :
                    SumFunction(WorthIn(s)) >= 2 * SumFunction(DebtsIn(s))}
<1>1. ASSUME NEW s \in SUBSET Users, s # {} => s \ {First(s)} \in P
      PROVE  s \in P
  <2>1. CASE s = {}
    <3>1. DebtsIn(s) = [u \in Users |-> 0]
      BY <2>1 DEF DebtsIn
    <3>2. SumFunction(DebtsIn(s)) = 0
      BY <3>1, SumFunctionZero, MotorAssumption
    <3> QED BY <3>2, WorthNat
  <2>2. CASE s # {}
    <3> DEFINE w == First(s)
               r == s \ {w}
    <3>1. w \in s /\ r \in SUBSET Users /\ r \in P
      BY <1>1, <2>2, FirstRemoved, MotorAssumption
    <3>2. s = r \cup {w} /\ w \in Users \ r
      BY <3>1
    <3> HIDE DEF w, r
    <3> QED BY <3>1, <3>2, HealthyUserAdds
  <2> QED BY <2>1, <2>2
<1>2. Users \in P
  <2> HIDE DEF P
  <2>1. \A s \in SUBSET Users : s \in P
    BY <1>1, SubsetInduction, MotorAssumption
  <2> QED BY <2>1
<1>3. DebtsIn(Users) = s_BuscAmountMintedByUser
  BY DEF DebtsIn, IInv, DebtsOK
<1> QED BY <1>2, <1>3 DEF TotalDebt

\* What the motor holds is worth at least what the healthy users' deposits
\* are worth together.
LEMMA HealthyDebtsCovered ==
  ASSUME IInv, \A u \in Users : Healthy(u)
  PROVE  ProtocolValue >= 2 * TotalDebt /\ ProtocolValue \in Nat /\ TotalDebt \in Nat
<1> DEFINE held == [t \in Listed |-> ValueOf(t, collateral[t].balances[Motor])]
<1>1. ASSUME NEW t \in Listed
      PROVE  /\ ValueOf(t, collateral[t].balances[Motor]) \in Nat
             /\ WorthIn(Users)[t] <= ValueOf(t, collateral[t].balances[Motor])
  <2>1. priceFeed[t].answer \in Int /\ Scale[t] \in Nat /\ t \in Tokens
    BY MotorAssumption DEF IInv, WorldOK, PriceFeed
  <2>2. SoundLedger(collateral[t]) /\ SumFunction(DepositsOf(s_userCollateralDeposits, t))
           <= collateral[t].balances[Motor]
    BY <2>1 DEF IInv, BooksOK
  <2>3. collateral[t].balances[Motor] \in Nat
    BY <2>2, BalanceBounded, MotorFacts
  <2>4. DepositsIn(t, Users) = DepositsOf(s_userCollateralDeposits, t)
    BY DEF DepositsIn, DepositsOf
  <2>5. SumFunction(DepositsIn(t, Users)) \in Nat
    BY WorthNat
  <2> QED BY <2>1, <2>2, <2>3, <2>4, <2>5, ValueNat, ValueMonotone DEF WorthIn, ValueOf
<1>2. held \in [Listed -> Nat] /\ WorthIn(Users) \in [Listed -> Nat]
  BY <1>1, WorthNat
<1>3. SumFunction(WorthIn(Users)) <= SumFunction(held)
  <2>1. \A t \in Listed : WorthIn(Users)[t] <= held[t]
    BY <1>1
  <2> HIDE DEF held
  <2> QED BY <1>2, <2>1, FeedsFinite, SumFunctionMonotone
<1>4. SumFunction(held) \in Nat /\ SumFunction(WorthIn(Users)) \in Nat
  <2> HIDE DEF held
  <2> QED BY <1>2, FeedsFinite, SumFunctionNat
<1>5. SumFunction(WorthIn(Users)) >= 2 * TotalDebt
  BY HealthyUsersCovered
<1>6. TotalDebt \in Nat
  BY UnbackedInt DEF IInv, TotalDebt
<1>7. ProtocolValue = SumFunction(held)
  BY DEF ProtocolValue
<1> HIDE DEF held
<1> QED BY <1>3, <1>4, <1>5, <1>6, <1>7

(***************************************************************************)
(* While every position is healthy the motor holds twice the worth of the  *)
(* supply, for any number of users and tokens: neither the rounding of     *)
(* each position's value nor that of its health factor eats into it.       *)
(***************************************************************************)
THEOREM HealthyMeansBacked == Spec => []OvercollateralizedWhenHealthy
<1>1. IInv /\ DebtsBacked(s_BuscAmountMintedByUser, busc) => OvercollateralizedWhenHealthy
  <2> SUFFICES ASSUME IInv, DebtsBacked(s_BuscAmountMintedByUser, busc),
                      \A u \in Users : Healthy(u)
               PROVE  ProtocolValue >= 2 * busc.totalSupply
    BY DEF OvercollateralizedWhenHealthy
  <2>1. busc.totalSupply <= TotalDebt /\ busc.totalSupply \in Nat
    BY UnbackedInt DEF IInv, DebtsBacked, TotalDebt
  <2> QED BY <2>1, HealthyDebtsCovered
<1> QED BY <1>1, Invariance, BackedInvariance, PTL

-----------------------------------------------------------------------------
(* The motor implements BUSCvault.  The state maps by dropping allowances, *)
(* supplies, what the motor holds, the clock and the times of the rounds.  *)
(* The argument has three parts: a position is covered exactly when its    *)
(* health factor, computed with two roundings, reaches the minimum         *)
(* (HealthThreshold); what a call books of a position it moves from or to  *)
(* the wallet of its caller (CoinsFlow, CashFlow); and each call falls     *)
(* under one of the vault's steps: depositCollateral adds, liquidate       *)
(* seizes, and all the others end with a check of their caller.            *)

\* The vault's sums are those of the motor.
LEMMA VaultSum ==
  ASSUME NEW f
  PROVE  Vault!SumFunction(f) = SumFunction(f)
BY DEF Vault!SumFunction, Vault!SumFunctionOnSet, Vault!FoldFunctionOnSet,
       Vault!MapThenFoldSet, SumFunction, SumFunctionOnSet,
       FoldFunctionOnSet, MapThenFoldSet

LEMMA WorthIs ==
  ASSUME NEW u \in Users
  PROVE  /\ Vault!Worth(u)
               = SumFunction(ValueAt(priceFeed, s_userCollateralDeposits[u]))
         /\ Vault!Worth(u)'
               = SumFunction(ValueAt(priceFeed', s_userCollateralDeposits'[u]))
BY VaultSum DEF Vault!Worth, Vault!ValueInUSD, Vault!Price, Vault!Wrap,
                ValueAt, ValueInUSD, Price, Wrap

\* HealthNat for the feeds of any state.
LEMMA ValuesNat ==
  ASSUME NEW feeds \in [Listed -> PriceFeed],
         NEW deposits, \A t \in Listed : deposits[t] \in Nat
  PROVE  SumFunction(ValueAt(feeds, deposits)) \in Nat
<1>1. ASSUME NEW t \in Listed
      PROVE  ValueInUSD(feeds[t].answer, Scale[t], deposits[t]) \in Nat
  <2>1. feeds[t].answer \in Int /\ Scale[t] \in Nat
    BY MotorAssumption DEF PriceFeed
  <2> QED BY <2>1, ValueNat
<1>2. ValueAt(feeds, deposits) \in [Listed -> Nat]
  BY <1>1 DEF ValueAt
<1> QED BY <1>2, FeedsFinite, SumFunctionNat

\* Covered is healthy, whatever was rounded.
LEMMA CoveredIsHealthy ==
  ASSUME IInv, IInv', NEW u \in Users
  PROVE  /\ Vault!Covered(u) <=> Healthy(u)
         /\ Vault!Covered(u)' <=> Healthy(u)'
<1>1. ASSUME NEW feeds \in [Listed -> PriceFeed], NEW deposits \in [Tokens -> Uint],
             NEW debt \in Uint
      PROVE  HealthAt(feeds, deposits, debt) >= MINIMUM_HEALTH_FACTOR
                <=> SumFunction(ValueAt(feeds, deposits)) >= 2 * debt
  <2>1. debt \in Nat /\ \A t \in Listed : deposits[t] \in Nat
    BY UintNat, MotorAssumption
  <2> QED BY <2>1, ValuesNat, HealthThreshold DEF HealthAt
<1>2. /\ priceFeed \in [Listed -> PriceFeed] /\ priceFeed' \in [Listed -> PriceFeed]
      /\ s_userCollateralDeposits[u] \in [Tokens -> Uint]
      /\ s_userCollateralDeposits'[u] \in [Tokens -> Uint]
      /\ s_BuscAmountMintedByUser[u] \in Uint /\ s_BuscAmountMintedByUser'[u] \in Uint
  BY DEF IInv, BooksOK, DebtsOK, WorldOK
<1>3. Vault!Covered(u) <=> Healthy(u)
  BY <1>1, <1>2, WorthIs, HealthOfIs DEF Vault!Covered, Healthy
<1>4. Vault!Covered(u)' <=> Healthy(u)'
  BY <1>1, <1>2, WorthIs, HealthOfIs DEF Vault!Covered, Healthy
<1> QED BY <1>3, <1>4

-----------------------------------------------------------------------------
(* What goes from hand to hand in a call of u that changes the position of *)
(* v: the tokens that leave or enter v's deposit enter or leave u's        *)
(* wallet, as much BUSC as v owes more or less u has more or less, and     *)
(* nobody else has more or less of anything.                               *)

CoinsFlow(u, v) ==
    /\ \A t \in Tokens : Gained(u, t) = Lost(v, t)
    /\ \A w \in Users \ {u}, t \in Tokens :
          collateral'[t].balances[w] = collateral[t].balances[w]

CashFlow(u, v) ==
    /\ busc'.balances[u] - busc.balances[u]
          = s_BuscAmountMintedByUser'[v] - s_BuscAmountMintedByUser[v]
    /\ \A w \in Users \ {u} : busc'.balances[w] = busc.balances[w]

LEMMA WalletsNat ==
  ASSUME IInv, NEW u \in Users
  PROVE  /\ \A t \in Tokens : /\ collateral[t].balances[u] \in Nat
                              /\ s_userCollateralDeposits[u][t] \in Nat
         /\ busc.balances[u] \in Nat /\ s_BuscAmountMintedByUser[u] \in Nat
<1>1. \A t \in Tokens : collateral[t].balances[u] \in Nat
  BY BalanceBounded, MotorFacts DEF IInv, BooksOK
<1> QED BY <1>1, NaturalState, PositionNat, BUSCFacts, MotorFacts DEF IInv, DebtsOK

\* One deposit and one wallet change, and by amounts that agree.
LEMMA CoinsMoved ==
  ASSUME IInv, NEW u \in Users, NEW v \in Users, NEW t \in Tokens, NEW gain \in Int,
         \A w \in Users, s \in Tokens : collateral'[s].balances[w] =
            collateral[s].balances[w] + (IF w = u /\ s = t THEN gain ELSE 0),
         \A s \in Tokens : s_userCollateralDeposits'[v][s] =
            s_userCollateralDeposits[v][s] - (IF s = t THEN gain ELSE 0)
  PROVE  CoinsFlow(u, v)
BY WalletsNat DEF CoinsFlow, Gained, Lost

LEMMA DepositFlows ==
  ASSUME IInv, NEW u \in Users, NEW t \in Tokens, NEW amount \in Uint,
         DepositOK(u, t, amount),
         s_userCollateralDeposits' = Deposited(u, t, amount),
         collateral' = CollateralTakenIn(u, t, amount)
  PROVE  CoinsFlow(u, u)
<1> DEFINE token == TransferFrom(collateral[t], Motor, u, Motor, amount)
           gain == -amount
<1>1. SoundLedger(collateral[t]) /\ TransferFromOK(collateral[t], Motor, u, amount)
  BY DEF IInv, BooksOK, DepositOK
<1>2. amount \in Nat /\ gain \in Int
  BY UintNat
<1>3. ASSUME NEW w \in Users
      PROVE  token.balances[w] = collateral[t].balances[w] + (IF w = u THEN gain ELSE 0)
  <2>1. token.balances[w] = collateral[t].balances[w]
           + (IF w = Motor THEN amount ELSE 0) - (IF w = u THEN amount ELSE 0)
    BY <1>1, MotorFacts, TransferFromSound
  <2> HIDE DEF token
  <2> QED BY <1>2, <2>1, WalletsNat, MotorFacts
<1>4. \A s \in Tokens : collateral'[s] = (IF s = t THEN token ELSE collateral[s])
  BY DEF IInv, BooksOK, CollateralTakenIn
<1>5. \A s \in Tokens : s_userCollateralDeposits'[u][s] =
         s_userCollateralDeposits[u][s] + (IF s = t THEN amount ELSE 0)
  BY WalletsNat DEF IInv, BooksOK, Deposited
<1> HIDE DEF token
<1>6. \A w \in Users, s \in Tokens : collateral'[s].balances[w] =
         collateral[s].balances[w] + (IF w = u /\ s = t THEN gain ELSE 0)
  BY <1>3, <1>4, WalletsNat
<1>7. \A s \in Tokens : s_userCollateralDeposits'[u][s] =
         s_userCollateralDeposits[u][s] - (IF s = t THEN gain ELSE 0)
  BY <1>2, <1>5, WalletsNat
<1> HIDE DEF gain
<1> QED BY <1>2, <1>6, <1>7, CoinsMoved

LEMMA PullFlows ==
  ASSUME IInv, NEW from \in Users, NEW to \in Users, NEW t \in Tokens,
         NEW amount \in Nat, PullOK(from, t, amount),
         s_userCollateralDeposits' = Pulled(from, t, amount),
         collateral' = CollateralPaidOut(to, t, amount)
  PROVE  CoinsFlow(to, from)
<1> DEFINE token == Transfer(collateral[t], Motor, to, amount)
<1>1. SoundLedger(collateral[t]) /\ TransferOK(collateral[t], Motor, amount)
  BY DEF IInv, BooksOK, PullOK
<1>2. amount \in Uint /\ amount \in Int
  BY PulledIs
<1>3. ASSUME NEW w \in Users
      PROVE  token.balances[w] = collateral[t].balances[w] + (IF w = to THEN amount ELSE 0)
  <2>1. token.balances[w] = collateral[t].balances[w]
           + (IF w = to THEN amount ELSE 0) - (IF w = Motor THEN amount ELSE 0)
    BY <1>1, <1>2, MotorFacts, TransferSound
  <2> HIDE DEF token
  <2> QED BY <1>2, <2>1, WalletsNat, MotorFacts
<1>4. \A s \in Tokens : collateral'[s] = (IF s = t THEN token ELSE collateral[s])
  BY DEF IInv, BooksOK, CollateralPaidOut
<1> HIDE DEF token
<1>5. \A w \in Users, s \in Tokens : collateral'[s].balances[w] =
         collateral[s].balances[w] + (IF w = to /\ s = t THEN amount ELSE 0)
  BY <1>3, <1>4, WalletsNat
<1>6. \A s \in Tokens : s_userCollateralDeposits'[from][s] =
         s_userCollateralDeposits[from][s] - (IF s = t THEN amount ELSE 0)
  BY PulledIs, WalletsNat
<1> QED BY <1>2, <1>5, <1>6, CoinsMoved

LEMMA MintFlows ==
  ASSUME IInv, NEW u \in Users, NEW deposits, NEW amount \in Uint,
         MintBUSCOK(u, deposits, amount),
         s_BuscAmountMintedByUser' = [s_BuscAmountMintedByUser EXCEPT ![u] = @ + amount],
         busc' = Mint(busc, u, amount)
  PROVE  CashFlow(u, u)
<1>1. SoundLedger(busc) /\ MintOK(busc, amount)
  BY DEF IInv, DebtsOK, MintBUSCOK
<1>2. amount \in Nat
  BY UintNat
<1>3. \A w \in Users : busc'.balances[w] = busc.balances[w] + (IF w = u THEN amount ELSE 0)
  BY <1>1, MotorFacts, MintSound
<1>4. s_BuscAmountMintedByUser'[u] = s_BuscAmountMintedByUser[u] + amount
  BY DEF IInv, DebtsOK
<1> QED BY <1>2, <1>3, <1>4, WalletsNat DEF CashFlow

LEMMA RepayFlows ==
  ASSUME IInv, NEW debtor \in Users, NEW payer \in Users, NEW amount \in Uint,
         RepayOK(debtor, payer, amount),
         s_BuscAmountMintedByUser' = Repaid(debtor, amount),
         busc' = BUSCBurned(payer, amount)
  PROVE  CashFlow(payer, debtor)
<1> DEFINE paid == TransferFrom(busc, Motor, payer, Motor, amount)
<1>1. /\ SoundLedger(busc) /\ TransferFromOK(busc, Motor, payer, amount)
      /\ BurnOK(paid, Motor, amount) /\ busc' = Burn(paid, Motor, amount)
  BY DEF IInv, DebtsOK, RepayOK, BUSCBurned
<1>2. amount \in Nat
  BY UintNat
<1>3. /\ SoundLedger(paid)
      /\ \A w \in Users : paid.balances[w] = busc.balances[w]
            + (IF w = Motor THEN amount ELSE 0) - (IF w = payer THEN amount ELSE 0)
  BY <1>1, MotorFacts, TransferFromSound
<1>4. \A w \in Users :
         busc'.balances[w] = paid.balances[w] - (IF w = Motor THEN amount ELSE 0)
  <2> HIDE DEF paid
  <2> QED BY <1>1, <1>3, MotorFacts, BurnSound
<1>5. s_BuscAmountMintedByUser'[debtor] = s_BuscAmountMintedByUser[debtor] - amount
  BY DEF IInv, DebtsOK, Repaid
<1> HIDE DEF paid
<1>6. \A w \in Users : busc'.balances[w] = busc.balances[w] - (IF w = payer THEN amount ELSE 0)
  BY <1>2, <1>3, <1>4, WalletsNat, MotorFacts
<1> QED BY <1>2, <1>5, <1>6, WalletsNat DEF CashFlow

LEMMA NothingFlows ==
  ASSUME IInv, NEW u \in Users
  PROVE  /\ UNCHANGED <<s_userCollateralDeposits, collateral>> => CoinsFlow(u, u)
         /\ UNCHANGED <<s_BuscAmountMintedByUser, busc>> => CashFlow(u, u)
BY WalletsNat DEF CoinsFlow, CashFlow, Gained, Lost

\* A user's own calls exchange with that user.
LEMMA OwnCallFlows ==
  ASSUME IInv, NEW u \in Users,
         \/ \E t \in Tokens, a \in CollateralAmounts : DepositCollateral(u, t, a)
         \/ CheckedCall(u)
  PROVE  CoinsFlow(u, u) /\ CashFlow(u, u)
<1>1. BuscAmounts \subseteq Uint /\ CollateralAmounts \subseteq Uint
      /\ CollateralAmounts \subseteq Nat
  BY MotorAssumption, UintNat
<1>2. ASSUME NEW t \in Tokens, NEW a \in CollateralAmounts, DepositCollateral(u, t, a)
      PROVE  CoinsFlow(u, u) /\ CashFlow(u, u)
  BY <1>1, <1>2, DepositFlows, NothingFlows DEF DepositCollateral
<1>3. ASSUME NEW b \in BuscAmounts, MintBUSC(u, b)
      PROVE  CoinsFlow(u, u) /\ CashFlow(u, u)
  BY <1>1, <1>3, MintFlows, NothingFlows DEF MintBUSC
<1>4. ASSUME NEW b \in BuscAmounts, BurnBUSC(u, b)
      PROVE  CoinsFlow(u, u) /\ CashFlow(u, u)
  BY <1>1, <1>4, RepayFlows, NothingFlows DEF BurnBUSC, BurnBUSCOK
<1>5. ASSUME NEW t \in Tokens, NEW a \in CollateralAmounts, PullCollateral(u, t, a)
      PROVE  CoinsFlow(u, u) /\ CashFlow(u, u)
  BY <1>1, <1>5, PullFlows, NothingFlows DEF PullCollateral, PullCollateralOK
<1>6. ASSUME NEW t \in Tokens, NEW a \in CollateralAmounts, NEW b \in BuscAmounts,
             DepositCollateralAndMintBUSC(u, t, a, b)
      PROVE  CoinsFlow(u, u) /\ CashFlow(u, u)
  BY <1>1, <1>6, DepositFlows, MintFlows DEF DepositCollateralAndMintBUSC
<1>7. ASSUME NEW t \in Tokens, NEW a \in CollateralAmounts, NEW b \in BuscAmounts,
             PullCollateralAndBurnBUSC(u, t, a, b)
      PROVE  CoinsFlow(u, u) /\ CashFlow(u, u)
  BY <1>1, <1>7, PullFlows, RepayFlows DEF PullCollateralAndBurnBUSC
<1> QED BY <1>2, <1>3, <1>4, <1>5, <1>6, <1>7 DEF CheckedCall

-----------------------------------------------------------------------------
(* Steps.                                                                  *)

\* The wallets, before and after.
LEMMA WalletsTyped ==
  ASSUME NEW ledgers, \A t \in Tokens : SoundLedger(ledgers[t]),
         NEW ledger, SoundLedger(ledger)
  PROVE  /\ [u \in Users |-> [t \in Tokens |-> ledgers[t].balances[u]]]
               \in [Users -> [Tokens -> Nat]]
         /\ [u \in Users |-> ledger.balances[u]] \in [Users -> Nat]
<1>1. \A u \in Users : /\ \A t \in Tokens : ledgers[t].balances[u] \in Nat
                       /\ ledger.balances[u] \in Nat
  BY BalanceBounded, MotorFacts
<1> QED BY <1>1

\* A call of u that changes at most the position of v is an exchange.
LEMMA ExchangeOf ==
  ASSUME IInv, IInv', NEW u \in Users, NEW v \in Users, UNCHANGED priceFeed,
         \A w \in Users \ {v} :
            /\ s_userCollateralDeposits'[w] = s_userCollateralDeposits[w]
            /\ s_BuscAmountMintedByUser'[w] = s_BuscAmountMintedByUser[w],
         CoinsFlow(u, v), CashFlow(u, v)
  PROVE  Vault!Only(u, v) /\ Vault!Exchange(u, v)
<1> DEFINE coins == [w \in Users |-> [t \in Tokens |-> collateral[t].balances[w]]]
           coinsAfter == [w \in Users |-> [t \in Tokens |-> collateral'[t].balances[w]]]
           cash == [w \in Users |-> busc.balances[w]]
           cashAfter == [w \in Users |-> busc'.balances[w]]
<1>1. /\ s_userCollateralDeposits' \in [Users -> [Tokens -> Uint]]
      /\ s_BuscAmountMintedByUser' \in [Users -> Uint]
  BY DEF IInv, BooksOK, DebtsOK
<1>2. /\ s_userCollateralDeposits' \in [Users -> [Tokens -> Nat]]
      /\ s_BuscAmountMintedByUser' \in [Users -> Nat]
  BY <1>1, UintNat
<1>3. coinsAfter \in [Users -> [Tokens -> Nat]] /\ cashAfter \in [Users -> Nat]
  BY WalletsTyped DEF IInv, BooksOK, DebtsOK
<1>4. \A w \in Users \ {u} : coinsAfter[w] = coins[w] /\ cashAfter[w] = cash[w]
  BY DEF CoinsFlow, CashFlow
<1>5. Vault!Only(u, v)
  BY <1>2, <1>3, <1>4 DEF Vault!Only
<1>6. /\ \A t \in Tokens :
            coinsAfter[u][t] - coins[u][t]
               = s_userCollateralDeposits[v][t] - s_userCollateralDeposits'[v][t]
      /\ cashAfter[u] - cash[u]
            = s_BuscAmountMintedByUser'[v] - s_BuscAmountMintedByUser[v]
  BY DEF CoinsFlow, CashFlow, Gained, Lost
<1>7. Vault!Exchange(u, v)
  BY <1>6 DEF Vault!Exchange
<1> QED BY <1>5, <1>7

LEMMA DepositAdds ==
  ASSUME IInv, IInv', NEW u \in Users, NEW t \in Tokens, NEW a \in CollateralAmounts,
         DepositCollateral(u, t, a)
  PROVE  Vault!Add(u)
<1>1. /\ DepositOK(u, t, a)
      /\ s_userCollateralDeposits' = Deposited(u, t, a)
      /\ UNCHANGED <<s_BuscAmountMintedByUser, priceFeed>>
  BY DEF DepositCollateral, world
<1>2. Vault!Only(u, u) /\ Vault!Exchange(u, u)
  BY <1>1, OthersKept, OwnCallFlows, ExchangeOf
<1>3. \A s \in Tokens : s_userCollateralDeposits'[u][s] >= s_userCollateralDeposits[u][s]
  <2>1. a \in Uint
    BY MotorAssumption
  <2> QED BY <1>1, <2>1, DepositSound DEF IInv
<1> QED BY <1>1, <1>2, <1>3 DEF Vault!Add

LEMMA CheckedCallAdjusts ==
  ASSUME IInv, IInv', NEW u \in Users, CheckedCall(u)
  PROVE  Vault!Adjust(u)
<1>1. OwnChecked(u)
  BY CheckedCallLeaves
<1>2. Vault!Only(u, u) /\ Vault!Exchange(u, u)
  BY <1>1, OwnCallFlows, ExchangeOf DEF OwnChecked
<1>3. Vault!Covered(u)'
  BY <1>1, CoveredIsHealthy DEF OwnChecked
<1> QED BY <1>2, <1>3 DEF Vault!Adjust

LEMMA LiquidateSeizes ==
  ASSUME IInv, IInv', NEW l \in Users, NEW t \in Tokens, NEW v \in Users,
         NEW debt \in BuscAmounts, Liquidate(l, t, v, debt)
  PROVE  Vault!Seize(l, v)
<1> DEFINE amount == Seized(t, debt)
           deposits == Pulled(v, t, amount)
           debts == Repaid(v, debt)
<1>1. /\ s_userCollateralDeposits' = deposits
      /\ collateral' = CollateralPaidOut(l, t, amount)
      /\ s_BuscAmountMintedByUser' = debts
      /\ busc' = BUSCBurned(l, debt)
      /\ UNCHANGED priceFeed
      /\ t \in Listed /\ SeizedCollateralOK(priceFeed[t].answer, debt)
      /\ PullOK(v, t, amount) /\ RepayOK(v, l, debt)
      /\ HealthChecked(deposits[l], debts[l])
  BY DEF Liquidate, LiquidateOK, SeizureOK, LiquidationHelped, world
<1>2. debt \in Uint /\ amount \in Nat
  <2>1. debt \in Uint /\ debt \in Nat /\ priceFeed[t].answer \in Int
    BY <1>1, MotorAssumption, UintNat DEF IInv, WorldOK, PriceFeed
  <2> QED BY <1>1, <2>1, SeizedNat DEF Seized
<1> HIDE DEF amount
<1>3. CoinsFlow(l, v)
  BY <1>1, <1>2, PullFlows
<1>4. CashFlow(l, v)
  BY <1>1, <1>2, RepayFlows
<1>5. Vault!Only(l, v) /\ Vault!Exchange(l, v)
  BY <1>3, <1>4, LiquidateLeaves, ExchangeOf
<1>6. ~Vault!Covered(v)
  BY LiquidateLeaves, CoveredIsHealthy
<1>7. Vault!Covered(l)'
  <2> HIDE DEF deposits, debts
  <2>1. Healthy(l)'
    BY <1>1, CheckedHealthy
  <2> QED BY <2>1, CoveredIsHealthy
<1> QED BY <1>5, <1>6, <1>7, LiquidateLeaves DEF Vault!Seize

LEMMA MotorCallVault ==
  ASSUME IInv, IInv', NEW u \in Users, MotorCall(u)
  PROVE  Vault!Call(u)
<1>1. CASE \E t \in Tokens, a \in CollateralAmounts : DepositCollateral(u, t, a)
  BY <1>1, DepositAdds DEF Vault!Call
<1>2. CASE CheckedCall(u)
  BY <1>2, CheckedCallAdjusts DEF Vault!Call
<1>3. CASE \E b \in BuscAmounts, t \in Tokens, v \in Users : Liquidate(u, t, v, b)
  BY <1>3, LiquidateSeizes DEF Vault!Call
<1> QED BY <1>1, <1>2, <1>3 DEF MotorCall, CheckedCall

LEMMA StepVault ==
  ASSUME IInv, [Next]_vars
  PROVE  /\ [Vault!VaultNext]_(Vault!vaultVars)
         /\ \A u \in Users : Vault!Call(u) \/ ~MotorCall(u)
<1>1. IInv'
  BY StepSound DEF StepOK
<1>2. ASSUME NEW u \in Users, MotorCall(u)
      PROVE  Vault!Call(u)
  BY <1>1, <1>2, MotorCallVault
<1>3. [Vault!VaultNext]_(Vault!vaultVars)
  <2>1. ASSUME UNCHANGED <<positions, busc, collateral, priceFeed>>
        PROVE  UNCHANGED Vault!vaultVars
    BY <2>1 DEF positions, Vault!vaultVars
  <2>2. CASE \E u \in Users : MotorCall(u)
    BY <1>2, <2>2 DEF Vault!VaultNext
  <2>3. CASE \E u \in Users : TokenCall(u)
    <3>1. UNCHANGED <<positions, priceFeed>>
      BY <2>3, TokenCallKeeps
    <3>2. /\ [u \in Users |-> [t \in Tokens |-> collateral'[t].balances[u]]]
                \in [Users -> [Tokens -> Nat]]
          /\ [u \in Users |-> busc'.balances[u]] \in [Users -> Nat]
      BY <1>1, WalletsTyped DEF IInv, BooksOK, DebtsOK
    <3>3. Vault!Trade
      BY <3>1, <3>2 DEF positions, Vault!Trade
    <3> QED BY <3>3 DEF Vault!VaultNext
  <2>4. CASE \E t \in Listed, answer \in Answers :
                \/ UpdateAnswer(t, answer)
                \/ \E time \in RoundTimes : UpdateRoundData(t, answer, time)
    <3>1. UNCHANGED <<positions, busc, collateral>>
      BY <2>4 DEF UpdateAnswer, UpdateRoundData
    <3>2. [t \in Listed |-> priceFeed'[t].answer] \in [Listed -> Int]
      BY <1>1 DEF IInv, WorldOK, PriceFeed
    <3>3. Vault!Reprice
      BY <3>1, <3>2 DEF positions, Vault!Reprice
    <3> QED BY <3>3 DEF Vault!VaultNext
  <2>5. CASE Tick
    BY <2>1, <2>5 DEF Tick
  <2>6. CASE UNCHANGED vars
    BY <2>1, <2>6 DEF vars, world
  <2> QED BY <2>2, <2>3, <2>4, <2>5, <2>6 DEF Next, WorldStep
<1> QED BY <1>2, <1>3

LEMMA VaultStart ==
  ASSUME Init
  PROVE  Vault!VaultInit
<1>1. IInv
  BY InitInvariant
<1>2. [t \in Listed |-> priceFeed[t].answer] \in [Listed -> Int]
  BY <1>1 DEF IInv, WorldOK, PriceFeed
<1>3. [u \in Users |-> busc.balances[u]] = [u \in Users |-> 0]
  BY MotorFacts DEF Init, NewLedger
<1>4. [u \in Users |-> [t \in Tokens |-> collateral[t].balances[u]]]
         \in [Users -> [Tokens -> Nat]]
  BY <1>1, WalletsTyped DEF IInv, BooksOK, DebtsOK
<1> QED BY <1>2, <1>3, <1>4 DEF Init, Vault!VaultInit

(***************************************************************************)
(* The contracts keep the vault's promise.  A call of u is a step of u     *)
(* there: u exchanges with its own position, which grows or is left        *)
(* covered, or with the uncovered position of another, whose debt u clears *)
(* against its collateral.  Nobody else's position, and nobody else's      *)
(* tokens or BUSC, change.                                                 *)
(***************************************************************************)
THEOREM VaultImplemented == Spec => ImplementsVault
<1>1. Init => Vault!VaultInit
  BY VaultStart
<1>2. IInv /\ [Next]_vars =>
         /\ [Vault!VaultNext]_(Vault!vaultVars)
         /\ [\/ UNCHANGED positions
             \/ \A u \in Users : Vault!Call(u) \/ ~MotorCall(u)]_vars
  BY StepVault
<1> QED BY <1>1, <1>2, Invariance, PTL DEF Spec, ImplementsVault, Vault!VaultSpec

-----------------------------------------------------------------------------
(* Availability.  Exit and liquidation succeed where the word is wide      *)
(* enough for all the collateral there is, at every price that the feeds   *)
(* may report: a value that overflows reverts every call that reads it.    *)

Reported == Answers \cup {InitAnswer[t] : t \in Listed}
AllThereIs(t) == SumFunction(InitBalance[t])

ValuesFit ==
    \A answers \in [Listed -> Reported] :
        (\A t \in Listed : answers[t] > 0) =>
            /\ \A t \in Listed : ValueInUSDOK(answers[t], Scale[t], AllThereIs(t))
            /\ LIQUIDATION_THRESHOLD_PERCENT * WAD
                  * SumFunction([t \in Listed |->
                       ValueInUSD(answers[t], Scale[t], AllThereIs(t))]) <= MaxUint

\* No collateral is created, and feeds report what they may.
WithinReports ==
    /\ \A t \in Tokens : collateral[t].totalSupply = AllThereIs(t)
    /\ \A t \in Listed : priceFeed[t].answer \in Reported

\* Only mint and burn change a supply.
LEMMA TransferKeepsSupply ==
  ASSUME NEW token \in ERC20Ledger, NEW spender, NEW from, NEW to, NEW amount
  PROVE  /\ Transfer(token, from, to, amount).totalSupply = token.totalSupply
         /\ Approve(token, from, spender, amount).totalSupply = token.totalSupply
         /\ TransferFrom(token, spender, from, to, amount).totalSupply = token.totalSupply
<1>1. \A x : /\ Approve(token, from, spender, x).totalSupply = token.totalSupply
             /\ DOMAIN Approve(token, from, spender, x) = DOMAIN token
  BY DEF Approve, ERC20Ledger
<1>2. ASSUME NEW ledger, DOMAIN ledger = DOMAIN token
      PROVE  Transfer(ledger, from, to, amount).totalSupply = ledger.totalSupply
  BY <1>2 DEF Transfer, ERC20Ledger
<1>3. /\ SpendAllowance(token, from, spender, amount).totalSupply = token.totalSupply
      /\ DOMAIN SpendAllowance(token, from, spender, amount) = DOMAIN token
  BY <1>1 DEF SpendAllowance
<1> QED BY <1>1, <1>2, <1>3 DEF TransferFrom

LEMMA SuppliesKept ==
  ASSUME IInv, [Next]_vars
  PROVE  \A t \in Tokens : collateral'[t].totalSupply = collateral[t].totalSupply
<1>1. collateral \in [Tokens -> ERC20Ledger]
  BY DEF IInv, BooksOK
<1>2. \A u, t, a : \A s \in Tokens :
         /\ CollateralTakenIn(u, t, a)[s].totalSupply = collateral[s].totalSupply
         /\ CollateralPaidOut(u, t, a)[s].totalSupply = collateral[s].totalSupply
  BY <1>1, TransferKeepsSupply DEF CollateralTakenIn, CollateralPaidOut
<1>3. CASE \E u \in Users : MotorCall(u)
  <2>1. \/ UNCHANGED collateral
        \/ \E u, t, a : collateral' = CollateralTakenIn(u, t, a)
        \/ \E to, t, a : collateral' = CollateralPaidOut(to, t, a)
    BY <1>3 DEF MotorCall, DepositCollateral, MintBUSC, DepositCollateralAndMintBUSC,
                PullCollateral, BurnBUSC, PullCollateralAndBurnBUSC, Liquidate
  <2>2. CASE \E u, t, a : collateral' = CollateralTakenIn(u, t, a)
    <3>1. PICK u, t, a : collateral' = CollateralTakenIn(u, t, a)
      BY <2>2
    <3> QED BY <1>2, <3>1
  <2>3. CASE \E to, t, a : collateral' = CollateralPaidOut(to, t, a)
    <3>1. PICK to, t, a : collateral' = CollateralPaidOut(to, t, a)
      BY <2>3
    <3> QED BY <1>2, <3>1
  <2> QED BY <2>1, <2>2, <2>3
<1>4. CASE \E u \in Users : TokenCall(u)
  <2>1. \/ UNCHANGED collateral
        \/ \E u, t, to, a : collateral' = [collateral EXCEPT ![t] = Transfer(@, u, to, a)]
        \/ \E u, t, a : collateral' = [collateral EXCEPT ![t] = Approve(@, u, Motor, a)]
    BY <1>4 DEF TokenCall, BUSCTransfer, BUSCApprove, BUSCTransferFrom, BUSCBurnFrom,
                CollateralTransfer, CollateralApprove
  <2>2. CASE \E u, t, to, a : collateral' = [collateral EXCEPT ![t] = Transfer(@, u, to, a)]
    <3>1. PICK u, t, to, a : collateral' = [collateral EXCEPT ![t] = Transfer(@, u, to, a)]
      BY <2>2
    <3> QED BY <1>1, <3>1, TransferKeepsSupply
  <2>3. CASE \E u, t, a : collateral' = [collateral EXCEPT ![t] = Approve(@, u, Motor, a)]
    <3>1. PICK u, t, a : collateral' = [collateral EXCEPT ![t] = Approve(@, u, Motor, a)]
      BY <2>3
    <3> QED BY <1>1, <3>1, TransferKeepsSupply
  <2> QED BY <2>1, <2>2, <2>3
<1>5. CASE WorldStep \/ UNCHANGED vars
  BY <1>5 DEF WorldStep, UpdateAnswer, UpdateRoundData, Tick, vars
<1> QED BY <1>3, <1>4, <1>5 DEF Next

LEMMA StepReports ==
  ASSUME IInv, [Next]_vars, \A t \in Listed : priceFeed[t].answer \in Reported
  PROVE  \A t \in Listed : priceFeed'[t].answer \in Reported
<1>1. CASE UNCHANGED priceFeed
  BY <1>1
<1>2. ASSUME NEW t \in Listed, NEW answer \in Answers, NEW time,
             priceFeed' = [priceFeed EXCEPT ![t] = NewRound(answer, time)]
      PROVE  \A s \in Listed : priceFeed'[s].answer \in Reported
  BY <1>2 DEF IInv, WorldOK, NewRound, Reported
<1>3. CASE \E u \in Users : MotorCall(u)
  BY <1>1, <1>3 DEF MotorCall, DepositCollateral, MintBUSC, DepositCollateralAndMintBUSC,
                PullCollateral, BurnBUSC, PullCollateralAndBurnBUSC, Liquidate, world
<1>4. CASE \E u \in Users : TokenCall(u)
  BY <1>1, <1>4, TokenCallKeeps
<1>5. CASE WorldStep
  BY <1>1, <1>2, <1>5 DEF WorldStep, UpdateAnswer, UpdateRoundData, Tick
<1>6. CASE UNCHANGED vars
  BY <1>1, <1>6 DEF vars, world
<1> QED BY <1>3, <1>4, <1>5, <1>6 DEF Next

LEMMA InvariantReports == Spec => []WithinReports
<1>1. Init => WithinReports
  BY MotorAssumption DEF Init, WithinReports, AllThereIs, NewLedger, NewRound, Reported
<1>2. IInv /\ WithinReports /\ [Next]_vars => WithinReports'
  BY SuppliesKept, StepReports DEF WithinReports
<1> QED BY <1>1, <1>2, Invariance, PTL DEF Spec

\* What can be valued can be valued in part.
LEMMA ValueOKDownward ==
  ASSUME NEW answer \in Int, NEW scale \in Nat, NEW less \in Nat, NEW more \in Nat,
         less <= more, ValueInUSDOK(answer, scale, more)
  PROVE  ValueInUSDOK(answer, scale, less)
<1>1. Price(answer) \in Nat /\ less * scale \in Nat /\ more * scale \in Nat
  BY PriceNat, TimesNat
<1>2. less * scale <= more * scale
  BY TimesMonotone, Z3
<1>3. Price(answer) * (less * scale) <= Price(answer) * (more * scale)
  BY <1>1, <1>2, TimesMonotone
<1>4. /\ Price(answer) * (less * scale) \in Nat /\ Price(answer) * (more * scale) \in Nat
      /\ MaxUint \in Nat
  BY <1>1, TimesNat, MathFacts
<1>5. MulOK(less, scale)
  <2>1. more * scale <= MaxUint
    BY MulExact DEF ValueInUSDOK
  <2> QED BY <1>1, <1>2, <1>4, <2>1, MulExact
<1>6. MulOK(Price(answer), less * scale)
  <2>1. Price(answer) * (more * scale) <= MaxUint
    BY <1>1, MulExact DEF ValueInUSDOK
  <2> QED BY <1>1, <1>3, <1>4, <2>1, MulExact
<1> QED BY <1>5, <1>6 DEF ValueInUSDOK

\* A deposit is part of all there is of its token.
LEMMA DepositWithin ==
  ASSUME IInv, WithinReports, NEW u \in Users, NEW t \in Tokens
  PROVE  /\ s_userCollateralDeposits[u][t] \in Nat
         /\ s_userCollateralDeposits[u][t] <= collateral[t].balances[Motor]
         /\ s_userCollateralDeposits[u][t] <= AllThereIs(t)
         /\ AllThereIs(t) \in Nat
<1> DEFINE f == DepositsOf(s_userCollateralDeposits, t)
<1>1. f \in [Users -> Nat] /\ f[u] = s_userCollateralDeposits[u][t]
  BY NaturalState DEF DepositsOf
<1>2. /\ SoundLedger(collateral[t])
      /\ SumFunction(f) <= collateral[t].balances[Motor]
  BY DEF IInv, BooksOK
<1> HIDE DEF f
<1>3. f[u] <= SumFunction(f) /\ SumFunction(f) \in Nat /\ f[u] \in Nat
  BY <1>1, MotorFacts, SumFunctionMember, SumFunctionNat
<1>4. /\ collateral[t].balances[Motor] \in Nat
      /\ collateral[t].balances[Motor] <= collateral[t].totalSupply
      /\ collateral[t].totalSupply \in Nat
  BY <1>2, BalanceBounded, MotorFacts, UintNat DEF SoundLedger, ERC20Ledger
<1> QED BY <1>1, <1>2, <1>3, <1>4 DEF WithinReports

PricesSane == FeedsFresh /\ \A t \in Listed : priceFeed[t].answer > 0

\* Deposits within what there is: no step of their health factor overflows.
LEMMA ValuesWithin ==
  ASSUME IInv, WithinReports, ValuesFit, PricesSane, NEW deposits,
         \A t \in Listed : deposits[t] \in Nat /\ deposits[t] <= AllThereIs(t)
  PROVE  /\ CollateralValueOK(deposits)
         /\ CollateralValue(deposits) \in Nat
         /\ LIQUIDATION_THRESHOLD_PERCENT * WAD * CollateralValue(deposits) <= MaxUint
         /\ \A t \in Listed : /\ ValueOf(t, deposits[t]) \in Nat
                              /\ ValueOf(t, deposits[t]) <= CollateralValue(deposits)
                              /\ PriceOK(priceFeed[t].answer)
<1> DEFINE answers == [t \in Listed |-> priceFeed[t].answer]
           values == [t \in Listed |-> ValueOf(t, deposits[t])]
           all == [t \in Listed |-> ValueInUSD(answers[t], Scale[t], AllThereIs(t))]
<1>1. ASSUME NEW t \in Listed
      PROVE  /\ answers[t] = priceFeed[t].answer
             /\ priceFeed[t].answer \in Int /\ Scale[t] \in Nat /\ AllThereIs(t) \in Nat
             /\ ValueInUSDOK(priceFeed[t].answer, Scale[t], AllThereIs(t))
  <2>1. priceFeed[t].answer \in Int /\ Scale[t] \in Nat /\ t \in Tokens
    BY MotorAssumption DEF IInv, WorldOK, PriceFeed
  <2>2. AllThereIs(t) \in Nat
    BY <2>1, UintNat, MotorAssumption DEF AllThereIs
  <2>3. answers \in [Listed -> Reported] /\ \A s \in Listed : answers[s] > 0
    BY DEF WithinReports, PricesSane
  <2>4. ValueInUSDOK(answers[t], Scale[t], AllThereIs(t))
    <3> HIDE DEF answers
    <3> QED BY <2>3 DEF ValuesFit
  <2> QED BY <2>1, <2>2, <2>4
<1>2. LIQUIDATION_THRESHOLD_PERCENT * WAD * SumFunction(all) <= MaxUint
  <2>1. answers \in [Listed -> Reported] /\ \A s \in Listed : answers[s] > 0
    BY DEF WithinReports, PricesSane
  <2> HIDE DEF answers
  <2> QED BY <2>1 DEF ValuesFit
<1> HIDE DEF answers
<1>3. ASSUME NEW t \in Listed
      PROVE  /\ values[t] \in Nat /\ all[t] \in Nat /\ values[t] <= all[t]
             /\ ValueInUSDOK(priceFeed[t].answer, Scale[t], deposits[t])
  BY <1>1, ValueNat, ValueMonotone, ValueOKDownward DEF ValueOf
<1>4. values \in [Listed -> Nat] /\ all \in [Listed -> Nat]
  BY <1>3
<1>5. CollateralValue(deposits) = SumFunction(values)
  BY DEF CollateralValue
<1> HIDE DEF values, all
<1>6. /\ SumFunction(values) \in Nat /\ SumFunction(all) \in Nat
      /\ SumFunction(values) <= SumFunction(all)
      /\ \A t \in Listed : values[t] <= SumFunction(values)
  BY <1>3, <1>4, FeedsFinite, SumFunctionNat, SumFunctionMonotone, SumFunctionMember
<1>7. /\ LIQUIDATION_THRESHOLD_PERCENT * WAD * SumFunction(values) <= MaxUint
      /\ SumFunction(values) <= MaxUint
  <2> DEFINE v == SumFunction(values)
             k == LIQUIDATION_THRESHOLD_PERCENT * WAD
  <2>1. k \in Nat /\ k >= 1 /\ MaxUint \in Nat
    BY MathFacts DEF LIQUIDATION_THRESHOLD_PERCENT
  <2>2. /\ k * v \in Nat /\ k * SumFunction(all) \in Nat
        /\ k * v <= k * SumFunction(all)
    <3> HIDE DEF k, v
    <3> QED BY <1>6, <2>1, TimesNat, TimesMonotone DEF v
  <2>3. v <= k * v
    <3>1. 1 * v <= k * v
      <4> HIDE DEF k, v
      <4>1. v \in Nat
        BY <1>6 DEF v
      <4>2. v * 1 <= v * k
        BY <2>1, <4>1, TimesMonotone
      <4> QED BY <2>1, <4>1, <4>2, Z3
    <3> HIDE DEF k
    <3> QED BY <1>6, <3>1
  <2> HIDE DEF k
  <2> QED BY <1>2, <1>6, <2>1, <2>2, <2>3 DEF k
<1>8. CollateralValueOK(deposits)
  BY <1>3, <1>5, <1>7 DEF CollateralValueOK, PricesSane, FeedsFresh
<1>9. \A t \in Listed : values[t] = ValueOf(t, deposits[t]) /\ PriceOK(priceFeed[t].answer)
  BY <1>1 DEF values, ValueInUSDOK
<1> QED BY <1>3, <1>5, <1>6, <1>7, <1>8, <1>9

\* A pull leaves less, of which the same is true.
LEMMA PulledWithin ==
  ASSUME IInv, WithinReports, NEW u \in Users, NEW t \in Tokens, NEW amount \in Nat,
         PullOK(u, t, amount)
  PROVE  \A s \in Listed : /\ Pulled(u, t, amount)[u][s] \in Nat
                           /\ Pulled(u, t, amount)[u][s] <= AllThereIs(s)
<1> SUFFICES ASSUME NEW s \in Listed
             PROVE  /\ Pulled(u, t, amount)[u][s] \in Nat
                    /\ Pulled(u, t, amount)[u][s] <= AllThereIs(s)
  OBVIOUS
<1>1. /\ s \in Tokens
      /\ s_userCollateralDeposits[u][s] \in Nat /\ AllThereIs(s) \in Nat
      /\ s_userCollateralDeposits[u][s] <= AllThereIs(s)
  BY DepositWithin, MotorAssumption
<1>2. CASE s = t
  BY <1>1, <1>2, PulledIs DEF PullOK
<1>3. CASE s # t
  BY <1>1, <1>3, PulledIs
<1> QED BY <1>2, <1>3

\* Without debt no collateral is needed.
LEMMA DebtFreeChecked ==
  ASSUME NEW deposits, CollateralValueOK(deposits)
  PROVE  /\ HealthChecked(deposits, 0)
         /\ HealthFactor(deposits, 0) = MaxUint
BY MathFacts DEF HealthChecked, HealthFactorOK, HealthFactor, CalculateHealthFactor,
                 CalculateHealthFactorOK, MINIMUM_HEALTH_FACTOR

LEMMA ExitOpen ==
  ASSUME IInv, WithinReports, ValuesFit
  PROVE  ExitAlwaysOpen
<1> SUFFICES ASSUME NEW u \in Users, NEW t \in Listed, PricesSane,
                    s_BuscAmountMintedByUser[u] = 0,
                    s_userCollateralDeposits[u][t] > 0
             PROVE  PullCollateralOK(u, t, s_userCollateralDeposits[u][t])
  BY DEF ExitAlwaysOpen, PricesSane
<1> DEFINE deposit == s_userCollateralDeposits[u][t]
<1>1. /\ t \in Tokens /\ deposit \in Nat
      /\ deposit <= collateral[t].balances[Motor]
  BY DepositWithin, MotorAssumption
<1>2. PullOK(u, t, deposit)
  BY <1>1 DEF PullOK, TransferOK
<1> HIDE DEF deposit
<1>3. CollateralValueOK(Pulled(u, t, deposit)[u])
  BY <1>1, <1>2, PulledWithin, ValuesWithin
<1>4. HealthChecked(Pulled(u, t, deposit)[u], 0)
  BY <1>3, DebtFreeChecked
<1> QED BY <1>2, <1>4 DEF PullCollateralOK, deposit

(***************************************************************************)
(* Who owes nothing can take out everything in one call whenever feeds are *)
(* fresh and positive, whatever others did, if the word is wide enough.    *)
(***************************************************************************)
THEOREM ExitNeverBlocked == ASSUME ValuesFit PROVE Spec => []ExitAlwaysOpen
<1>1. IInv /\ WithinReports => ExitAlwaysOpen
  BY ExitOpen
<1> QED BY <1>1, Invariance, InvariantReports, PTL

\* A deposit worth 110% of the debt covers what liquidate seizes for it.
LEMMA SeizureCovered ==
  ASSUME NEW answer \in Int, NEW debt \in Nat, NEW deposit \in Nat, debt > 0,
         PriceOK(answer),
         100 * ValueInUSD(answer, 1, deposit) >= 110 * debt,
         LIQUIDATION_THRESHOLD_PERCENT * WAD * ValueInUSD(answer, 1, deposit) <= MaxUint,
         deposit <= MaxUint
  PROVE  /\ SeizedCollateralOK(answer, debt)
         /\ SeizedCollateral(answer, debt) \in Nat
         /\ SeizedCollateral(answer, debt) <= deposit
<1> DEFINE price == Price(answer)
           value == ValueInUSD(answer, 1, deposit)
           amount == TokenAmountFromUSDwei(answer, debt)
<1>1. /\ price \in Nat /\ WAD \in Nat \ {0} /\ MaxUint \in Nat
      /\ value = (price * deposit) \div WAD /\ value \in Nat
  <2>1. price \in Nat /\ WAD \in Nat \ {0} /\ MaxUint \in Nat
    BY PriceNat, MathFacts
  <2>2. deposit * 1 = deposit
    OBVIOUS
  <2>3. value = (price * deposit) \div WAD
    BY <2>2 DEF ValueInUSD
  <2> QED BY <2>1, <2>3, ValueNat
<1>2. WAD * value <= price * deposit
  BY <1>1, DivBounds, TimesNat
<1>3. /\ value >= debt /\ value >= 1
  <2> HIDE DEF value
  <2> QED BY <1>1 DEF value
<1>4. price # 0
  <2>1. ASSUME price = 0 PROVE FALSE
    <3>1. price * deposit = 0
      BY <2>1
    <3> HIDE DEF price, value
    <3>2. WAD * value <= 0
      BY <1>2, <3>1
    <3> QED BY <1>1, <1>3, <3>2, Z3
  <2> QED BY <2>1
<1>5. /\ amount = (debt * WAD) \div price /\ amount \in Nat
      /\ price * amount <= debt * WAD
  <2>1. debt * WAD \in Nat
    BY <1>1, TimesNat
  <2> HIDE DEF price
  <2>2. amount = (debt * WAD) \div price
    BY DEF TokenAmountFromUSDwei, price
  <2> QED BY <1>1, <1>4, <2>1, <2>2, DivBounds
<1> HIDE DEF price, value, amount
<1>6. 11 * amount <= 10 * deposit
  <2>1. 110 * (debt * WAD) <= 100 * (WAD * value)
    <3>1. WAD * (110 * debt) <= WAD * (100 * value)
      BY <1>1, TimesMonotone DEF value
    <3> QED BY <1>1, <3>1, Z3
  <2>2. 110 * (price * amount) <= 100 * (price * deposit)
    <3>1. /\ price * amount \in Nat /\ price * deposit \in Nat
          /\ debt * WAD \in Nat /\ WAD * value \in Nat
      BY <1>1, <1>5, TimesNat
    <3> QED BY <1>2, <1>5, <2>1, <3>1
  <2>3. price * (11 * amount) <= price * (10 * deposit)
    BY <1>1, <1>5, <2>2, Z3
  <2>4. ASSUME 11 * amount > 10 * deposit PROVE FALSE
    <3>1. price * (10 * deposit + 1) <= price * (11 * amount)
      BY <1>1, <1>5, <2>4, TimesMonotone
    <3> QED BY <1>1, <1>4, <1>5, <2>3, <3>1, Z3
  <2> QED BY <1>1, <1>5, <2>4
<1>7. /\ LiquidationBonus(amount) \in Nat
      /\ amount + LiquidationBonus(amount) <= deposit
  BY <1>5, <1>6 DEF LiquidationBonus, LIQUIDATION_BONUS, LIQUIDATION_PRECISION
<1>8. 50 * (WAD * value) <= MaxUint
  BY <1>1, Z3 DEF LIQUIDATION_THRESHOLD_PERCENT, value
<1>9. MulOK(debt, WAD)
  <2>1. WAD * debt <= WAD * value
    BY <1>1, <1>3, TimesMonotone
  <2>2. debt * WAD = WAD * debt /\ WAD * debt \in Nat /\ WAD * value \in Nat
    BY <1>1, TimesNat, Z3
  <2> QED BY <1>1, <1>8, <2>1, <2>2, MulExact
<1>10. MulOK(amount, LIQUIDATION_BONUS)
  <2>1. amount <= price * amount
    <3>1. amount * 1 <= amount * price
      BY <1>1, <1>4, <1>5, TimesMonotone
    <3> QED BY <1>1, <1>5, <3>1, Z3
  <2>2. WAD * debt <= WAD * value
    BY <1>1, <1>3, TimesMonotone
  <2>3. /\ debt * WAD = WAD * debt /\ WAD * debt \in Nat /\ WAD * value \in Nat
        /\ price * amount \in Nat
    BY <1>1, <1>5, TimesNat, Z3
  <2>4. amount * LIQUIDATION_BONUS <= MaxUint
    BY <1>1, <1>5, <1>8, <2>1, <2>2, <2>3 DEF LIQUIDATION_BONUS
  <2> QED BY <1>5, <2>4, MulExact DEF LIQUIDATION_BONUS
<1>11. AddOK(amount, LiquidationBonus(amount))
  BY <1>1, <1>5, <1>7 DEF AddOK
<1>12. SeizedCollateralOK(answer, debt)
  BY <1>4, <1>9, <1>10, <1>11 DEF SeizedCollateralOK, TokenAmountFromUSDweiOK, price, amount
<1>13. SeizedCollateral(answer, debt) = amount + LiquidationBonus(amount)
  BY DEF SeizedCollateral, amount
<1> QED BY <1>5, <1>7, <1>12, <1>13

\* The health factor of a position within what there is can be computed.
LEMMA HealthComputable ==
  ASSUME IInv, WithinReports, ValuesFit, PricesSane, NEW u \in Users
  PROVE  HealthFactorOK(s_userCollateralDeposits[u], s_BuscAmountMintedByUser[u])
<1> DEFINE value == CollateralValue(s_userCollateralDeposits[u])
           adjusted == AdjustedCollateralThreshold(value)
<1>1. \A t \in Listed : /\ s_userCollateralDeposits[u][t] \in Nat
                        /\ s_userCollateralDeposits[u][t] <= AllThereIs(t)
  BY DepositWithin, MotorAssumption
<1>2. /\ CollateralValueOK(s_userCollateralDeposits[u])
      /\ value \in Nat
      /\ LIQUIDATION_THRESHOLD_PERCENT * WAD * value <= MaxUint
  BY <1>1, ValuesWithin
<1> HIDE DEF value
<1>3. WAD \in Nat \ {0} /\ MaxUint \in Nat /\ WAD * value \in Nat
  BY <1>2, MathFacts, TimesNat
<1>4. 50 * (WAD * value) <= MaxUint
  BY <1>2, <1>3, Z3 DEF LIQUIDATION_THRESHOLD_PERCENT
<1>5. value <= WAD * value
  <2>1. value * 1 <= value * WAD
    BY <1>2, <1>3, TimesMonotone
  <2> QED BY <1>2, <1>3, <2>1, Z3
<1>6. MulOK(value, LIQUIDATION_THRESHOLD_PERCENT)
  <2>1. value * 50 <= MaxUint
    BY <1>2, <1>3, <1>4, <1>5
  <2> QED BY <1>2, <2>1, MulExact DEF LIQUIDATION_THRESHOLD_PERCENT
<1>7. adjusted \in Nat /\ adjusted <= value
  BY <1>2 DEF AdjustedCollateralThreshold, LIQUIDATION_THRESHOLD_PERCENT,
              LIQUIDATION_PRECISION
<1> HIDE DEF adjusted
<1>8. MulOK(adjusted, WAD)
  <2>1. WAD * adjusted <= WAD * value
    BY <1>2, <1>3, <1>7, TimesMonotone
  <2>2. adjusted * WAD = WAD * adjusted /\ WAD * adjusted \in Nat
    BY <1>3, <1>7, TimesNat, Z3
  <2> QED BY <1>3, <1>4, <1>7, <2>1, <2>2, MulExact
<1> QED BY <1>2, <1>6, <1>8 DEF HealthFactorOK, CalculateHealthFactorOK, value, adjusted

\* The BUSC of the payer arrives before the motor burns it.
LEMMA RepaymentPossible ==
  ASSUME IInv, NEW l \in Users, NEW u \in Users,
         TransferFromOK(busc, Motor, l, s_BuscAmountMintedByUser[u])
  PROVE  RepayOK(u, l, s_BuscAmountMintedByUser[u])
<1> DEFINE debt == s_BuscAmountMintedByUser[u]
           paid == TransferFrom(busc, Motor, l, Motor, debt)
<1>1. SoundLedger(busc) /\ debt \in Uint /\ debt \in Nat
  BY UintNat DEF IInv, DebtsOK
<1>2. busc.balances[Motor] \in Nat
  BY <1>1, BalanceBounded, MotorFacts
<1>3. paid.balances[Motor] = busc.balances[Motor] + (IF Motor = Motor THEN debt ELSE 0)
                                                  - (IF Motor = l THEN debt ELSE 0)
  <2> HIDE DEF debt
  <2> QED BY <1>1, MotorFacts, TransferFromSound DEF debt
<1> HIDE DEF debt, paid
<1>4. debt <= paid.balances[Motor]
  BY <1>1, <1>2, <1>3, MotorFacts
<1> QED BY <1>1, <1>4 DEF RepayOK, BurnOK, debt, paid

LEMMA LiquidationOpen ==
  ASSUME IInv, WithinReports, ValuesFit, \A t \in Listed : Scale[t] = 1
  PROVE  LiquidationAvailable
<1> SUFFICES ASSUME NEW l \in Users, NEW u \in Users, NEW t \in Listed, PricesSane,
                    l # u, Healthy(l), ~Healthy(u),
                    100 * ValueOf(t, s_userCollateralDeposits[u][t])
                       >= 110 * s_BuscAmountMintedByUser[u],
                    TransferFromOK(busc, Motor, l, s_BuscAmountMintedByUser[u])
             PROVE  LiquidateOK(l, t, u, s_BuscAmountMintedByUser[u])
  BY DEF LiquidationAvailable, PricesSane
<1> DEFINE debt == s_BuscAmountMintedByUser[u]
           deposit == s_userCollateralDeposits[u][t]
           deposits == Pulled(u, t, Seized(t, debt))
           debts == Repaid(u, debt)
<1>1. /\ debt \in Nat /\ HealthOf(u) \in Nat /\ deposit \in Nat
      /\ deposit <= collateral[t].balances[Motor] /\ t \in Tokens
      /\ WAD \in Nat /\ MaxUint \in Nat /\ WAD <= MaxUint
  BY PositionNat, DepositWithin, MathFacts, MotorAssumption
<1>2. /\ HealthOf(u) < MINIMUM_HEALTH_FACTOR /\ HealthOf(u) < MaxUint
  BY <1>1 DEF Healthy, MINIMUM_HEALTH_FACTOR
<1>3. debt > 0
  <2>1. debt = 0 => HealthOf(u) = MaxUint
    BY DEF HealthOf, HealthFactor, CalculateHealthFactor
  <2> HIDE DEF debt
  <2> QED BY <1>1, <1>2, <2>1
<1>4. Liquidatable(u)
  BY <1>2, HealthComputable DEF Liquidatable, HealthOf
<1>5. /\ SeizedCollateralOK(priceFeed[t].answer, debt)
      /\ Seized(t, debt) \in Nat /\ Seized(t, debt) <= deposit
  <2>1. \A s \in Listed : /\ s_userCollateralDeposits[u][s] \in Nat
                          /\ s_userCollateralDeposits[u][s] <= AllThereIs(s)
    BY DepositWithin, MotorAssumption
  <2> DEFINE value == ValueInUSD(priceFeed[t].answer, 1, deposit)
             all == CollateralValue(s_userCollateralDeposits[u])
  <2>2. ValueOf(t, deposit) = value
    BY DEF ValueOf
  <2>3. /\ all \in Nat /\ value \in Nat /\ value <= all /\ PriceOK(priceFeed[t].answer)
        /\ LIQUIDATION_THRESHOLD_PERCENT * WAD * all <= MaxUint
    <3> HIDE DEF value, all
    <3>1. /\ all \in Nat
          /\ LIQUIDATION_THRESHOLD_PERCENT * WAD * all <= MaxUint
          /\ ValueOf(t, deposit) \in Nat /\ ValueOf(t, deposit) <= all
          /\ PriceOK(priceFeed[t].answer)
      BY <2>1, ValuesWithin DEF all
    <3> QED BY <2>2, <3>1
  <2>4. 100 * value >= 110 * debt
    BY <2>2
  <2>5. deposit <= MaxUint
    <3>1. deposit \in Uint
      BY <1>1 DEF IInv, BooksOK
    <3> QED BY <3>1 DEF Uint
  <2>6. priceFeed[t].answer \in Int
    BY DEF IInv, WorldOK, PriceFeed
  <2> HIDE DEF deposit, debt, all
  <2>7. LIQUIDATION_THRESHOLD_PERCENT * WAD * value <= MaxUint
    <3> HIDE DEF value
    <3> DEFINE k == LIQUIDATION_THRESHOLD_PERCENT * WAD
    <3>1. k \in Nat
      BY <1>1 DEF LIQUIDATION_THRESHOLD_PERCENT
    <3> HIDE DEF k
    <3>2. k * value <= k * all /\ k * value \in Nat /\ k * all \in Nat
      BY <2>3, <3>1, TimesMonotone, TimesNat
    <3> QED BY <1>1, <2>3, <3>2 DEF k
  <2> QED BY <1>1, <1>3, <2>3, <2>4, <2>5, <2>6, <2>7, SeizureCovered DEF Seized
<1>6. PullOK(u, t, Seized(t, debt))
  <2> HIDE DEF debt
  <2>1. collateral[t].balances[Motor] \in Nat
    BY <1>1, BalanceBounded, MotorFacts DEF IInv, BooksOK
  <2> QED BY <1>1, <1>5, <2>1 DEF PullOK, TransferOK
<1>7. SeizureOK(l, t, u, debt)
  BY <1>3, <1>4, <1>5, <1>6, RepaymentPossible DEF SeizureOK
<1>8. debts[u] = 0 /\ debts[l] = s_BuscAmountMintedByUser[l]
      /\ deposits[l] = s_userCollateralDeposits[l]
  <2>1. debts[u] = 0
    BY <1>1 DEF Repaid, IInv, DebtsOK
  <2>2. l \in Users \ {u}
    OBVIOUS
  <2> HIDE DEF debt
  <2> QED BY <1>1, <2>1, <2>2, OthersKept
<1> HIDE DEF debt, deposits, debts
<1>9. CollateralValueOK(deposits[u])
  <2>1. \A s \in Listed : deposits[u][s] \in Nat /\ deposits[u][s] <= AllThereIs(s)
    BY <1>1, <1>5, <1>6, PulledWithin DEF deposits
  <2> QED BY <2>1, ValuesWithin
<1>10. HealthFactorOK(deposits[u], debts[u]) /\ HealthFactor(deposits[u], debts[u]) > HealthOf(u)
  BY <1>1, <1>2, <1>8, <1>9, DebtFreeChecked DEF HealthChecked
<1>11. HealthChecked(deposits[l], debts[l])
  BY <1>8, HealthComputable DEF HealthChecked, Healthy, HealthOf
<1> QED BY <1>7, <1>10, <1>11 DEF LiquidateOK, LiquidationHelped, HealthOf, deposits, debts, debt

(***************************************************************************)
(* An unhealthy user whose deposit of one token is worth 110% of the debt  *)
(* can be liquidated in one call by any healthy user who has the BUSC, for *)
(* tokens of 18 decimals and a word that is wide enough.                   *)
(***************************************************************************)
THEOREM LiquidationNeverBlocked ==
  ASSUME ValuesFit, \A t \in Listed : Scale[t] = 1
  PROVE  Spec => []LiquidationAvailable
<1>1. IInv /\ WithinReports => LiquidationAvailable
  BY LiquidationOpen
<1> QED BY <1>1, Invariance, InvariantReports, PTL

-----------------------------------------------------------------------------
(* Answers that are no prices.                                             *)

\* The answers are in the range of int256 (10^10 is the code's FEED).
SignedAnswers == FEED >= 2 /\ \A a \in Reported : -2 * a <= MaxUint + 1

\* A negative answer becomes a number in the upper half of uint256.
LEMMA NegativeOverflows ==
  ASSUME FEED >= 2, NEW answer \in Int, -2 * answer <= MaxUint + 1, PriceOK(answer)
  PROVE  answer >= 0
<1> SUFFICES ASSUME answer < 0 PROVE FALSE
  OBVIOUS
<1> DEFINE w == answer + MaxUint + 1
<1>1. w \in Nat \ {0} /\ 2 * w >= MaxUint + 1 /\ w <= MaxUint
  BY MathFacts
<1>2. Wrap(answer) = w
  BY <1>1, MathFacts DEF Wrap
<1> HIDE DEF w
<1>3. w * 2 <= MaxUint
  <2>1. 2 <= MaxUint \div w
    <3>1. MaxUint \div w \in Nat
      BY <1>1, MathFacts, DivBounds
    <3> QED BY <1>1, <1>2, <3>1, MathFacts DEF PriceOK, MulOK
  <2> QED BY <1>1, <2>1, MathFacts, DivAtLeast
<1> QED BY <1>1, <1>3, MathFacts

LEMMA SeizedAtPrice ==
  ASSUME SignedAnswers, NEW answer \in Reported, answer \in Int, NEW debt,
         SeizedCollateralOK(answer, debt)
  PROVE  answer > 0
<1>1. PriceOK(answer) /\ Price(answer) # 0
  BY DEF SeizedCollateralOK, TokenAmountFromUSDweiOK
<1>2. Price(0) = 0
  BY MathFacts DEF Price, Wrap
<1> QED BY <1>1, <1>2, NegativeOverflows DEF SignedAnswers

LEMMA ValuedAtAnswers ==
  ASSUME SignedAnswers, IInv, WithinReports, NEW deposits, CollateralValueOK(deposits)
  PROVE  \A t \in Listed : priceFeed[t].answer >= 0
<1>1. \A t \in Listed : PriceOK(priceFeed[t].answer) /\ priceFeed[t].answer \in Int
  BY DEF CollateralValueOK, ValueInUSDOK, IInv, WorldOK, PriceFeed
<1> QED BY <1>1, NegativeOverflows DEF SignedAnswers, WithinReports

\* All calls but depositCollateral value somebody's collateral.
LEMMA CallsValue ==
  ASSUME NEW u \in Users, MotorCall(u),
         ~\E t \in Tokens, a \in CollateralAmounts : DepositCollateral(u, t, a)
  PROVE  \E deposits : CollateralValueOK(deposits)
<1>1. CASE CheckedCall(u)
  BY <1>1 DEF CheckedCall, MintBUSC, MintBUSCOK, BurnBUSC, BurnBUSCOK, PullCollateral,
              PullCollateralOK, DepositCollateralAndMintBUSC, PullCollateralAndBurnBUSC,
              HealthChecked, HealthFactorOK
<1>2. CASE \E b \in BuscAmounts, t \in Tokens, v \in Users : Liquidate(u, t, v, b)
  BY <1>2 DEF Liquidate, LiquidateOK, LiquidationHelped, HealthFactorOK
<1> QED BY <1>1, <1>2 DEF MotorCall, CheckedCall

NothingTaken ==
    /\ UNCHANGED s_BuscAmountMintedByUser
    /\ \A u \in Users, t \in Tokens :
          s_userCollateralDeposits'[u][t] >= s_userCollateralDeposits[u][t]

\* Steps that value no collateral.
LEMMA UnvaluedTakesNothing ==
  ASSUME IInv, [Next]_vars,
         ~\E u \in Users : /\ MotorCall(u)
                           /\ ~\E t \in Tokens, a \in CollateralAmounts :
                                  DepositCollateral(u, t, a)
  PROVE  NothingTaken
<1>1. ASSUME UNCHANGED positions
      PROVE  NothingTaken
  BY <1>1, NaturalState DEF positions, NothingTaken
<1>2. ASSUME NEW u \in Users, NEW t \in Tokens, NEW a \in CollateralAmounts,
             DepositCollateral(u, t, a)
      PROVE  NothingTaken
  <2>1. a \in Uint
    BY MotorAssumption
  <2> QED BY <1>2, <2>1, DepositSound DEF DepositCollateral, IInv, NothingTaken
<1>3. CASE \E u \in Users : TokenCall(u)
  BY <1>1, <1>3, TokenCallKeeps
<1>4. CASE WorldStep
  BY <1>1, <1>4 DEF WorldStep, UpdateAnswer, UpdateRoundData, Tick
<1>5. CASE UNCHANGED vars
  BY <1>1, <1>5 DEF vars
<1> QED BY <1>2, <1>3, <1>4, <1>5 DEF Next

\* Debt is taken up in a call that checks it.
LEMMA DebtTakenUp ==
  ASSUME IInv, [Next]_vars, NEW u \in Users,
         s_BuscAmountMintedByUser'[u] > s_BuscAmountMintedByUser[u]
  PROVE  CheckedCall(u)
<1>1. s_BuscAmountMintedByUser[u] \in Nat
  BY PositionNat
<1>2. ~NothingTaken
  BY <1>1 DEF NothingTaken
<1>3. PICK w \in Users :
         /\ MotorCall(w)
         /\ ~\E t \in Tokens, a \in CollateralAmounts : DepositCollateral(w, t, a)
  BY <1>2, UnvaluedTakesNothing
<1>4. CASE CheckedCall(w)
  <2>1. w # u => s_BuscAmountMintedByUser'[u] = s_BuscAmountMintedByUser[u]
    BY <1>4, CheckedCallLeaves DEF OwnChecked
  <2> QED BY <1>1, <1>4, <2>1
<1>5. ASSUME NEW b \in BuscAmounts, NEW t \in Tokens, NEW v \in Users,
             Liquidate(w, t, v, b)
      PROVE  FALSE
  <2>1. /\ s_BuscAmountMintedByUser'[v] < s_BuscAmountMintedByUser[v]
        /\ v # u => s_BuscAmountMintedByUser'[u] = s_BuscAmountMintedByUser[u]
    BY <1>5, LiquidateLeaves
  <2>2. s_BuscAmountMintedByUser'[u] \in Nat
    <3>1. IInv'
      BY StepSound DEF StepOK
    <3> QED BY <3>1, UintNat DEF IInv, DebtsOK
  <2> QED BY <1>1, <2>1, <2>2
<1> QED BY <1>3, <1>4, <1>5 DEF MotorCall, CheckedCall

\* What the tokens with a price are worth.
PricedWorth(u) ==
    SumFunction([t \in Listed |->
       IF priceFeed[t].answer > 0
       THEN ValueOf(t, s_userCollateralDeposits'[u][t]) ELSE 0])

LEMMA DebtOnPrices ==
  ASSUME SignedAnswers, IInv, WithinReports, [Next]_vars, NEW u \in Users,
         s_BuscAmountMintedByUser'[u] > s_BuscAmountMintedByUser[u]
  PROVE  PricedWorth(u) >= 2 * s_BuscAmountMintedByUser'[u]
<1>1. IInv'
  BY StepSound DEF StepOK
<1>2. CheckedCall(u)
  BY DebtTakenUp
<1>3. UNCHANGED priceFeed /\ Healthy(u)'
  BY <1>2, CheckedCallLeaves DEF OwnChecked
<1>4. MotorCall(u) /\ \E deposits : CollateralValueOK(deposits)
  <2>1. MotorCall(u)
    BY <1>2 DEF CheckedCall, MotorCall
  <2>2. \E deposits : CollateralValueOK(deposits)
    BY <1>2 DEF CheckedCall, MintBUSC, MintBUSCOK, BurnBUSC, BurnBUSCOK, PullCollateral,
                PullCollateralOK, DepositCollateralAndMintBUSC, PullCollateralAndBurnBUSC,
                HealthChecked, HealthFactorOK
  <2> QED BY <2>1, <2>2
<1>5. \A t \in Listed : priceFeed[t].answer >= 0 /\ priceFeed[t].answer \in Int
  BY <1>4, ValuedAtAnswers DEF IInv, WorldOK, PriceFeed
<1> DEFINE value == ValueAt(priceFeed, s_userCollateralDeposits'[u])
<1>6. /\ s_BuscAmountMintedByUser'[u] \in Nat
      /\ \A t \in Listed : s_userCollateralDeposits'[u][t] \in Nat
  <2>1. /\ s_BuscAmountMintedByUser'[u] \in Uint
        /\ \A t \in Tokens : s_userCollateralDeposits'[u][t] \in Uint
    BY <1>1 DEF IInv, BooksOK, DebtsOK
  <2>2. \A t \in Tokens : s_userCollateralDeposits'[u][t] \in Nat
    BY <2>1, UintNat
  <2> QED BY <2>1, <2>2, UintNat, MotorAssumption
<1>7. SumFunction(value) >= 2 * s_BuscAmountMintedByUser'[u]
  <2>1. SumFunction(value) \in Nat
    BY <1>6, ValuesNat DEF IInv, WorldOK
  <2>2. CalculateHealthFactor(s_BuscAmountMintedByUser'[u], SumFunction(value))
           >= MINIMUM_HEALTH_FACTOR
    BY <1>3, HealthOfIs DEF Healthy, HealthAt
  <2> HIDE DEF value
  <2> QED BY <1>6, <2>1, <2>2, HealthThreshold
<1>8. ASSUME NEW t \in Listed, ~(priceFeed[t].answer > 0)
      PROVE  ValueOf(t, s_userCollateralDeposits'[u][t]) = 0
  <2>1. priceFeed[t].answer = 0
    BY <1>5, <1>8
  <2>2. Price(0) = 0
    BY MathFacts DEF Price, Wrap
  <2>3. s_userCollateralDeposits'[u][t] * Scale[t] \in Nat
    BY <1>6, TimesNat, MotorAssumption
  <2> QED BY <2>1, <2>2, <2>3, MathFacts DEF ValueOf, ValueInUSD
<1>9. value = [t \in Listed |->
         IF priceFeed[t].answer > 0
         THEN ValueOf(t, s_userCollateralDeposits'[u][t]) ELSE 0]
  BY <1>8 DEF ValueAt, ValueOf
<1> HIDE DEF value
<1> QED BY <1>7, <1>9 DEF PricedWorth

LEMMA StepBuysNothing ==
  ASSUME SignedAnswers, IInv, WithinReports, [Next]_vars
  PROVE  /\ (\E t \in Listed : priceFeed[t].answer < 0) => NothingTaken
         /\ \A u \in Users, t \in Listed :
               (Lost(u, t) > 0 /\ Gained(u, t) < Lost(u, t)) => priceFeed[t].answer > 0
         /\ \A u \in Users :
               s_BuscAmountMintedByUser'[u] > s_BuscAmountMintedByUser[u] =>
                  PricedWorth(u) >= 2 * s_BuscAmountMintedByUser'[u]
<1>1. \A t \in Listed : priceFeed[t].answer \in Int /\ priceFeed[t].answer \in Reported
  BY DEF IInv, WorldOK, PriceFeed, WithinReports
<1>2. ASSUME NEW t \in Listed, priceFeed[t].answer < 0
      PROVE  NothingTaken
  <2>1. ~\E deposits : CollateralValueOK(deposits)
    BY <1>1, <1>2, ValuedAtAnswers
  <2> QED BY <2>1, CallsValue, UnvaluedTakesNothing
<1>3. ASSUME NEW u \in Users, NEW t \in Listed, Lost(u, t) > 0, Gained(u, t) < Lost(u, t)
      PROVE  priceFeed[t].answer > 0
  <2>1. TakenForDebt(u, t)
    BY <1>3, StepFair, MotorAssumption DEF LossesFair
  <2> QED BY <1>1, <2>1, SeizedAtPrice DEF TakenForDebt
<1> QED BY <1>2, <1>3, DebtOnPrices

(***************************************************************************)
(* With answers in the range of int256, and a feed of fewer decimals than  *)
(* the motor computes with, nobody gains by an answer of zero or below:    *)
(* whatever is called, negative ones stop debts and deposits from leaving, *)
(* and a token at zero is neither seized nor borrowed on.                  *)
(***************************************************************************)
THEOREM BadAnswersHarmless == ASSUME SignedAnswers PROVE Spec => BadAnswersBuyNothing
<1>1. IInv /\ WithinReports /\ [Next]_vars =>
         [/\ (\E t \in Listed : priceFeed[t].answer < 0) =>
               /\ UNCHANGED s_BuscAmountMintedByUser
               /\ \A u \in Users, t \in Tokens :
                     s_userCollateralDeposits'[u][t] >= s_userCollateralDeposits[u][t]
          /\ \A u \in Users, t \in Listed :
               LET lost == s_userCollateralDeposits[u][t] - s_userCollateralDeposits'[u][t]
                   gained == collateral'[t].balances[u] - collateral[t].balances[u]
               IN  (lost > 0 /\ gained < lost) => priceFeed[t].answer > 0
          /\ \A u \in Users :
               s_BuscAmountMintedByUser'[u] > s_BuscAmountMintedByUser[u] =>
                  SumFunction([t \in Listed |->
                     IF priceFeed[t].answer > 0
                     THEN ValueOf(t, s_userCollateralDeposits'[u][t]) ELSE 0])
                  >= 2 * s_BuscAmountMintedByUser'[u]]_vars
  BY StepBuysNothing DEF NothingTaken, Lost, Gained, PricedWorth
<1> QED BY <1>1, Invariance, InvariantReports, PTL DEF Spec, BadAnswersBuyNothing

=============================================================================
