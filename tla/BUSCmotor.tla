------------------------------ MODULE BUSCmotor -----------------------------
(***************************************************************************)
(* BUSCmotor.sol together with the contracts it calls: the BUSC token it   *)
(* owns, the ERC20 collateral tokens it holds and the price feeds it       *)
(* reads.                                                                  *)
(*                                                                         *)
(* A transaction of the EVM is atomic: it runs every statement of the      *)
(* function or, on any revert, leaves no trace.  One action is therefore   *)
(* one successful external call, its guard the conjunction of every check  *)
(* met on the way (modifiers, checked arithmetic, stale feeds, the tokens' *)
(* requires and the health factor).  A reverting call is a stuttering step.*)
(* Transactions of different users, price rounds and the clock interleave. *)
(***************************************************************************)
EXTENDS ERC20, OracleLib

CONSTANTS Users,          \* the externally owned accounts
          Motor,          \* address(this), the owner of BUSC
          Tokens,         \* ERC20 tokens that exist
          Listed,         \* s_collateralTokens: those given a price feed
          Scale,          \* 10 ** (18 - decimals) of each token
          InitBalance,    \* what each user holds of each token at the start
          InitAnswer,     \* the first answer of each feed
          Answers,        \* the answers later rounds may report
          RoundTimes,     \* the times that updateRoundData may give a round
          CollateralAmounts, BuscAmounts,  \* arguments of the motor's calls
          TransferAmounts, Approvals,      \* arguments of the tokens' calls
          Spenders,       \* the accounts that users approve
          MaxTime         \* the last block time explored

ASSUME MotorAssumption ==
    /\ IsFiniteSet(Users) /\ Motor \notin Users
    /\ Accounts = Users \cup {Motor}
    /\ IsFiniteSet(Tokens) /\ Listed \subseteq Tokens
    /\ Scale \in [Tokens -> Nat \ {0}]
    /\ InitBalance \in [Tokens -> [Accounts -> Uint]]
    /\ \A t \in Tokens : /\ InitBalance[t][Motor] = 0
                         /\ SumFunction(InitBalance[t]) \in Uint
    /\ InitAnswer \in [Listed -> Int] /\ Answers \subseteq Int
    /\ RoundTimes \subseteq Nat
    /\ CollateralAmounts \subseteq Uint /\ BuscAmounts \subseteq Uint
    /\ TransferAmounts \subseteq Uint /\ Approvals \subseteq Uint
    /\ Spenders \subseteq Accounts
    /\ MaxTime \in Nat

VARIABLES
    s_userCollateralDeposits,   \* per user and token
    s_BuscAmountMintedByUser,   \* the debt of each user
    busc,                       \* the ledger of I_BUSC
    collateral,                 \* the ledger of each collateral token
    priceFeed,                  \* s_tokenToPriceFeed: the feed of each token
    now                         \* block.timestamp

positions == <<s_userCollateralDeposits, s_BuscAmountMintedByUser>>
world == <<priceFeed, now>>
vars == <<positions, busc, collateral, world>>

TypeOK ==
    /\ s_userCollateralDeposits \in [Users -> [Tokens -> Uint]]
    /\ s_BuscAmountMintedByUser \in [Users -> Uint]
    /\ busc \in ERC20Ledger
    /\ collateral \in [Tokens -> ERC20Ledger]
    /\ priceFeed \in [Listed -> PriceFeed]
    /\ now \in Nat

Init ==
    /\ s_userCollateralDeposits = [u \in Users |-> [t \in Tokens |-> 0]]
    /\ s_BuscAmountMintedByUser = [u \in Users |-> 0]
    /\ busc = NewLedger([a \in Accounts |-> 0])
    /\ collateral = [t \in Tokens |-> NewLedger(InitBalance[t])]
    /\ priceFeed = [t \in Listed |-> NewRound(InitAnswer[t], 0)]
    /\ now = 0

-----------------------------------------------------------------------------
(* The health of a position: deposits is a function from tokens to amounts *)
(* and debt an amount of BUSC.  The loop over s_collateralTokens reads     *)
(* every feed, whatever the deposits and the debt.                         *)

ValueOf(t, amount) == ValueInUSD(priceFeed[t].answer, Scale[t], amount)

CollateralValue(deposits) ==
    SumFunction([t \in Listed |-> ValueOf(t, deposits[t])])

\* Mutation: the loop skips the tokens that the user does not hold.
CollateralValueHeldOK(deposits) ==
    /\ \A t \in {l \in Listed : deposits[l] # 0} :
          /\ StalePriceCheckOK(priceFeed[t], now)
          /\ ValueInUSDOK(priceFeed[t].answer, Scale[t], deposits[t])
    /\ CollateralValue(deposits) <= MaxUint

CollateralValueOK(deposits) ==
    /\ \A t \in Listed :
          /\ StalePriceCheckOK(priceFeed[t], now)
          /\ ValueInUSDOK(priceFeed[t].answer, Scale[t], deposits[t])
    /\ CollateralValue(deposits) <= MaxUint

HealthFactor(deposits, debt) ==
    CalculateHealthFactor(debt, CollateralValue(deposits))

\* Mutation: without debt the feeds are not read.
HealthFactorUnreadOK(deposits, debt) ==
    debt # 0 => /\ CollateralValueOK(deposits)
                /\ CalculateHealthFactorOK(debt, CollateralValue(deposits))

HealthFactorOK(deposits, debt) ==
    /\ CollateralValueOK(deposits)
    /\ CalculateHealthFactorOK(debt, CollateralValue(deposits))

\* _revertOnBrokenHealthFactor returns.
HealthChecked(deposits, debt) ==
    /\ HealthFactorOK(deposits, debt)
    /\ HealthFactor(deposits, debt) >= MINIMUM_HEALTH_FACTOR

-----------------------------------------------------------------------------
(* The steps that the motor's calls are made of.                           *)

\* Mutation: depositCollateral without protocolAllowedToken.
DepositAnyOK(u, t, amount) ==
    /\ amount > 0
    /\ AddOK(s_userCollateralDeposits[u][t], amount)
    /\ TransferFromOK(collateral[t], Motor, u, amount)

\* depositCollateral by u: checks, credit and transferFrom.
DepositOK(u, t, amount) ==
    /\ amount > 0
    /\ t \in Listed
    /\ AddOK(s_userCollateralDeposits[u][t], amount)
    /\ TransferFromOK(collateral[t], Motor, u, amount)

Deposited(u, t, amount) ==
    [s_userCollateralDeposits EXCEPT ![u][t] = @ + amount]

CollateralTakenIn(u, t, amount) ==
    [collateral EXCEPT ![t] = TransferFrom(@, Motor, u, Motor, amount)]

\* Mutation: only the check before the debt is booked.
MintCheckedBeforeOK(u, deposits, amount) ==
    LET debt == s_BuscAmountMintedByUser[u]
    IN  /\ amount > 0
        /\ HealthChecked(deposits, debt)
        /\ AddOK(debt, amount)
        /\ MintOK(busc, amount)

\* mintBUSC by a user whose deposits are the given ones: the health factor
\* is checked before and after the debt is booked.
MintBUSCOK(u, deposits, amount) ==
    LET debt == s_BuscAmountMintedByUser[u]
    IN  /\ amount > 0
        /\ HealthChecked(deposits, debt)
        /\ AddOK(debt, amount)
        /\ HealthChecked(deposits, debt + amount)
        /\ MintOK(busc, amount)

\* Mutation: the deposit must exceed the amount.
PullStrictOK(from, t, amount) ==
    /\ amount < s_userCollateralDeposits[from][t]
    /\ TransferOK(collateral[t], Motor, amount)

\* Mutation: the motor's balance is asked, the deposit is not.
PullAnyOK(from, t, amount) == TransferOK(collateral[t], Motor, amount)

\* _pullCollateral(from, to, t, amount): the deposit of one, the tokens to
\* another.
PullOK(from, t, amount) ==
    /\ amount <= s_userCollateralDeposits[from][t]
    /\ TransferOK(collateral[t], Motor, amount)

\* Mutation: tokens leave but the books are not written.
PulledUnbooked(from, t, amount) == s_userCollateralDeposits

Pulled(from, t, amount) ==
    [s_userCollateralDeposits EXCEPT ![from][t] = @ - amount]

CollateralPaidOut(to, t, amount) ==
    [collateral EXCEPT ![t] = Transfer(@, Motor, to, amount)]

\* _burnBUSC(debtor, payer, amount): the debt of one, the BUSC of another.
RepayOK(debtor, payer, amount) ==
    /\ amount <= s_BuscAmountMintedByUser[debtor]
    /\ TransferFromOK(busc, Motor, payer, amount)
    /\ BurnOK(TransferFrom(busc, Motor, payer, Motor, amount), Motor, amount)

Repaid(debtor, amount) ==
    [s_BuscAmountMintedByUser EXCEPT ![debtor] = @ - amount]

\* Mutations: the motor keeps the BUSC, or burns its own before it is paid.
BUSCKept(payer, amount) == TransferFrom(busc, Motor, payer, Motor, amount)

BUSCBurnedUnpaid(payer, amount) == Burn(busc, Motor, amount)

BUSCBurned(payer, amount) ==
    Burn(TransferFrom(busc, Motor, payer, Motor, amount), Motor, amount)

-----------------------------------------------------------------------------
(* The external functions of the motor, called by user u.                  *)

DepositCollateral(u, t, amount) ==
    /\ DepositOK(u, t, amount)
    /\ s_userCollateralDeposits' = Deposited(u, t, amount)
    /\ collateral' = CollateralTakenIn(u, t, amount)
    /\ UNCHANGED <<s_BuscAmountMintedByUser, busc, world>>

MintBUSC(u, amount) ==
    /\ MintBUSCOK(u, s_userCollateralDeposits[u], amount)
    /\ s_BuscAmountMintedByUser' = [s_BuscAmountMintedByUser EXCEPT ![u] = @ + amount]
    /\ busc' = Mint(busc, u, amount)
    /\ UNCHANGED <<s_userCollateralDeposits, collateral, world>>

DepositCollateralAndMintBUSC(u, t, amount, mint) ==
    /\ DepositOK(u, t, amount)
    /\ s_userCollateralDeposits' = Deposited(u, t, amount)
    /\ collateral' = CollateralTakenIn(u, t, amount)
    /\ MintBUSCOK(u, Deposited(u, t, amount)[u], mint)
    /\ s_BuscAmountMintedByUser' = [s_BuscAmountMintedByUser EXCEPT ![u] = @ + mint]
    /\ busc' = Mint(busc, u, mint)
    /\ UNCHANGED world

\* No protocolAllowedToken here: any token may be named.
PullCollateralOK(u, t, amount) ==
    /\ amount > 0
    /\ PullOK(u, t, amount)
    /\ HealthChecked(Pulled(u, t, amount)[u], s_BuscAmountMintedByUser[u])

PullCollateral(u, t, amount) ==
    /\ PullCollateralOK(u, t, amount)
    /\ s_userCollateralDeposits' = Pulled(u, t, amount)
    /\ collateral' = CollateralPaidOut(u, t, amount)
    /\ UNCHANGED <<s_BuscAmountMintedByUser, busc, world>>

BurnBUSCOK(u, amount) ==
    /\ amount > 0
    /\ RepayOK(u, u, amount)
    /\ HealthChecked(s_userCollateralDeposits[u], Repaid(u, amount)[u])

BurnBUSC(u, amount) ==
    /\ BurnBUSCOK(u, amount)
    /\ s_BuscAmountMintedByUser' = Repaid(u, amount)
    /\ busc' = BUSCBurned(u, amount)
    /\ UNCHANGED <<s_userCollateralDeposits, collateral, world>>

PullCollateralAndBurnBUSC(u, t, amount, burn) ==
    /\ burn > 0 /\ amount > 0
    /\ t \in Listed
    /\ RepayOK(u, u, burn)
    /\ s_BuscAmountMintedByUser' = Repaid(u, burn)
    /\ busc' = BUSCBurned(u, burn)
    /\ PullOK(u, t, amount)
    /\ s_userCollateralDeposits' = Pulled(u, t, amount)
    /\ collateral' = CollateralPaidOut(u, t, amount)
    /\ HealthChecked(Pulled(u, t, amount)[u], Repaid(u, burn)[u])
    /\ UNCHANGED world

-----------------------------------------------------------------------------
(* liquidate: user l covers debt of user u and takes u's deposit of t.     *)

Seized(t, debt) == SeizedCollateral(priceFeed[t].answer, debt)

\* Mutation: nobody asks whether u is unhealthy.
LiquidatableAlways(u) ==
    HealthFactorOK(s_userCollateralDeposits[u], s_BuscAmountMintedByUser[u])

\* The checks on u before the seizure.
Liquidatable(u) ==
    LET deposits == s_userCollateralDeposits[u]
        debt == s_BuscAmountMintedByUser[u]
    IN  /\ HealthFactorOK(deposits, debt)
        /\ HealthFactor(deposits, debt) < MINIMUM_HEALTH_FACTOR

\* The checks after it, on u and then on l, who may be u.
LiquidationHelped(l, u, deposits, debts) ==
    /\ HealthFactorOK(deposits[u], debts[u])
    /\ HealthFactor(deposits[u], debts[u]) >
          HealthFactor(s_userCollateralDeposits[u], s_BuscAmountMintedByUser[u])
    /\ HealthChecked(deposits[l], debts[l])

\* Mutation: _burnBUSC with its first two arguments equal, l pays l's debt.
SeizureOwnDebtOK(l, t, u, debt) ==
    /\ debt > 0
    /\ t \in Listed
    /\ Liquidatable(u)
    /\ SeizedCollateralOK(priceFeed[t].answer, debt)
    /\ PullOK(u, t, Seized(t, debt))
    /\ RepayOK(l, l, debt)

\* Every statement of liquidate up to the second health factor of u returns.
SeizureOK(l, t, u, debt) ==
    /\ debt > 0
    /\ t \in Listed
    /\ Liquidatable(u)
    /\ SeizedCollateralOK(priceFeed[t].answer, debt)
    /\ PullOK(u, t, Seized(t, debt))
    /\ RepayOK(u, l, debt)

LiquidateOK(l, t, u, debt) ==
    /\ SeizureOK(l, t, u, debt)
    /\ LiquidationHelped(l, u, Pulled(u, t, Seized(t, debt)), Repaid(u, debt))

\* Mutation: the bonus is paid out but not taken from u's deposit.
LiquidateBonusUnbooked(l, t, u, debt) ==
    /\ LiquidateOK(l, t, u, debt)
    /\ s_userCollateralDeposits' =
          Pulled(u, t, TokenAmountFromUSDwei(priceFeed[t].answer, debt))
    /\ collateral' = CollateralPaidOut(l, t, Seized(t, debt))
    /\ s_BuscAmountMintedByUser' = Repaid(u, debt)
    /\ busc' = BUSCBurned(l, debt)
    /\ UNCHANGED world

Liquidate(l, t, u, debt) ==
    /\ LiquidateOK(l, t, u, debt)
    /\ s_userCollateralDeposits' = Pulled(u, t, Seized(t, debt))
    /\ collateral' = CollateralPaidOut(l, t, Seized(t, debt))
    /\ s_BuscAmountMintedByUser' = Repaid(u, debt)
    /\ busc' = BUSCBurned(l, debt)
    /\ UNCHANGED world

-----------------------------------------------------------------------------
(* Calls that the users make on the tokens themselves.  Nobody can call    *)
(* for the motor, which approves no one and transfers only as above.       *)

BUSCTransfer(u, to, amount) ==
    /\ TransferOK(busc, u, amount)
    /\ busc' = Transfer(busc, u, to, amount)
    /\ UNCHANGED <<positions, collateral, world>>

BUSCApprove(u, spender, amount) ==
    /\ busc' = Approve(busc, u, spender, amount)
    /\ UNCHANGED <<positions, collateral, world>>

BUSCTransferFrom(u, from, to, amount) ==
    /\ TransferFromOK(busc, u, from, amount)
    /\ busc' = TransferFrom(busc, u, from, to, amount)
    /\ UNCHANGED <<positions, collateral, world>>

BUSCBurnFrom(u, from, amount) ==
    /\ BurnFromOK(busc, u, from, amount)
    /\ busc' = BurnFrom(busc, u, from, amount)
    /\ UNCHANGED <<positions, collateral, world>>

CollateralTransfer(u, t, to, amount) ==
    /\ TransferOK(collateral[t], u, amount)
    /\ collateral' = [collateral EXCEPT ![t] = Transfer(@, u, to, amount)]
    /\ UNCHANGED <<positions, busc, world>>

CollateralApprove(u, t, amount) ==
    /\ collateral' = [collateral EXCEPT ![t] = Approve(@, u, Motor, amount)]
    /\ UNCHANGED <<positions, busc, world>>

-----------------------------------------------------------------------------
(* The price feeds report rounds when they will, and blocks go by.         *)

UpdateAnswer(t, answer) ==
    /\ priceFeed' = [priceFeed EXCEPT ![t] = NewRound(answer, now)]
    /\ UNCHANGED <<positions, busc, collateral, now>>

\* A round with a time of its own, old or still to come.
UpdateRoundData(t, answer, time) ==
    /\ priceFeed' = [priceFeed EXCEPT ![t] = NewRound(answer, time)]
    /\ UNCHANGED <<positions, busc, collateral, now>>

Tick ==
    /\ now < MaxTime
    /\ now' = now + 1
    /\ UNCHANGED <<positions, busc, collateral, priceFeed>>

-----------------------------------------------------------------------------

MotorCall(u) ==
    \/ \E t \in Tokens, a \in CollateralAmounts :
          \/ DepositCollateral(u, t, a)
          \/ PullCollateral(u, t, a)
          \/ \E b \in BuscAmounts : \/ DepositCollateralAndMintBUSC(u, t, a, b)
                                    \/ PullCollateralAndBurnBUSC(u, t, a, b)
    \/ \E b \in BuscAmounts :
          \/ MintBUSC(u, b)
          \/ BurnBUSC(u, b)
          \/ \E t \in Tokens, v \in Users : Liquidate(u, t, v, b)

TokenCall(u) ==
    \/ \E to \in Accounts, a \in TransferAmounts :
          \/ BUSCTransfer(u, to, a)
          \/ \E from \in Users : BUSCTransferFrom(u, from, to, a)
          \/ \E t \in Tokens : CollateralTransfer(u, t, to, a)
    \/ \E from \in Users, a \in TransferAmounts : BUSCBurnFrom(u, from, a)
    \/ \E a \in Approvals :
          \/ \E spender \in Spenders : BUSCApprove(u, spender, a)
          \/ \E t \in Tokens : CollateralApprove(u, t, a)

WorldStep ==
    \/ \E t \in Listed, answer \in Answers :
          \/ UpdateAnswer(t, answer)
          \/ \E time \in RoundTimes : UpdateRoundData(t, answer, time)
    \/ Tick

Next ==
    \/ \E u \in Users : MotorCall(u) \/ TokenCall(u)
    \/ WorldStep

Spec == Init /\ [][Next]_vars

-----------------------------------------------------------------------------
(* What the state adds up to.                                              *)

TotalDeposits(t) ==
    SumFunction([u \in Users |-> s_userCollateralDeposits[u][t]])

TotalDebt == SumFunction(s_BuscAmountMintedByUser)

\* _healthFactor of a user, from the latest answers however old they are.
HealthOf(u) == HealthFactor(s_userCollateralDeposits[u], s_BuscAmountMintedByUser[u])
Healthy(u) == HealthOf(u) >= MINIMUM_HEALTH_FACTOR

FeedsFresh == \A t \in Listed : StalePriceCheckOK(priceFeed[t], now)

\* getValueInUSD of all the motor holds, the sum the fuzz tests compare
\* with the supply.
ProtocolValue ==
    SumFunction([t \in Listed |-> ValueOf(t, collateral[t].balances[Motor])])

-----------------------------------------------------------------------------
(* Safety invariants                                                       *)

(***************************************************************************)
(* The motor holds at least what its books owe: for each token its balance *)
(* covers the deposits of all users.  Deposits, pulls and liquidations     *)
(* change book and balance in different contracts (depositCollateral,      *)
(* _pullCollateral).                                                       *)
(***************************************************************************)
CustodyCovered ==
    \A t \in Tokens : TotalDeposits(t) <= collateral[t].balances[Motor]

(***************************************************************************)
(* Every BUSC in circulation is owed by someone: mintBUSC, _burnBUSC and   *)
(* the public burnFrom never leave the supply above the sum of the debts.  *)
(***************************************************************************)
SupplyBackedByDebt == busc.totalSupply <= TotalDebt

(***************************************************************************)
(* The unchecked blocks of the tokens never wrap: balances add up to the   *)
(* total supply, of BUSC and of each collateral token.                     *)
(***************************************************************************)
BalancesSumToSupply ==
    /\ SumFunction(busc.balances) = busc.totalSupply
    /\ \A t \in Tokens :
          SumFunction(collateral[t].balances) = collateral[t].totalSupply

(***************************************************************************)
(* As long as every position is healthy, what the motor holds is worth     *)
(* twice the BUSC in circulation (the 200% of BUSCmotor.sol:100), whatever *)
(* rounding each position's health factor went through.                    *)
(***************************************************************************)
OvercollateralizedWhenHealthy ==
    (\A u \in Users : Healthy(u)) => ProtocolValue >= 2 * busc.totalSupply

(***************************************************************************)
(* A user without debt can always take everything out, in one              *)
(* pullCollateral, while the feeds are fresh and report a sane price.      *)
(***************************************************************************)
ExitAlwaysOpen ==
    \A u \in Users, t \in Listed :
        LET deposit == s_userCollateralDeposits[u][t]
        IN  (/\ FeedsFresh /\ \A l \in Listed : priceFeed[l].answer > 0
             /\ s_BuscAmountMintedByUser[u] = 0
             /\ deposit > 0)
            => PullCollateralOK(u, t, deposit)

(***************************************************************************)
(* An unhealthy position that still holds 110% of its debt in one token    *)
(* can be closed at once by any healthy user who has the BUSC and approved *)
(* the motor: liquidate for the whole debt succeeds.                       *)
(***************************************************************************)
LiquidationAvailable ==
    \A l, u \in Users, t \in Listed :
        LET debt == s_BuscAmountMintedByUser[u]
        IN  (/\ FeedsFresh /\ \A f \in Listed : priceFeed[f].answer > 0
             /\ l # u /\ Healthy(l) /\ ~Healthy(u)
             /\ 100 * ValueOf(t, s_userCollateralDeposits[u][t]) >= 110 * debt
             /\ TransferFromOK(busc, Motor, l, debt))
            => LiquidateOK(l, t, u, debt)

-----------------------------------------------------------------------------
(* Action properties                                                       *)

(***************************************************************************)
(* Only a new price can make a healthy user unhealthy: no call, of the     *)
(* user or of anybody else, does.                                          *)
(***************************************************************************)
OnlyPricesHurt ==
    [][UNCHANGED priceFeed => \A u \in Users : Healthy(u) => Healthy(u)']_vars

(***************************************************************************)
(* A deposit leaves its owner for another's wallet only in a liquidation:  *)
(* the owner was unhealthy, sheds debt and ends with a better health       *)
(* factor.                                                                 *)
(***************************************************************************)
OnlyUnhealthyLose ==
    [][\A u \in Users, t \in Tokens :
          LET lost == s_userCollateralDeposits[u][t] - s_userCollateralDeposits'[u][t]
              gained == collateral'[t].balances[u] - collateral[t].balances[u]
          IN  (lost > 0 /\ gained < lost) =>
                 /\ ~Healthy(u)
                 /\ s_BuscAmountMintedByUser'[u] < s_BuscAmountMintedByUser[u]
                 /\ HealthOf(u)' > HealthOf(u)]_vars

(***************************************************************************)
(* What a liquidation takes from a user is worth at most 110% of the debt  *)
(* it clears, rounding included.                                           *)
(***************************************************************************)
SeizureBounded ==
    [][\A u \in Users, t \in Listed :
          LET lost == s_userCollateralDeposits[u][t] - s_userCollateralDeposits'[u][t]
              gained == collateral'[t].balances[u] - collateral[t].balances[u]
              cleared == s_BuscAmountMintedByUser[u] - s_BuscAmountMintedByUser'[u]
          IN  (lost > 0 /\ gained < lost)
                 => 100 * ValueOf(t, lost) <= 110 * cleared]_vars

(***************************************************************************)
(* BUSC sent to the motor by mistake stays there: _burnBUSC burns what it  *)
(* has just been sent and nothing more, so no debt is paid with a          *)
(* stranger's BUSC.                                                        *)
(***************************************************************************)
StrayBUSCUntouched ==
    [][busc'.balances[Motor] >= busc.balances[Motor]]_vars

(***************************************************************************)
(* A token without a feed that ends up in the motor can never be pulled    *)
(* out, although pullCollateral does not check that the token is allowed.  *)
(***************************************************************************)
UnlistedTokensStay ==
    [][\A t \in Tokens \ Listed :
          collateral'[t].balances[Motor] >= collateral[t].balances[Motor]]_vars

(***************************************************************************)
(* While any feed is stale no debt changes, no deposit shrinks, no BUSC is *)
(* minted and no collateral leaves the motor, not even for users without   *)
(* debt or deposits of other tokens.                                       *)
(***************************************************************************)
FrozenWhenStale ==
    [][~FeedsFresh =>
          /\ UNCHANGED s_BuscAmountMintedByUser
          /\ busc'.totalSupply <= busc.totalSupply
          /\ \A u \in Users, t \in Tokens :
                s_userCollateralDeposits'[u][t] >= s_userCollateralDeposits[u][t]
          /\ \A t \in Tokens :
                collateral'[t].balances[Motor] >= collateral[t].balances[Motor]]_vars

(***************************************************************************)
(* Nobody profits from an answer that the oracle lets through and that is  *)
(* no price.  A negative one, cast to uint256, overflows: the motor stops  *)
(* as with a stale feed, also for users of other tokens.  A token priced   *)
(* at zero is not seized, and no debt is taken up on it: the tokens with a *)
(* price are worth twice the debt.                                         *)
(***************************************************************************)
BadAnswersBuyNothing ==
    [][/\ (\E t \in Listed : priceFeed[t].answer < 0) =>
             /\ UNCHANGED s_BuscAmountMintedByUser
             /\ \A u \in Users, t \in Tokens :
                   s_userCollateralDeposits'[u][t] >= s_userCollateralDeposits[u][t]
       /\ \A u \in Users, t \in Listed :
             LET lost == s_userCollateralDeposits[u][t] - s_userCollateralDeposits'[u][t]
                 gained == collateral'[t].balances[u] - collateral[t].balances[u]
             IN  (lost > 0 /\ gained < lost) => priceFeed[t].answer > 0
       /\ \A u \in Users :
             s_BuscAmountMintedByUser'[u] > s_BuscAmountMintedByUser[u] =>
                SumFunction([t \in Listed |->
                   IF priceFeed[t].answer > 0
                   THEN ValueOf(t, s_userCollateralDeposits'[u][t]) ELSE 0])
                >= 2 * s_BuscAmountMintedByUser'[u]]_vars

-----------------------------------------------------------------------------
(* The abstract specification.                                             *)

Vault == INSTANCE BUSCvault WITH
    deposits <- s_userCollateralDeposits,
    debts <- s_BuscAmountMintedByUser,
    coins <- [u \in Users |-> [t \in Tokens |-> collateral[t].balances[u]]],
    cash <- [u \in Users |-> busc.balances[u]],
    prices <- [t \in Listed |-> priceFeed[t].answer]

(***************************************************************************)
(* The motor implements BUSCvault, and a call of u is a step of u there:   *)
(* the rounded health factor stands for collateral worth twice the debt,   *)
(* and although mintBUSC, pullCollateral, liquidate and the rest check it  *)
(* at different moments and of different users, nobody but the owner has   *)
(* a covered position changed, and what moves between positions and        *)
(* wallets, of every token and of BUSC, balances between the two users     *)
(* that the call is about.                                                 *)
(***************************************************************************)
ImplementsVault ==
    /\ Vault!VaultSpec
    /\ [][\/ UNCHANGED positions
          \/ \A u \in Users : Vault!Call(u) \/ ~MotorCall(u)]_vars

-----------------------------------------------------------------------------
(* Promises of the documentation and of the tests that the code does not   *)
(* keep.                                                                   *)

(***************************************************************************)
(* The value of the collateral never falls below the BUSC in circulation:  *)
(* BUSCmotor.sol:45, README "Perpetually Overcollateralized", and the      *)
(* assertion of the fuzz tests, whatever prices the feeds report.          *)
(***************************************************************************)
PerpetuallyOvercollateralized == ProtocolValue >= busc.totalSupply

(***************************************************************************)
(* The README's freeze: with a stale feed no call of the motor changes     *)
(* anybody's position.                                                     *)
(***************************************************************************)
CompletelyFrozenWhenStale == [][~FeedsFresh => UNCHANGED positions]_vars

(***************************************************************************)
(* The comment on liquidate's last guard: the health factor of the user    *)
(* always improves, so that the revert is never reached.                   *)
(***************************************************************************)
LiquidationAlwaysImproves ==
    \A l, u \in Users, t \in Listed, debt \in BuscAmounts :
        SeizureOK(l, t, u, debt) =>
            HealthFactor(Pulled(u, t, Seized(t, debt))[u], Repaid(u, debt)[u]) >
               HealthOf(u)

(***************************************************************************)
(* The comment on burnBUSC's health check, kept for "0.00001% events" and *)
(* said to be removable: a user who has the BUSC, approved the motor and   *)
(* owes that much can repay it.                                            *)
(***************************************************************************)
RepaymentNeverRefused ==
    \A u \in Users, amount \in BuscAmounts :
        (FeedsFresh /\ amount > 0 /\ RepayOK(u, u, amount)) => BurnBUSCOK(u, amount)

=============================================================================
