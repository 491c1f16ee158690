# BUSC: a verification project

TLA+ models of the BUSC stablecoin protocol (`src/src`), TLC runs that check
them on small instances, and TLAPS proofs for every value of the constants.
Paths below are relative to the repository's root, except that `src/` of the
project map stands for that root.

## 1. The system

Four kinds of contracts call each other; there are no threads, queues or
messages. The EVM runs one transaction at a time, and a transaction either runs
to its end or, on any `revert`, leaves no trace.

| part | state | operations | calls |
|---|---|---|---|
| **BUSCmotor** (`src/BUSCmotor.sol`) | deposit of each user and token, debt (BUSC minted) of each user; the list of tokens and their feeds, fixed by the constructor; the lock of `ReentrancyGuard` | `depositCollateral`, `mintBUSC`, `depositCollateralAndMintBUSC`, `pullCollateral`, `burnBUSC`, `pullCollateralAndBurnBUSC`, `liquidate`, views | tokens, BUSC, feeds through OracleLib |
| **BUSC** (`src/BUSCstablecoin.sol`) | an ERC20 ledger and an owner: the deployer, then the motor | `mint`, `burn`, `transferOwnership`, `renounceOwnership` for the owner; `burnFrom` and all of ERC20 for everybody | – |
| **collateral tokens** (WETH, WBTC; OpenZeppelin ERC20 here) | a ledger each: balances, allowances, supply | `transfer`, `approve`, `transferFrom` | nobody; an ERC777 token would call its holders back |
| **price feeds** (Chainlink; `MockV3Aggregator` here) | the latest round, twice: in two variables and in mappings by round number | `updateAnswer`, `updateRoundData`, `latestRoundData` | – |
| **OracleLib** | none | the staleness check (2 hours) | feeds |
| **DeployBUSC / HelperConfig** | the next transaction of the script; the settings of the network | three transactions: BUSC, motor, `transferOwnership` | BUSC, motor |

What is hard about it:

- *interleaving*: owner, other users, liquidators, price rounds and the passing of
  time act on the same position in any order between two transactions;
- *state spread over contracts*: a deposit is a book entry in the motor and a
  balance in the token, a debt is a book entry and part of a supply, and users
  can call the tokens directly (`transfer` to the motor, the public `burnFrom`);
- *stale data*: health is known only at the time of a call; feeds go stale and
  report zero or negative answers;
- *numbers*: fixed point with two scales, rounding divisions in a row, checked
  multiplication in one contract and unchecked addition in another, tokens of
  different decimals;
- *liquidation at the edge*: between 200% and 110% it repairs, below 110% it
  would make things worse;
- *callbacks*: the motor calls tokens in the middle of its functions, with the
  books half written, and two of its functions (`burnBUSC`,
  `pullCollateralAndBurnBUSC`) do not take the lock. A token that calls its holder
  back lets calls nest, and an inner call may revert while the outer one goes on;
- *deployment in pieces*: between its three transactions the contracts exist, are
  open to everybody, and BUSC does not belong to the motor yet;
- *rounds of any number and time*: a feed may report the past, the future, or a
  number that it used before.

What makes each part correct: the motor holds what it owes (custody); BUSC is
never unbacked by debt; only prices can hurt a healthy user; only unhealthy
users lose collateral, and a bounded amount; users without debt can leave;
unhealthy users can be liquidated; a stale feed stops everything that needs a
price. For tokens: balances add up to the supply. For the arithmetic: the health
threshold is exact, conversions round down, and answers that are
no prices let nobody gain. `PROJECT.json` lists the hazards by line.

## 2. The modules

| module | models |
|---|---|
| `BUSCmath` | fixed-point functions of the motor; each `F` has `FOK`, true when the call returns instead of reverting. The width of `uint256` (`MaxUint`) and the two decimal scales (`WAD`, `FEED`) are constants |
| `ERC20` | OpenZeppelin's ledger as a record, each function as a condition and a new ledger; unchecked arithmetic wraps |
| `OracleLib` | a feed, a new round, the staleness check with its underflow |
| `BUSCmotor` | the state machine of the four kinds of contracts together, a call at a time |
| `BUSCvault` | the abstract specification: positions that are covered or not, the wallets they are filled from, and who may do what to whom; no allowances, checks or fixed-point health factors |
| `BUSCmotorSteps` | `BUSCmotor` with tokens that call back: its calls cut at the callback, the lock, reverts of inner calls |
| `BUSCstablecoin` | the owner of BUSC and what only the owner may do |
| `DeployBUSC` | the script, the constructor, and what others do meanwhile and afterwards; composes `BUSCmotor` and `BUSCstablecoin` |
| `MockV3Aggregator` | the feed of local deployments, with its mappings, read by `OracleLib` |
| `LatestRound` | what `BUSCmotor` assumes of a feed |
| `MC...` | constants for TLC; `MCBUSCmath` also walks a grid of inputs, `MCBUSCmotorSteps` starts from approved wallets |
| `BUSCmathProofs` | sums over finite sets, and division, rounding and overflow checks for every argument |
| `MCBUSCmathProofs` | the properties of `math` on a grid of any size |
| `BUSCmotorProofs` | every operation of a token keeps its ledger sound (balances add up to the supply); the inductive invariant of the motor and the theorems about books and tokens |
| `BUSCmotorHealthProofs` | the theorems about health, losses and availability, that nobody gains by answers that are no prices, and that `BUSCmotor` implements `BUSCvault` |
| `BUSCmotorStepsProofs` | the invariant between any two statements, callbacks and reverts included |
| `BUSCmotorTransactionProofs` | what whole transactions leave behind, and when they are one step of `BUSCmotor` |
| `MockV3AggregatorProofs` | the aggregator implements `LatestRound` |
| `DeployBUSCProofs` | the constructor's lists, BUSC while it changes hands, and the motor's guarantees from its deployment on |

**`BUSCmotor`**, one action per successful external call:

- `s_userCollateralDeposits`, `s_BuscAmountMintedByUser`: the mappings of the same name;
  `busc`, `collateral[t]`: the ledgers of `I_BUSC` and the tokens; `priceFeed[t]`:
  what `latestRoundData()` returns of interest; `now`: `block.timestamp`.
- The guard of an action is the conjunction of all that may revert on the way:
  modifiers, checked arithmetic, the tokens' requires, a stale feed, a zero price,
  the health factor. A call that reverts changes nothing and is a stuttering step.
  Composite calls are built from the same steps as the simple ones
  (`DepositOK`/`Deposited`, `PullOK`/`Pulled`, `RepayOK`/`Repaid`), in the order of
  the code: e.g. `mintBUSC` inside `depositCollateralAndMintBUSC` sees the new
  deposits, and checks health before *and* after booking the debt.
- `HealthFactor...` reads the feed of every listed token, whether or not the user
  has any of it and whether or not there is debt: so does the loop of
  `getCollateralValueOfTheAccountInUSD`.
- Users also act on the tokens: `transfer`, `approve`, `transferFrom` and `burnFrom`
  of BUSC, `transfer` and `approve` of collateral, to any account, the motor included.
- The environment: `UpdateAnswer`, `UpdateRoundData` with a time out of `RoundTimes`,
  past or future, and `Tick`.

**`BUSCmotorSteps`**, for tokens that call the sender before a transfer and the receiver
after it, as ERC777 does:

- A call that moves collateral is two actions. `Enter...` runs the statements before the
  callback and pushes a frame on `stack` with the arguments, the local variables
  still needed (for `liquidate` the starting health factor) and the state the call
  found (`saved`); `Leave...` runs the rest. Calls without a callback stay one step
  and may happen at any depth. `TokensArrive` is the part of `transferFrom` after the
  sender was called.
- `Revert` gives up the innermost waiting call and restores its `saved` state, the
  lock included. What encloses it may go on, which is more than the motor's own
  calls do (they pass a revert on), but what a caller between them may do.
- `entered` is `_status = _ENTERED`. `callers` names the users whose calls the present
  transaction has made, `reentered` says that one of them came from a callback;
  both are history, no guard reads them.
- Prices and time move only when no call waits: a transaction has one block.

**`DeployBUSC`**: `step` is the next transaction of `run()`; `owner` is `_owner` of BUSC;
`s_collateralTokens` and `s_tokenToPriceFeed` are what the constructor writes; `unbacked`
is history: all that owners other than the motor ever minted. The actions of
`BUSCmotor` are enabled as soon as the contract they call exists, those that mint or
burn under the `onlyOwner` of BUSC. Any user who owns BUSC may mint, burn, pass it on or
renounce it.

The constructor's check of the BUSC address is `BUSCExists`: the script always passes the
address it just deployed to, so that check cannot fail from there. The collateral tokens
are older than the script and can be called before its first transaction.

**`MockV3Aggregator`**: the mappings `getAnswer`, `getTimestamp`, `getStartedAt` are functions
of the round; `RoundIds` is 2^80, so that the counter, a `uint256`, can outgrow the
`uint80` that `updateRoundData` takes and `latestRoundData` returns.

`Mutation` comments mark faulty variants of the definition that follows. Nothing
uses them in the specification: each stands for a plausible bug, and a property
is worth keeping when TLC finds it violated with the variant in place.

### Fairness

The contracts are passive, no scheduler runs them and nobody is obliged to call, so
nothing is assumed of users, owners or reporters. What other systems state as
liveness of calls is stated as availability in a state, i.e. that a call would
succeed (`ExitAlwaysOpen`, `LiquidationAvailable`). Two things do act by themselves:

- `WF(Script)` in `DeployBUSC`: the script broadcasts its transactions one after the
  other, and the chain mines a transaction that does not revert. Weak fairness is
  enough: calls of others never disable the next one (only giving BUSC away does),
  which is what `HandoverCompletes` checks.
- `WF(Tick)` in `MockV3Aggregator`: blocks are produced whatever the contracts do. That a
  feed reports is not assumed: `FutureRoundsArrive` and `SilenceFreezes` are about
  one that does not.

## 3. The runs

In all motor runs there are two users (symmetric: no constant tells them apart,
except in `deploy`, where one of them deploys) and the motor. Two are enough for
every relation the code has between accounts: debtor and payer, victim and
liquidator, owner and spender, caller and bystander, and the cases where they
coincide. A unit of USD is 10 (`WAD`), a feed step is worth $0.20 (`FEED` = 2),
so an answer of 10 is $2. Deadlock is checked, except on the grid of `math`,
which has a last point.

| run | bounds | shows |
|---|---|---|
| `prices` | one token, wallets of 20, answers 4, 7, 10, amounts 10 and 20, infinite allowances for the motor, no clock; 255,237 states | custody, over-collateralization while all are healthy, exit, liquidation; only prices hurt, only unhealthy users lose, at most 110%; every step is one of `BUSCvault`, and a call is a step of its caller there |
| `stale` | two listed tokens of scale 1 and 10 that start at answers 10 and 4, new answers -1, 0, 4, debts of 9, clock 0..2, timeout 1, rounds also dated 0 and 2; 325,230 states | the freeze: what may and what may not change while a feed is stale or dated in the future; exit once feeds are fresh again; what a negative or zero answer lets happen |
| `tokens` | a listed and an unlisted token, finite allowances, all spenders, transfers to anybody; 261,344 states | ledgers add up, stray BUSC and unlisted tokens never leave the motor, BUSC stays backed by debt, `burnFrom` included |
| `math` | answers -1 to 12, the negative one wraps; amounts to 45, sums to 20, a word of 11 bits; 13,524 points | the 200% threshold is exact, conversions are inverse up to rounding down, splitting a liquidation gains nothing |
| `steps` | one token, wallets of 10, a fall of the price from 10 to 4, amounts 5 and 10, a feed that is stale after one tick, two waiting calls; 1,935,159 states | custody and the lock between statements; no transaction leaves anybody worse off; bystanders keep what they have; what a transaction leaves is as sound, and as frozen while the feed is stale, as after the calls of `BUSCmotor`; without nested calls it is one step of `BUSCmotor` |
| `deploy` | one token, good settings and one for each check that the constructor makes of its lists, owners mint up to 10; 30,778 states | who can mint without debt and until when, and over-collateralization with that counted; no debt before the handover; the constructor's lists agree; the handover is final and happens |
| `feed` | answers -1 and 7, a round number of one bit and a counter that passes it, rounds dated 0 and 3, clock 0..5; 10,928 states | the two copies of a round agree, the latest report is shown, future rounds are accepted in time, old ones rejected in time |
| `crash`, `freeze`, `worsen`, `repay`, `decimals` | as `prices` or `stale` | violations, section 5 |

The prices of `prices` are chosen so that a position taken at $2 (answer 10) can be
healthy, between 110% and 200%, and below 110% after a round. Wallets bound the
collateral, and through the health factor the debt, so `prices`, `tokens` and `steps`
need no other bound on amounts; `MaxTime` bounds the clock, `MaxUnbacked` what owners
mint, `MaxRound` and `MaxStamp` the rounds. `MaxUint` is wide enough
that the bounds above are met first, except in `math` and for the negative answers of
`stale`, which wrap to the top of the word and overflow there as they do in uint256.
`MaxDepth` = 2 in `steps` lets a callback make a call that waits for a callback of its
own, in which direct calls and reverts still happen; the proofs have no such bound on
what they show. `steps` starts after the approvals that every script and test makes
first; approvals in other states are in the proofs. `deploy` explores the
clock-free motor: no transaction of the script reads a feed.

## 4. The proofs

The theorems hold for any finite set of users and tokens, any scales, balances,
prices, amounts, times, depth and word width that satisfy the named assumptions
(`MathAssumption`, `AccountsAssumption`, `TimeoutAssumption`, `MotorAssumption`,
`DepthAssumption`, `DeployAssumption`, `AggregatorAssumption`: types, finiteness, the
motor is not a user and starts with nothing; `SettingsAssumption`: `Listed`, which
`BUSCmotor` takes for the motor's list, is what the settings list that the
constructor accepts); a theorem that needs more names it.

| theorem | property | module |
|---|---|---|
| `TypeCorrect` | `TypeOK` | `BUSCmotorProofs` |
| `Custody` | `CustodyCovered` | |
| `SupplyBacked` | `SupplyBackedByDebt` | |
| `LedgersSound` | `BalancesSumToSupply` | |
| `StrayUntouched` | `StrayBUSCUntouched` | |
| `UnlistedStay` | `UnlistedTokensStay` | |
| `Frozen` | `FrozenWhenStale` | |
| `PricesOnlyHurt` | `OnlyPricesHurt` | `BUSCmotorHealthProofs` |
| `UnhealthyLose` | `OnlyUnhealthyLose` | |
| `SeizureWithinBonus` | `SeizureBounded`, for tokens of 18 decimals | |
| `HealthyMeansBacked` | `OvercollateralizedWhenHealthy` | |
| `VaultImplemented` | `ImplementsVault` | |
| `ExitNeverBlocked` | `ExitAlwaysOpen`, if all values fit the word | |
| `LiquidationNeverBlocked` | `LiquidationAvailable`, if all values fit, tokens of 18 decimals | |
| `BadAnswersHarmless` | `BadAnswersBuyNothing`, for answers of the width of int256 and a feed step of at least 2 | |
| `StepsTyped` | `StepsTypeOK` | `BUSCmotorStepsProofs` |
| `CustodyKept` | `CustodyDuringCallbacks` | |
| `LockKept` | `LockFollowsCalls` | |
| `SupplyBackedInCallbacks` | `SupplyBackedByDebt`, between any two statements | |
| `LedgersSoundInCallbacks` | `BalancesSumToSupply`, likewise | |
| `TransactionsLeaveSound` | `SoundBetweenTransactions` | |
| `WorseForNobody` | `NobodyLeftWorse` | `BUSCmotorTransactionProofs` |
| `BystandersSafe` | `BystandersKept` | |
| `AtomicWithoutReentry` | `UnreenteredAtomic` | |
| `FrozenThroughCallbacks` | `FrozenTransactions` | |
| `DeployTyped` | `DeployTypeOK` | `DeployBUSCProofs` |
| `ListAgrees` | `ListAndFeedsAgree` | |
| `UnbackedIsTheOwners` | `UnbackedByOwnersOnly` | |
| `DebtWaitsForHandover` | `NoDebtBeforeHandover` | |
| `HandoverLasts` | `HandoverIsFinal` | |
| `HealthyMeansBackedButForOwners` | `OvercollateralizedButForOwners` | |
| `DeployCustody`, `DeployLedgersSound` | `CustodyCovered`, `BalancesSumToSupply` | |
| `DeployPricesOnlyHurt`, `DeployUnhealthyLose` | `OnlyPricesHurt`, `OnlyUnhealthyLose` | |
| `AggregatorTyped` | `AggregatorTypeOK` | `MockV3AggregatorProofs` |
| `CopiesKept` | `CopiesAgree` | |
| `AggregatorImplements` | `ShowsLatestReport` | |
| `HealthIsTwiceTheDebt` | `HealthMeansTwiceTheDebt` | `MCBUSCmathProofs` |
| `AmountIsLargest` | `AmountIsTheLargestCovered` | |
| `SplittingNeverPays` | `SplittingSeizesNoMore` | |

**Books and tokens.** All but backing follow from `Invariance`, `Spec => []IInv`. None of the
properties is inductive alone. Types need that a credit does not overflow: the ledger
credits unchecked, so the bound of one balance comes from the sum of all
(`SoundLedger`). Custody needs soundness too, because a credit to the motor that
wrapped would lose what it owes, and the sum of the deposits, because a seizure
moves one user's. `UnlistedTokensStay` needs that deposits exist in listed tokens only, since
`pullCollateral` does not check the token. `IInv` is the conjunction of `WorldOK` (feeds
and clock), `BooksOK` (deposits against collateral) and `DebtsOK` (debts against BUSC),
so that each action disturbs one part; `StepSound` has one step per action, and one
lemma per building block (`DepositSound`, `PullSound`, `MintBUSCSound`, `RepaySound`)
does the work.

`IInv` does not bound the supply. Backing is the statement of every step that
what no debt backs (`Unbacked`, the supply less the debts) does not grow: minting
raises debt and supply alike (`MintBUSCKeeps`), a repayment lowers both by the same
(`RepayKeeps`), and what users do to BUSC directly never raises its supply
(`SupplyKeeps`). In `Spec` it starts at zero and `SupplyBacked` follows; where owners
mint or callbacks interrupt, the same lemmas are used with another start.

**Health.** `PricesOnlyHurt` has one hard case, `depositCollateral`, the only call that
changes a position and checks no health: a larger deposit is worth no less
(`ValueMonotone`), a sum of larger values is no smaller (`SumFunctionMonotone`), and the
threshold depends on the value alone (`HealthThreshold`). Every other call either checks
the position it leaves or, in a liquidation, writes the position of a user who was
unhealthy; the check of the liquidator covers the one who liquidates. `UnhealthyLose` needs
that a transfer credits what it debits (`TransferSound`), so that a pull pays the
owner all that the books lose. `HealthyMeansBacked` sums twice: the users are added one by
one (`HealthyUserAdds`), each bringing collateral worth twice the debt, where the
value of a sum of deposits is no less than the sum of their values because every
division rounds down; custody then passes from the books to what the motor
holds. `SeizureWithinBonus` follows each seizure back to the debt it was taken for
(`TakenForDebt`) and uses `SeizureWorth`; it asks for 18 decimals because the amount ignores
those of the token. `VaultImplemented` takes each call to one step of `BUSCvault`, and a call
of `u` to a step of `u` there: covered is healthy through both roundings,
`depositCollateral` adds, `liquidate` seizes from a user who was not covered, and the
others end with a check of their caller and touch no position but the caller's. That
what a position loses is what the caller's wallet gains, in every token and in BUSC, is
`CoinsFlow` and `CashFlow`, which follow a transfer and a burn through the ledgers.

**Availability.** `ExitNeverBlocked` and `LiquidationNeverBlocked` assume `ValuesFit`: all the
collateral that exists, valued at any prices the feeds may report, can be multiplied by
the threshold and by 10^18 within the word (with
real prices and supplies more than twenty digits are left; the constants of `prices` satisfy
it too). Without it they are
false: a value that overflows reverts every call that reads it. `WithinReports`, a second
invariant, says that no call creates collateral and that feeds show reported answers, so
a deposit is never more than what exists and each check of the arithmetic passes
(`ValuesWithin`, `HealthComputable`). Exit then needs the balance from custody and the rule for a
debt of zero. A liquidation of the whole debt leaves debt zero, the best health factor there
is; that the deposit covers the seizure is `SeizureCovered`, where 110% of the debt in
the deposit's rounded value is enough for the rounded amount and its bonus.

**Answers that are no prices.** `BadAnswersHarmless` has three parts. A negative answer,
cast to `uint256`, lies in the upper half of the word, so its product with the feed step
overflows; every call but `depositCollateral` values all listed tokens and reverts. A seizure
divides by the price, so a token at zero is not seized, and only its owner takes it
out. Debt rises only in a call that ends with the check of its caller, where tokens
priced at zero add nothing to the value that must be twice the debt.

**Callbacks.** `StepsInv` says of the present, and of every saved state on the stack, that
ledgers are sound, books are covered up to what the deposits waiting below still
bring, and the lock follows the calls below. Saying it of the saved states makes
`Revert` a case like the others: what comes back was sound when it was saved, and the
frames below it are the same. `Leave...Deposit` pays exactly what it was still due
(`DueAppend`). When no call waits nothing is due, `StepsInv` is the invariant of
`BUSCmotor` (`BooksAtRest`), and what follows from that in one state holds again after
every transaction: `TransactionsLeaveSound`. `NobodyLeftWorse` and `BystandersKept` speak of the end of a transaction;
`FairInv` is what is true in its middle. Each user is no worse off than in the committed
state, or healthy, or some waiting call will read that user's health factor before it
returns. A bystander's position is untouched, or improved by a finished
liquidation, or in the middle of one; that no second liquidation starts meanwhile
is the lock. When the last call leaves nothing waits, and the first alternatives
are the property. `AtomicWithoutReentry` needs `BegunInv`: until somebody calls from a
callback one call waits, and the state is exactly what its first statements made of the
committed one; then the two halves compose to the action of `BUSCmotor`, and what it
committed before is untouched until then. `FrozenThroughCallbacks` needs only which calls
wait (`FrozenInv`): while a feed is stale, as long as only deposits do, nothing has left
since the committed state; as soon as another call waits, it will ask for a health factor
that cannot be computed, and only its revert is left.

The proofs also show how little rests on the lock: `burnBUSC` and
`pullCollateralAndBurnBUSC` do without it, and custody, types and `NobodyLeftWorse` follow from
the order of the statements (books before tokens, health after the callback).
Only `BystandersKept` uses it (`NoneSeizing`), for the health factor that `liquidate` reads early.

**Deployment.** `DeployInv` is the `IInv` of the motor, which does not mention the owner of
BUSC, with `OwnerInv`, that what no debt backs was minted by owners, that nobody owes while
the motor is not the owner, and that BUSC has no owner before it exists, and `ScriptInv`,
which says what the constructor has written so far. Each step is one of `BUSCmotor`'s,
where `StepSound` does the work, or a mint or burn of an owner, or leaves the state of
`BUSCmotor` alone; so custody, ledgers and the two action properties carry over
from the motor to its deployment. An owner's burn does not lower `unbacked`, which is why it
is an upper bound. `HandoverLasts` follows because the motor makes no ownership call and is
not a user. `ListAgrees` needs that the accepted lists have no token twice
(`ListedOnce`), so that the feed written last for a token is the only one.

**Feeds.** `CopiesKept` is inductive; `AggregatorImplements` maps each report to a report of
`LatestRound`: the mappings are read at the number just written.

**Arithmetic.** `BUSCmathProofs` needs no state machine: `HealthThreshold` (the
minimum is reached exactly at twice the debt, whatever the two divisions
round), `MulExact` (the overflow check by division is exact), `LargestAmountCovered`,
`SeizureWorth` (a seizure is worth at most 110% of its debt) and `SplitSeizure` (the amount and
the bonus are rounded down, so splitting a seizure gains nothing). They are what `math`
checks on a grid, and `MCBUSCmathProofs` states them of its variables for a grid of any
size. Sums over sets come from
`SumFunction`, defined by a fold; the lemmas show that it has the recursive property
(by induction over subsets, stated as a set so that no operator parameter is
needed) and what updating one argument does to a sum.

Model-checked only are `HandoverCompletes`, `FutureRoundsArrive` and `SilenceFreezes`: liveness
under fairness is out of the prover's reach. Every other property of a passing run is
stated by a theorem.

For tokens of other than 18 decimals `LiquidationAvailable` fails (`decimals`), and
`SeizureBounded` is neither checked nor claimed.

## 5. Where code and documentation disagree

- `crash`: "Perpetually Overcollateralized — Collateral value > BUSC supply at all
  times" (README, also `BUSCmotor.sol:45`, and asserted by the fuzz tests). A price
  that falls by more than half between two transactions breaks it. What the code
  does guarantee is `OvercollateralizedWhenHealthy`.
- `freeze`: the README says that the protocol freezes while a feed is stale.
  `depositCollateral` reads no feed and goes through; the deposit cannot be
  taken back until the feeds report. What holds is `FrozenWhenStale`.
- `worsen`: the comment on the last guard of `liquidate` says it is never hit. It is,
  by any partial liquidation of a position below 110%
  (the test `testRevertIfHealthFactorDidNotImprove` relies on it).
- `repay`: the comment on the health check at the end of `burnBUSC` calls it a matter of
  "0.00001% events". It refuses every repayment of an unhealthy user that does not
  reach 200% at once.
- `decimals`: `liquidate` takes an amount of 18 decimals from a deposit in the token's
  own decimals, so positions in WBTC cannot be liquidated. `LiquidationAvailable`,
  which holds in `prices` for a token of 18 decimals, fails here.

## 6. Not modelled

- Plain getters and `getTokenAmountFromRawUSD`: no state changes and nothing on-chain
  calls them. Events. The zero address as a receiver, which every token function rejects.
- `increaseAllowance` and `decreaseAllowance`: no ledger is reached with them that
  `approve` does not reach. `mint`, `burn`, `transferInternal` and `approveInternal` of the
  collateral mock, which let anybody write its ledger: no deployed token has them.
  For these the component "ERC20 collateral tokens" is marked partly modelled.
- The addresses that `HelperConfig` reads for a network: a constant, `Settings`. A private
  key, a gas price or a transaction that the chain never mines.
- Tokens that take a fee, rebase, return false or fail to return: the motor's code
  expects none, and none is listed. BUSC calls nobody back.
- What a callback does besides calling the motor and the tokens. Calls of a token's
  own code to the motor are calls of one of the users here.
- Tests, and the vendored libraries other than the functions named in the map: the
  rest of OpenZeppelin, Chainlink and forge-std, including the scripts by which
  those libraries build, migrate and generate their own sources. They are no part of
  the protocol, and no contract of it reaches them.

## 7. What is left

The components of section 1 are covered. What could still be added: reporting that is
itself fair (a heartbeat of the feeds), from which exit would follow as liveness, and
collateral that charges fees, should the protocol list any.
