--------------------------- MODULE BUSCmotorSteps ---------------------------
(***************************************************************************)
(* BUSCmotor with collateral tokens that call their holder back, as an     *)
(* ERC777 does: the sender before the tokens move, the receiver after.     *)
(* BUSC itself makes no callbacks.                                         *)
(*                                                                         *)
(* A call of the motor that moves collateral is cut in two at the          *)
(* callback: Enter... runs the statements before it and Leave... those     *)
(* after it.  In between, the holder may have any calls made, by itself or *)
(* by accounts that play along, or revert.  A revert of the callback       *)
(* restores what the call found.  Calls that move no collateral stay one   *)
(* step.  A transaction ends when its outermost call leaves; prices and    *)
(* time move between transactions only.                                    *)
(***************************************************************************)
EXTENDS BUSCmotor, SequencesExt

CONSTANT MaxDepth           \* the deepest nesting of calls explored

ASSUME DepthAssumption == MaxDepth \in Nat

VARIABLES
    entered,                \* _status = _ENTERED of the ReentrancyGuard
    stack,                  \* the calls that wait for their callback
    callers,                \* whose calls the transaction has made so far
    reentered               \* a call was made from a callback

allVars == <<vars, entered, stack, callers, reentered>>

State == [deposits |-> s_userCollateralDeposits,
          debts |-> s_BuscAmountMintedByUser,
          busc |-> busc, collateral |-> collateral,
          entered |-> entered, callers |-> callers, reentered |-> reentered]

\* What a waiting call still needs: the arguments and, for liquidate, the
\* starting health factor of the user.
Call == [fn : {"deposit", "pull", "pullAndBurn", "liquidate"},
         by : Users, token : Tokens, amount : Uint,
         mint : Uint,                          \* of a deposit, 0 for none
         user : Users, debt : Uint, health : Nat]    \* of a liquidation

States == [deposits : [Users -> [Tokens -> Uint]], debts : [Users -> Uint],
           busc : ERC20Ledger, collateral : [Tokens -> ERC20Ledger],
           entered : BOOLEAN, callers : SUBSET Users, reentered : BOOLEAN]

StepsTypeOK ==
    /\ TypeOK
    /\ entered \in BOOLEAN
    /\ stack \in Seq([call : Call, saved : States]) /\ Len(stack) <= MaxDepth
    /\ callers \in SUBSET Users
    /\ reentered \in BOOLEAN

StepsInit ==
    /\ Init
    /\ entered = FALSE
    /\ stack = <<>>
    /\ callers = {} /\ reentered = FALSE

Idle == stack = <<>>
Waiting == Last(stack).call

\* A plain call; liquidations fill in the rest.
NewCall(fn, u, t, amount) ==
    [fn |-> fn, by |-> u, token |-> t, amount |-> amount, mint |-> 0,
     user |-> u, debt |-> 0, health |-> 0]

Called(u) ==
    /\ callers' = callers \cup {u}
    /\ reentered' = (reentered \/ ~Idle)

Push(call) ==
    /\ Len(stack) < MaxDepth
    /\ stack' = Append(stack, [call |-> call, saved |-> State])
    /\ Called(call.by)

Pop ==
    /\ stack' = Front(stack)
    /\ IF Len(stack) = 1 THEN callers' = {} /\ reentered' = FALSE
       ELSE UNCHANGED <<callers, reentered>>

\* A call of u that waits for no callback.
Direct(u) ==
    /\ UNCHANGED stack
    /\ IF Idle THEN UNCHANGED <<callers, reentered>> ELSE Called(u)

-----------------------------------------------------------------------------
(* depositCollateral and depositCollateralAndMintBUSC: the deposit is      *)
(* credited, the token spends the allowance and calls u back, then the     *)
(* tokens move.  The lock is free again before mintBUSC takes it.          *)

EnterDeposit(u, t, amount, mint) ==
    /\ ~entered
    /\ amount > 0 /\ t \in Listed
    /\ AddOK(s_userCollateralDeposits[u][t], amount)
    /\ SpendAllowanceOK(collateral[t], u, Motor, amount)
    /\ s_userCollateralDeposits' = Deposited(u, t, amount)
    /\ collateral' = [collateral EXCEPT ![t] = SpendAllowance(@, u, Motor, amount)]
    /\ entered' = TRUE
    /\ Push([NewCall("deposit", u, t, amount) EXCEPT !.mint = mint])
    /\ UNCHANGED <<s_BuscAmountMintedByUser, busc, world>>

\* Mutation: the tokens are not asked for once the callback has returned.
TokensForgotten(call) == UNCHANGED collateral

TokensArrive(call) ==
    /\ TransferOK(collateral[call.token], call.by, call.amount)
    /\ collateral' = [collateral EXCEPT
                         ![call.token] = Transfer(@, call.by, Motor, call.amount)]

LeaveDeposit ==
    /\ ~Idle /\ Waiting.fn = "deposit" /\ Waiting.mint = 0
    /\ TokensArrive(Waiting)
    /\ entered' = FALSE
    /\ Pop
    /\ UNCHANGED <<positions, busc, world>>

LeaveDepositAndMint ==
    LET u == Waiting.by
        mint == Waiting.mint
    IN  /\ ~Idle /\ Waiting.fn = "deposit" /\ mint > 0
        /\ TokensArrive(Waiting)
        /\ MintBUSCOK(u, s_userCollateralDeposits[u], mint)
        /\ s_BuscAmountMintedByUser' = [s_BuscAmountMintedByUser EXCEPT ![u] = @ + mint]
        /\ busc' = Mint(busc, u, mint)
        /\ entered' = FALSE
        /\ Pop
        /\ UNCHANGED <<s_userCollateralDeposits, world>>

-----------------------------------------------------------------------------
(* pullCollateral and pullCollateralAndBurnBUSC: the tokens move, u is     *)
(* called back, and then the health factor is read.  Only the first takes  *)
(* the lock.                                                               *)

EnterPull(u, t, amount) ==
    /\ ~entered
    /\ amount > 0
    /\ PullOK(u, t, amount)
    /\ s_userCollateralDeposits' = Pulled(u, t, amount)
    /\ collateral' = CollateralPaidOut(u, t, amount)
    /\ entered' = TRUE
    /\ Push(NewCall("pull", u, t, amount))
    /\ UNCHANGED <<s_BuscAmountMintedByUser, busc, world>>

LeavePull ==
    /\ ~Idle /\ Waiting.fn = "pull"
    /\ HealthChecked(s_userCollateralDeposits[Waiting.by],
                     s_BuscAmountMintedByUser[Waiting.by])
    /\ entered' = FALSE
    /\ Pop
    /\ UNCHANGED vars

EnterPullAndBurn(u, t, amount, burn) ==
    /\ burn > 0 /\ amount > 0
    /\ t \in Listed
    /\ RepayOK(u, u, burn)
    /\ s_BuscAmountMintedByUser' = Repaid(u, burn)
    /\ busc' = BUSCBurned(u, burn)
    /\ PullOK(u, t, amount)
    /\ s_userCollateralDeposits' = Pulled(u, t, amount)
    /\ collateral' = CollateralPaidOut(u, t, amount)
    /\ Push(NewCall("pullAndBurn", u, t, amount))
    /\ UNCHANGED <<entered, world>>

\* Mutations: the health factor is read from the deposits before the
\* callback, or the lock is released as if it had been taken.
LeavePullAndBurnStale ==
    /\ ~Idle /\ Waiting.fn = "pullAndBurn"
    /\ HealthChecked(Last(stack).saved.deposits[Waiting.by],
                     s_BuscAmountMintedByUser[Waiting.by])
    /\ Pop
    /\ UNCHANGED <<vars, entered>>

LeavePullAndBurnUnlocks ==
    /\ ~Idle /\ Waiting.fn = "pullAndBurn"
    /\ HealthChecked(s_userCollateralDeposits[Waiting.by],
                     s_BuscAmountMintedByUser[Waiting.by])
    /\ entered' = FALSE
    /\ Pop
    /\ UNCHANGED vars

LeavePullAndBurn ==
    /\ ~Idle /\ Waiting.fn = "pullAndBurn"
    /\ HealthChecked(s_userCollateralDeposits[Waiting.by],
                     s_BuscAmountMintedByUser[Waiting.by])
    /\ Pop
    /\ UNCHANGED <<vars, entered>>

-----------------------------------------------------------------------------
(* liquidate: the liquidator is called back with the collateral in hand    *)
(* and the debt not yet paid.                                              *)

EnterLiquidate(l, t, u, debt) ==
    /\ ~entered
    /\ debt > 0
    /\ t \in Listed
    /\ Liquidatable(u)
    /\ SeizedCollateralOK(priceFeed[t].answer, debt)
    /\ PullOK(u, t, Seized(t, debt))
    /\ s_userCollateralDeposits' = Pulled(u, t, Seized(t, debt))
    /\ collateral' = CollateralPaidOut(l, t, Seized(t, debt))
    /\ entered' = TRUE
    /\ Push([NewCall("liquidate", l, t, Seized(t, debt)) EXCEPT
                !.user = u, !.debt = debt, !.health = HealthOf(u)])
    /\ UNCHANGED <<s_BuscAmountMintedByUser, busc, world>>

\* _healthFactor of a user with the given debts.
HealthWith(debts, u) == HealthFactor(s_userCollateralDeposits[u], debts[u])

\* Mutation: the starting health factor is read again after the callback.
LeaveLiquidateRereads ==
    LET l == Waiting.by
        u == Waiting.user
        debt == Waiting.debt
        debts == Repaid(u, debt)
    IN  /\ ~Idle /\ Waiting.fn = "liquidate"
        /\ RepayOK(u, l, debt)
        /\ s_BuscAmountMintedByUser' = debts
        /\ busc' = BUSCBurned(l, debt)
        /\ HealthFactorOK(s_userCollateralDeposits[u], debts[u])
        /\ HealthWith(debts, u) > HealthOf(u)
        /\ HealthChecked(s_userCollateralDeposits[l], debts[l])
        /\ entered' = FALSE
        /\ Pop
        /\ UNCHANGED <<s_userCollateralDeposits, collateral, world>>

LeaveLiquidate ==
    LET l == Waiting.by
        u == Waiting.user
        debt == Waiting.debt
        debts == Repaid(u, debt)
    IN  /\ ~Idle /\ Waiting.fn = "liquidate"
        /\ RepayOK(u, l, debt)
        /\ s_BuscAmountMintedByUser' = debts
        /\ busc' = BUSCBurned(l, debt)
        /\ HealthFactorOK(s_userCollateralDeposits[u], debts[u])
        /\ HealthWith(debts, u) > Waiting.health
        /\ HealthChecked(s_userCollateralDeposits[l], debts[l])
        /\ entered' = FALSE
        /\ Pop
        /\ UNCHANGED <<s_userCollateralDeposits, collateral, world>>

-----------------------------------------------------------------------------
(* Calls without a callback, of which only mintBUSC takes the lock, and    *)
(* reverts.                                                                *)

LockedMint(u, amount) ==
    /\ ~entered
    /\ MintBUSC(u, amount)
    /\ Direct(u)
    /\ UNCHANGED entered

DirectBurn(u, amount) ==
    /\ BurnBUSC(u, amount)
    /\ Direct(u)
    /\ UNCHANGED entered

DirectTokenCall(u) ==
    /\ TokenCall(u)
    /\ Direct(u)
    /\ UNCHANGED entered

\* The waiting call reverts; a caller further out may go on.
Revert ==
    LET saved == Last(stack).saved
    IN  /\ ~Idle
        /\ s_userCollateralDeposits' = saved.deposits
        /\ s_BuscAmountMintedByUser' = saved.debts
        /\ busc' = saved.busc
        /\ collateral' = saved.collateral
        /\ entered' = saved.entered
        /\ callers' = saved.callers
        /\ reentered' = saved.reentered
        /\ stack' = Front(stack)
        /\ UNCHANGED world

WorldMoves ==
    /\ Idle
    /\ WorldStep
    /\ UNCHANGED <<entered, stack, callers, reentered>>

-----------------------------------------------------------------------------

EnterCall(u) ==
    \/ \E t \in Tokens, a \in CollateralAmounts :
          \/ \E b \in BuscAmounts \cup {0} : EnterDeposit(u, t, a, b)
          \/ EnterPull(u, t, a)
          \/ \E b \in BuscAmounts : EnterPullAndBurn(u, t, a, b)
    \/ \E t \in Tokens, v \in Users, b \in BuscAmounts : EnterLiquidate(u, t, v, b)

DirectCall(u) ==
    \/ \E b \in BuscAmounts : LockedMint(u, b) \/ DirectBurn(u, b)
    \/ DirectTokenCall(u)

LeaveCall ==
    \/ LeaveDeposit
    \/ LeaveDepositAndMint
    \/ LeavePull
    \/ LeavePullAndBurn
    \/ LeaveLiquidate

StepsNext ==
    \/ \E u \in Users : EnterCall(u) \/ DirectCall(u)
    \/ LeaveCall
    \/ Revert
    \/ WorldMoves

StepsSpec == StepsInit /\ [][StepsNext]_allVars

-----------------------------------------------------------------------------
(* The last committed state: what a revert of the whole transaction would  *)
(* restore.                                                                *)

Committed == IF Idle THEN State ELSE stack[1].saved

Atomic == INSTANCE BUSCmotor WITH
    s_userCollateralDeposits <- Committed.deposits,
    s_BuscAmountMintedByUser <- Committed.debts,
    busc <- Committed.busc,
    collateral <- Committed.collateral

\* The outermost call leaves, or reverts.
Commits == Len(stack) = 1 /\ Idle'

\* Deposits credited whose tokens are still to come.
Due(t) ==
    SumFunction([i \in DOMAIN stack |->
        LET call == stack[i].call
        IN  IF call.fn = "deposit" /\ call.token = t THEN call.amount ELSE 0])

(***************************************************************************)
(* Between any two statements the books are covered by what the motor      *)
(* holds and what waiting deposits still have to bring, although a         *)
(* callback may pull out, from the tokens of others, a deposit that has    *)
(* not arrived (depositCollateral credits before it transfers).            *)
(***************************************************************************)
CustodyDuringCallbacks ==
    \A t \in Tokens :
        TotalDeposits(t) <= collateral[t].balances[Motor] + Due(t)

(***************************************************************************)
(* When the outermost call has left, nothing of its callbacks remains: the *)
(* books are covered, every BUSC is owed by someone and, if all positions  *)
(* are healthy, the motor holds twice the worth of the supply.  During the *)
(* callbacks it may not, with deposits credited that have not arrived.     *)
(***************************************************************************)
SoundBetweenTransactions ==
    Idle => CustodyCovered /\ SupplyBackedByDebt /\ OvercollateralizedWhenHealthy

(***************************************************************************)
(* The lock is held exactly while one of the waiting calls took it, at     *)
(* most one of them at a time; reverts of inner calls give it back.        *)
(***************************************************************************)
LockFollowsCalls ==
    LET locking == {i \in DOMAIN stack : stack[i].call.fn # "pullAndBurn"}
    IN  /\ entered = (locking # {})
        /\ \A i, j \in locking : i = j

(***************************************************************************)
(* No transaction, whatever its callbacks do, leaves anybody, callers      *)
(* included, unhealthy and worse off than before: each call reads the      *)
(* health factor after its callback.                                       *)
(***************************************************************************)
NobodyLeftWorse ==
    [][Commits =>
          \A u \in Users : \/ Healthy(u)'
                           \/ HealthOf(u)' >= Atomic!HealthOf(u)]_allVars

(***************************************************************************)
(* A user who takes no part in a transaction loses a deposit in it only if *)
(* unhealthy when it began, and ends with less debt and a better health    *)
(* factor, however the liquidator's callback rearranges the rest.          *)
(***************************************************************************)
BystandersKept ==
    [][Commits =>
          \A u \in Users \ callers, t \in Tokens :
             s_userCollateralDeposits'[u][t] < Committed.deposits[u][t] =>
                /\ ~Atomic!Healthy(u)
                /\ s_BuscAmountMintedByUser'[u] < Committed.debts[u]
                /\ HealthOf(u)' > Atomic!HealthOf(u)]_allVars

(***************************************************************************)
(* A transaction that ends while a feed is stale has changed no debt,      *)
(* minted no BUSC, lowered no deposit and taken no collateral out of the   *)
(* motor, whatever its callbacks did: a callback lets nobody take a        *)
(* position out in a call that reads no health factor itself.              *)
(***************************************************************************)
FrozenTransactions ==
    [][Idle' /\ ~FeedsFresh =>
          /\ s_BuscAmountMintedByUser' = Committed.debts
          /\ busc'.totalSupply <= Committed.busc.totalSupply
          /\ \A t \in Tokens :
                /\ \A u \in Users :
                      s_userCollateralDeposits'[u][t] >= Committed.deposits[u][t]
                /\ collateral'[t].balances[Motor] >=
                      Committed.collateral[t].balances[Motor]]_allVars

(***************************************************************************)
(* A transaction in which nobody calls from a callback is one action of    *)
(* BUSCmotor: cutting calls at the callback loses nothing, and all that    *)
(* BUSCmotor promises holds for tokens that make no callbacks.             *)
(***************************************************************************)
UnreenteredAtomic == [][reentered \/ Atomic!Next]_(Atomic!vars)

=============================================================================
