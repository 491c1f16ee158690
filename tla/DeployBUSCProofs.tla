-------------------------- MODULE DeployBUSCProofs --------------------------
(***************************************************************************)
(* Proofs about the deployment, for any users, settings and calls between  *)
(* its transactions: what stays true of BUSC while it changes hands, what  *)
(* the constructor leaves in the motor, and that the motor's own           *)
(* guarantees hold from the block in which it appears.                     *)
(*                                                                         *)
(* The invariant is that of BUSCmotorProofs, which does not speak of the   *)
(* owner, together with a bound on what no debt backs, and with what the   *)
(* script has done.  Each step is one of the motor's, to which StepSound   *)
(* applies, or a mint or burn of an owner, or leaves BUSCmotor alone.      *)
(***************************************************************************)
EXTENDS DeployBUSC, BUSCmotorHealthProofs

NoDebts == \A u \in Users : s_BuscAmountMintedByUser[u] = 0

\* Who owns BUSC, and what that allows.
OwnerInv ==
    /\ unbacked \in Nat
    /\ Unbacked(s_BuscAmountMintedByUser, busc) <= unbacked
    /\ owner \in Accounts \cup {NoOwner}
    /\ step = "BUSC" => owner = NoOwner
    /\ owner # Motor => NoDebts

\* What the script has done.
ScriptInv ==
    /\ step \in {"BUSC", "motor", "handover", "done"}
    /\ settings \in Settings
    /\ MotorExists =>
          /\ ListsOK(settings.tokens, settings.feeds)
          /\ s_collateralTokens = settings.tokens
          /\ s_tokenToPriceFeed = FeedsOf(settings.tokens, settings.feeds)
    /\ ~MotorExists =>
          /\ s_collateralTokens = <<>>
          /\ s_tokenToPriceFeed = [t \in Tokens |-> NoAddress]

DeployInv == IInv /\ OwnerInv /\ ScriptInv

\* What the motor's guarantees need of a step: it is one of the motor's, or
\* touches neither positions nor collateral nor prices.
StepOfMotor == [Next]_vars \/ UNCHANGED <<positions, collateral, world>>

\* Once the motor owns BUSC.
Final == owner = Motor => owner' = Motor /\ unbacked' = unbacked /\ [Next]_vars

DeployStepOK == DeployInv' /\ StepOfMotor /\ Final

LEMMA DeployFacts ==
  /\ Deployer \in Users /\ Deployer \in Accounts /\ Deployer # Motor
  /\ NoOwner # Motor /\ Motor \in Accounts
  /\ \A u \in Users : u \in Accounts /\ u # Motor
  /\ BuscAmounts \subseteq Uint
BY DeployAssumption, MotorFacts, MotorAssumption

-----------------------------------------------------------------------------
(* The constructor.  The lists it accepts name each token once, so the     *)
(* feed written last for a token is the only one.                          *)

LEMMA ListedOnce ==
  ASSUME NEW tokens \in Seq(Tokens \cup {NoAddress}), NEW feeds,
         ListsOK(tokens, feeds)
  PROVE  \A i, j \in DOMAIN tokens : tokens[i] = tokens[j] => i = j
<1> SUFFICES ASSUME NEW i \in DOMAIN tokens, NEW j \in DOMAIN tokens,
                    tokens[i] = tokens[j], i # j
             PROVE  FALSE
  OBVIOUS
<1>1. i \in Nat /\ j \in Nat /\ i >= 1 /\ j >= 1
  OBVIOUS
<1>2. CASE i < j
  <2>1. i \in 1..(j - 1)
    BY <1>1, <1>2
  <2> QED BY <2>1 DEF ListsOK
<1>3. CASE j < i
  <2>1. j \in 1..(i - 1)
    BY <1>1, <1>3
  <2> QED BY <2>1 DEF ListsOK
<1> QED BY <1>1, <1>2, <1>3

\* A token has a feed exactly when the list names it.
LEMMA FeedsFollowTokens ==
  ASSUME NEW tokens \in Seq(Tokens \cup {NoAddress}),
         NEW feeds \in Seq(Tokens \cup {NoAddress}),
         ListsOK(tokens, feeds)
  PROVE  /\ tokens \in Seq(Tokens)
         /\ FeedsOf(tokens, feeds) \in [Tokens -> Tokens \cup {NoAddress}]
         /\ {tokens[i] : i \in DOMAIN tokens} =
               {t \in Tokens : FeedsOf(tokens, feeds)[t] # NoAddress}
<1>1. DOMAIN feeds = DOMAIN tokens /\ DOMAIN tokens = 1..Len(tokens)
  BY DEF ListsOK
<1>2. \A i \in DOMAIN tokens : tokens[i] \in Tokens \cup {NoAddress}
                               /\ feeds[i] \in Tokens \cup {NoAddress}
  BY <1>1
<1>3. \A i \in DOMAIN tokens : tokens[i] \in Tokens /\ feeds[i] \in Tokens
                               /\ feeds[i] # NoAddress
  BY <1>2 DEF ListsOK
<1>4. tokens \in Seq(Tokens)
  BY <1>1, <1>3
<1>5. ASSUME NEW t \in Tokens, NEW i \in DOMAIN tokens, tokens[i] = t
      PROVE  FeedsOf(tokens, feeds)[t] = feeds[i]
  <2>1. {j \in DOMAIN tokens : tokens[j] = t} = {i}
    BY <1>5, ListedOnce
  <2>2. (CHOOSE k \in {i} : \A j \in {i} : j <= k) = i
    <3>1. i <= i
      OBVIOUS
    <3> QED BY <3>1
  <2> QED BY <2>1, <2>2 DEF FeedsOf
<1>6. ASSUME NEW t \in Tokens, \A i \in DOMAIN tokens : tokens[i] # t
      PROVE  FeedsOf(tokens, feeds)[t] = NoAddress
  <2>1. {j \in DOMAIN tokens : tokens[j] = t} = {}
    BY <1>6
  <2> QED BY <2>1 DEF FeedsOf
<1>7. \A t \in Tokens : /\ FeedsOf(tokens, feeds)[t] \in Tokens \cup {NoAddress}
                        /\ FeedsOf(tokens, feeds)[t] # NoAddress
                              <=> \E i \in DOMAIN tokens : tokens[i] = t
  BY <1>3, <1>5, <1>6
<1>8. FeedsOf(tokens, feeds) \in [Tokens -> Tokens \cup {NoAddress}]
  <2>1. FeedsOf(tokens, feeds) = [t \in Tokens |-> FeedsOf(tokens, feeds)[t]]
    BY DEF FeedsOf
  <2> HIDE DEF FeedsOf
  <2> QED BY <1>7, <2>1
<1> QED BY <1>3, <1>4, <1>7, <1>8

\* What the invariant says of the motor's list.
LEMMA ListInvariant ==
  ASSUME ScriptInv
  PROVE  /\ ListAndFeedsAgree
         /\ s_collateralTokens \in Seq(Tokens)
         /\ s_tokenToPriceFeed \in [Tokens -> Tokens \cup {NoAddress}]
<1> DEFINE tokens == settings.tokens
           feeds == settings.feeds
<1>1. /\ tokens \in Seq(Tokens \cup {NoAddress}) /\ feeds \in Seq(Tokens \cup {NoAddress})
      /\ ListsOK(tokens, feeds) => {tokens[i] : i \in DOMAIN tokens} = Listed
  BY SettingsAssumption DEF ScriptInv
<1>2. CASE MotorExists
  <2>1. /\ ListsOK(tokens, feeds) /\ s_collateralTokens = tokens
        /\ s_tokenToPriceFeed = FeedsOf(tokens, feeds)
    BY <1>2 DEF ScriptInv
  <2> HIDE DEF tokens, feeds
  <2>2. \A i, j \in DOMAIN tokens : tokens[i] = tokens[j] => i = j
    BY <1>1, <2>1, ListedOnce
  <2>3. /\ tokens \in Seq(Tokens)
        /\ FeedsOf(tokens, feeds) \in [Tokens -> Tokens \cup {NoAddress}]
        /\ {tokens[i] : i \in DOMAIN tokens} =
              {t \in Tokens : FeedsOf(tokens, feeds)[t] # NoAddress}
    BY <1>1, <2>1, FeedsFollowTokens
  <2>4. {tokens[i] : i \in DOMAIN tokens} = Listed
    BY <1>1, <2>1
  <2> QED BY <2>1, <2>2, <2>3, <2>4 DEF ListAndFeedsAgree
<1>3. CASE ~MotorExists
  BY <1>3 DEF ScriptInv, ListAndFeedsAgree
<1> QED BY <1>2, <1>3

-----------------------------------------------------------------------------
(* The steps.                                                              *)

\* One of the motor's steps, which owes more only while it owns BUSC.
LEMMA MotorStepKeeps ==
  ASSUME DeployInv, [Next]_vars, UNCHANGED <<owner, script, unbacked>>,
         owner # Motor => UNCHANGED s_BuscAmountMintedByUser
  PROVE  DeployStepOK
<1>1. IInv' /\ UnbackedKept
  BY StepSound DEF StepOK, DeployInv
<1>2. Unbacked(s_BuscAmountMintedByUser', busc') <= unbacked'
  <2>1. /\ Unbacked(s_BuscAmountMintedByUser, busc) \in Int
        /\ Unbacked(s_BuscAmountMintedByUser', busc') \in Int
    BY <1>1, UnbackedInt DEF DeployInv, IInv
  <2> QED BY <1>1, <2>1 DEF UnbackedKept, DeployInv, OwnerInv
<1>3. OwnerInv'
  <2>1. owner' # Motor => NoDebts'
    BY DEF DeployInv, OwnerInv, NoDebts
  <2>2. Unbacked(s_BuscAmountMintedByUser, busc)' <= unbacked'
    BY <1>2
  <2> QED BY <2>1, <2>2 DEF DeployInv, OwnerInv, script
<1>4. ScriptInv'
  BY DEF DeployInv, ScriptInv, MotorExists, script
<1> QED BY <1>1, <1>3, <1>4 DEF DeployStepOK, DeployInv, StepOfMotor, Final

LEMMA DirectCallKeeps ==
  ASSUME DeployInv, NEW u \in Users, DirectCall(u)
  PROVE  DeployStepOK
<1>1. TokenCall(u) /\ UNCHANGED <<owner, script, unbacked>>
  BY DEF DirectCall
<1>2. UNCHANGED s_BuscAmountMintedByUser
  BY <1>1, TokenCallKeeps DEF positions
<1> QED BY <1>1, <1>2, MotorStepKeeps DEF Next

LEMMA CollateralCallKeeps ==
  ASSUME DeployInv, NEW u \in Users, CollateralCall(u)
  PROVE  DeployStepOK
<1>1. MotorCall(u) /\ UNCHANGED <<owner, script, unbacked>>
  BY DEF CollateralCall, MotorCall
<1>2. UNCHANGED s_BuscAmountMintedByUser
  BY DEF CollateralCall, DepositCollateral, PullCollateral
<1> QED BY <1>1, <1>2, MotorStepKeeps DEF Next

\* The motor mints and burns only while it owns BUSC.
LEMMA MintingCallKeeps ==
  ASSUME DeployInv, NEW u \in Users, MintingCall(u)
  PROVE  DeployStepOK
<1>1. MotorCall(u) /\ UNCHANGED <<owner, script, unbacked>>
  BY DEF MintingCall, MotorCall
<1>2. owner = Motor
  BY DEF MintingCall, BUSCMintOK, OnlyOwner
<1> QED BY <1>1, <1>2, MotorStepKeeps DEF Next

LEMMA BurningCallKeeps ==
  ASSUME DeployInv, NEW u \in Users, BurningCall(u)
  PROVE  DeployStepOK
<1>1. MotorCall(u) /\ UNCHANGED <<owner, script, unbacked>>
  BY DEF BurningCall, MotorCall
<1>2. owner = Motor
  BY DEF BurningCall, BUSCBurnOK, OnlyOwner
<1> QED BY <1>1, <1>2, MotorStepKeeps DEF Next

LEMMA WorldMovesKeeps ==
  ASSUME DeployInv, WorldMoves
  PROVE  DeployStepOK
<1>1. WorldStep /\ UNCHANGED <<owner, script, unbacked>>
  BY DEF WorldMoves
<1>2. UNCHANGED s_BuscAmountMintedByUser
  BY <1>1 DEF WorldStep, UpdateAnswer, UpdateRoundData, Tick, positions
<1> QED BY <1>1, <1>2, MotorStepKeeps DEF Next

\* A step that leaves all of BUSCmotor alone and moves the ownership.
LEMMA OwnershipMoves ==
  ASSUME DeployInv, UNCHANGED <<vars, unbacked>>,
         owner' \in Accounts \cup {NoOwner}, step' = "BUSC" => owner' = NoOwner,
         owner = Motor => owner' = Motor, ScriptInv'
  PROVE  DeployStepOK
<1>1. IInv'
  <2>1. [Next]_vars
    OBVIOUS
  <2> QED BY <2>1, StepSound DEF StepOK, DeployInv
<1>2. OwnerInv'
  BY DEF DeployInv, OwnerInv, NoDebts, vars, positions
<1>3. StepOfMotor /\ Final
  BY DEF StepOfMotor, Final
<1> QED BY <1>1, <1>2, <1>3 DEF DeployStepOK, DeployInv

LEMMA ScriptKeeps ==
  ASSUME DeployInv, Script
  PROVE  DeployStepOK
<1>1. UNCHANGED <<vars, unbacked>>
  BY DEF Script, NewBUSC, NewBUSCmotor, HandOver
<1>2. owner' \in Accounts \cup {NoOwner} /\ (step' = "BUSC" => owner' = NoOwner)
  BY DeployFacts DEF Script, NewBUSC, NewBUSCmotor, HandOver, TransferOwnership,
                     DeployInv, OwnerInv
<1>3. owner = Motor => owner' = Motor
  BY DeployFacts DEF Script, NewBUSC, NewBUSCmotor, HandOver, TransferOwnership,
                     OnlyOwner, DeployInv, OwnerInv
<1>4. ScriptInv'
  BY DEF Script, NewBUSC, NewBUSCmotor, ConstructorOK, HandOver, ScriptInv, DeployInv,
         MotorExists
<1> QED BY <1>1, <1>2, <1>3, <1>4, OwnershipMoves

\* An owner who is a user: the motor does not own BUSC, so nobody owes any.
LEMMA OwnerMintsKeeps ==
  ASSUME DeployInv, owner # Motor, NEW u \in Users, NEW to \in Accounts,
         NEW a \in BuscAmounts, OwnerMints(u, to, a)
  PROVE  DeployStepOK
<1> DEFINE token == Mint(busc, to, a)
<1>1. a \in Uint /\ a \in Nat /\ MintOK(busc, a) /\ SoundLedger(busc)
  BY DeployFacts, UintNat DEF OwnerMints, BUSCMintOK, DeployInv, IInv, DebtsOK
<1>2. SoundLedger(token) /\ token.totalSupply = busc.totalSupply + a
  BY <1>1, MintSound
<1>3. /\ busc' = token /\ unbacked' = unbacked + a
      /\ UNCHANGED <<s_BuscAmountMintedByUser, owner, script>>
      /\ UNCHANGED <<positions, collateral, world>>
  BY DEF OwnerMints, positions
<1> HIDE DEF token
<1>4. DebtsOK(s_BuscAmountMintedByUser, token)
  BY <1>2 DEF DeployInv, IInv, DebtsOK
<1>5. Unbacked(s_BuscAmountMintedByUser, token) <= unbacked + a
  BY <1>1, <1>2, <1>4, UnbackedInt DEF Unbacked, DeployInv, IInv, OwnerInv
<1>6. IInv'
  <2>1. BooksOK(s_userCollateralDeposits, collateral)' /\ WorldOK'
    BY <1>3, WorldUnchanged DEF DeployInv, IInv, positions
  <2> QED BY <1>3, <1>4, <2>1 DEF IInv
<1>7. OwnerInv'
  <2>1. Unbacked(s_BuscAmountMintedByUser, busc)' <= unbacked' /\ unbacked' \in Nat
    BY <1>1, <1>3, <1>5 DEF DeployInv, OwnerInv
  <2> QED BY <1>3, <2>1 DEF DeployInv, OwnerInv, NoDebts, script
<1>8. ScriptInv'
  BY <1>3 DEF DeployInv, ScriptInv, MotorExists, script
<1> QED BY <1>3, <1>6, <1>7, <1>8 DEF DeployStepOK, DeployInv, StepOfMotor, Final

LEMMA OwnerBurnsKeeps ==
  ASSUME DeployInv, owner # Motor, NEW u \in Users, NEW a \in BuscAmounts,
         OwnerBurns(u, a)
  PROVE  DeployStepOK
<1> DEFINE token == Burn(busc, u, a)
<1>1. a \in Uint /\ a \in Nat /\ BurnOK(busc, u, a) /\ SoundLedger(busc)
  BY DeployFacts, UintNat DEF OwnerBurns, BUSCBurnOK, DeployInv, IInv, DebtsOK
<1>2. SoundLedger(token) /\ token.totalSupply = busc.totalSupply - a
  BY <1>1, DeployFacts, BurnSound
<1>3. /\ busc' = token
      /\ UNCHANGED <<s_BuscAmountMintedByUser, owner, script, unbacked>>
      /\ UNCHANGED <<positions, collateral, world>>
  BY DEF OwnerBurns, positions
<1> HIDE DEF token
<1>4. token.totalSupply <= busc.totalSupply
  BY <1>1, <1>2, BUSCFacts
<1>5. /\ DebtsOK(s_BuscAmountMintedByUser, token)
      /\ Unbacked(s_BuscAmountMintedByUser, token)
            <= Unbacked(s_BuscAmountMintedByUser, busc)
  BY <1>2, <1>4, SupplyKeeps DEF DeployInv, IInv
<1>6. Unbacked(s_BuscAmountMintedByUser, token) <= unbacked
  BY <1>5, UnbackedInt DEF DeployInv, IInv, OwnerInv
<1>7. IInv'
  <2>1. BooksOK(s_userCollateralDeposits, collateral)' /\ WorldOK'
    BY <1>3, WorldUnchanged DEF DeployInv, IInv, positions
  <2> QED BY <1>3, <1>5, <2>1 DEF IInv
<1>8. OwnerInv'
  <2>1. Unbacked(s_BuscAmountMintedByUser, busc)' <= unbacked'
    BY <1>3, <1>6
  <2> QED BY <1>3, <2>1 DEF DeployInv, OwnerInv, NoDebts, script
<1>9. ScriptInv'
  BY <1>3 DEF DeployInv, ScriptInv, MotorExists, script
<1> QED BY <1>3, <1>7, <1>8, <1>9 DEF DeployStepOK, DeployInv, StepOfMotor, Final

LEMMA OwnerCallKeeps ==
  ASSUME DeployInv, NEW u \in Users, OwnerCall(u)
  PROVE  DeployStepOK
<1>1. owner # Motor
  BY DeployFacts
     DEF OwnerCall, OwnerMints, OwnerBurns, OwnerLeaves, BUSCMintOK, BUSCBurnOK,
         TransferOwnership, RenounceOwnership, OnlyOwner
<1>2. ASSUME OwnerLeaves(u), BUSCExists
      PROVE  DeployStepOK
  <2>1. UNCHANGED <<vars, script, unbacked>>
    BY <1>2 DEF OwnerLeaves
  <2>2. owner' \in Accounts \cup {NoOwner} /\ step' # "BUSC"
    BY <1>2, <2>1 DEF OwnerLeaves, TransferOwnership, RenounceOwnership, BUSCExists, script
  <2>3. ScriptInv'
    BY <2>1 DEF DeployInv, ScriptInv, MotorExists, script
  <2> QED BY <1>1, <2>1, <2>2, <2>3, OwnershipMoves
<1> QED BY <1>1, <1>2, OwnerMintsKeeps, OwnerBurnsKeeps DEF OwnerCall

LEMMA DeployStepKeeps ==
  ASSUME DeployInv, [DeployNext]_deployVars
  PROVE  DeployStepOK
<1>1. CASE UNCHANGED deployVars
  <2>1. UNCHANGED <<vars, owner, script, unbacked>>
    BY <1>1 DEF deployVars
  <2>2. UNCHANGED s_BuscAmountMintedByUser
    BY <2>1 DEF vars, positions
  <2> QED BY <2>1, <2>2, MotorStepKeeps
<1> QED BY <1>1, ScriptKeeps, DirectCallKeeps, CollateralCallKeeps, MintingCallKeeps,
           BurningCallKeeps, OwnerCallKeeps, WorldMovesKeeps DEF DeployNext

LEMMA DeployStarts ==
  ASSUME DeployInit
  PROVE  DeployInv
<1>1. IInv /\ DebtsBacked(s_BuscAmountMintedByUser, busc)
  BY InitInvariant DEF DeployInit
<1>2. Unbacked(s_BuscAmountMintedByUser, busc) <= unbacked /\ unbacked \in Nat
  BY <1>1, BackedIs DEF DeployInit
<1>3. NoDebts
  BY DEF DeployInit, Init, NoDebts
<1>4. ScriptInv
  BY DEF DeployInit, ScriptInv, MotorExists
<1> QED BY <1>1, <1>2, <1>3, <1>4 DEF DeployInv, OwnerInv, DeployInit

LEMMA DeployInvariance == DeploySpec => []DeployInv
<1>1. DeployInit => DeployInv
  BY DeployStarts
<1>2. DeployInv /\ [DeployNext]_deployVars => DeployInv'
  BY DeployStepKeeps DEF DeployStepOK
<1> QED BY <1>1, <1>2, PTL DEF DeploySpec

-----------------------------------------------------------------------------
(* The theorems about the script.                                          *)

(***************************************************************************)
(* Every variable keeps its type while the contracts appear and change     *)
(* hands, whatever owners mint and burn by themselves.                     *)
(***************************************************************************)
THEOREM DeployTyped == DeploySpec => []DeployTypeOK
<1>1. ASSUME DeployInv
      PROVE  DeployTypeOK
  <2>1. TypeOK
    BY <1>1, InvariantImplies DEF DeployInv
  <2>2. /\ s_collateralTokens \in Seq(Tokens)
        /\ s_tokenToPriceFeed \in [Tokens -> Tokens \cup {NoAddress}]
    BY <1>1, ListInvariant DEF DeployInv
  <2> QED BY <1>1, <2>1, <2>2 DEF DeployTypeOK, DeployInv, OwnerInv, ScriptInv
<1> QED BY <1>1, DeployInvariance, PTL

(***************************************************************************)
(* Whatever lists the constructor accepts, it leaves a list that names     *)
(* each token once and feeds for those tokens and no others: nothing that  *)
(* depositCollateral accepts is missed or counted twice by the loop that   *)
(* values a position, and no later call changes either.                    *)
(***************************************************************************)
THEOREM ListAgrees == DeploySpec => []ListAndFeedsAgree
<1>1. DeployInv => ListAndFeedsAgree
  BY ListInvariant DEF DeployInv
<1> QED BY <1>1, DeployInvariance, PTL

\* The bound of the invariant on what no debt backs, as a sum.
LEMMA SupplyAndOwners ==
  ASSUME DeployInv
  PROVE  /\ busc.totalSupply <= TotalDebt + unbacked
         /\ busc.totalSupply \in Nat /\ TotalDebt \in Nat /\ unbacked \in Nat
BY UnbackedInt DEF DeployInv, OwnerInv, IInv, Unbacked, TotalDebt

(***************************************************************************)
(* Whatever happens between new BUSC() and the end of transferOwnership,   *)
(* all BUSC that no debt backs was minted by an owner other than the       *)
(* motor: mintBUSC, the burns and the public burnFrom account for the rest.*)
(***************************************************************************)
THEOREM UnbackedIsTheOwners == DeploySpec => []UnbackedByOwnersOnly
<1>1. DeployInv => UnbackedByOwnersOnly
  BY SupplyAndOwners DEF UnbackedByOwnersOnly
<1> QED BY <1>1, DeployInvariance, PTL

(***************************************************************************)
(* mintBUSC reverts until transferOwnership has been mined, in BUSC.mint:  *)
(* nobody gets into a debt that the motor could not burn.                  *)
(***************************************************************************)
THEOREM DebtWaitsForHandover == DeploySpec => []NoDebtBeforeHandover
<1>1. ASSUME DeployInv, owner # Motor
      PROVE  TotalDebt = 0
  <2>1. s_BuscAmountMintedByUser = [u \in Users |-> 0]
    BY <1>1 DEF DeployInv, IInv, DebtsOK, OwnerInv, NoDebts
  <2>2. SumFunction([u \in Users |-> 0]) = 0
    BY MotorFacts, SumFunctionZero
  <2> QED BY <2>1, <2>2 DEF TotalDebt
<1>2. DeployInv => NoDebtBeforeHandover
  BY <1>1 DEF NoDebtBeforeHandover
<1> QED BY <1>2, DeployInvariance, PTL

(***************************************************************************)
(* The motor has no call that gives BUSC away: after the handover every    *)
(* step is one of BUSCmotor or none, and no BUSC without a debt is added.  *)
(***************************************************************************)
THEOREM HandoverLasts == DeploySpec => HandoverIsFinal
<1>1. DeployInv /\ [DeployNext]_deployVars
         => [owner = Motor => owner' = Motor /\ unbacked' = unbacked /\ [Next]_vars]_deployVars
  BY DeployStepKeeps DEF DeployStepOK, Final
<1> QED BY <1>1, DeployInvariance, PTL DEF DeploySpec, HandoverIsFinal

-----------------------------------------------------------------------------
(* The motor's guarantees, proved in BUSCmotorProofs for a motor that owns *)
(* BUSC from the start, from the moment it is deployed.                    *)

(***************************************************************************)
(* Deposits made before the handover, or while somebody else owns BUSC,    *)
(* are covered by tokens like all others.                                  *)
(***************************************************************************)
THEOREM DeployCustody == DeploySpec => []CustodyCovered
<1>1. DeployInv => CustodyCovered
  BY InvariantImplies DEF DeployInv
<1> QED BY <1>1, DeployInvariance, PTL

(***************************************************************************)
(* What an owner mints and burns by itself wraps no balance either.        *)
(***************************************************************************)
THEOREM DeployLedgersSound == DeploySpec => []BalancesSumToSupply
<1>1. DeployInv => BalancesSumToSupply
  BY InvariantImplies DEF DeployInv
<1> QED BY <1>1, DeployInvariance, PTL

(***************************************************************************)
(* While every position is healthy, the motor holds twice the worth of all *)
(* BUSC but what owners minted before the handover: the damage of an owner *)
(* who uses its time is what it mints and no more.                         *)
(***************************************************************************)
THEOREM HealthyMeansBackedButForOwners == DeploySpec => []OvercollateralizedButForOwners
<1>1. ASSUME DeployInv, \A u \in Users : Healthy(u)
      PROVE  ProtocolValue >= 2 * (busc.totalSupply - unbacked)
  <2>1. ProtocolValue >= 2 * TotalDebt /\ ProtocolValue \in Nat
    BY <1>1, HealthyDebtsCovered DEF DeployInv
  <2> QED BY <1>1, <2>1, SupplyAndOwners
<1>2. DeployInv => OvercollateralizedButForOwners
  BY <1>1 DEF OvercollateralizedButForOwners
<1> QED BY <1>2, DeployInvariance, PTL

(***************************************************************************)
(* Neither the script nor an owner of BUSC, by minting, burning or leaving,*)
(* makes a healthy position unhealthy.                                     *)
(***************************************************************************)
THEOREM DeployPricesOnlyHurt == DeploySpec => OnlyPricesHurt
<1>1. ASSUME DeployInv, [DeployNext]_deployVars, UNCHANGED priceFeed
      PROVE  \A u \in Users : Healthy(u) => Healthy(u)'
  <2>1. [Next]_vars \/ UNCHANGED <<positions, priceFeed>>
    BY <1>1, DeployStepKeeps DEF DeployStepOK, StepOfMotor
  <2> QED BY <1>1, <2>1, StepHealthy, PositionsKeptHealthy DEF StaysHealthy, DeployInv
<1>2. DeployInv /\ [DeployNext]_deployVars =>
         [UNCHANGED priceFeed => \A u \in Users : Healthy(u) => Healthy(u)']_vars
  BY <1>1
<1> QED BY <1>2, DeployInvariance, PTL DEF DeploySpec, OnlyPricesHurt

(***************************************************************************)
(* From the first block on a deposit leaves its owner for another's wallet *)
(* only in a liquidation of an unhealthy position that is the better for   *)
(* it: the ownership of BUSC gives no way to anybody's collateral.         *)
(***************************************************************************)
THEOREM DeployUnhealthyLose == DeploySpec => OnlyUnhealthyLose
<1>1. ASSUME DeployInv, [DeployNext]_deployVars
      PROVE  LossesFair
  <2>1. IInv /\ IInv' /\ ([Next]_vars \/ UNCHANGED positions)
    BY <1>1, DeployStepKeeps DEF DeployStepOK, StepOfMotor, DeployInv
  <2> QED BY <2>1, StepFair, PositionsKeptFair
<1>2. DeployInv /\ [DeployNext]_deployVars =>
         [\A u \in Users, t \in Tokens :
             LET lost == s_userCollateralDeposits[u][t] - s_userCollateralDeposits'[u][t]
                 gained == collateral'[t].balances[u] - collateral[t].balances[u]
             IN  (lost > 0 /\ gained < lost) =>
                    /\ ~Healthy(u)
                    /\ s_BuscAmountMintedByUser'[u] < s_BuscAmountMintedByUser[u]
                    /\ HealthOf(u)' > HealthOf(u)]_vars
  BY <1>1 DEF LossesFair, Lost, Gained
<1> QED BY <1>2, DeployInvariance, PTL DEF DeploySpec, OnlyUnhealthyLose

=============================================================================
