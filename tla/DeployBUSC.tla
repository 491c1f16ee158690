----------------------------- MODULE DeployBUSC -----------------------------
(***************************************************************************)
(* The deployment of the protocol and its life after it.  The script sends *)
(* three transactions, new BUSC(), new BUSCmotor(...) and                  *)
(* transferOwnership, and each contract is open to everybody as soon as it *)
(* exists: others deposit, approve and transfer between the three, and     *)
(* until the third one BUSC belongs to the account that deploys it.        *)
(*                                                                         *)
(* Users may hold the ownership, the deployer among them, and do with it   *)
(* what BUSC lets an owner do.                                             *)
(***************************************************************************)
EXTENDS BUSCmotor, BUSCstablecoin, Sequences

CONSTANTS Deployer,         \* the account of deployerKey
          NoAddress,        \* address(0) as a token or a feed
          Settings,         \* what activeNetworkSettings may be read as
          MaxUnbacked       \* bounds what owners mint by themselves

ASSUME DeployAssumption ==
    /\ Deployer \in Users
    /\ NoOwner \notin Accounts
    /\ NoAddress \notin Tokens
    /\ MaxUnbacked \in Nat

VARIABLES
    step,                   \* the next transaction of the script
    settings,               \* its tokenAddresses and priceFeedAddresses
    s_collateralTokens,     \* the motor's list of tokens
    s_tokenToPriceFeed,     \* the feed it has for each; named by its token
    unbacked                \* all that owners other than the motor minted

script == <<step, settings, s_collateralTokens, s_tokenToPriceFeed>>
deployVars == <<vars, owner, script, unbacked>>

DeployTypeOK ==
    /\ TypeOK
    /\ owner \in Accounts \cup {NoOwner}
    /\ step \in {"BUSC", "motor", "handover", "done"}
    /\ settings \in Settings
    /\ s_collateralTokens \in Seq(Tokens)
    /\ s_tokenToPriceFeed \in [Tokens -> Tokens \cup {NoAddress}]
    /\ unbacked \in Nat

DeployInit ==
    /\ Init
    /\ owner = NoOwner
    /\ step = "BUSC"
    /\ settings \in Settings
    /\ s_collateralTokens = <<>>
    /\ s_tokenToPriceFeed = [t \in Tokens |-> NoAddress]
    /\ unbacked = 0

-----------------------------------------------------------------------------
(* The constructor of the motor.                                           *)

BUSCExists == step # "BUSC"
MotorExists == step \in {"handover", "done"}

\* Mutation: a token may be listed twice.
ListsTwiceOK(tokens, feeds) ==
    /\ Len(tokens) = Len(feeds)
    /\ \A i \in DOMAIN tokens : tokens[i] # NoAddress /\ feeds[i] # NoAddress

\* The loop finds no zero address and no token that it has met before.
ListsOK(tokens, feeds) ==
    /\ Len(tokens) = Len(feeds)
    /\ \A i \in DOMAIN tokens :
          /\ tokens[i] # NoAddress /\ feeds[i] # NoAddress
          /\ \A j \in 1..(i - 1) : tokens[j] # tokens[i]

\* address(busc), which the script passes on, is not zero: BUSC exists.
ConstructorOK(tokens, feeds) ==
    /\ ListsOK(tokens, feeds)
    /\ BUSCExists

\* The feed written last for each token.
FeedsOf(tokens, feeds) ==
    [t \in Tokens |->
        LET at == {i \in DOMAIN tokens : tokens[i] = t}
        IN  IF at = {} THEN NoAddress
            ELSE feeds[CHOOSE i \in at : \A j \in at : j <= i]]

\* Listed is what the settings list whose lists the constructor accepts.
ASSUME SettingsAssumption ==
    \A s \in Settings :
        /\ s.tokens \in Seq(Tokens \cup {NoAddress})
        /\ s.feeds \in Seq(Tokens \cup {NoAddress})
        /\ ListsOK(s.tokens, s.feeds) =>
              {s.tokens[i] : i \in DOMAIN s.tokens} = Listed

-----------------------------------------------------------------------------
(* The script of the deployer.                                             *)

NewBUSC ==
    /\ step = "BUSC"
    /\ owner' = Deployer
    /\ step' = "motor"
    /\ UNCHANGED <<vars, settings, s_collateralTokens, s_tokenToPriceFeed, unbacked>>

NewBUSCmotor ==
    /\ step = "motor"
    /\ ConstructorOK(settings.tokens, settings.feeds)
    /\ s_collateralTokens' = settings.tokens
    /\ s_tokenToPriceFeed' = FeedsOf(settings.tokens, settings.feeds)
    /\ step' = "handover"
    /\ UNCHANGED <<vars, owner, settings, unbacked>>

\* Mutation: transferOwnership(msg.sender).
HandOverToDeployer ==
    /\ step = "handover"
    /\ TransferOwnership(Deployer, Deployer)
    /\ step' = "done"
    /\ UNCHANGED <<vars, settings, s_collateralTokens, s_tokenToPriceFeed, unbacked>>

HandOver ==
    /\ step = "handover"
    /\ TransferOwnership(Deployer, Motor)
    /\ step' = "done"
    /\ UNCHANGED <<vars, settings, s_collateralTokens, s_tokenToPriceFeed, unbacked>>

Script == NewBUSC \/ NewBUSCmotor \/ HandOver

-----------------------------------------------------------------------------
(* What everybody else does meanwhile.                                     *)

\* The collateral tokens were there before; BUSC answers once it exists.
DirectCall(u) ==
    /\ TokenCall(u)
    /\ BUSCExists \/ UNCHANGED busc
    /\ UNCHANGED <<owner, script, unbacked>>

\* Calls that never reach I_BUSC.
CollateralCall(u) ==
    /\ MotorExists
    /\ \E t \in Tokens, a \in CollateralAmounts :
          DepositCollateral(u, t, a) \/ PullCollateral(u, t, a)
    /\ UNCHANGED <<owner, script, unbacked>>

\* The motor mints BUSC: the last statement of mintBUSC.
MintingCall(u) ==
    /\ MotorExists
    /\ \E b \in BuscAmounts :
          /\ BUSCMintOK(busc, Motor, b)
          /\ \/ MintBUSC(u, b)
             \/ \E t \in Tokens, a \in CollateralAmounts :
                   DepositCollateralAndMintBUSC(u, t, a, b)
    /\ UNCHANGED <<owner, script, unbacked>>

\* The motor burns the BUSC it has just been paid, by burnBUSC,
\* pullCollateralAndBurnBUSC or liquidate.
BurningCall(u) ==
    /\ MotorExists
    /\ \E b \in BuscAmounts :
          /\ BUSCBurnOK(TransferFrom(busc, Motor, u, Motor, b), Motor, b)
          /\ \/ BurnBUSC(u, b)
             \/ \E t \in Tokens, v \in Users : Liquidate(u, t, v, b)
             \/ \E t \in Tokens, a \in CollateralAmounts :
                   PullCollateralAndBurnBUSC(u, t, a, b)
    /\ UNCHANGED <<owner, script, unbacked>>

\* An owner who is not the motor.
OwnerMints(u, to, amount) ==
    /\ unbacked + amount <= MaxUnbacked
    /\ BUSCMintOK(busc, u, amount)
    /\ busc' = Mint(busc, to, amount)
    /\ unbacked' = unbacked + amount
    /\ UNCHANGED <<positions, collateral, world, owner, script>>

OwnerBurns(u, amount) ==
    /\ BUSCBurnOK(busc, u, amount)
    /\ busc' = Burn(busc, u, amount)
    /\ UNCHANGED <<positions, collateral, world, owner, script, unbacked>>

OwnerLeaves(u) ==
    /\ \/ \E newOwner \in Accounts : TransferOwnership(u, newOwner)
       \/ RenounceOwnership(u)
    /\ UNCHANGED <<vars, script, unbacked>>

OwnerCall(u) ==
    /\ BUSCExists
    /\ \/ \E a \in BuscAmounts : \/ \E to \in Accounts : OwnerMints(u, to, a)
                                 \/ OwnerBurns(u, a)
       \/ OwnerLeaves(u)

WorldMoves ==
    /\ WorldStep
    /\ UNCHANGED <<owner, script, unbacked>>

DeployNext ==
    \/ Script
    \/ \E u \in Users :
          \/ DirectCall(u)
          \/ CollateralCall(u)
          \/ MintingCall(u)
          \/ BurningCall(u)
          \/ OwnerCall(u)
    \/ WorldMoves

\* The script sends a transaction when the one before it is mined, and the
\* chain mines it in the end unless it reverts.  Nobody else has to act.
DeploySpec == DeployInit /\ [][DeployNext]_deployVars /\ WF_deployVars(Script)

-----------------------------------------------------------------------------

(***************************************************************************)
(* All BUSC that no debt backs was minted by an owner before the motor     *)
(* became one: the three transactions leave no other way, in any order of  *)
(* the calls between them.                                                 *)
(***************************************************************************)
UnbackedByOwnersOnly == busc.totalSupply <= TotalDebt + unbacked

(***************************************************************************)
(* The 200% of BUSCmotor.sol:100 with the owners counted: while every      *)
(* position is healthy, what the motor holds is worth twice all the BUSC   *)
(* but that which owners minted for themselves between new BUSC() and the  *)
(* end of transferOwnership.                                               *)
(***************************************************************************)
OvercollateralizedButForOwners ==
    (\A u \in Users : Healthy(u)) =>
        ProtocolValue >= 2 * (busc.totalSupply - unbacked)

(***************************************************************************)
(* Nobody owes BUSC that the motor could not take back: as long as the     *)
(* motor does not own BUSC there is no debt, so no deposit waits for a     *)
(* repayment that would revert in burn.                                    *)
(***************************************************************************)
NoDebtBeforeHandover == owner # Motor => TotalDebt = 0

(***************************************************************************)
(* Once the motor exists, s_collateralTokens and s_tokenToPriceFeed agree: *)
(* the loop over the list that values a position meets each token that     *)
(* depositCollateral accepts once, and none without a feed.  They are the  *)
(* Listed tokens of BUSCmotor.                                             *)
(***************************************************************************)
ListAndFeedsAgree ==
    MotorExists =>
        /\ \A i, j \in DOMAIN s_collateralTokens :
              s_collateralTokens[i] = s_collateralTokens[j] => i = j
        /\ {s_collateralTokens[i] : i \in DOMAIN s_collateralTokens} =
              {t \in Tokens : s_tokenToPriceFeed[t] # NoAddress}
        /\ {s_collateralTokens[i] : i \in DOMAIN s_collateralTokens} = Listed

(***************************************************************************)
(* The handover is final: once the motor owns BUSC nobody takes it away,   *)
(* and the protocol does only what BUSCmotor describes.                    *)
(***************************************************************************)
HandoverIsFinal ==
    [][owner = Motor => owner' = Motor /\ unbacked' = unbacked /\ [Next]_vars]_deployVars

(***************************************************************************)
(* With lists that the constructor accepts, the motor ends up owning       *)
(* BUSC for good, unless an owner gives it to somebody else before: the    *)
(* calls of others cannot hold the script up.                              *)
(***************************************************************************)
HandoverCompletes ==
    ListsOK(settings.tokens, settings.feeds) =>
        \/ <>[](owner = Motor)
        \/ <>(step # "BUSC" /\ owner \notin {Deployer, Motor})

=============================================================================
