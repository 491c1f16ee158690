-------------------------- MODULE MCBUSCmotorSteps --------------------------
(***************************************************************************)
(* A small instance of BUSCmotorSteps with one token and the units of      *)
(* MCBUSCmotor.  It starts after each user has approved the motor for any  *)
(* amount of both tokens, as the scripts and tests of the protocol do      *)
(* before they call it.                                                    *)
(***************************************************************************)
EXTENDS BUSCmotorSteps

CONSTANTS alice, bob, motor, weth, Wallet

MCScale == [t \in Tokens |-> 1]

MCInitBalance ==
    [t \in Tokens |-> [a \in Accounts |-> IF a = Motor THEN 0 ELSE Wallet]]

MCInitAnswer == [t \in Listed |-> 10]

Approved(token) ==
    [token EXCEPT !.allowances = [a \in Accounts |-> [s \in Accounts |->
        IF a # Motor /\ s = Motor THEN MaxUint ELSE 0]]]

MCInit ==
    /\ s_userCollateralDeposits = [u \in Users |-> [t \in Tokens |-> 0]]
    /\ s_BuscAmountMintedByUser = [u \in Users |-> 0]
    /\ busc = Approved(NewLedger([a \in Accounts |-> 0]))
    /\ collateral = [t \in Tokens |-> Approved(NewLedger(InitBalance[t]))]
    /\ priceFeed = [t \in Listed |-> NewRound(InitAnswer[t], 0)]
    /\ now = 0
    /\ entered = FALSE /\ stack = <<>> /\ callers = {} /\ reentered = FALSE

MCSpec == MCInit /\ [][StepsNext]_allVars

Symmetry == Permutations(Users)

=============================================================================
