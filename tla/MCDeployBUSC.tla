---------------------------- MODULE MCDeployBUSC ----------------------------
(***************************************************************************)
(* A small instance of DeployBUSC with one listed token.  Besides the      *)
(* settings that fit there is one for each check of the constructor.       *)
(***************************************************************************)
EXTENDS DeployBUSC

CONSTANTS alice, bob, motor, weth, zero, nobody, Wallet

MCScale == [t \in Tokens |-> 1]

MCInitBalance ==
    [t \in Tokens |-> [a \in Accounts |-> IF a = Motor THEN 0 ELSE Wallet]]

MCInitAnswer == [t \in Listed |-> 10]

MCSettings ==
    {[tokens |-> <<weth>>, feeds |-> <<weth>>],
     [tokens |-> <<weth>>, feeds |-> <<>>],
     [tokens |-> <<weth, weth>>, feeds |-> <<weth, weth>>],
     [tokens |-> <<weth>>, feeds |-> <<zero>>]}

=============================================================================
