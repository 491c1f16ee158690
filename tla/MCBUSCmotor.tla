----------------------------- MODULE MCBUSCmotor ----------------------------
(***************************************************************************)
(* Small instances of BUSCmotor.  The unit of USD has one decimal (WAD =   *)
(* 10), feeds report in steps of $0.20 (FEED = 2), so that an answer of 10 *)
(* is $2.  weth has as many decimals as BUSC, wbtc one less (Scale 10),    *)
(* and junk is an ERC20 token that the protocol does not list.             *)
(***************************************************************************)
EXTENDS BUSCmotor, TLC

CONSTANTS alice, bob, motor, weth, wbtc, junk, Wallet

MCScale == [t \in Tokens |-> IF t = wbtc THEN 10 ELSE 1]

\* Every user starts with the same amount of every token.
MCInitBalance ==
    [t \in Tokens |-> [a \in Accounts |-> IF a = Motor THEN 0 ELSE Wallet]]

MCInitAnswer == [t \in Listed |-> 10]

\* For the run stale: a wbtc cheap enough to keep debts small, and answers
\* that stalePriceCheckLatestRoundData lets through like any other.
StaleInitAnswer == [t \in Listed |-> IF t = wbtc THEN 4 ELSE 10]
OddAnswers == {-1, 0, 4}

Symmetry == Permutations(Users)

=============================================================================
