------------------------------ MODULE OracleLib -----------------------------
(***************************************************************************)
(* The Chainlink price feeds and the staleness check of OracleLib.sol.     *)
(* A feed is what latestRoundData() returns of it: the answer, a signed    *)
(* integer, and the time of its last update.                               *)
(***************************************************************************)
EXTENDS Integers

CONSTANT PRICEFEED_TIMEOUT     \* 2 hours

ASSUME TimeoutAssumption == PRICEFEED_TIMEOUT \in Nat

PriceFeed == [answer : Int, updatedAt : Nat]

\* A round that an aggregator reports at time now.
NewRound(answer, now) == [answer |-> answer, updatedAt |-> now]

\* Mutation: the age of the round is not looked at.
StalePriceUnchecked(priceFeed, now) == priceFeed.updatedAt <= now

(***************************************************************************)
(* stalePriceCheckLatestRoundData reverts for an old round, and for a      *)
(* round of the future, where block.timestamp - updatedAt underflows.  It  *)
(* accepts any answer, zero and negative ones included.                    *)
(***************************************************************************)
StalePriceCheckOK(priceFeed, now) ==
    /\ priceFeed.updatedAt <= now
    /\ now - priceFeed.updatedAt <= PRICEFEED_TIMEOUT

=============================================================================
