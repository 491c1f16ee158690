-------------------------- MODULE MockV3Aggregator --------------------------
(***************************************************************************)
(* The price feed of local deployments and tests, and the clock its rounds *)
(* are read against.  It keeps the latest round twice: in latestAnswer and *)
(* latestTimestamp, and in mappings by round number, which                 *)
(* latestRoundData reads.  updateAnswer counts rounds in uint256, but      *)
(* updateRoundData takes, and latestRoundData returns, a uint80.           *)
(***************************************************************************)
EXTENDS OracleLib

CONSTANTS Answers,          \* the answers reported
          RoundIds,         \* 2 ** 80
          Times,            \* arguments of updateRoundData
          MaxRound,         \* the last round explored, may exceed a uint80
          MaxStamp,         \* updateAnswer is explored until this time
          MaxTime           \* the last time explored

ASSUME AggregatorAssumption ==
    /\ Answers \subseteq Int /\ Times \subseteq Nat
    /\ RoundIds \in Nat \ {0}
    /\ MaxRound \in Nat /\ RoundIds <= MaxRound
    /\ MaxStamp \in Nat /\ MaxTime \in Nat
    /\ \A time \in Times : time <= MaxStamp
    /\ MaxStamp + PRICEFEED_TIMEOUT < MaxTime

VARIABLES
    latestAnswer, latestTimestamp, latestRound,
    getAnswer, getTimestamp, getStartedAt,      \* by round number
    now

aggregator == <<latestAnswer, latestTimestamp, latestRound,
                getAnswer, getTimestamp, getStartedAt>>
aggregatorVars == <<aggregator, now>>

Rounds == 0..MaxRound

AggregatorTypeOK ==
    /\ latestAnswer \in Int /\ latestTimestamp \in Nat
    /\ latestRound \in Rounds
    /\ getAnswer \in [Rounds -> Int]
    /\ getTimestamp \in [Rounds -> Nat]
    /\ getStartedAt \in [Rounds -> Nat]
    /\ now \in 0..MaxTime

\* The three mappings, and the copy of the latest round.
Write(round, answer, timestamp, startedAt) ==
    /\ latestRound' = round
    /\ latestAnswer' = answer
    /\ latestTimestamp' = timestamp
    /\ getAnswer' = [getAnswer EXCEPT ![round] = answer]
    /\ getTimestamp' = [getTimestamp EXCEPT ![round] = timestamp]
    /\ getStartedAt' = [getStartedAt EXCEPT ![round] = startedAt]
    /\ UNCHANGED now

\* The constructor ends with updateAnswer(_initialAnswer).
AggregatorInit ==
    /\ now = 0
    /\ latestAnswer \in Answers /\ latestTimestamp = now /\ latestRound = 1
    /\ getAnswer = [round \in Rounds |-> IF round = 1 THEN latestAnswer ELSE 0]
    /\ getTimestamp = [round \in Rounds |-> 0]
    /\ getStartedAt = [round \in Rounds |-> 0]

\* Mutation: the mappings are written before the round is counted.
UpdateAnswerUncounted(answer) ==
    /\ latestRound < MaxRound /\ now <= MaxStamp
    /\ latestRound' = latestRound + 1
    /\ latestAnswer' = answer
    /\ latestTimestamp' = now
    /\ getAnswer' = [getAnswer EXCEPT ![latestRound] = answer]
    /\ getTimestamp' = [getTimestamp EXCEPT ![latestRound] = now]
    /\ getStartedAt' = [getStartedAt EXCEPT ![latestRound] = now]
    /\ UNCHANGED now

UpdateAnswer(answer) ==
    /\ latestRound < MaxRound /\ now <= MaxStamp
    /\ Write(latestRound + 1, answer, now, now)

\* Mutation: answer and timestamp in the wrong order.
UpdateRoundSwapped(round, answer, timestamp, startedAt) ==
    Write(round, timestamp, answer, startedAt)

\* Any round, gone by or to come, with any times.
UpdateRoundData(round, answer, timestamp, startedAt) ==
    Write(round, answer, timestamp, startedAt)

Tick ==
    /\ now < MaxTime
    /\ now' = now + 1
    /\ UNCHANGED aggregator

AggregatorNext ==
    \/ \E answer \in Answers :
          \/ UpdateAnswer(answer)
          \/ \E round \in 0..(RoundIds - 1), time \in Times, startedAt \in Times :
                UpdateRoundData(round, answer, time, startedAt)
    \/ Tick

\* Blocks are produced whatever the contracts do; nobody has to report.
AggregatorSpec ==
    AggregatorInit /\ [][AggregatorNext]_aggregatorVars /\ WF_aggregatorVars(Tick)

-----------------------------------------------------------------------------
(* latestRoundData, as far as OracleLib reads it.                          *)

\* Mutations: the mappings are read at the uint80 that is returned, or the
\* two times are returned in the wrong order.
LatestRoundDataCast ==
    [answer |-> getAnswer[latestRound % RoundIds],
     updatedAt |-> getTimestamp[latestRound % RoundIds]]

LatestRoundDataSwapped ==
    [answer |-> getAnswer[latestRound], updatedAt |-> getStartedAt[latestRound]]

LatestRoundData ==
    [answer |-> getAnswer[latestRound], updatedAt |-> getTimestamp[latestRound]]

Accepted == StalePriceCheckOK(LatestRoundData, now)

-----------------------------------------------------------------------------

(***************************************************************************)
(* The two copies of the latest round agree, although updateRoundData may  *)
(* go back to a round that updateAnswer then counts, and writes, again.    *)
(***************************************************************************)
CopiesAgree == LatestRoundData = [answer |-> latestAnswer, updatedAt |-> latestTimestamp]

Latest == INSTANCE LatestRound WITH feed <- LatestRoundData

(***************************************************************************)
(* The aggregator implements the feed that BUSCmotor assumes: what it      *)
(* shows changes only in a report, and then to that report, whatever       *)
(* rounds were overwritten and even once the number outgrows a uint80.     *)
(***************************************************************************)
ShowsLatestReport == Latest!Spec

(***************************************************************************)
(* A round with a time still to come blocks the protocol (the subtraction  *)
(* of OracleLib underflows) but not for ever: it is accepted when its time *)
(* has come, unless another round takes its place.                         *)
(***************************************************************************)
FutureRoundsArrive ==
    \A time \in Times :
        (latestTimestamp = time /\ time > now) ~>
            (Accepted \/ latestTimestamp # time)

(***************************************************************************)
(* No round is trusted for ever: one that is accepted is rejected once     *)
(* PRICEFEED_TIMEOUT has gone by, unless another round takes its place.    *)
(***************************************************************************)
SilenceFreezes ==
    \A time \in 0..MaxStamp :
        (latestTimestamp = time /\ Accepted) ~>
            (~Accepted \/ latestTimestamp # time)

=============================================================================
