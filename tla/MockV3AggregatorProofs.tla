----------------------- MODULE MockV3AggregatorProofs -----------------------
(***************************************************************************)
(* Proofs about MockV3Aggregator, for any answers, times, number of rounds *)
(* and width of a round number.  The invariant is that the two copies of   *)
(* the latest round agree; with it every write shows as one report.        *)
(***************************************************************************)
EXTENDS MockV3Aggregator, TLAPS

AggregatorInv == AggregatorTypeOK /\ CopiesAgree

\* What a write of a round leaves.
LEMMA WriteShows ==
  ASSUME AggregatorInv, NEW round \in Rounds, NEW answer \in Int,
         NEW timestamp \in Nat, NEW startedAt \in Nat,
         Write(round, answer, timestamp, startedAt)
  PROVE  AggregatorInv' /\ Latest!Report(answer, timestamp)
<1>1. /\ getAnswer'[latestRound'] = answer
      /\ getTimestamp'[latestRound'] = timestamp
  BY DEF AggregatorInv, AggregatorTypeOK, Write
<1>2. AggregatorTypeOK'
  BY DEF AggregatorInv, AggregatorTypeOK, Write
<1>3. CopiesAgree'
  BY <1>1 DEF Write, CopiesAgree, LatestRoundData
<1>4. Latest!Report(answer, timestamp)
  BY <1>1 DEF Write, Latest!Report, Latest!NewRound, LatestRoundData
<1> QED BY <1>2, <1>3, <1>4 DEF AggregatorInv

LEMMA AggregatorStart ==
  ASSUME AggregatorInit
  PROVE  AggregatorInv /\ Latest!Init
<1>1. 1 \in Rounds /\ 0 \in 0..MaxTime /\ latestAnswer \in Int
  BY AggregatorAssumption DEF Rounds, AggregatorInit
<1>2. AggregatorInv
  BY <1>1 DEF AggregatorInit, AggregatorInv, AggregatorTypeOK, CopiesAgree, LatestRoundData
<1>3. Latest!Init
  BY <1>1, <1>2 DEF AggregatorInit, Latest!Init, Latest!PriceFeed, LatestRoundData,
                    AggregatorInv, AggregatorTypeOK
<1> QED BY <1>2, <1>3

LEMMA AggregatorStep ==
  ASSUME AggregatorInv, [AggregatorNext]_aggregatorVars
  PROVE  AggregatorInv' /\ [Latest!Next]_(Latest!roundVars)
<1>1. CASE \E answer \in Answers : UpdateAnswer(answer)
  <2>1. PICK answer \in Answers : UpdateAnswer(answer)
    BY <1>1
  <2>2. /\ Write(latestRound + 1, answer, now, now)
        /\ latestRound + 1 \in Rounds /\ now \in Nat /\ answer \in Int
    BY <2>1, AggregatorAssumption
       DEF UpdateAnswer, AggregatorInv, AggregatorTypeOK, Rounds
  <2>3. AggregatorInv' /\ Latest!Report(answer, now)
    BY <2>2, WriteShows
  <2> QED BY <2>3 DEF Latest!Next
<1>2. CASE \E answer \in Answers, round \in 0..(RoundIds - 1),
             time \in Times, startedAt \in Times :
                UpdateRoundData(round, answer, time, startedAt)
  <2>1. PICK answer \in Answers, round \in 0..(RoundIds - 1),
             time \in Times, startedAt \in Times :
                UpdateRoundData(round, answer, time, startedAt)
    BY <1>2
  <2>2. /\ Write(round, answer, time, startedAt)
        /\ round \in Rounds /\ time \in Nat /\ startedAt \in Nat /\ answer \in Int
    BY <2>1, AggregatorAssumption DEF UpdateRoundData, Rounds
  <2>3. AggregatorInv' /\ Latest!Report(answer, time)
    BY <2>2, WriteShows
  <2> QED BY <2>3 DEF Latest!Next
<1>3. CASE Tick
  <2>1. AggregatorInv'
    BY <1>3, AggregatorAssumption DEF Tick, aggregator, AggregatorInv, AggregatorTypeOK, CopiesAgree,
                LatestRoundData
  <2>2. Latest!Tick
    BY <1>3 DEF Tick, aggregator, Latest!Tick, LatestRoundData
  <2> QED BY <2>1, <2>2 DEF Latest!Next
<1>4. CASE UNCHANGED aggregatorVars
  BY <1>4 DEF aggregatorVars, aggregator, AggregatorInv, AggregatorTypeOK,
              CopiesAgree, LatestRoundData, Latest!roundVars
<1> QED BY <1>1, <1>2, <1>3, <1>4 DEF AggregatorNext

LEMMA AggregatorInvariance == AggregatorSpec => []AggregatorInv
<1>1. AggregatorInit => AggregatorInv
  BY AggregatorStart
<1>2. AggregatorInv /\ [AggregatorNext]_aggregatorVars => AggregatorInv'
  BY AggregatorStep
<1> QED BY <1>1, <1>2, PTL DEF AggregatorSpec

(***************************************************************************)
(* No report leaves the range of the mappings: updateAnswer counts rounds  *)
(* only up to the bound, and updateRoundData takes a uint80.               *)
(***************************************************************************)
THEOREM AggregatorTyped == AggregatorSpec => []AggregatorTypeOK
<1>1. AggregatorInv => AggregatorTypeOK
  BY DEF AggregatorInv
<1> QED BY <1>1, AggregatorInvariance, PTL

(***************************************************************************)
(* The fields and the mappings of the aggregator keep showing the same     *)
(* round, whatever updateAnswer and updateRoundData write over.            *)
(***************************************************************************)
THEOREM CopiesKept == AggregatorSpec => []CopiesAgree
<1>1. AggregatorInv => CopiesAgree
  BY DEF AggregatorInv
<1> QED BY <1>1, AggregatorInvariance, PTL

(***************************************************************************)
(* MockV3Aggregator implements LatestRound: latestRoundData returns the    *)
(* round reported last, for round numbers of any width.                    *)
(***************************************************************************)
THEOREM AggregatorImplements == AggregatorSpec => ShowsLatestReport
<1>1. AggregatorInit => AggregatorInv /\ Latest!Init
  BY AggregatorStart
<1>2. AggregatorInv /\ [AggregatorNext]_aggregatorVars =>
         AggregatorInv' /\ [Latest!Next]_(Latest!roundVars)
  BY AggregatorStep
<1> QED BY <1>1, <1>2, PTL DEF AggregatorSpec, ShowsLatestReport, Latest!Spec

=============================================================================
