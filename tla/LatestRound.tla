----------------------------- MODULE LatestRound ----------------------------
(***************************************************************************)
(* What BUSCmotor takes a price feed for: a place that shows the round     *)
(* reported last, whatever its time, next to a clock that goes on.         *)
(***************************************************************************)
EXTENDS OracleLib

CONSTANTS Answers,          \* what may be reported
          Times             \* the times of their own that reports may have

VARIABLES feed,             \* the round reported last
          now               \* block.timestamp

roundVars == <<feed, now>>

Init == feed \in PriceFeed /\ now \in Nat

Report(answer, time) ==
    /\ feed' = NewRound(answer, time)
    /\ UNCHANGED now

Tick ==
    /\ now' = now + 1
    /\ UNCHANGED feed

Next ==
    \/ \E answer \in Answers, time \in Times \cup {now} : Report(answer, time)
    \/ Tick

Spec == Init /\ [][Next]_roundVars

=============================================================================
