------------------------- MODULE MCMockV3Aggregator -------------------------
(***************************************************************************)
(* A small instance of MockV3Aggregator: round numbers have one bit, and   *)
(* one of the answers is negative.                                         *)
(***************************************************************************)
EXTENDS MockV3Aggregator

MCAnswers == {-1, 7}

=============================================================================
