SPECIFICATION AggregatorSpec
CONSTANTS
    PRICEFEED_TIMEOUT = 1
    Answers <- MCAnswers
    RoundIds = 2
    Times = {0, 3}
    MaxRound = 2
    MaxStamp = 3
    MaxTime = 5
INVARIANTS
    AggregatorTypeOK
    CopiesAgree
PROPERTIES
    ShowsLatestReport
    FutureRoundsArrive
    SilenceFreezes
