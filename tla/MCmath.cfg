SPECIFICATION Spec
CONSTANTS
    MaxUint = 2047
    WAD = 10
    FEED = 2
    MaxAnswer = 12
    MaxAmount = 45
    MaxUSD = 20
CHECK_DEADLOCK FALSE
INVARIANTS
    HealthMeansTwiceTheDebt
    AmountIsTheLargestCovered
    SplittingSeizesNoMore
