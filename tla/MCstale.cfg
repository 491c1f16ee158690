SPECIFICATION Spec
CONSTANTS
    MaxUint = 65535
    WAD = 10
    FEED = 2
    PRICEFEED_TIMEOUT = 1
    alice = alice
    bob = bob
    motor = motor
    weth = weth
    wbtc = wbtc
    junk = junk
    Wallet = 10
    Users = {alice, bob}
    Motor = motor
    Accounts = {alice, bob, motor}
    Tokens = {weth, wbtc}
    Listed = {weth, wbtc}
    Scale <- MCScale
    InitBalance <- MCInitBalance
    InitAnswer <- StaleInitAnswer
    Answers <- OddAnswers
    CollateralAmounts = {10}
    BuscAmounts = {9}
    TransferAmounts = {}
    Approvals = {65535}
    Spenders = {motor}
    RoundTimes = {0, 2}
    MaxTime = 2
SYMMETRY Symmetry
INVARIANTS
    ExitAlwaysOpen
PROPERTIES
    FrozenWhenStale
    
