SPECIFICATION Spec
CONSTANTS
    MaxUint = 1048575
    WAD = 10
    FEED = 2
    PRICEFEED_TIMEOUT = 1
    alice = alice
    bob = bob
    motor = motor
    weth = weth
    wbtc = wbtc
    junk = junk
    Wallet = 20
    Users = {alice, bob}
    Motor = motor
    Accounts = {alice, bob, motor}
    Tokens = {weth}
    Listed = {weth}
    Scale <- MCScale
    InitBalance <- MCInitBalance
    InitAnswer <- MCInitAnswer
    Answers = {10}
    CollateralAmounts = {10, 20}
    BuscAmounts = {10, 20}
    TransferAmounts = {10}
    Approvals = {1048575}
    Spenders = {motor}
    RoundTimes = {}
    MaxTime = 2
SYMMETRY Symmetry
PROPERTIES
    CompletelyFrozenWhenStale
