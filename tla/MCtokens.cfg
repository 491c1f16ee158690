SPECIFICATION Spec
CONSTANTS
    MaxUint = 1048575
    WAD = 10
    FEED = 2
    PRICEFEED_TIMEOUT = 1
    alice = alice
    bob = bob
    motor = motor
    weth = weth
    wbtc = wbtc
    junk = junk
    Wallet = 20
    Users = {alice, bob}
    Motor = motor
    Accounts = {alice, bob, motor}
    Tokens = {weth, junk}
    Listed = {weth}
    Scale <- MCScale
    InitBalance <- MCInitBalance
    InitAnswer <- MCInitAnswer
    Answers = {10}
    CollateralAmounts = {20}
    BuscAmounts = {20}
    TransferAmounts = {20}
    Approvals = {20}
    Spenders = {alice, bob, motor}
    RoundTimes = {}
    MaxTime = 0
SYMMETRY Symmetry
INVARIANTS
    CustodyCovered
    SupplyBackedByDebt
    BalancesSumToSupply
PROPERTIES
    StrayBUSCUntouched
    UnlistedTokensStay
