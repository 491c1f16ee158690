SPECIFICATION DeploySpec
CONSTANTS
    MaxUint = 65535
    WAD = 10
    FEED = 2
    PRICEFEED_TIMEOUT = 1
    alice = alice
    bob = bob
    motor = motor
    weth = weth
    zero = zero
    nobody = nobody
    Wallet = 10
    Users = {alice, bob}
    Motor = motor
    Accounts = {alice, bob, motor}
    Deployer = alice
    NoOwner = nobody
    NoAddress = zero
    Settings <- MCSettings
    Tokens = {weth}
    Listed = {weth}
    Scale <- MCScale
    InitBalance <- MCInitBalance
    InitAnswer <- MCInitAnswer
    Answers = {7}
    RoundTimes = {}
    CollateralAmounts = {10}
    BuscAmounts = {10}
    TransferAmounts = {10}
    Approvals = {65535}
    Spenders = {motor}
    MaxTime = 0
    MaxUnbacked = 10
INVARIANTS
    DeployTypeOK
    UnbackedByOwnersOnly
    OvercollateralizedButForOwners
    NoDebtBeforeHandover
    ListAndFeedsAgree
PROPERTIES
    HandoverIsFinal
    HandoverCompletes
