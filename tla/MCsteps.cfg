SPECIFICATION MCSpec
CONSTANTS
    MaxUint = 1048575
    WAD = 10
    FEED = 2
    PRICEFEED_TIMEOUT = 0
    alice = alice
    bob = bob
    motor = motor
    weth = weth
    Wallet = 10
    Users = {alice, bob}
    Motor = motor
    Accounts = {alice, bob, motor}
    Tokens = {weth}
    Listed = {weth}
    Scale <- MCScale
    InitBalance <- MCInitBalance
    InitAnswer <- MCInitAnswer
    Answers = {4}
    CollateralAmounts = {10}
    BuscAmounts = {5, 10}
    TransferAmounts = {10}
    Approvals = {}
    Spenders = {motor}
    RoundTimes = {}
    MaxTime = 1
    MaxDepth = 2
SYMMETRY Symmetry
INVARIANTS
    StepsTypeOK
    CustodyDuringCallbacks
    SoundBetweenTransactions
    LockFollowsCalls
PROPERTIES
    NobodyLeftWorse
    BystandersKept
    FrozenTransactions
    UnreenteredAtomic
