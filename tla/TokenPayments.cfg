SPECIFICATION Spec
CONSTANTS
    alice = alice
    bob = bob
    kA = kA
    kA2 = kA2
    kB = kB
    usdc = usdc
    odd = odd
    router = router
    NoKey = NoKey
    MixedKey = MixedKey
    NoAddress = NoAddress
    Users = {alice, bob}
    Keys = {kA, kB}
    OwnKeys <- OneKey
    Depositors = {}
    Tokens = {usdc}
    DownScale <- Par
    UpScale <- Par
    Randomness = {1}
    Amounts = {1, 2}
    InitialTokens <- TwoEach
    MaxProofs = 2
    MaxTransactionIndex = 6
INVARIANTS
    BalancesCovered
    HistoryAddsUp
PROPERTIES
    SpendRevokes
    ProofsOutliveCredits
    ImplementsLedger
CHECK_DEADLOCK FALSE
