SPECIFICATION GiftSpec
CONSTANTS
    alice = alice
    bob = bob
    kA = kA
    kA2 = kA2
    kB = kB
    usdc = usdc
    odd = odd
    router = router
    NoKey = NoKey
    MixedKey = MixedKey
    NoAddress = NoAddress
    Users = {alice, bob}
    Keys = {kA, kA2, kB}
    OwnKeys <- TwoKeys
    Depositors = {router}
    Tokens = {usdc, odd}
    DownScale <- MoreDecimals
    UpScale <- FewerDecimals
    Randomness = {1}
    Amounts = {1, 3}
    InitialTokens <- ThreeAndRouterTwo
    MaxProofs = 1
    MaxTransactionIndex = 3
    link = link
    GiftToken = odd
    PrivateEscrow = escrow
    escrow = escrow
    LinkKeys = {link}
    Plans <- MCPlans
    MaxSignatures = 2
    MaxTime = 2
INVARIANTS
    Redeemable
    KeysReadable
    GiftsRedeemable
PROPERTIES
    ClaimsAsSigned
CHECK_DEADLOCK FALSE
