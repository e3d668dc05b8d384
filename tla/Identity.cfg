SPECIFICATION Spec
CONSTANTS
    ops = ops
    bob = bob
    h1 = h1
    h2 = h2
    n1 = n1
    v1 = v1
    q1 = q1
    q2 = q2
    q3 = q3
    Nobody = Nobody
    NoHandle = NoHandle
    Users = {ops, bob}
    Handles = {h1, h2}
    Signer = ops
    Requests = {q1, q2}
    MaxWalletCalls = 2
    Nonces = {n1}
    AddressOf <- ForOps
    Invites = {v1}
    InitialSessions = {ops}
SYMMETRY Alike
INVARIANTS
    RegistryBijective
    AnswersOwned
    OneSessionPerNonce
PROPERTIES
    UndisturbedRepairs
    InviteOutcomeFinal
CHECK_DEADLOCK FALSE
