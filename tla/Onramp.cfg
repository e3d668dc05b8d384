SPECIFICATION FairSpec
CONSTANTS
    alice = alice
    b1 = b1
    b2 = b2
    m1 = m1
    m2 = m2
    p1 = p1
    p2 = p2
    treasury = treasury
    NoMessage = NoMessage
    Nobody = Nobody
    Users = {alice, treasury}
    Treasury = treasury
    Burns = {b1, b2}
    Messages = {m1, m2}
    MessagesOf <- OneEach
    To <- AliceAndTreasury
    Hook <- WrongKeyInB2
    NonceEarly = {m1}
    Pollers = {p1, p2}
    BatchLimit = 2
    Faults = {"expire", "timeout", "call"}
    MaxFaults = 1
    MaxOwnerCalls = 1
INVARIANTS
    CreditsTrue
PROPERTIES
    ImplementsPromise
    DeliverableIsCredited
CHECK_DEADLOCK FALSE
