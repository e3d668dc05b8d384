SPECIFICATION FairSpec
CONSTANTS
    t1 = t1
    t2 = t2
    g1 = g1
    r1 = r1
    r2 = r2
    q1 = q1
    Transfers = {t1, t2}
    Registrations = {g1}
    Rotations = {r1, r2}
    GenesisKey = "genesis"
    MaxBlocks = 4
    MaxLogs = 2
    Confirmations = 1
    WindowBlocks = 2
    Pollers = {1, 2}
    Ticks = {1, 2}
    PageSize = 1
    Reads = {q1}
    Plans <- MCPlans
INVARIANTS
    
    
    TransfersVerifiable
    DecryptionsLogged
    PacketSelfContained
PROPERTIES
    CatchesUp
CHECK_DEADLOCK FALSE
