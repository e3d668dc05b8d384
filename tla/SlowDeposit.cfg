SPECIFICATION Spec
CONSTANTS
    k1 = k1
    k2 = k2
    q1 = q1
    q2 = q2
    q3 = q3
    Payroll = Payroll
    Nobody = Nobody
    NoTx = NoTx
    NoCandidate = NoCandidate
    IdempotencyKeys = {k1}
    Requests = {q1, q2, q3}
    InitialFunds = 2
    Faults = {}
    Prompt = FALSE
    MaxFaults = 2
    MaxTransfers = 0
INVARIANTS
    OneDepositPerKey
CHECK_DEADLOCK FALSE
