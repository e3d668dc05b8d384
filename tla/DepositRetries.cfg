SPECIFICATION Spec
CONSTANTS
    k1 = k1
    k2 = k2
    q1 = q1
    q2 = q2
    q3 = q3
    Payroll = Payroll
    Nobody = Nobody
    NoTx = NoTx
    NoCandidate = NoCandidate
    IdempotencyKeys = {k1, k2}
    Requests = {q1, q2, q3}
    InitialFunds = 2
    Faults = {"approve", "timeout", "lost", "crash"}
    Prompt = TRUE
    MaxFaults = 2
    MaxTransfers = 1
INVARIANTS
    DepositsTrue
PROPERTIES
    ConfirmedIsFinal
CHECK_DEADLOCK FALSE
