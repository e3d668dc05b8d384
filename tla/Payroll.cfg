SPECIFICATION Spec
CONSTANTS
    i1 = i1
    i2 = i2
    i3 = i3
    r1 = r1
    r2 = r2
    w1 = w1
    w2 = w2
    NoItem = NoItem
    NoTx = NoTx
    NoWorker = NoWorker
    NoRequest = NoRequest
    Items = {i1, i2}
    Runs = {r1, r2}
    RunOf <- TwoRuns
    Unresolved = {}
    Workers = {w1, w2}
    MaxAttempts = 2
    RetryLimit = 1
    Faults = {"prove", "send", "timeout", "expire", "crash"}
    Operations = {"start", "pause", "resume"}
    MaxFaults = 2
    MaxRequests = 2
    MaxDeposits = 1
INVARIANTS
    PaymentsReportedTruly
    TransfersGoThrough
PROPERTIES
    ImplementsPayout
    PauseLiftedByOperator
CHECK_DEADLOCK FALSE
