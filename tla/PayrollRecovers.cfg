SPECIFICATION FairSpec
CONSTANTS
    i1 = i1
    i2 = i2
    i3 = i3
    r1 = r1
    r2 = r2
    w1 = w1
    w2 = w2
    NoItem = NoItem
    NoTx = NoTx
    NoWorker = NoWorker
    NoRequest = NoRequest
    Items = {i1, i3}
    Runs = {r1}
    RunOf <- OneRun
    Unresolved = {i3}
    Workers = {w1, w2}
    MaxAttempts = 2
    RetryLimit = 2
    Faults = {"prove", "send", "timeout", "expire", "crash"}
    Operations = {"start"}
    MaxFaults = 2
    MaxRequests = 1
    MaxDeposits = 0
INVARIANTS
    RunsAttended
PROPERTIES
    RunSettles
CHECK_DEADLOCK FALSE
