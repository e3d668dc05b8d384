SPECIFICATION OnboardingSpec
CONSTANTS
    alice = alice
    w1 = w1
    w2 = w2
    q1 = q1
    Users = {alice}
    Nobody = Nobody
    Requests = {q1}
    Newcomers = {alice}
    Handlers = {w1, w2}
    RetryLimit = 1
    OnboardingFaults = {"throw", "expire", "crash"}
    MaxFaults = 2
INVARIANTS
    OnboardingInv
PROPERTIES
    StatusAdvances
    RegisteredSettles
CHECK_DEADLOCK FALSE
