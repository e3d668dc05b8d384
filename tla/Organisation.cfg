SPECIFICATION Spec
CONSTANTS
    boss = boss
    adm = adm
    alice = alice
    q1 = q1
    q2 = q2
    w1 = w1
    Users = {boss, adm, alice}
    Nobody = Nobody
    Requests = {q1, q2}
    Newcomers = {alice}
    Handlers = {w1}
    RetryLimit = 1
    OnboardingFaults = {}
    MaxFaults = 0
    InitialRoles <- Roles
    Subjects = {alice, adm}
SYMMETRY Alike
INVARIANTS
    
    RegisteredKeyIsSealed
PROPERTIES
    RoleChangedByHigher
CHECK_DEADLOCK FALSE
