\* Three requests of any kind beside each other and the clock.
SPECIFICATION Spec
CONSTANTS
    Requests = {r1, r2, r3}
    Founders = {a, b}
    Newcomer = n
    Session = s
    MaxFails = 2
    RequireRedis = FALSE
SYMMETRY Alike
CHECK_DEADLOCK FALSE
INVARIANTS
    LockFollows
    RevocationReaches
    SpentOnce
    AdminRemains
