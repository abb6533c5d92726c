\* Two study messages, a rotation or a probe against a PATCH, one cancel, one lost worker.
SPECIFICATION DbFairSpec
CONSTANTS
    Studies = {n1, n2}
    Requests = {r1}
    None = None
    h1 = h1
    h2 = h2
    s1 = s1
    Hosts = {h1, h2}
    Secrets = {s1}
    Submissions <- FewRotations
    Created <- FirstUrl
    MaxStudyCancels = 1
    MaxStudyCrashes = 1
    MaxPatches = 1
CHECK_DEADLOCK FALSE
INVARIANTS
    OneStudy
    StatusMatchesRows
PROPERTIES
    RotationTested
    
