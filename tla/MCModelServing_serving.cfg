\* Two coroutines, a sync, two admins: two requests, syncs or restarts in all.
SPECIFICATION ServingSpec
CONSTANTS
    None = None
    Deployments <- Halves
    Models = {m1}
    Embedders = {e1, e2}
    Calls = {c1, c2}
    Syncs = {s1}
    Admins = {a1, a2}
    TimeToLive = 2
    MaxBuild = 1
    MaxEdits = 2
SYMMETRY Alike
CHECK_DEADLOCK FALSE
INVARIANTS
    StaleBounded
    
    FilterKeepsSpaces
