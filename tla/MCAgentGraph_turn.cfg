\* Every graph, a plan of up to three steps, one retry and one revision.
SPECIFICATION GraphFairSpec
CONSTANTS
    s1 = s1
    s2 = s2
    NoStep = NoStep
    Graphs <- AllGraphs
    StepIds <- TwoIds
    MaxPlan = 3
    MaxSteps = 4
    MaxRetries = 1
    MaxRevisions = 1
    Clarifier = TRUE
    Reflector = TRUE
    MaxReflections = 1
    StepLimit = 27
CHECK_DEADLOCK FALSE
INVARIANTS
    AgenticTurnBounded
    GroundedOnPlan
PROPERTIES
    KeepsTurn
