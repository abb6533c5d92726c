\* Every surface; a study of up to three tables of which two are kept; a
\* chat turn over two databases and two passes.
SPECIFICATION MCSpec
CONSTANTS
    Everything = Everything
    Surfaces <- AllSurfaces
    Refusals <- MCRefusals
    HandshakeTimes <- Times
    Tables = {r1, r2, r3}
    MaxTables = 2
    Budget = 1
    Servers <- MCServers
    Routable = {"d1", "d2", "files"}
    Accessible = {"d1", "d2"}
    KindOf <- MCKindOf
    Limit = 1
    Statements <- MCStatements
    MaxRows = 2
    Uncapped = Uncapped
    MaxPasses = 2
CHECK_DEADLOCK FALSE
INVARIANTS
    ConnectHonest
    EngineReleased
    
    
    QuestionInBounds
    OneSourceFails
