\* One message, every dispatcher, a retry, a crash, a cancel, Redis failing in strict mode.
SPECIFICATION Spec
CONSTANTS
    Tasks = {t1}
    MaxJobs = 3
    MaxRetries = 1
    MaxDocs = 2
    MaxCancels = 1
    MaxCrashes = 1
    SourceType = "document"
    Origins <- AllOrigins
    RedisMode = "strict"
    FlagTTL = TRUE
CHECK_DEADLOCK FALSE
INVARIANTS
    TypeOK
    RunInv
    SuccessIsComplete
    FailedIsEmpty
PROPERTIES
    KeepsPromise
