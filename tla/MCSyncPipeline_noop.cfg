\* mark_cancelled reads, the run ends, mark_cancelled writes.
SPECIFICATION Spec
CONSTANTS
    Tasks = {t1}
    MaxJobs = 2
    MaxRetries = 0
    MaxDocs = 1
    MaxCancels = 1
    MaxCrashes = 0
    SourceType = "document"
    Origins <- FanOutOnly
    RedisMode = "reliable"
    FlagTTL = FALSE
CHECK_DEADLOCK FALSE
PROPERTIES
    OutcomeNotCancelled
