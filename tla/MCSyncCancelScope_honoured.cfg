\* One message, two cancel requests, a retry.
SPECIFICATION FairSSpec
CONSTANTS
    Tasks = {t1}
    MaxJobs = 4
    MaxRetries = 1
    MaxDocs = 2
    MaxCancels = 2
    MaxCrashes = 0
    SourceType = "document"
    Origins <- ApiOnly
    RedisMode = "reliable"
    FlagTTL = FALSE
CHECK_DEADLOCK FALSE
INVARIANTS
    CancelHonoured
PROPERTIES
    CancelSticks
    RunsSettle
