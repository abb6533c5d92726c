\* A message is delivered, retried twice, redelivered after a crash; the
\* source is a document source or a database.
SPECIFICATION EitherSpec
CONSTANTS
    Tasks = {t1}
    MaxJobs = 4
    MaxRetries = 2
    MaxDocs = 1
    MaxCancels = 1
    MaxCrashes = 1
    SourceType = "document"
    Origins <- FanOutOnly
    RedisMode = "lenient"
    FlagTTL = TRUE
CHECK_DEADLOCK FALSE
PROPERTIES
    QueueDrains
