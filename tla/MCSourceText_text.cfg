\* Two task messages, one retry each, one lost worker.
SPECIFICATION TextFairSpec
CONSTANTS
    m1 = m1
    m2 = m2
    Msgs = {m1, m2}
    MaxTextRetries = 1
    MaxTextCrashes = 1
    Free = Free
CHECK_DEADLOCK FALSE
INVARIANTS
    OneNamer
PROPERTIES
    AdminTextAccounted
    UserIntentKept
    TextTasksEnd
