\* One request on an old or a new session, renames, permissions and deletions around it.
SPECIFICATION ChatFairSpec
CONSTANTS
    t1 = t1
    c1 = c1
    d1 = d1
    Turns = {t1}
    Chats = {c1}
    Old = {}
    Docs = {d1}
    Owned = {}
CHECK_DEADLOCK FALSE
INVARIANTS
    WireGrammar
    DoneIsStored
    RowsOfTurn
PROPERTIES
    ScopePermitted
    StreamsEnd
