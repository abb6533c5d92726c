--------------------------- MODULE MCSyncPipeline ---------------------------
(* Small instances of SyncPipeline for TLC. *)
EXTENDS SyncPipeline

\* Who may dispatch, per run.
FanOutOnly == {"fanout"}
AllOrigins == {"api", "schedule", "fanout"}

\* Document and database sources in one run: every load may find either, so
\* the behaviours of both kinds of source are among those checked.
DatabaseSource == INSTANCE SyncPipeline WITH SourceType <- "database"
EitherNext == Next \/ \E t \in Tasks : DatabaseSource!LoadSource(t)
EitherSpec == Init /\ [][EitherNext]_vars /\ Fairness
=============================================================================
