--------------------------- MODULE SyncCancelScope ---------------------------
(***************************************************************************)
(* Which runs a cancel request is about.  The Redis flag says only "this   *)
(* source"; two history variables remember, when the flag is set, which    *)
(* tasks were in flight and which of them had a checkpoint ahead, so that  *)
(* the promises of the endpoint can be stated about runs.                  *)
(***************************************************************************)
EXTENDS SyncPipeline

VARIABLES
    aimed,   \* tasks in flight when the flag was last set
    early    \* those of them that had a cancel checkpoint ahead

scopeVars == <<aimed, early>>

\* The steps of a run after which no checkpoint of the attempt reads the flag.
PastLastCheck == {"db_success", "enqueue_study", "mark_success", "flip",
                  "fail_stop", "ack"}

CheckpointAhead(t) == InFlight(t) /\ pc[t] \notin PastLastCheck

SInit == Init /\ aimed = {} /\ early = {}

\* The request sets the flag: remember who it is about.
Aim ==
    /\ CancelSetFlag /\ flag' = TRUE
    /\ aimed' = {t \in Tasks : InFlight(t)}
    /\ early' = (early \cap aimed') \cup {t \in Tasks : CheckpointAhead(t)}

SNext ==
    \/ Aim
    \/ Next /\ ~(CancelSetFlag /\ flag' = TRUE) /\ UNCHANGED scopeVars

SSpec == SInit /\ [][SNext]_<<vars, scopeVars>>

\* The fairness of SyncPipeline; the history variables hinder no step.
FairSSpec == SSpec /\ Fairness

-----------------------------------------------------------------------------
\* A run that had a checkpoint ahead when the flag was set never reports
\* success: cancel_sync_job promises that an in-flight sync exits at its next
\* safe checkpoint.  It holds while one run at a time is in flight.
CancelHonoured ==
    \A t \in early : pc[t] \notin {"mark_success", "flip",
                              "db_success", "enqueue_study"}

\* sync_cancellation.py: the flag does not bleed into a subsequent sync of
\* the source.  (The code violates it: the endpoint accepts the orphan row of
\* a sync that is over, and nothing consumes the flag until the next sync.)
NoBleed == \A t \in Tasks : pc[t] \in {"cancel_read", "stop_read"} => t \in aimed
=============================================================================
