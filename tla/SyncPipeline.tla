---------------------------- MODULE SyncPipeline ----------------------------
(***************************************************************************)
(* The synchronisation pipeline of ONE source: the API endpoints that      *)
(* trigger and cancel a sync, the Beat sweep and the half-hourly fan-out   *)
(* that dispatch tasks, the broker, the Celery task tasks.sync_source and  *)
(* the writes of SyncJobService.  Everything the code keeps is keyed by    *)
(* source_id (SyncJob.source_id, the Redis flag, the Source row), so       *)
(* sources do not interact and one of them is the whole system.            *)
(*                                                                         *)
(* A task is a Celery task id: a retry and a redelivery keep the id, every *)
(* attempt of it creates a SyncJob row of its own.  Rows are numbered in   *)
(* the order of created_at.  One action is one transaction, one Redis call *)
(* or one external call of the code.                                       *)
(*                                                                         *)
(* Abstractions: a fetched document is a unit that yields at least one     *)
(* chunk; a database outage is not modelled (every transaction commits);   *)
(* the TTL of the cancel flag is the action FlagExpires, at any time.      *)
(***************************************************************************)
EXTENDS Naturals, FiniteSets

CONSTANTS
    Tasks,        \* Celery task ids that can ever be sent
    MaxJobs,      \* bound: SyncJob rows
    MaxRetries,   \* max_retries of tasks.sync_source
    MaxDocs,      \* bound: documents one fetch returns
    MaxCancels,   \* bound: accepted cancel requests
    MaxCrashes,   \* bound: workers lost and time limits that strike
    SourceType,   \* "document" (files, web, wikis) or "database"
    Origins,      \* who dispatches: "api", "schedule", "fanout"
    RedisMode,    \* "reliable", or failing under "strict" or "lenient"
    FlagTTL       \* TRUE: the cancel flag may expire

ASSUME SyncAssumption ==
    /\ MaxJobs \in Nat /\ MaxRetries \in Nat /\ MaxDocs \in Nat
    /\ MaxCancels \in Nat /\ MaxCrashes \in Nat
    /\ SourceType \in {"document", "database"}
    /\ Origins \subseteq {"api", "schedule", "fanout"}
    /\ RedisMode \in {"reliable", "strict", "lenient"}
    /\ FlagTTL \in BOOLEAN

Api == "api"      \* creator of the rows trigger_sync inserts
NoOne == "none"   \* creator of the rows not yet inserted
ASSUME CreatorAssumption == Api \notin Tasks /\ NoOne \notin Tasks

VARIABLES
    job,        \* the sync_jobs table
    nJobs,      \* rows inserted so far
    corpus,     \* per row: documents its run committed, and how many have chunks
    flag,       \* sync:cancel:source:<id> is set in Redis
    task,       \* per task: where its message is and its retry count
    pc,         \* per task: the step its run takes next
    cur,        \* per task: the row of the current run
    todo,       \* per task: fetched documents not yet turned into Document rows
    docs,       \* per task: Document rows flushed in the open session
    health,     \* Source.connection_status
    status,     \* Source.status
    due,        \* next_sync_due_at <= now
    studies,    \* study_source messages enqueued by database syncs
    trigger,    \* trigger_sync: "idle", or "send" between insert and enqueue
    tick,       \* check_scheduled_syncs: "idle", "send" or "commit"
    cancel,     \* cancel_sync_job: "idle", "set", "list", "read" or "write"
    left,       \* the rows it still has to flip
    flipping,   \* the row it has read and is about to write
    cancels,    \* cancel requests accepted so far
    crashes     \* workers lost and time limits so far

rowVars == <<job, nJobs>>
runVars == <<task, pc, cur, todo, docs>>
sourceVars == <<health, status, due, studies>>
requestVars == <<cancel, left, flipping>>
apiVars == <<trigger, tick, requestVars, cancels>>
vars == <<job, nJobs, corpus, flag, task, pc, cur, todo, docs, health,
          status, due, studies, trigger, tick, cancel, left, flipping, cancels, crashes>>

Jobs == 1..MaxJobs
Terminal == {"success", "failed", "cancelled"}
NonTerminal == {"pending", "running"}
Stages == {"idle", "create", "pre_start", "mark_running", "load",
           "pre_db_dispatch", "db_success", "enqueue_study",
           "pre_fetch", "fetch", "embedder", "loop", "commit_partial",
           "pre_embed", "commit_bare", "embed", "pre_success",
           "mark_success", "flip", "fail_stop", "fail_retry",
           "cancel_read", "cancel_write", "cancel_clear",
           "stop_read", "stop_write", "stop_clear", "ack", "retry"}

InFlight(t) == task[t].at \in {"queued", "running"}
Unsent == {t \in Tasks : task[t].at = "unsent"}

Init ==
    /\ job = [j \in Jobs |-> [status |-> "none", by |-> NoOne, docs |-> 0]]
    /\ nJobs = 0
    /\ corpus = [j \in Jobs |-> [docs |-> 0, indexed |-> 0]]
    /\ flag = FALSE
    /\ task = [t \in Tasks |-> [at |-> "unsent", retries |-> 0]]
    /\ pc = [t \in Tasks |-> "idle"]
    /\ cur = [t \in Tasks |-> 0]
    /\ todo = [t \in Tasks |-> 0]
    /\ docs = [t \in Tasks |-> 0]
    /\ health = "unknown" /\ status = "pending"
    /\ due = FALSE /\ studies = 0
    /\ trigger = "idle" /\ tick = "idle"
    /\ cancel = "idle" /\ left = {} /\ flipping = 0
    /\ cancels = 0 /\ crashes = 0

-----------------------------------------------------------------------------
(* SyncJobRepository and SyncJobService. *)

\* SyncJobService.create_job: a pending row, newest in created_at order.
CreateRow(by) ==
    /\ nJobs < MaxJobs
    /\ nJobs' = nJobs + 1
    /\ job' = [job EXCEPT ![nJobs + 1] =
                  [status |-> "pending", by |-> by, docs |-> 0]]

\* SyncJobRepository.update_status: unconditional, whatever the row says.
UpdateStatus(j, s) ==
    /\ job' = [job EXCEPT ![j].status = s]
    /\ UNCHANGED nJobs

\* SyncJobRepository.list_non_terminal_by_source.
NonTerminalRows == {j \in Jobs : job[j].status \in NonTerminal}

\* _count_recent_failures >= _FAILED_RUN_THRESHOLD, read after the row j
\* was written: the two newest rows are both failed.
LastTwoFailed(j) ==
    /\ nJobs >= 2
    /\ \A k \in {nJobs, nJobs - 1} : k = j \/ job[k].status = "failed"

\* mark_failed: the row, and the connection health of the source.
MarkFailed(j) ==
    /\ UpdateStatus(j, "failed")
    /\ health' = IF LastTwoFailed(j) THEN "failed" ELSE "degraded"

\* mark_success: the row with its counters, and a healthy connection.
MarkSuccess(j, n) ==
    /\ job' = [job EXCEPT ![j].status = "success", ![j].docs = n]
    /\ health' = "healthy"
    /\ UNCHANGED nJobs

-----------------------------------------------------------------------------
(* The cancel flag. *)

\* is_sync_cancelled returns v.  A failing Redis in lenient mode reads FALSE.
ReadsFlag(v) == v = flag \/ (RedisMode = "lenient" /\ v = FALSE)

\* set_sync_cancelled and clear_sync_cancelled swallow a Redis error.
SetFlag == flag' = TRUE \/ (RedisMode # "reliable" /\ flag' = flag)
ClearFlag == flag' = FALSE \/ (RedisMode # "reliable" /\ flag' = flag)

FlagExpires ==
    /\ FlagTTL /\ flag
    /\ flag' = FALSE
    /\ UNCHANGED <<rowVars, corpus, runVars, sourceVars, apiVars, crashes>>

-----------------------------------------------------------------------------
(* Dispatch: the endpoint, the sweep and the fan-out put a message on the  *)
(* broker that carries the source id and nothing else.                     *)

Send(t) == task' = [task EXCEPT ![t].at = "queued"]

\* trigger_sync commits its own row first ...
TriggerCreate ==
    /\ "api" \in Origins /\ trigger = "idle" /\ Unsent # {}
    /\ CreateRow(Api)
    /\ trigger' = "send"
    /\ UNCHANGED <<corpus, flag, runVars, sourceVars, tick, requestVars, cancels,
                   crashes>>

\* ... and enqueues second; a broker outage answers 500 and leaves the row.
TriggerSend ==
    /\ trigger = "send"
    /\ trigger' = "idle"
    /\ \/ \E t \in Unsent : Send(t)
       \/ UNCHANGED task
    /\ UNCHANGED <<rowVars, corpus, flag, pc, cur, todo, docs, sourceVars,
                   tick, requestVars, cancels, crashes>>

\* trigger_all_syncs, and the enqueue of source creation: no row.
FanOut ==
    /\ "fanout" \in Origins
    /\ \E t \in Unsent : Send(t)
    /\ UNCHANGED <<rowVars, corpus, flag, pc, cur, todo, docs, sourceVars,
                   apiVars, crashes>>

\* The clock passes next_sync_due_at.
ComesDue ==
    /\ "schedule" \in Origins /\ ~due
    /\ due' = TRUE
    /\ UNCHANGED <<rowVars, corpus, flag, runVars, health, status, studies,
                   apiVars, crashes>>

\* check_scheduled_syncs selects the source ...
TickSelect ==
    /\ tick = "idle" /\ due /\ status # "syncing"
    /\ tick' = "send"
    /\ UNCHANGED <<rowVars, corpus, flag, runVars, sourceVars, trigger, requestVars,
                   cancels, crashes>>

\* ... sends the task first (a broker failure skips the source) ...
TickSend ==
    /\ tick = "send"
    /\ \/ tick' = "commit" /\ \E t \in Unsent : Send(t)
       \/ tick' = "idle" /\ UNCHANGED task
    /\ UNCHANGED <<rowVars, corpus, flag, pc, cur, todo, docs, sourceVars,
                   trigger, requestVars, cancels, crashes>>

\* ... and commits status='syncing' and the next due time after the loop.
TickCommit ==
    /\ tick = "commit"
    /\ tick' = "idle" /\ status' = "syncing" /\ due' = FALSE
    /\ UNCHANGED <<rowVars, corpus, flag, runVars, health, studies, trigger,
                   requestVars, cancels, crashes>>

-----------------------------------------------------------------------------
(* The task tasks.sync_source. *)

Goto(t, s) == pc' = [pc EXCEPT ![t] = s]

\* The run of t is over; its message is now m.
EndRun(t, m) ==
    /\ task' = [task EXCEPT ![t] = m]
    /\ pc' = [pc EXCEPT ![t] = "idle"]
    /\ cur' = [cur EXCEPT ![t] = 0]
    /\ todo' = [todo EXCEPT ![t] = 0]
    /\ docs' = [docs EXCEPT ![t] = 0]

\* Mutant of Acked: the worker keeps the message of a finished run.
AckLost(t) == [task[t] EXCEPT !.at = "queued"]

Acked(t) == [task[t] EXCEPT !.at = "done"]
Requeued(t) == [task[t] EXCEPT !.at = "queued"]

\* Mutant of Retried: no max_retries.
RetriedForever(t) == [at |-> "queued", retries |-> task[t].retries + 1]

\* task.retry: the next attempt, or the last error when none is left.
Retried(t) == IF task[t].retries < MaxRetries
              THEN [at |-> "queued", retries |-> task[t].retries + 1]
              ELSE Acked(t)

\* A worker takes the message; acks_late keeps it unacknowledged.
Deliver(t) ==
    /\ task[t].at = "queued"
    /\ task' = [task EXCEPT ![t].at = "running"]
    /\ Goto(t, "create")
    /\ UNCHANGED <<rowVars, corpus, flag, cur, todo, docs, sourceVars, apiVars,
                   crashes>>

\* Mutant of CreateJob: the task adopts a pending row of trigger_sync.
CreateJobReuse(t) ==
    /\ pc[t] = "create"
    /\ \E j \in NonTerminalRows : job[j].by = Api /\ cur' = [cur EXCEPT ![t] = j]
    /\ Goto(t, "pre_start")
    /\ UNCHANGED <<rowVars, corpus, flag, task, todo, docs, sourceVars, apiVars,
                   crashes>>

\* The task inserts its own row.
CreateJob(t) ==
    /\ pc[t] = "create"
    /\ CreateRow(t)
    /\ cur' = [cur EXCEPT ![t] = nJobs + 1]
    /\ Goto(t, "pre_start")
    /\ UNCHANGED <<corpus, flag, task, todo, docs, sourceVars, apiVars, crashes>>

\* _bail_if_cancelled at one of its four stages: on to the next step, or to
\* the cancelled exit.
AfterCheck == {<<"pre_start", "mark_running">>,
               <<"pre_db_dispatch", "db_success">>,
               <<"pre_fetch", "fetch">>, <<"pre_success", "mark_success">>}

BailStages == {"pre_start", "pre_db_dispatch", "pre_fetch", "pre_success"}

\* Mutant of BailCheck: the flag is read before the start only.
BailCheckStartOnly(t) ==
    /\ pc[t] \in BailStages
    /\ \/ pc[t] = "pre_start" /\ ReadsFlag(TRUE) /\ Goto(t, "cancel_read")
       \/ /\ pc[t] = "pre_start" => ReadsFlag(FALSE)
          /\ \E s \in Stages : <<pc[t], s>> \in AfterCheck /\ Goto(t, s)
    /\ UNCHANGED <<rowVars, corpus, flag, task, cur, todo, docs, sourceVars,
                   apiVars, crashes>>

BailCheck(t) ==
    /\ pc[t] \in BailStages
    /\ \/ ReadsFlag(TRUE) /\ Goto(t, "cancel_read")
       \/ /\ ReadsFlag(FALSE)
          /\ \E s \in Stages : <<pc[t], s>> \in AfterCheck /\ Goto(t, s)
    /\ UNCHANGED <<rowVars, corpus, flag, task, cur, todo, docs, sourceVars,
                   apiVars, crashes>>

\* The same check with Redis down in strict mode: the exception leaves the
\* task, no handler touches the row.
BailCheckRaises(t) ==
    /\ RedisMode = "strict" /\ pc[t] \in BailStages
    /\ Goto(t, "ack")
    /\ UNCHANGED <<rowVars, corpus, flag, task, cur, todo, docs, sourceVars,
                   apiVars, crashes>>

MarkRunning(t) ==
    /\ pc[t] = "mark_running"
    /\ UpdateStatus(cur[t], "running")
    /\ Goto(t, "load")
    /\ UNCHANGED <<corpus, flag, task, cur, todo, docs, sourceVars, apiVars,
                   crashes>>

\* get_source and get_source_config: a deleted source or an undecryptable
\* config fails the run for good.
LoadSource(t) ==
    /\ pc[t] = "load"
    /\ \/ Goto(t, "fail_stop")
       \/ SourceType = "database" /\ Goto(t, "pre_db_dispatch")
       \/ SourceType = "document" /\ Goto(t, "pre_fetch")
    /\ UNCHANGED <<rowVars, corpus, flag, task, cur, todo, docs, sourceVars,
                   apiVars, crashes>>

\* A database source: success at once, then the studying agent.
DbSuccess(t) ==
    /\ pc[t] = "db_success"
    /\ MarkSuccess(cur[t], 0)
    /\ Goto(t, "enqueue_study")
    /\ UNCHANGED <<corpus, flag, task, cur, todo, docs, status, due, studies,
                   apiVars, crashes>>

\* _study.delay, a broker failure swallowed.
EnqueueStudy(t) ==
    /\ pc[t] = "enqueue_study"
    /\ studies' \in {studies, studies + 1}
    /\ Goto(t, "ack")
    /\ UNCHANGED <<rowVars, corpus, flag, task, cur, todo, docs, health, status,
                   due, apiVars, crashes>>

\* connector.fetch_documents: documents, WebUrlFetchError, or another error.
Fetch(t) ==
    /\ pc[t] = "fetch"
    /\ \/ /\ \E n \in 0..MaxDocs : todo' = [todo EXCEPT ![t] = n]
          /\ Goto(t, "embedder")
       \/ /\ \E s \in {"fail_stop", "fail_retry"} : Goto(t, s)
          /\ UNCHANGED todo
    /\ UNCHANGED <<rowVars, corpus, flag, task, cur, docs, sourceVars, apiVars,
                   crashes>>

\* embedding_factory.for_source runs outside every handler: when it raises,
\* the run ends with its row as it is.
ResolveEmbedder(t) ==
    /\ pc[t] = "embedder"
    /\ \E s \in {"loop", "ack"} : Goto(t, s)
    /\ UNCHANGED <<rowVars, corpus, flag, task, cur, todo, docs, sourceVars,
                   apiVars, crashes>>

\* One turn of the loop: the per-document check, then one Document flushed.
LoopDocument(t) ==
    /\ pc[t] = "loop" /\ todo[t] > 0
    /\ ReadsFlag(FALSE)
    /\ todo' = [todo EXCEPT ![t] = @ - 1]
    /\ docs' = [docs EXCEPT ![t] = @ + 1]
    /\ UNCHANGED <<rowVars, corpus, flag, task, pc, cur, sourceVars, apiVars,
                   crashes>>

LoopCancelled(t) ==
    /\ pc[t] = "loop" /\ todo[t] > 0
    /\ ReadsFlag(TRUE)
    /\ Goto(t, "commit_partial")
    /\ UNCHANGED <<rowVars, corpus, flag, task, cur, todo, docs, sourceVars,
                   apiVars, crashes>>

LoopDone(t) ==
    /\ pc[t] = "loop" /\ todo[t] = 0
    /\ Goto(t, "pre_embed")
    /\ UNCHANGED <<rowVars, corpus, flag, task, cur, todo, docs, sourceVars,
                   apiVars, crashes>>

\* The session commits the documents of the run, all of them with their
\* chunks or none of them.
CommitDocs(t, indexed) ==
    corpus' = [corpus EXCEPT ![cur[t]] =
                  [docs |-> docs[t], indexed |-> IF indexed THEN docs[t] ELSE 0]]

\* Mutant of PreEmbedCheck: the documents are committed before the embedding.
PreEmbedCommits(t) ==
    /\ pc[t] = "pre_embed"
    /\ \/ ReadsFlag(TRUE) /\ Goto(t, "stop_read")
       \/ ReadsFlag(FALSE) /\ Goto(t, "embed")
    /\ CommitDocs(t, FALSE)
    /\ UNCHANGED <<rowVars, flag, task, cur, todo, docs, sourceVars, apiVars,
                   crashes>>

\* The check before the bulk embedding.
PreEmbedCheck(t) ==
    /\ pc[t] = "pre_embed"
    /\ \/ ReadsFlag(TRUE) /\ Goto(t, "commit_bare")
       \/ ReadsFlag(FALSE) /\ Goto(t, "embed")
    /\ UNCHANGED <<rowVars, corpus, flag, task, cur, todo, docs, sourceVars,
                   apiVars, crashes>>

\* Inside the try block a document that cannot be stored or chunked, the
\* embedding, and a check with Redis down in strict mode fail into mark_failed
\* and a retry; the session rolls back.
ProcessingRaises(t) ==
    /\ \/ pc[t] = "loop" /\ todo[t] > 0
       \/ pc[t] \in {"embed", "commit_partial"} /\ docs[t] > 0
       \/ pc[t] = "pre_embed" /\ RedisMode = "strict"
    /\ Goto(t, "fail_retry")
    /\ UNCHANGED <<rowVars, corpus, flag, task, cur, todo, docs, sourceVars,
                   apiVars, crashes>>

\* A cancel seen in the loop: embed and commit what was processed so far.
CommitPartial(t) ==
    /\ pc[t] = "commit_partial"
    /\ CommitDocs(t, TRUE)
    /\ Goto(t, "stop_read")
    /\ UNCHANGED <<rowVars, flag, task, cur, todo, docs, sourceVars, apiVars,
                   crashes>>

\* Mutant of CommitBare: the cancelled exit falls through to the success path.
CommitBareSucceeds(t) ==
    /\ pc[t] = "commit_bare"
    /\ CommitDocs(t, FALSE)
    /\ Goto(t, "pre_success")
    /\ UNCHANGED <<rowVars, flag, task, cur, todo, docs, sourceVars, apiVars,
                   crashes>>

\* A cancel seen before the embedding: commit the documents without chunks.
CommitBare(t) ==
    /\ pc[t] = "commit_bare"
    /\ CommitDocs(t, FALSE)
    /\ Goto(t, "stop_read")
    /\ UNCHANGED <<rowVars, flag, task, cur, todo, docs, sourceVars, apiVars,
                   crashes>>

EmbedAndCommit(t) ==
    /\ pc[t] = "embed"
    /\ CommitDocs(t, TRUE)
    /\ Goto(t, "pre_success")
    /\ UNCHANGED <<rowVars, flag, task, cur, todo, docs, sourceVars, apiVars,
                   crashes>>

FinishSuccess(t) ==
    /\ pc[t] = "mark_success"
    /\ MarkSuccess(cur[t], docs[t])
    /\ Goto(t, "flip")
    /\ UNCHANGED <<corpus, flag, task, cur, todo, docs, status, due, studies,
                   apiVars, crashes>>

\* mark_ready_after_sync, best effort.
FlipReady(t) ==
    /\ pc[t] = "flip"
    /\ status' \in {status, "ready"}
    /\ Goto(t, "ack")
    /\ UNCHANGED <<rowVars, corpus, flag, task, cur, todo, docs, health, due,
                   studies, apiVars, crashes>>

\* Mutant of FinishFailed: the retry is raised before the row is marked.
FinishFailedUnmarked(t) ==
    /\ pc[t] \in {"fail_stop", "fail_retry"}
    /\ Goto(t, IF pc[t] = "fail_retry" THEN "retry" ELSE "ack")
    /\ UNCHANGED <<rowVars, corpus, flag, task, cur, todo, docs, sourceVars,
                   apiVars, crashes>>

\* mark_failed; the run ends, or goes on to task.retry.
FinishFailed(t) ==
    /\ pc[t] \in {"fail_stop", "fail_retry"}
    /\ MarkFailed(cur[t])
    /\ Goto(t, IF pc[t] = "fail_retry" THEN "retry" ELSE "ack")
    /\ UNCHANGED <<corpus, flag, task, cur, todo, docs, status, due, studies,
                   apiVars, crashes>>

\* The task returned or raised: acks_late acknowledges the message now.  A
\* broker that refuses the retry leaves no message behind.
Finish(t) ==
    /\ \/ pc[t] \in {"ack", "retry"} /\ EndRun(t, Acked(t))
       \/ pc[t] = "retry" /\ EndRun(t, Retried(t))
    /\ UNCHANGED <<rowVars, corpus, flag, sourceVars, apiVars, crashes>>

\* The cancelled exit, from _bail_if_cancelled or from inside the try block.
Exits == {[read |-> "cancel_read", write |-> "cancel_write", clear |-> "cancel_clear"],
          [read |-> "stop_read", write |-> "stop_write", clear |-> "stop_clear"]}

\* mark_cancelled reads the row and skips a terminal one ...
CancelRead(t) ==
    /\ \E e \in Exits :
          /\ pc[t] = e.read
          /\ \/ job[cur[t]].status \in Terminal /\ Goto(t, e.clear)
             \/ job[cur[t]].status \notin Terminal /\ Goto(t, e.write)
    /\ UNCHANGED <<rowVars, corpus, flag, task, cur, todo, docs, sourceVars,
                   apiVars, crashes>>

\* ... and writes by a second statement, without a lock on the row.
CancelWrite(t) ==
    /\ \E e \in Exits : pc[t] = e.write /\ Goto(t, e.clear)
    /\ UpdateStatus(cur[t], "cancelled")
    /\ UNCHANGED <<corpus, flag, task, cur, todo, docs, sourceVars, apiVars,
                   crashes>>

\* clear_sync_cancelled: the clean exit.
CancelClear(t) ==
    /\ \E e \in Exits : pc[t] = e.clear
    /\ ClearFlag
    /\ Goto(t, "ack")
    /\ UNCHANGED <<rowVars, corpus, task, cur, todo, docs, sourceVars, apiVars,
                   crashes>>

\* The soft time limit raises inside the try block, whose handler marks the
\* run failed and retries, also when the documents are committed already.
TryBlock == {"loop", "commit_partial", "pre_embed", "commit_bare", "embed",
             "stop_read", "stop_write", "stop_clear"}

SoftLimit(t) ==
    /\ pc[t] \in TryBlock /\ crashes < MaxCrashes
    /\ crashes' = crashes + 1
    /\ Goto(t, "fail_retry")
    /\ UNCHANGED <<rowVars, corpus, flag, task, cur, todo, docs, sourceVars,
                   apiVars>>

\* The worker process is lost: task_reject_on_worker_lost puts the message
\* back.  Or a time limit ends the run where no handler catches it: the
\* message is acknowledged.
Crash(t) ==
    /\ task[t].at = "running" /\ crashes < MaxCrashes
    /\ crashes' = crashes + 1
    /\ \E m \in {Requeued(t), Acked(t)} : EndRun(t, m)
    /\ UNCHANGED <<rowVars, corpus, flag, sourceVars, apiVars>>

\* The process of a tick is lost after it dispatched, before it committed.
TickCrash ==
    /\ tick # "idle" /\ crashes < MaxCrashes
    /\ crashes' = crashes + 1
    /\ tick' = "idle"
    /\ UNCHANGED <<rowVars, corpus, flag, runVars, sourceVars, trigger, requestVars,
                   cancels>>

-----------------------------------------------------------------------------
(* cancel_sync_job. *)

\* Accepted for a row of the source that is not terminal (else 409).
CancelAccept ==
    /\ cancel = "idle" /\ cancels < MaxCancels
    /\ NonTerminalRows # {}
    /\ cancels' = cancels + 1
    /\ cancel' = "set"
    /\ UNCHANGED <<rowVars, corpus, flag, runVars, sourceVars, trigger, tick,
                   left, flipping, crashes>>

CancelSetFlag ==
    /\ cancel = "set"
    /\ SetFlag
    /\ cancel' = "list"
    /\ UNCHANGED <<rowVars, corpus, runVars, sourceVars, trigger, tick, left,
                   flipping, cancels, crashes>>

CancelList ==
    /\ cancel = "list"
    /\ cancel' = "read" /\ left' = NonTerminalRows
    /\ UNCHANGED <<rowVars, corpus, flag, runVars, sourceVars, trigger, tick,
                   flipping, cancels, crashes>>

\* The rows of the list, oldest first: mark_cancelled reads the row ...
CancelRowRead ==
    /\ cancel = "read"
    /\ \E j \in left :
          /\ \A k \in left : j <= k
          /\ left' = left \ {j}
          /\ \/ job[j].status \in Terminal /\ UNCHANGED <<cancel, flipping>>
             \/ job[j].status \notin Terminal
                /\ cancel' = "write" /\ flipping' = j
    /\ UNCHANGED <<rowVars, corpus, flag, runVars, sourceVars, trigger, tick,
                   cancels, crashes>>

\* ... and then writes it.
CancelRowWrite ==
    /\ cancel = "write"
    /\ UpdateStatus(flipping, "cancelled")
    /\ cancel' = "read" /\ flipping' = 0
    /\ UNCHANGED <<corpus, flag, runVars, sourceVars, trigger, tick, left,
                   cancels, crashes>>

CancelDone ==
    /\ cancel = "read" /\ left = {}
    /\ cancel' = "idle"
    /\ UNCHANGED <<rowVars, corpus, flag, runVars, sourceVars, trigger, tick,
                   left, flipping, cancels, crashes>>

-----------------------------------------------------------------------------
\* The steps of one run after its delivery.
RunStep(t) ==
    \/ CreateJob(t) \/ BailCheck(t) \/ BailCheckRaises(t) \/ MarkRunning(t)
    \/ LoadSource(t) \/ DbSuccess(t) \/ EnqueueStudy(t) \/ Fetch(t)
    \/ ResolveEmbedder(t) \/ LoopDocument(t) \/ LoopCancelled(t) \/ LoopDone(t)
    \/ PreEmbedCheck(t) \/ ProcessingRaises(t) \/ CommitPartial(t)
    \/ CommitBare(t) \/ EmbedAndCommit(t) \/ FinishSuccess(t) \/ FlipReady(t)
    \/ FinishFailed(t) \/ CancelRead(t) \/ CancelWrite(t) \/ CancelClear(t)
    \/ Finish(t)

CancelStep == CancelSetFlag \/ CancelList \/ CancelRowRead \/ CancelRowWrite
              \/ CancelDone

Next ==
    \/ TriggerCreate \/ TriggerSend \/ FanOut
    \/ ComesDue \/ TickSelect \/ TickSend \/ TickCommit \/ TickCrash
    \/ FlagExpires \/ CancelAccept \/ CancelStep
    \/ \E t \in Tasks : Deliver(t) \/ RunStep(t) \/ SoftLimit(t) \/ Crash(t)

Spec == Init /\ [][Next]_vars

\* A worker takes every queued message and a run that is not killed goes on;
\* a request that was accepted is carried through.
Fairness ==
    /\ \A t \in Tasks : WF_vars(Deliver(t)) /\ WF_vars(RunStep(t))
    /\ WF_vars(CancelStep) /\ WF_vars(TriggerSend) /\ WF_vars(TickSend)
    /\ WF_vars(TickCommit)

FairSpec == Spec /\ Fairness

-----------------------------------------------------------------------------
(* Properties. *)

RowType == [status : Terminal \cup NonTerminal \cup {"none"},
            by : Tasks \cup {Api, NoOne}, docs : Nat]
MessageType == [at : {"unsent", "queued", "running", "done"},
                retries : 0..MaxRetries]

TypeOK ==
    /\ job \in [Jobs -> RowType]
    /\ nJobs \in 0..MaxJobs
    /\ corpus \in [Jobs -> [docs : Nat, indexed : Nat]]
    /\ flag \in BOOLEAN
    /\ task \in [Tasks -> MessageType]
    /\ pc \in [Tasks -> Stages]
    /\ cur \in [Tasks -> 0..MaxJobs]
    /\ todo \in [Tasks -> Nat] /\ docs \in [Tasks -> Nat]
    /\ health \in {"unknown", "healthy", "degraded", "failed"}
    /\ status \in {"pending", "ready", "syncing"}
    /\ due \in BOOLEAN /\ studies \in Nat
    /\ trigger \in {"idle", "send"} /\ tick \in {"idle", "send", "commit"}
    /\ cancel \in {"idle", "set", "list", "read", "write"}
    /\ left \subseteq Jobs /\ flipping \in 0..MaxJobs
    /\ cancels \in Nat /\ crashes \in Nat

\* The stages of a run that has not committed its documents, and whose row
\* it has therefore neither failed nor completed.
BeforeCommit == {"pre_start", "mark_running", "load", "pre_db_dispatch",
                 "db_success", "pre_fetch", "fetch", "embedder", "loop",
                 "commit_partial", "pre_embed", "commit_bare", "embed"}
FailStages == {"fail_stop", "fail_retry"}

\* A task stands at a stage exactly while a worker holds its message.
StageMeansRunning == \A t \in Tasks : pc[t] # "idle" <=> task[t].at = "running"

\* A run drives a row that its own task created, and no other run's.
RowsOwned ==
    \A t \in Tasks : IF pc[t] \in {"idle", "create"}
                      THEN cur[t] = 0
                      ELSE cur[t] \in 1..nJobs /\ job[cur[t]].by = t

\* What a run has committed when it stands at a stage.  Only a time limit
\* takes a run that committed to its failure.
StageMeansCommit ==
    \A t \in Tasks :
        /\ pc[t] \in BeforeCommit =>
              /\ corpus[cur[t]] = [docs |-> 0, indexed |-> 0]
              /\ job[cur[t]].status \notin {"success", "failed"}
        /\ pc[t] \in FailStages /\ crashes = 0 =>
              corpus[cur[t]] = [docs |-> 0, indexed |-> 0]
        /\ pc[t] \in {"pre_success", "mark_success"} =>
              /\ corpus[cur[t]] = [docs |-> docs[t], indexed |-> docs[t]]
              /\ job[cur[t]].status \notin {"success", "failed"}

\* A run holds no more documents than one fetch returns, and none before.
BeforeLoop == {"idle", "create", "pre_start", "mark_running", "load",
               "pre_db_dispatch", "pre_fetch", "fetch", "embedder"}

BatchBounded ==
    \A t \in Tasks : /\ todo[t] + docs[t] <= MaxDocs
                     /\ pc[t] \in BeforeLoop => docs[t] = 0

\* Rows not inserted yet are blank; the cancel request holds inserted rows.
RowsInserted ==
    /\ \A j \in Jobs : j > nJobs =>
          /\ job[j] = [status |-> "none", by |-> NoOne, docs |-> 0]
          /\ corpus[j] = [docs |-> 0, indexed |-> 0]
    /\ \A j \in left : j <= nJobs
    /\ cancel = "write" => flipping \in 1..nJobs

\* The part of the inductive invariant that ties the stage of every run to
\* the row it owns and to what the corpus holds for it.
RunInv == /\ StageMeansRunning /\ RowsOwned /\ StageMeansCommit
          /\ BatchBounded /\ RowsInserted

\* A row that says success reports exactly the documents its own run
\* committed, and every one of them has its chunks: no interleaving of
\* cancels, crashes, retries and other runs of the source lets
\* sync_job_service.mark_success speak for a partial or missing commit.
SuccessIsComplete ==
    \A j \in Jobs : job[j].status = "success" =>
        corpus[j] = [docs |-> job[j].docs, indexed |-> job[j].docs]

\* As long as no time limit struck, a failed run left nothing behind: its
\* session rolled back before mark_failed, so the retry that follows cannot
\* duplicate its documents.  (A soft limit after a cancelled commit can.)
FailedIsEmpty ==
    crashes = 0 =>
        \A j \in Jobs : job[j].status = "failed" => corpus[j].docs = 0

\* The row trigger_sync inserts is never driven by the task, which has a row
\* of its own: it can only stay pending or be cancelled.
ApiRowsOnlyCancelled ==
    \A j \in Jobs : job[j].by = Api => job[j].status \in {"pending", "cancelled"}

\* Every message is acknowledged in the end: retries and redeliveries stop.
QueueDrains == \A t \in Tasks : (task[t].at = "queued") ~> (task[t].at = "done")

\* Without crashes and with Redis up, a run that got its embedder always ends
\* with its row in a terminal state.
RunsSettle ==
    \A t \in Tasks : \A j \in Jobs :
        (pc[t] = "loop" /\ cur[t] = j) ~> (job[j].status \in Terminal)

\* A row the cancel endpoint listed is terminal in the end and stays so, even
\* when mark_running overwrites the endpoint's flip in between.
CancelSticks ==
    \A j \in Jobs : (cancel = "read" /\ j \in left)
                        ~> [](job[j].status \in Terminal)

\* What the rows claim about the documents of their runs.
Claims == [j \in Jobs |-> IF job[j].status = "success"
                          THEN [said |-> TRUE, docs |-> job[j].docs]
                          ELSE [said |-> FALSE, docs |-> 0]]

\* The pipeline keeps the promise of SyncRuns about the content of every run.
Promise == INSTANCE SyncRuns WITH
    Rows <- Jobs, Sizes <- 0..MaxDocs, stored <- corpus, claimed <- Claims

\* Every step of the pipeline publishes a run's documents whole or bare,
\* claims what is stored, withdraws a claim, or does none of these.
KeepsPromise == Promise!RSpec

\* models/enums.py: a task marked CANCELLED has exited at a safe checkpoint,
\* and no further steps will run.  (The code violates it.)
CancelledIsFinal ==
    [][\A j \in Jobs : job[j].status = "cancelled"
                           => job'[j].status = "cancelled"]_vars

\* sync_job_service.mark_cancelled: a no-op on terminal rows.  (The code
\* violates it: the read and the write are two statements without a lock.)
OutcomeNotCancelled ==
    [][\A j \in Jobs : job[j].status \in {"success", "failed"}
                           => job'[j].status # "cancelled"]_vars

\* models/enums.py: SYNCING is stamped while a run is in flight.  (The code
\* violates it: of all runs of a document source only a successful one leaves
\* SYNCING.)
SyncingMeansInFlight == status = "syncing" => \E t \in Tasks : InFlight(t)

\* sync_job_service: two consecutive failed sync runs flip the source to
\* 'failed'.  (The code violates it: the row of trigger_sync stands between
\* the rows of two runs.)
RunRows == {j \in Jobs : job[j].by \in Tasks}
TwoFailuresDemote ==
    [][\A j, k \in RunRows :
           (/\ j < k /\ ~ \E i \in RunRows : i > j /\ i # k
            /\ job[j].status = "failed"
            /\ job[k].status # "failed" /\ job'[k].status = "failed")
           => health' = "failed"]_vars
=============================================================================
