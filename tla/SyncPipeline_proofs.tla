------------------------ MODULE SyncPipeline_proofs ------------------------
(***************************************************************************)
(* Proofs about SyncPipeline, for every value of its constants: its types, *)
(* the inductive invariant RunInv, the two invariants about what a run     *)
(* leaves in the corpus, and the refinement of SyncRuns; and about the     *)
(* cancel requests of SyncCancelScope, that one is honoured.               *)
(***************************************************************************)
EXTENDS SyncCancelScope, TLAPS

(* Types of the pieces the actions are built from. *)

\* A row written by update_status keeps its type.
LEMMA StatusType ==
    ASSUME TypeOK, NEW j, NEW s \in Terminal \cup NonTerminal, UpdateStatus(j, s)
    PROVE  job' \in [Jobs -> RowType] /\ nJobs' \in 0..MaxJobs
  BY DEF TypeOK, UpdateStatus, RowType

\* create_job inserts a row of the right type.
LEMMA CreateType ==
    ASSUME TypeOK, NEW b \in Tasks \cup {Api}, CreateRow(b)
    PROVE  job' \in [Jobs -> RowType] /\ nJobs' \in 0..MaxJobs /\ nJobs' \in Jobs
  BY SyncAssumption
     DEF CreateRow, TypeOK, RowType, NonTerminal, Jobs, SyncAssumption

\* mark_success and mark_failed keep the types of the row and of the health.
LEMMA OutcomeType ==
    ASSUME TypeOK, NEW j, NEW n \in Nat, MarkSuccess(j, n) \/ MarkFailed(j)
    PROVE  /\ job' \in [Jobs -> RowType] /\ nJobs' \in 0..MaxJobs
           /\ health' \in {"unknown", "healthy", "degraded", "failed"}
<1>1. CASE MarkSuccess(j, n)
  <2>1. \A k \in Jobs : [job[k] EXCEPT !.status = "success"] \in RowType
    BY DEF TypeOK, RowType, Terminal
  <2>2. job' \in [Jobs -> RowType]
    BY <1>1, <2>1 DEF TypeOK, MarkSuccess, RowType, Terminal
  <2>3. QED
    BY <1>1, <2>2 DEF TypeOK, MarkSuccess
<1>2. CASE MarkFailed(j)
  BY <1>2, StatusType DEF MarkFailed, Terminal
<1>3. QED
  BY <1>1, <1>2

\* The next stage of a run is a stage.
LEMMA GotoType ==
    ASSUME TypeOK, NEW t \in Tasks, NEW s \in Stages, Goto(t, s)
    PROVE  pc' \in [Tasks -> Stages]
  BY DEF Goto, TypeOK

\* Sending a message, and its fate at the end of a run.
LEMMA MessageTypes ==
    ASSUME TypeOK, NEW t \in Tasks
    PROVE  /\ Acked(t) \in MessageType /\ Requeued(t) \in MessageType
           /\ Retried(t) \in MessageType
           /\ Send(t) => task' \in [Tasks -> MessageType]
<1>1. Acked(t) \in MessageType /\ Requeued(t) \in MessageType
  BY DEF TypeOK, MessageType, Acked, Requeued
<1>2. Retried(t) \in MessageType
  BY <1>1, SyncAssumption DEF SyncAssumption, TypeOK, MessageType, Retried
<1>3. Send(t) => task' \in [Tasks -> MessageType]
  BY DEF TypeOK, MessageType, Send
<1>4. QED
  BY <1>1, <1>2, <1>3

LEMMA EndRunType ==
    ASSUME TypeOK, NEW t \in Tasks, NEW m \in MessageType, EndRun(t, m)
    PROVE  /\ task' \in [Tasks -> MessageType] /\ pc' \in [Tasks -> Stages]
           /\ cur' \in [Tasks -> 0..MaxJobs] /\ todo' \in [Tasks -> Nat]
           /\ docs' \in [Tasks -> Nat]
  BY SyncAssumption DEF EndRun, TypeOK, Stages, SyncAssumption

\* A commit writes two counts.
LEMMA CommitType ==
    ASSUME TypeOK, NEW t \in Tasks, NEW b \in BOOLEAN, CommitDocs(t, b)
    PROVE  corpus' \in [Jobs -> [docs : Nat, indexed : Nat]]
<1>1. docs[t] \in Nat
  BY DEF TypeOK
<1>2. QED
  BY <1>1 DEF CommitDocs, TypeOK

-----------------------------------------------------------------------------
\* Every step keeps the types.
LEMMA TypeNext == ASSUME TypeOK, [Next]_vars PROVE TypeOK'
<1> USE DEF rowVars, runVars, sourceVars, apiVars, requestVars
<1>1. CASE TriggerCreate
  BY <1>1, CreateType DEF TypeOK, TriggerCreate
<1>2. CASE TriggerSend
  BY <1>2, MessageTypes DEF TypeOK, TriggerSend, Unsent
<1>3. CASE FanOut
  BY <1>3, MessageTypes DEF TypeOK, FanOut, Unsent
<1>4. CASE ComesDue
  BY <1>4 DEF TypeOK, ComesDue
<1>5. CASE TickSelect
  BY <1>5 DEF TypeOK, TickSelect
<1>6. CASE TickSend
  BY <1>6, MessageTypes DEF TypeOK, TickSend, Unsent
<1>7. CASE TickCommit
  BY <1>7 DEF TypeOK, TickCommit
<1>8. CASE TickCrash
  BY <1>8 DEF TypeOK, TickCrash
<1>9. CASE FlagExpires
  BY <1>9 DEF TypeOK, FlagExpires
<1>10. CASE CancelAccept
  BY <1>10 DEF TypeOK, CancelAccept
<1>11. CASE CancelSetFlag
  BY <1>11 DEF TypeOK, CancelSetFlag, SetFlag
<1>12. CASE CancelList
  BY <1>12 DEF TypeOK, CancelList, NonTerminalRows
<1>13. CASE CancelRowRead
  <2>1. /\ left' \subseteq Jobs /\ flipping' \in 0..MaxJobs
        /\ cancel' \in {"idle", "set", "list", "read", "write"}
    BY <1>13 DEF TypeOK, CancelRowRead, Jobs
  <2>2. QED
    BY <1>13, <2>1 DEF TypeOK, CancelRowRead
<1>14. CASE CancelRowWrite
  BY <1>14, StatusType, SyncAssumption
     DEF TypeOK, CancelRowWrite, Terminal, SyncAssumption
<1>15. CASE CancelDone
  BY <1>15 DEF TypeOK, CancelDone
<1>16. ASSUME NEW t \in Tasks, Deliver(t) PROVE TypeOK'
  BY <1>16, GotoType DEF TypeOK, Deliver, MessageType, Stages
<1>17. ASSUME NEW t \in Tasks, Crash(t) PROVE TypeOK'
  BY <1>17, MessageTypes, EndRunType DEF TypeOK, Crash
<1>18. ASSUME NEW t \in Tasks, CreateJob(t) PROVE TypeOK'
  <2>1. job' \in [Jobs -> RowType] /\ nJobs' \in 0..MaxJobs
    BY <1>18, CreateType DEF CreateJob
  <2>2. cur' \in [Tasks -> 0..MaxJobs]
    BY <1>18, SyncAssumption DEF CreateJob, CreateRow, TypeOK, SyncAssumption
  <2>3. pc' \in [Tasks -> Stages]
    BY <1>18, GotoType DEF CreateJob, Stages
  <2>4. QED
    BY <1>18, <2>1, <2>2, <2>3 DEF TypeOK, CreateJob
<1>19. ASSUME NEW t \in Tasks, BailCheck(t) PROVE TypeOK'
  <2>1. \E s \in Stages : Goto(t, s)
    BY <1>19 DEF BailCheck, Stages
  <2>2. QED
    BY <1>19, <2>1, GotoType DEF TypeOK, BailCheck
<1>20. ASSUME NEW t \in Tasks, BailCheckRaises(t) PROVE TypeOK'
  <2>1. \E s \in Stages : Goto(t, s)
    BY <1>20 DEF BailCheckRaises, Stages
  <2>2. QED
    BY <1>20, <2>1, GotoType DEF TypeOK, BailCheckRaises
<1>21. ASSUME NEW t \in Tasks, LoadSource(t) PROVE TypeOK'
  <2>1. \E s \in Stages : Goto(t, s)
    BY <1>21 DEF LoadSource, Stages
  <2>2. QED
    BY <1>21, <2>1, GotoType DEF TypeOK, LoadSource
<1>22. ASSUME NEW t \in Tasks, ResolveEmbedder(t) PROVE TypeOK'
  <2>1. \E s \in Stages : Goto(t, s)
    BY <1>22 DEF ResolveEmbedder, Stages
  <2>2. QED
    <3>1. pc' \in [Tasks -> Stages]
      BY <2>1, GotoType
    <3>2. QED
      BY <1>22, <3>1 DEF TypeOK, ResolveEmbedder
<1>23. ASSUME NEW t \in Tasks, LoopCancelled(t) PROVE TypeOK'
  <2>1. \E s \in Stages : Goto(t, s)
    BY <1>23 DEF LoopCancelled, Stages
  <2>2. QED
    BY <1>23, <2>1, GotoType DEF TypeOK, LoopCancelled
<1>24. ASSUME NEW t \in Tasks, LoopDone(t) PROVE TypeOK'
  <2>1. \E s \in Stages : Goto(t, s)
    BY <1>24 DEF LoopDone, Stages
  <2>2. QED
    BY <1>24, <2>1, GotoType DEF TypeOK, LoopDone
<1>25. ASSUME NEW t \in Tasks, PreEmbedCheck(t) PROVE TypeOK'
  <2>1. \E s \in Stages : Goto(t, s)
    BY <1>25 DEF PreEmbedCheck, Stages
  <2>2. QED
    BY <1>25, <2>1, GotoType DEF TypeOK, PreEmbedCheck
<1>26. ASSUME NEW t \in Tasks, ProcessingRaises(t) PROVE TypeOK'
  <2>1. \E s \in Stages : Goto(t, s)
    BY <1>26 DEF ProcessingRaises, Stages
  <2>2. QED
    BY <1>26, <2>1, GotoType DEF TypeOK, ProcessingRaises
<1>27. ASSUME NEW t \in Tasks, CancelRead(t) PROVE TypeOK'
  <2>1. \E s \in Stages : Goto(t, s)
    BY <1>27 DEF CancelRead, Exits, Stages
  <2>2. QED
    BY <1>27, <2>1, GotoType DEF TypeOK, CancelRead
<1>28. ASSUME NEW t \in Tasks, MarkRunning(t) PROVE TypeOK'
  BY <1>28, StatusType, GotoType
     DEF TypeOK, MarkRunning, Terminal, NonTerminal, Stages
<1>29. ASSUME NEW t \in Tasks, CancelWrite(t) PROVE TypeOK'
  <2>1. \E s \in Stages : Goto(t, s)
    BY <1>29 DEF CancelWrite, Exits, Stages
  <2>2. pc' \in [Tasks -> Stages]
    BY <2>1, GotoType
  <2>3. QED
    BY <1>29, <2>2, StatusType DEF TypeOK, CancelWrite, Terminal, NonTerminal
<1>30. ASSUME NEW t \in Tasks, DbSuccess(t) PROVE TypeOK'
  BY <1>30, OutcomeType, GotoType DEF TypeOK, DbSuccess, Stages
<1>31. ASSUME NEW t \in Tasks, EnqueueStudy(t) PROVE TypeOK'
  BY <1>31, GotoType DEF TypeOK, EnqueueStudy, Stages
<1>32. ASSUME NEW t \in Tasks, Fetch(t) PROVE TypeOK'
  <2>1. pc' \in [Tasks -> Stages]
    BY <1>32, GotoType DEF Fetch, Stages
  <2>2. todo' \in [Tasks -> Nat]
    BY <1>32, SyncAssumption DEF TypeOK, Fetch, SyncAssumption
  <2>3. QED
    BY <1>32, <2>1, <2>2 DEF TypeOK, Fetch
<1>33. ASSUME NEW t \in Tasks, LoopDocument(t) PROVE TypeOK'
  <2>1. todo' \in [Tasks -> Nat] /\ docs' \in [Tasks -> Nat]
    BY <1>33 DEF TypeOK, LoopDocument
  <2>2. QED
    BY <1>33, <2>1 DEF TypeOK, LoopDocument
<1>34. ASSUME NEW t \in Tasks, CommitPartial(t) PROVE TypeOK'
  <2>1. pc' \in [Tasks -> Stages]
    BY <1>34, GotoType DEF CommitPartial, Stages
  <2>2. corpus' \in [Jobs -> [docs : Nat, indexed : Nat]]
    BY <1>34, CommitType DEF CommitPartial
  <2>3. QED
    BY <1>34, <2>1, <2>2 DEF TypeOK, CommitPartial
<1>35. ASSUME NEW t \in Tasks, CommitBare(t) PROVE TypeOK'
  <2>1. pc' \in [Tasks -> Stages]
    BY <1>35, GotoType DEF CommitBare, Stages
  <2>2. corpus' \in [Jobs -> [docs : Nat, indexed : Nat]]
    BY <1>35, CommitType DEF CommitBare
  <2>3. QED
    BY <1>35, <2>1, <2>2 DEF TypeOK, CommitBare
<1>36. ASSUME NEW t \in Tasks, EmbedAndCommit(t) PROVE TypeOK'
  <2>1. pc' \in [Tasks -> Stages]
    BY <1>36, GotoType DEF EmbedAndCommit, Stages
  <2>2. corpus' \in [Jobs -> [docs : Nat, indexed : Nat]]
    BY <1>36, CommitType DEF EmbedAndCommit
  <2>3. QED
    BY <1>36, <2>1, <2>2 DEF TypeOK, EmbedAndCommit
<1>37. ASSUME NEW t \in Tasks, FinishSuccess(t) PROVE TypeOK'
  <2>1. pc' \in [Tasks -> Stages]
    BY <1>37, GotoType DEF FinishSuccess, Stages
  <2>2. docs[t] \in Nat /\ MarkSuccess(cur[t], docs[t])
    BY <1>37 DEF FinishSuccess, TypeOK
  <2>3. /\ job' \in [Jobs -> RowType] /\ nJobs' \in 0..MaxJobs
        /\ health' \in {"unknown", "healthy", "degraded", "failed"}
    BY <2>2, OutcomeType
  <2>4. QED
    BY <1>37, <2>1, <2>3 DEF TypeOK, FinishSuccess
<1>38. ASSUME NEW t \in Tasks, FlipReady(t) PROVE TypeOK'
  BY <1>38, GotoType DEF TypeOK, FlipReady, Stages
<1>39. ASSUME NEW t \in Tasks, FinishFailed(t) PROVE TypeOK'
  <2>1. pc' \in [Tasks -> Stages]
    BY <1>39, GotoType DEF FinishFailed, Stages
  <2>2. MarkFailed(cur[t])
    BY <1>39 DEF FinishFailed
  <2>3. /\ job' \in [Jobs -> RowType] /\ nJobs' \in 0..MaxJobs
        /\ health' \in {"unknown", "healthy", "degraded", "failed"}
    BY <2>2, OutcomeType
  <2>4. QED
    BY <1>39, <2>1, <2>3 DEF TypeOK, FinishFailed
<1>40. ASSUME NEW t \in Tasks, CancelClear(t) PROVE TypeOK'
  <2>1. pc' \in [Tasks -> Stages]
    BY <1>40, GotoType DEF CancelClear, Stages
  <2>2. flag' \in BOOLEAN
    BY <1>40 DEF TypeOK, CancelClear, ClearFlag
  <2>3. QED
    BY <1>40, <2>1, <2>2 DEF TypeOK, CancelClear
<1>41. ASSUME NEW t \in Tasks, Finish(t) PROVE TypeOK'
  BY <1>41, MessageTypes, EndRunType DEF TypeOK, Finish
<1>42. CASE UNCHANGED vars
  BY <1>42 DEF TypeOK, vars
<1>43. ASSUME NEW t \in Tasks, SoftLimit(t) PROVE TypeOK'
  BY <1>43, GotoType DEF TypeOK, SoftLimit, Stages
<1>44. QED
  BY <1>1, <1>2, <1>3, <1>4, <1>5, <1>6, <1>7, <1>8, <1>9, <1>10, <1>11,
     <1>12, <1>13, <1>14, <1>15, <1>16, <1>17, <1>18, <1>19, <1>20, <1>21,
     <1>22, <1>23, <1>24, <1>25, <1>26, <1>27, <1>28, <1>29, <1>30, <1>31,
     <1>32, <1>33, <1>34, <1>35, <1>36, <1>37, <1>38, <1>39, <1>40, <1>41,
     <1>42, <1>43
     DEF Next, CancelStep, RunStep

\* Type correctness of the pipeline: every variable keeps its type however
\* endpoints, sweeps, tasks and crashes interleave.
THEOREM TypeCorrect == Spec => []TypeOK
<1>1. ASSUME Init PROVE TypeOK
  <2>1. /\ job \in [Jobs -> RowType] /\ nJobs \in 0..MaxJobs
        /\ corpus \in [Jobs -> [docs : Nat, indexed : Nat]]
    BY <1>1, SyncAssumption DEF Init, RowType, SyncAssumption
  <2>2. /\ task \in [Tasks -> MessageType] /\ pc \in [Tasks -> Stages]
        /\ cur \in [Tasks -> 0..MaxJobs]
        /\ todo \in [Tasks -> Nat] /\ docs \in [Tasks -> Nat]
    BY <1>1, SyncAssumption DEF Init, MessageType, Stages, SyncAssumption
  <2>3. QED
    BY <1>1, <2>1, <2>2, SyncAssumption DEF Init, TypeOK, SyncAssumption
<1>2. TypeOK /\ [Next]_vars => TypeOK'
  BY TypeNext
<1>3. QED
  BY <1>1, <1>2, PTL DEF Spec

-----------------------------------------------------------------------------
rowState == <<job, nJobs, corpus>>
workState == <<cur, todo, docs>>
listState == <<cancel, left, flipping>>

\* Driven runs own different rows.
LEMMA Owners ==
    ASSUME RunInv, NEW t \in Tasks, NEW u \in Tasks, t # u,
           pc[t] \notin {"idle", "create"}, pc[u] \notin {"idle", "create"}
    PROVE  cur[t] # cur[u]
  BY DEF RunInv, RowsOwned

\* The row a run drives.
LEMMA OwnRow ==
    ASSUME TypeOK, RunInv, NEW t \in Tasks, pc[t] \notin {"idle", "create"}
    PROVE  cur[t] \in 1..nJobs /\ cur[t] \in Jobs /\ job[cur[t]].by = t
  BY SyncAssumption DEF RunInv, RowsOwned, TypeOK, Jobs, SyncAssumption

\* update_status writes one row.
LEMMA StatusRow ==
    ASSUME TypeOK, NEW j \in Jobs, NEW s, UpdateStatus(j, s)
    PROVE  /\ \A k \in Jobs : k # j => job'[k] = job[k]
           /\ job'[j].status = s /\ job'[j].by = job[j].by
           /\ job'[j].docs = job[j].docs
  BY DEF TypeOK, UpdateStatus, RowType

\* mark_success writes one row.
LEMMA SuccessRow ==
    ASSUME TypeOK, NEW j \in Jobs, NEW n \in Nat, MarkSuccess(j, n)
    PROVE  /\ \A k \in Jobs : k # j => job'[k] = job[k]
           /\ job'[j].status = "success" /\ job'[j].docs = n
           /\ job'[j].by = job[j].by
<1> DEFINE mid == [job EXCEPT ![j].status = "success"]
<1>1. /\ job' = [mid EXCEPT ![j].docs = n]
      /\ DOMAIN mid = Jobs
  BY DEF MarkSuccess, TypeOK
<1>2. \A k \in Jobs : k # j => job'[k] = job[k]
  BY <1>1 DEF TypeOK
<1>3. mid[j] = [status |-> "success", by |-> job[j].by, docs |-> job[j].docs]
  BY DEF TypeOK, RowType
<1>4. job'[j] = [mid[j] EXCEPT !.docs = n]
  BY <1>1
<1>5. QED
  BY <1>2, <1>3, <1>4

\* Steps of the requests and the sweep that touch no row, no run, no list.
LEMMA StayInv ==
    ASSUME TypeOK, RunInv, UNCHANGED <<rowState, pc, workState, left, flipping>>,
           cancel' # "write" \/ cancel' = cancel,
           UNCHANGED task \/ \E t \in Unsent : Send(t),
           crashes' = 0 => crashes = 0
    PROVE  RunInv'
<1>1. StageMeansRunning'
  BY DEF RunInv, StageMeansRunning, Unsent, Send, TypeOK, MessageType
<1>2. RowsOwned' /\ StageMeansCommit' /\ BatchBounded' /\ RowsInserted'
  BY
     DEF RunInv, RowsOwned, StageMeansCommit, BatchBounded, RowsInserted,
         rowState,
         workState
<1>3. QED
  BY <1>1, <1>2 DEF RunInv

\* A run moves on without committing anything.
LEMMA MoveInv ==
    ASSUME TypeOK, RunInv, NEW t \in Tasks, NEW s \in Stages, Goto(t, s),
           UNCHANGED <<rowState, task, workState, listState>>,
           pc[t] \notin {"idle", "create"}, s \notin {"idle", "create"},
           s \in BeforeCommit => pc[t] \in BeforeCommit,
           s \in {"pre_success", "mark_success"}
               => pc[t] \in {"pre_success", "mark_success"},
           s \in BeforeLoop => pc[t] \in BeforeLoop,
           crashes' = 0 => crashes = 0,
           s \in FailStages /\ crashes' = 0 => pc[t] \in BeforeCommit
    PROVE  RunInv'
<1>1. /\ pc'[t] = s
      /\ \A u \in Tasks : u # t => pc'[u] = pc[u]
  BY DEF Goto, TypeOK
<1>2. RowsOwned'
  BY <1>1 DEF RunInv, RowsOwned, rowState, workState
<1>3. StageMeansCommit'
  BY <1>1 DEF RunInv, StageMeansCommit, rowState, workState, FailStages
<1>4. BatchBounded'
  BY <1>1 DEF RunInv, BatchBounded, rowState, workState
<1>5. RowsInserted'
  BY DEF RunInv, RowsInserted, rowState, listState
<1>8. StageMeansRunning'
  BY <1>1 DEF RunInv, StageMeansRunning
<1>9. QED
  BY <1>2, <1>3, <1>4, <1>5, <1>8 DEF RunInv

LEMMA EndInv ==
    ASSUME TypeOK, RunInv, NEW t \in Tasks, NEW m \in MessageType, EndRun(t, m),
           m.at # "running",
           crashes' = 0 => crashes = 0,
           UNCHANGED <<rowState, listState>>
    PROVE  RunInv'
<1>1. /\ pc'[t] = "idle" /\ cur'[t] = 0 /\ todo'[t] = 0 /\ docs'[t] = 0
      /\ \A u \in Tasks : u # t => /\ pc'[u] = pc[u] /\ cur'[u] = cur[u]
                                   /\ todo'[u] = todo[u] /\ docs'[u] = docs[u]
  BY DEF EndRun, TypeOK
<1>2. RowsOwned'
  BY <1>1 DEF RunInv, RowsOwned, rowState
<1>3. StageMeansCommit'
  BY <1>1 DEF RunInv, StageMeansCommit, rowState, BeforeCommit, FailStages
<1>4. BatchBounded'
  BY <1>1, SyncAssumption DEF RunInv, BatchBounded, rowState, SyncAssumption
<1>5. RowsInserted'
  BY DEF RunInv, RowsInserted, rowState, listState
<1>8. StageMeansRunning'
  BY <1>1 DEF RunInv, StageMeansRunning, EndRun, TypeOK
<1>9. QED
  BY <1>2, <1>3, <1>4, <1>5, <1>8 DEF RunInv

\* The status of a row changes: of the row j that a request cancels, or ...
LEMMA StatusInv ==
    ASSUME TypeOK, RunInv, NEW j \in 1..nJobs, UpdateStatus(j, "cancelled"),
           UNCHANGED <<corpus, task, pc, workState, left>>, cancel' = "read",
           crashes' = 0 => crashes = 0
    PROVE  RunInv'
<1>1. /\ \A k \in Jobs : job'[k].by = job[k].by
      /\ \A k \in Jobs : k # j => job'[k] = job[k]
      /\ job'[j].status = "cancelled" /\ nJobs' = nJobs /\ j \in Jobs
  BY SyncAssumption DEF UpdateStatus, TypeOK, RowType, Jobs, SyncAssumption
<1>2. RowsOwned'
  BY <1>1 DEF RunInv, RowsOwned, TypeOK, workState, Jobs
<1>3. ASSUME NEW u \in Tasks, pc[u] \notin {"idle", "create"}
      PROVE  job'[cur[u]].status \in {job[cur[u]].status, "cancelled"}
  <2>1. cur[u] \in Jobs
    BY <1>3, SyncAssumption DEF RunInv, RowsOwned, TypeOK, Jobs, SyncAssumption
  <2>2. CASE cur[u] = j
    BY <1>1, <2>2
  <2>3. CASE cur[u] # j
    BY <1>1, <2>1, <2>3
  <2>4. QED
    BY <2>2, <2>3
<1>7. StageMeansCommit'
  BY <1>3 DEF RunInv, StageMeansCommit, workState, BeforeCommit, FailStages
<1>4. BatchBounded'
  BY DEF RunInv, BatchBounded, workState
<1>5. RowsInserted'
  <2>1. \A k \in Jobs : k > nJobs => k # j
    BY SyncAssumption DEF TypeOK, Jobs, SyncAssumption
  <2>2. QED
    BY <1>1, <2>1 DEF RunInv, RowsInserted
<1>8. StageMeansRunning'
  BY DEF RunInv, StageMeansRunning
<1>9. QED
  BY <1>2, <1>7, <1>4, <1>5, <1>8 DEF RunInv

\* ... of the row a run drives, by that run.
LEMMA OwnRowInv ==
    ASSUME TypeOK, RunInv, NEW t \in Tasks, NEW s \in Stages, Goto(t, s),
           pc[t] \notin {"idle", "create"}, s \notin {"idle", "create"},
           UNCHANGED <<nJobs, corpus, task, workState, listState>>,
           \A k \in Jobs : k # cur[t] => job'[k] = job[k],
           job'[cur[t]].by = job[cur[t]].by,
           s \notin {"pre_success", "mark_success"},
           s \in BeforeCommit => /\ pc[t] \in BeforeCommit
                                 /\ job'[cur[t]].status \notin {"success", "failed"},
           s \in BeforeLoop => pc[t] \in BeforeLoop,
           crashes' = 0 => crashes = 0,
           s \notin FailStages
    PROVE  RunInv'
<1>1. /\ pc'[t] = s /\ cur[t] \in 1..nJobs /\ cur[t] \in Jobs
      /\ \A u \in Tasks : u # t => pc'[u] = pc[u]
  BY SyncAssumption DEF Goto, TypeOK, RunInv, RowsOwned, Jobs, SyncAssumption
<1>2. RowsOwned'
  <2> SUFFICES ASSUME NEW u \in Tasks
      PROVE IF pc'[u] \in {"idle", "create"} THEN cur[u] = 0
            ELSE cur[u] \in 1..nJobs /\ job'[cur[u]].by = u
    BY DEF RowsOwned, workState
  <2>1. CASE u = t
    BY <1>1, <2>1 DEF RunInv, RowsOwned
  <2>2. CASE u # t /\ pc[u] \in {"idle", "create"}
    BY <1>1, <2>2 DEF RunInv, RowsOwned
  <2>3. CASE u # t /\ pc[u] \notin {"idle", "create"}
    <3>1. cur[u] \in 1..nJobs /\ cur[u] \in Jobs /\ job[cur[u]].by = u
      BY <2>3, SyncAssumption
         DEF RunInv, RowsOwned, TypeOK, Jobs, SyncAssumption
    <3>2. cur[u] # cur[t]
      BY <2>3, Owners
    <3>3. QED
      BY <1>1, <2>3, <3>1, <3>2
  <2>4. QED
    BY <2>1, <2>2, <2>3
<1>3. ASSUME NEW u \in Tasks, u # t, pc[u] \notin {"idle", "create"}
      PROVE  job'[cur[u]] = job[cur[u]]
  BY <1>3, Owners, SyncAssumption
     DEF RunInv, RowsOwned, TypeOK, Jobs, SyncAssumption
<1>4. StageMeansCommit'
  BY <1>1, <1>3 DEF RunInv, StageMeansCommit, workState, BeforeCommit, FailStages
<1>5. BatchBounded'
  BY <1>1 DEF RunInv, BatchBounded, workState
<1>6. RowsInserted'
  <2>1. \A k \in Jobs : k > nJobs => k # cur[t]
    BY <1>1, SyncAssumption DEF TypeOK, Jobs, SyncAssumption
  <2>2. QED
    BY <1>1, <2>1 DEF RunInv, RowsInserted, listState
<1>8. StageMeansRunning'
  BY <1>1 DEF RunInv, StageMeansRunning
<1>9. QED
  BY <1>2, <1>4, <1>5, <1>6, <1>8 DEF RunInv

\* A run commits its documents under its row.
LEMMA CommitInv ==
    ASSUME TypeOK, RunInv, NEW t \in Tasks, NEW b \in BOOLEAN, CommitDocs(t, b),
           NEW s \in {"stop_read", "pre_success"}, Goto(t, s),
           pc[t] \in BeforeCommit, s = "pre_success" => b,
           UNCHANGED <<rowVars, task, workState, listState>>,
           crashes' = 0 => crashes = 0
    PROVE  RunInv'
<1>1. /\ pc'[t] = s /\ cur[t] \in 1..nJobs /\ cur[t] \in Jobs
      /\ \A u \in Tasks : u # t => pc'[u] = pc[u]
      /\ pc[t] \notin {"idle", "create"}
  BY SyncAssumption
     DEF Goto, TypeOK, RunInv, RowsOwned, Jobs, BeforeCommit, SyncAssumption
<1>2. /\ \A k \in Jobs : k # cur[t] => corpus'[k] = corpus[k]
      /\ b => corpus'[cur[t]] = [docs |-> docs[t], indexed |-> docs[t]]
  BY <1>1 DEF CommitDocs, TypeOK
<1>3. RowsOwned'
  BY <1>1 DEF RunInv, RowsOwned, rowVars, workState
<1>4. ASSUME NEW u \in Tasks, u # t, pc[u] \notin {"idle", "create"}
      PROVE  corpus'[cur[u]] = corpus[cur[u]]
  BY <1>1, <1>2, <1>4, Owners, SyncAssumption
     DEF RunInv, RowsOwned, TypeOK, Jobs, SyncAssumption
<1>5. StageMeansCommit'
  BY <1>1, <1>2, <1>4
     DEF RunInv, StageMeansCommit, rowVars, workState, BeforeCommit, FailStages
<1>6. BatchBounded'
  BY <1>1 DEF RunInv, BatchBounded, workState, BeforeLoop
<1>7. RowsInserted'
  <2>1. \A k \in Jobs : k > nJobs => k # cur[t]
    BY <1>1, SyncAssumption DEF TypeOK, Jobs, SyncAssumption
  <2>2. QED
    BY <1>2, <2>1 DEF RunInv, RowsInserted, rowVars, listState
<1>8. StageMeansRunning'
  BY <1>1 DEF RunInv, StageMeansRunning
<1>9. QED
  BY <1>3, <1>5, <1>6, <1>7, <1>8 DEF RunInv

\* Inserting a row disturbs no other.
LEMMA InsertInv ==
    ASSUME TypeOK, RunInv, NEW b \in Tasks \cup {Api}, CreateRow(b),
           UNCHANGED <<corpus, listState>>
    PROVE  /\ RowsInserted' /\ nJobs' \in Jobs /\ nJobs' = nJobs + 1
           /\ job'[nJobs'] = [status |-> "pending", by |-> b, docs |-> 0]
           /\ corpus[nJobs'] = [docs |-> 0, indexed |-> 0]
           /\ \A k \in 1..nJobs : k \in Jobs /\ k # nJobs' /\ job'[k] = job[k]
<1>1. /\ nJobs' \in Jobs /\ nJobs' = nJobs + 1
      /\ \A k \in Jobs : k # nJobs' => job'[k] = job[k]
      /\ job'[nJobs'] = [status |-> "pending", by |-> b, docs |-> 0]
  BY SyncAssumption DEF CreateRow, TypeOK, Jobs, SyncAssumption
<1>2. RowsInserted'
  <2>1. nJobs \in Nat /\ left \subseteq Jobs /\ Jobs \subseteq Nat
    BY SyncAssumption DEF TypeOK, Jobs, SyncAssumption
  <2>2. \A k \in Jobs : k > nJobs' =>
           job'[k] = [status |-> "none", by |-> NoOne, docs |-> 0]
    BY <1>1, <2>1 DEF RunInv, RowsInserted
  <2>3. \A k \in Jobs : k > nJobs' => corpus'[k] = [docs |-> 0, indexed |-> 0]
    BY <1>1, <2>1 DEF RunInv, RowsInserted
  <2>4. \A k \in left' : k <= nJobs'
    BY <1>1, <2>1 DEF RunInv, RowsInserted, listState
  <2>5. cancel' = "write" => flipping' \in 1..nJobs'
    BY <1>1, <2>1 DEF RunInv, RowsInserted, listState
  <2>6. QED
    BY <2>2, <2>3, <2>4, <2>5 DEF RowsInserted
<1>3. corpus[nJobs'] = [docs |-> 0, indexed |-> 0]
  <2>1. nJobs' > nJobs
    BY <1>1, SyncAssumption DEF TypeOK, SyncAssumption
  <2>2. QED
    BY <1>1, <2>1 DEF RunInv, RowsInserted
<1>4. \A k \in 1..nJobs : k \in Jobs /\ k # nJobs' /\ job'[k] = job[k]
  <2>1. /\ nJobs \in Nat /\ MaxJobs \in Nat /\ nJobs <= MaxJobs
        /\ nJobs' = nJobs + 1
    BY <1>1, SyncAssumption DEF TypeOK, SyncAssumption
  <2>2. \A k \in 1..nJobs : k \in Jobs /\ k # nJobs'
    BY <2>1 DEF Jobs
  <2>3. QED
    BY <1>1, <2>2
<1>5. QED
  BY <1>1, <1>2, <1>3, <1>4

-----------------------------------------------------------------------------
\* Every step keeps the invariant: one step of the proof per action, most of
\* them an instance of one of the lemmas above.
LEMMA RunInvNext == ASSUME TypeOK, RunInv, [Next]_vars PROVE RunInv'
<1> USE DEF rowVars, runVars, sourceVars, apiVars, requestVars, rowState, workState,
           listState, FailStages
<1>1. CASE TriggerSend
  BY <1>1, StayInv DEF TriggerSend
<1>2. CASE FanOut
  BY <1>2, StayInv DEF FanOut
<1>3. CASE ComesDue
  BY <1>3, StayInv DEF ComesDue
<1>4. CASE TickSelect
  BY <1>4, StayInv DEF TickSelect
<1>5. CASE TickSend
  BY <1>5, StayInv DEF TickSend
<1>6. CASE TickCommit
  BY <1>6, StayInv DEF TickCommit
<1>7. CASE TickCrash
  BY <1>7, StayInv DEF TickCrash, TypeOK
<1>8. CASE FlagExpires
  BY <1>8, StayInv DEF FlagExpires
<1>9. CASE CancelAccept
  BY <1>9, StayInv DEF CancelAccept
<1>10. CASE CancelSetFlag
  BY <1>10, StayInv DEF CancelSetFlag
<1>11. CASE CancelDone
  BY <1>11, StayInv DEF CancelDone
<1>12. CASE UNCHANGED vars
  BY <1>12, StayInv DEF vars
<1>13. CASE TriggerCreate
  <2>1. /\ RowsInserted'
        /\ \A k \in 1..nJobs : k \in Jobs /\ job'[k] = job[k]
        /\ nJobs' = nJobs + 1 /\ nJobs \in Nat
    <3>1. nJobs \in Nat
      BY SyncAssumption DEF TypeOK, SyncAssumption
    <3>2. CreateRow(Api) /\ UNCHANGED <<corpus, listState>>
      BY <1>13 DEF TriggerCreate
    <3>3. QED
      BY <3>1, <3>2, InsertInv
  <2>2. RowsOwned' /\ StageMeansCommit'
    BY <1>13, <2>1
       DEF TriggerCreate, RunInv, RowsOwned, StageMeansCommit, BeforeCommit
  <2>3. StageMeansRunning' /\ BatchBounded'
    BY <1>13 DEF TriggerCreate, RunInv, StageMeansRunning, BatchBounded
  <2>4. QED
    BY <2>1, <2>2, <2>3 DEF RunInv
<1>14. CASE CancelList
  <2>1. \A j \in left' : j <= nJobs
    BY <1>14, SyncAssumption
       DEF CancelList, NonTerminalRows, NonTerminal, RunInv, RowsInserted,
           TypeOK,
           Jobs, SyncAssumption
  <2>2. RowsInserted'
    BY <1>14, <2>1 DEF CancelList, RunInv, RowsInserted
  <2>3. StageMeansRunning' /\ RowsOwned' /\ StageMeansCommit' /\ BatchBounded'
    BY <1>14
       DEF CancelList, RunInv, StageMeansRunning, RowsOwned,
           StageMeansCommit,
                 BatchBounded
  <2>4. QED
    BY <2>2, <2>3 DEF RunInv
<1>15. CASE CancelRowRead
  <2>1. PICK j \in left : /\ left' = left \ {j}
                         /\ \/ UNCHANGED <<cancel, flipping>>
                            \/ cancel' = "write" /\ flipping' = j
    BY <1>15 DEF CancelRowRead
  <2>2. j \in 1..nJobs
    BY SyncAssumption DEF RunInv, RowsInserted, TypeOK, Jobs, SyncAssumption
  <2>3. RowsInserted'
    BY <1>15, <2>1, <2>2 DEF CancelRowRead, RunInv, RowsInserted
  <2>4. StageMeansRunning' /\ RowsOwned' /\ StageMeansCommit' /\ BatchBounded'
    BY <1>15 DEF CancelRowRead, RunInv, StageMeansRunning, RowsOwned,
                 StageMeansCommit, BatchBounded
  <2>5. QED
    BY <2>3, <2>4 DEF RunInv
<1>16. CASE CancelRowWrite
  <2>1. flipping \in 1..nJobs
    BY <1>16 DEF CancelRowWrite, RunInv, RowsInserted
  <2>2. QED
    BY <1>16, <2>1, StatusInv DEF CancelRowWrite
<1>17. ASSUME NEW t \in Tasks, Deliver(t) PROVE RunInv'
  <2>1. /\ pc[t] = "idle" /\ pc'[t] = "create" /\ task'[t].at = "running"
        /\ \A u \in Tasks : u # t => pc'[u] = pc[u] /\ task'[u] = task[u]
    BY <1>17 DEF Deliver, Goto, RunInv, StageMeansRunning, TypeOK, MessageType
  <2>2. StageMeansRunning' /\ RowsOwned'
    BY <1>17, <2>1 DEF Deliver, RunInv, StageMeansRunning, RowsOwned
  <2>3. StageMeansCommit' /\ BatchBounded' /\ RowsInserted'
    BY <1>17, <2>1 DEF Deliver, RunInv, StageMeansCommit, BeforeCommit,
                       BatchBounded, BeforeLoop, RowsInserted
  <2>4. QED
    BY <2>2, <2>3 DEF RunInv
<1>18. ASSUME NEW t \in Tasks, CreateJob(t) PROVE RunInv'
  <2>1. /\ RowsInserted' /\ nJobs' = nJobs + 1 /\ nJobs' \in Jobs /\ nJobs \in Nat
        /\ job'[nJobs'] = [status |-> "pending", by |-> t, docs |-> 0]
        /\ corpus'[nJobs'] = [docs |-> 0, indexed |-> 0]
        /\ \A k \in 1..nJobs : k \in Jobs /\ k # nJobs' /\ job'[k] = job[k]
    BY <1>18, InsertInv, SyncAssumption DEF CreateJob, TypeOK, SyncAssumption
  <2>2. /\ pc[t] = "create" /\ pc'[t] = "pre_start" /\ cur'[t] = nJobs'
        /\ \A u \in Tasks : u # t => pc'[u] = pc[u] /\ cur'[u] = cur[u]
    BY <1>18, <2>1 DEF CreateJob, Goto, TypeOK
  <2>3. RowsOwned'
    <3> SUFFICES ASSUME NEW u \in Tasks
        PROVE IF pc'[u] \in {"idle", "create"} THEN cur'[u] = 0
              ELSE cur'[u] \in 1..nJobs' /\ job'[cur'[u]].by = u
      BY DEF RowsOwned
    <3>1. CASE u = t
      BY <2>1, <2>2, <3>1
    <3>2. CASE u # t
      BY <2>1, <2>2, <3>2 DEF RunInv, RowsOwned
    <3>3. QED
      BY <3>1, <3>2
  <2>4. StageMeansCommit'
    <3> SUFFICES ASSUME NEW u \in Tasks
        PROVE /\ pc'[u] \in BeforeCommit =>
                    /\ corpus'[cur'[u]] = [docs |-> 0, indexed |-> 0]
                    /\ job'[cur'[u]].status \notin {"success", "failed"}
              /\ pc'[u] \in FailStages /\ crashes' = 0 =>
                    corpus'[cur'[u]] = [docs |-> 0, indexed |-> 0]
              /\ pc'[u] \in {"pre_success", "mark_success"} =>
                    /\ corpus'[cur'[u]] = [docs |-> docs'[u], indexed |-> docs'[u]]
                    /\ job'[cur'[u]].status \notin {"success", "failed"}
      BY DEF StageMeansCommit
    <3>1. CASE u = t
      BY <2>1, <2>2, <3>1
    <3>2. CASE u # t
      BY <1>18, <2>1, <2>2, <3>2
         DEF CreateJob, RunInv, RowsOwned, StageMeansCommit, BeforeCommit
    <3>3. QED
      BY <3>1, <3>2
  <2>5. StageMeansRunning' /\ BatchBounded'
    BY <1>18, <2>2
       DEF CreateJob, RunInv, StageMeansRunning, BatchBounded, BeforeLoop
  <2>6. QED
    BY <2>1, <2>3, <2>4, <2>5 DEF RunInv
<1>19. ASSUME NEW t \in Tasks, BailCheck(t) PROVE RunInv'
  <2>1. CASE Goto(t, "cancel_read")
    BY <1>19, <2>1, MoveInv
       DEF BailCheck, BailStages, Stages, BeforeCommit, BeforeLoop
  <2>2. ASSUME NEW s \in Stages, <<pc[t], s>> \in AfterCheck, Goto(t, s)
        PROVE  RunInv'
    <3>1. \/ pc[t] = "pre_start" /\ s = "mark_running"
          \/ pc[t] = "pre_db_dispatch" /\ s = "db_success"
          \/ pc[t] = "pre_fetch" /\ s = "fetch"
          \/ pc[t] = "pre_success" /\ s = "mark_success"
      BY <2>2 DEF AfterCheck
    <3>2. QED
      BY <1>19, <2>2, <3>1, MoveInv DEF BailCheck, BeforeCommit, BeforeLoop
  <2>3. QED
    BY <1>19, <2>1, <2>2 DEF BailCheck
<1>20. ASSUME NEW t \in Tasks, BailCheckRaises(t) PROVE RunInv'
  BY <1>20, MoveInv
     DEF BailCheckRaises, Stages, BeforeCommit, BeforeLoop, BailStages
<1>21. ASSUME NEW t \in Tasks, LoadSource(t) PROVE RunInv'
  BY <1>21, MoveInv DEF LoadSource, Stages, BeforeCommit, BeforeLoop
<1>22. ASSUME NEW t \in Tasks, ResolveEmbedder(t) PROVE RunInv'
  BY <1>22, MoveInv DEF ResolveEmbedder, Stages, BeforeCommit, BeforeLoop
<1>23. ASSUME NEW t \in Tasks, LoopCancelled(t) PROVE RunInv'
  BY <1>23, MoveInv DEF LoopCancelled, Stages, BeforeCommit, BeforeLoop
<1>24. ASSUME NEW t \in Tasks, LoopDone(t) PROVE RunInv'
  BY <1>24, MoveInv DEF LoopDone, Stages, BeforeCommit, BeforeLoop
<1>25. ASSUME NEW t \in Tasks, PreEmbedCheck(t) PROVE RunInv'
  BY <1>25, MoveInv DEF PreEmbedCheck, Stages, BeforeCommit, BeforeLoop
<1>26. ASSUME NEW t \in Tasks, ProcessingRaises(t) PROVE RunInv'
  BY <1>26, MoveInv DEF ProcessingRaises, Stages, BeforeCommit, BeforeLoop
<1>27. ASSUME NEW t \in Tasks, CancelRead(t) PROVE RunInv'
  BY <1>27, MoveInv DEF CancelRead, Exits, Stages, BeforeCommit, BeforeLoop
<1>28. ASSUME NEW t \in Tasks, EnqueueStudy(t) PROVE RunInv'
  BY <1>28, MoveInv DEF EnqueueStudy, Stages, BeforeCommit, BeforeLoop
<1>29. ASSUME NEW t \in Tasks, FlipReady(t) PROVE RunInv'
  BY <1>29, MoveInv DEF FlipReady, Stages, BeforeCommit, BeforeLoop
<1>30. ASSUME NEW t \in Tasks, CancelClear(t) PROVE RunInv'
  BY <1>30, MoveInv DEF CancelClear, Exits, Stages, BeforeCommit, BeforeLoop
<1>31. ASSUME NEW t \in Tasks, MarkRunning(t) PROVE RunInv'
  <2>1. pc[t] \notin {"idle", "create"} /\ cur[t] \in Jobs
    BY <1>31, OwnRow DEF MarkRunning
  <2>2. /\ \A k \in Jobs : k # cur[t] => job'[k] = job[k]
        /\ job'[cur[t]].by = job[cur[t]].by /\ job'[cur[t]].status = "running"
    BY <1>31, <2>1, StatusRow DEF MarkRunning
  <2>3. QED
    BY <1>31, <2>1, <2>2, OwnRowInv
       DEF MarkRunning, UpdateStatus, Stages, BeforeCommit, BeforeLoop
<1>32. ASSUME NEW t \in Tasks, DbSuccess(t) PROVE RunInv'
  <2>1. pc[t] \notin {"idle", "create"} /\ cur[t] \in Jobs
    BY <1>32, OwnRow DEF DbSuccess
  <2>2. /\ \A k \in Jobs : k # cur[t] => job'[k] = job[k]
        /\ job'[cur[t]].by = job[cur[t]].by
    <3>1. PICK n \in Nat : MarkSuccess(cur[t], n)
      BY <1>32 DEF DbSuccess, TypeOK
    <3>2. QED
      BY <2>1, <3>1, SuccessRow
  <2>3. QED
    BY <1>32, <2>1, <2>2, OwnRowInv
       DEF DbSuccess, MarkSuccess, Stages, BeforeCommit,
                                        BeforeLoop
<1>33. ASSUME NEW t \in Tasks, FinishSuccess(t) PROVE RunInv'
  <2>1. pc[t] \notin {"idle", "create"} /\ cur[t] \in Jobs
    BY <1>33, OwnRow DEF FinishSuccess
  <2>2. /\ \A k \in Jobs : k # cur[t] => job'[k] = job[k]
        /\ job'[cur[t]].by = job[cur[t]].by
    <3>1. PICK n \in Nat : MarkSuccess(cur[t], n)
      BY <1>33 DEF FinishSuccess, TypeOK
    <3>2. QED
      BY <2>1, <3>1, SuccessRow
  <2>3. QED
    BY <1>33, <2>1, <2>2, OwnRowInv
       DEF FinishSuccess, MarkSuccess, Stages, BeforeCommit,
                                        BeforeLoop
<1>34. ASSUME NEW t \in Tasks, FinishFailed(t) PROVE RunInv'
  <2>1. pc[t] \notin {"idle", "create"} /\ cur[t] \in Jobs
    BY <1>34, OwnRow DEF FinishFailed
  <2>2. /\ \A k \in Jobs : k # cur[t] => job'[k] = job[k]
        /\ job'[cur[t]].by = job[cur[t]].by
    BY <1>34, <2>1, StatusRow DEF FinishFailed, MarkFailed
  <2>3. QED
    BY <1>34, <2>1, <2>2, OwnRowInv
       DEF FinishFailed, MarkFailed, UpdateStatus, Stages, BeforeCommit, BeforeLoop
<1>35. ASSUME NEW t \in Tasks, CancelWrite(t) PROVE RunInv'
  <2>1. PICK e \in Exits : pc[t] = e.write /\ Goto(t, e.clear)
    BY <1>35 DEF CancelWrite
  <2>2. pc[t] \notin {"idle", "create"} /\ e.clear \in {"cancel_clear", "stop_clear"}
    BY <2>1 DEF Exits
  <2>3. cur[t] \in Jobs
    BY <2>2, OwnRow
  <2>4. /\ \A k \in Jobs : k # cur[t] => job'[k] = job[k]
        /\ job'[cur[t]].by = job[cur[t]].by
    BY <1>35, <2>3, StatusRow DEF CancelWrite
  <2>5. QED
    BY <1>35, <2>1, <2>2, <2>4, OwnRowInv
       DEF CancelWrite, UpdateStatus, Stages, BeforeCommit, BeforeLoop
<1>36. ASSUME NEW t \in Tasks, Fetch(t) PROVE RunInv'
  <2>1. CASE Goto(t, "embedder")
    <3>1. PICK n \in 0..MaxDocs : todo' = [todo EXCEPT ![t] = n]
      BY <1>36, <2>1 DEF Fetch, Goto, TypeOK
    <3>2. /\ pc[t] = "fetch" /\ pc'[t] = "embedder" /\ docs[t] = 0 /\ todo'[t] = n
          /\ \A u \in Tasks : u # t => pc'[u] = pc[u] /\ todo'[u] = todo[u]
      BY <1>36, <2>1, <3>1
         DEF Fetch, Goto, TypeOK, RunInv, BatchBounded, BeforeLoop
    <3>3. BatchBounded'
      BY <1>36, <3>2, SyncAssumption
         DEF Fetch, RunInv, BatchBounded, BeforeLoop, SyncAssumption
    <3>4. StageMeansRunning' /\ RowsOwned' /\ StageMeansCommit' /\ RowsInserted'
      BY <1>36, <3>2 DEF Fetch, RunInv, StageMeansRunning, RowsOwned,
                         StageMeansCommit, BeforeCommit, RowsInserted
    <3>5. QED
      BY <3>3, <3>4 DEF RunInv
  <2>2. CASE UNCHANGED todo /\ \E s \in {"fail_stop", "fail_retry"} : Goto(t, s)
    BY <1>36, <2>2, MoveInv DEF Fetch, Stages, BeforeCommit, BeforeLoop
  <2>3. QED
    BY <1>36, <2>1, <2>2 DEF Fetch
<1>37. ASSUME NEW t \in Tasks, LoopDocument(t) PROVE RunInv'
  <2>1. /\ todo'[t] = todo[t] - 1 /\ docs'[t] = docs[t] + 1 /\ pc[t] = "loop"
        /\ \A u \in Tasks : u # t => todo'[u] = todo[u] /\ docs'[u] = docs[u]
        /\ todo[t] \in Nat /\ docs[t] \in Nat
    BY <1>37 DEF LoopDocument, TypeOK
  <2>2. BatchBounded'
    BY <1>37, <2>1, SyncAssumption
       DEF LoopDocument, RunInv, BatchBounded, BeforeLoop, SyncAssumption
  <2>3. StageMeansCommit'
    BY <1>37, <2>1 DEF LoopDocument, RunInv, StageMeansCommit, BeforeCommit
  <2>4. StageMeansRunning' /\ RowsOwned' /\ RowsInserted'
    BY <1>37
       DEF LoopDocument, RunInv, StageMeansRunning, RowsOwned, RowsInserted
  <2>5. QED
    BY <2>2, <2>3, <2>4 DEF RunInv
<1>38. ASSUME NEW t \in Tasks, CommitPartial(t) PROVE RunInv'
  BY <1>38, CommitInv DEF CommitPartial, Stages, BeforeCommit
<1>39. ASSUME NEW t \in Tasks, CommitBare(t) PROVE RunInv'
  BY <1>39, CommitInv DEF CommitBare, Stages, BeforeCommit
<1>40. ASSUME NEW t \in Tasks, EmbedAndCommit(t) PROVE RunInv'
  BY <1>40, CommitInv DEF EmbedAndCommit, Stages, BeforeCommit
<1>41. ASSUME NEW t \in Tasks, Finish(t) PROVE RunInv'
  BY <1>41, EndInv, MessageTypes DEF Finish, Acked, Retried, TypeOK, MessageType
<1>42. ASSUME NEW t \in Tasks, Crash(t) PROVE RunInv'
  <2>1. PICK m \in {Requeued(t), Acked(t)} : EndRun(t, m)
    BY <1>42 DEF Crash
  <2>2. m \in MessageType /\ m.at # "running"
    BY MessageTypes DEF Requeued, Acked, TypeOK, MessageType
  <2>3. QED
    BY <1>42, <2>1, <2>2, EndInv DEF Crash, TypeOK
<1>43. ASSUME NEW t \in Tasks, SoftLimit(t) PROVE RunInv'
  <2>1. crashes' # 0
    BY <1>43 DEF SoftLimit, TypeOK
  <2>2. QED
    BY <1>43, <2>1, MoveInv DEF SoftLimit, TryBlock, Stages, BeforeCommit, BeforeLoop
<1>44. QED
  BY <1>1, <1>2, <1>3, <1>4, <1>5, <1>6, <1>7, <1>8, <1>9, <1>10, <1>11,
     <1>12, <1>13, <1>14, <1>15, <1>16, <1>17, <1>18, <1>19, <1>20, <1>21,
     <1>22, <1>23, <1>24, <1>25, <1>26, <1>27, <1>28, <1>29, <1>30, <1>31,
     <1>32, <1>33, <1>34, <1>35, <1>36, <1>37, <1>38, <1>39, <1>40, <1>41,
     <1>42, <1>43
     DEF Next, CancelStep, RunStep

\* The stage of every run says what the corpus holds for the row it owns, in
\* every interleaving of runs, requests, sweeps, crashes and retries.
THEOREM RunInvariant == Spec => []RunInv
<1>1. ASSUME Init PROVE RunInv
  <2>1. StageMeansRunning /\ RowsOwned /\ StageMeansCommit
    BY <1>1
       DEF Init, StageMeansRunning, RowsOwned, StageMeansCommit, BeforeCommit,
           FailStages
  <2>2. BatchBounded /\ RowsInserted
    BY <1>1, SyncAssumption DEF Init, BatchBounded, RowsInserted, SyncAssumption
  <2>3. QED
    BY <2>1, <2>2 DEF RunInv
<1>2. TypeOK /\ RunInv /\ [Next]_vars => RunInv'
  BY RunInvNext
<1>3. QED
  BY <1>1, <1>2, TypeCorrect, PTL DEF Spec

-----------------------------------------------------------------------------
\* What a step does to the table and the corpus ...
RowEffect ==
    \/ UNCHANGED <<job, corpus>>
    \/ \E b \in Tasks \cup {Api} : CreateRow(b) /\ UNCHANGED corpus
    \/ \E j \in 1..nJobs : UpdateStatus(j, "cancelled") /\ UNCHANGED corpus
    \/ \E t \in Tasks : /\ pc[t] = "mark_running" /\ UNCHANGED corpus
                        /\ UpdateStatus(cur[t], "running")
    \/ \E t \in Tasks : /\ pc[t] \in {"fail_stop", "fail_retry"}
                        /\ UpdateStatus(cur[t], "failed") /\ UNCHANGED corpus
    \/ \E t \in Tasks : /\ pc[t] = "db_success" /\ MarkSuccess(cur[t], 0)
                        /\ UNCHANGED corpus
    \/ \E t \in Tasks : /\ pc[t] = "mark_success" /\ MarkSuccess(cur[t], docs[t])
                        /\ UNCHANGED corpus
    \/ \E t \in Tasks, b \in BOOLEAN :
          /\ pc[t] \in {"commit_partial", "commit_bare", "embed"}
          /\ CommitDocs(t, b) /\ UNCHANGED rowVars

\* ... and to the count of crashes.
RowStep ==
    /\ crashes' = 0 => crashes = 0
    /\ RowEffect

\* Every step of the pipeline is one of these.
LEMMA RowSteps == ASSUME TypeOK, RunInv, [Next]_vars PROVE RowStep
<1> USE DEF rowVars, runVars, sourceVars, apiVars, requestVars
<1>1. CASE TriggerSend \/ FanOut \/ FlagExpires \/ CancelAccept
  BY <1>1 DEF RowStep, RowEffect, TriggerSend, FanOut, FlagExpires, CancelAccept
<1>2. CASE ComesDue \/ TickSelect \/ TickSend \/ TickCommit \/ TickCrash
  BY <1>2 DEF RowStep, RowEffect, ComesDue, TickSelect, TickSend, TickCommit,
              TickCrash, TypeOK
<1>3. CASE CancelSetFlag \/ CancelList \/ CancelRowRead \/ CancelDone
  BY <1>3 DEF RowStep, RowEffect, CancelSetFlag, CancelList, CancelRowRead, CancelDone
<1>4. CASE TriggerCreate
  BY <1>4 DEF RowStep, RowEffect, TriggerCreate
<1>5. CASE CancelRowWrite
  BY <1>5 DEF RowStep, RowEffect, CancelRowWrite, RunInv, RowsInserted
<1>6. ASSUME NEW t \in Tasks,
             \/ Deliver(t) \/ BailCheck(t) \/ BailCheckRaises(t)
             \/ LoadSource(t) \/ EnqueueStudy(t) \/ Fetch(t) \/ ResolveEmbedder(t)
      PROVE  RowStep
  BY <1>6 DEF RowStep, RowEffect, Deliver, BailCheck, BailCheckRaises,
              LoadSource, EnqueueStudy, Fetch, ResolveEmbedder
<1>7. ASSUME NEW t \in Tasks,
             \/ LoopDocument(t) \/ LoopCancelled(t) \/ LoopDone(t)
             \/ PreEmbedCheck(t) \/ ProcessingRaises(t) \/ FlipReady(t)
             \/ CancelRead(t) \/ CancelClear(t) \/ Finish(t)
      PROVE  RowStep
  BY <1>7 DEF RowStep, RowEffect, LoopDocument, LoopCancelled, LoopDone, PreEmbedCheck,
              ProcessingRaises, FlipReady, CancelRead, CancelClear, Finish
<1>8. ASSUME NEW t \in Tasks, CreateJob(t) PROVE RowStep
  BY <1>8 DEF RowStep, RowEffect, CreateJob
<1>9. ASSUME NEW t \in Tasks, MarkRunning(t) PROVE RowStep
  BY <1>9 DEF RowStep, RowEffect, MarkRunning
<1>10. ASSUME NEW t \in Tasks, FinishFailed(t) PROVE RowStep
  BY <1>10 DEF RowStep, RowEffect, FinishFailed, MarkFailed
<1>11. ASSUME NEW t \in Tasks, DbSuccess(t) \/ FinishSuccess(t) PROVE RowStep
  BY <1>11 DEF RowStep, RowEffect, DbSuccess, FinishSuccess
<1>12. ASSUME NEW t \in Tasks, CancelWrite(t) PROVE RowStep
  <2>1. pc[t] \in {"cancel_write", "stop_write"}
    BY <1>12 DEF CancelWrite, Exits
  <2>2. cur[t] \in 1..nJobs
    BY <2>1, OwnRow
  <2>3. QED
    BY <1>12, <2>2 DEF RowStep, RowEffect, CancelWrite
<1>13. ASSUME NEW t \in Tasks, CommitPartial(t) \/ CommitBare(t) \/ EmbedAndCommit(t)
       PROVE  RowStep
  BY <1>13 DEF RowStep, RowEffect, CommitPartial, CommitBare, EmbedAndCommit
<1>14. CASE UNCHANGED vars
  BY <1>14 DEF RowStep, RowEffect, vars
<1>15. ASSUME NEW t \in Tasks, SoftLimit(t) PROVE RowStep
  BY <1>15 DEF RowStep, RowEffect, SoftLimit, TypeOK
<1>16. ASSUME NEW t \in Tasks, Crash(t) PROVE RowStep
  BY <1>16 DEF RowStep, RowEffect, Crash, TypeOK
<1>17. QED
  BY <1>1, <1>2, <1>3, <1>4, <1>5, <1>6, <1>7, <1>8, <1>9, <1>10, <1>11, <1>12,
     <1>13, <1>14, <1>15, <1>16 DEF Next, CancelStep, RunStep

\* What a row says about its documents.
RowTrue(j) ==
    /\ job[j].status = "success" =>
          corpus[j] = [docs |-> job[j].docs, indexed |-> job[j].docs]
    /\ job[j].status = "failed" /\ crashes = 0 => corpus[j].docs = 0
    /\ job[j].by = Api => job[j].status \in {"pending", "cancelled"}

\* A step that touches one row keeps the others true.
LEMMA TrueNext ==
    ASSUME TypeOK, RunInv, RowStep, NEW i \in Jobs, RowTrue(i)
    PROVE  RowTrue(i)'
<1> DEFINE Same == job'[i] = job[i] /\ corpus'[i] = corpus[i]
<1>0. crashes' = 0 => crashes = 0
  BY DEF RowStep
<1>1. CASE Same
  BY <1>0, <1>1 DEF RowTrue
<1>2. CASE \E b \in Tasks \cup {Api} : CreateRow(b) /\ UNCHANGED corpus
  <2>1. PICK b \in Tasks \cup {Api} : CreateRow(b) /\ UNCHANGED corpus
    BY <1>2
  <2>2. job' = [job EXCEPT ![nJobs + 1] =
                   [status |-> "pending", by |-> b, docs |-> 0]]
    BY <2>1 DEF CreateRow
  <2>3. CASE i = nJobs + 1
    BY <2>2, <2>3 DEF RowTrue, TypeOK
  <2>4. CASE i # nJobs + 1
    BY <1>1, <2>1, <2>2, <2>4 DEF TypeOK
  <2>5. QED
    BY <2>3, <2>4
<1>3. ASSUME NEW j \in 1..nJobs, UpdateStatus(j, "cancelled"), UNCHANGED corpus
      PROVE  RowTrue(i)'
  <2>1. j \in Jobs
    BY SyncAssumption DEF TypeOK, Jobs, SyncAssumption
  <2>2. CASE i = j
    BY <1>3, <2>1, <2>2, StatusRow DEF RowTrue
  <2>3. CASE i # j
    BY <1>1, <1>3, <2>1, <2>3, StatusRow
  <2>4. QED
    BY <2>2, <2>3
<1>4. ASSUME NEW t \in Tasks, NEW s \in {"running", "failed"},
             pc[t] \in {"mark_running", "fail_stop", "fail_retry"},
             s = "failed" => pc[t] \in FailStages,
             UpdateStatus(cur[t], s), UNCHANGED corpus
      PROVE  RowTrue(i)'
  <2>0. s = "failed" /\ crashes = 0
          => corpus[cur[t]] = [docs |-> 0, indexed |-> 0]
    BY <1>4 DEF RunInv, StageMeansCommit
  <2>1. cur[t] \in Jobs /\ job[cur[t]].by # Api
    BY <1>4, OwnRow, CreatorAssumption DEF CreatorAssumption
  <2>2. CASE i = cur[t]
    BY <1>0, <1>4, <2>0, <2>1, <2>2, StatusRow DEF RowTrue
  <2>3. CASE i # cur[t]
    BY <1>1, <1>4, <2>1, <2>3, StatusRow
  <2>4. QED
    BY <2>2, <2>3
<1>5. ASSUME NEW t \in Tasks, NEW n \in Nat, pc[t] \in {"db_success", "mark_success"},
             n = IF pc[t] = "db_success" THEN 0 ELSE docs[t],
             MarkSuccess(cur[t], n), UNCHANGED corpus
      PROVE  RowTrue(i)'
  <2>1. /\ cur[t] \in Jobs /\ job[cur[t]].by # Api
        /\ corpus[cur[t]] = [docs |-> n, indexed |-> n]
    BY <1>5, OwnRow, CreatorAssumption
       DEF RunInv, StageMeansCommit, BeforeCommit, CreatorAssumption
  <2>2. CASE i = cur[t]
    BY <1>5, <2>1, <2>2, SuccessRow DEF RowTrue
  <2>3. CASE i # cur[t]
    BY <1>1, <1>5, <2>1, <2>3, SuccessRow
  <2>4. QED
    BY <2>2, <2>3
<1>6. ASSUME NEW t \in Tasks, NEW b \in BOOLEAN, CommitDocs(t, b), UNCHANGED rowVars,
             pc[t] \in {"commit_partial", "commit_bare", "embed"}
      PROVE  RowTrue(i)'
  <2>1. cur[t] \in Jobs /\ job[cur[t]].status \notin {"success", "failed"}
    BY <1>6, OwnRow DEF RunInv, StageMeansCommit, BeforeCommit
  <2>2. CASE i = cur[t]
    BY <1>6, <2>1, <2>2 DEF RowTrue, rowVars
  <2>3. CASE i # cur[t]
    BY <1>1, <1>6, <2>1, <2>3 DEF CommitDocs, TypeOK, rowVars
  <2>4. QED
    BY <2>2, <2>3
<1>7. CASE UNCHANGED <<job, corpus>>
  BY <1>1, <1>7
<1>8. \A t \in Tasks : docs[t] \in Nat
  BY DEF TypeOK
<1>9. QED
  BY <1>2, <1>3, <1>4, <1>5, <1>6, <1>7, <1>8 DEF RowStep, RowEffect, FailStages

\* Every row is true in every state.
LEMMA RowsTrue == Spec => [](\A i \in Jobs : RowTrue(i))
<1>1. ASSUME Init PROVE \A i \in Jobs : RowTrue(i)
  BY <1>1 DEF Init, RowTrue, NoOne, Api
<1>2. ASSUME TypeOK, RunInv, \A i \in Jobs : RowTrue(i), [Next]_vars
      PROVE  (\A i \in Jobs : RowTrue(i))'
  <2>1. RowStep
    BY <1>2, RowSteps
  <2>2. \A i \in Jobs : RowTrue(i)'
    BY <1>2, <2>1, TrueNext
  <2>3. QED
    BY <2>2 DEF Jobs
<1>3. QED
  BY <1>1, <1>2, TypeCorrect, RunInvariant, PTL DEF Spec

\* A row that says success reports exactly the documents its run committed,
\* all of them with chunks.
THEOREM SuccessComplete == Spec => []SuccessIsComplete
<1>1. (\A i \in Jobs : RowTrue(i)) => SuccessIsComplete
  BY DEF RowTrue, SuccessIsComplete
<1>2. QED
  BY <1>1, RowsTrue, PTL

\* A failed run left nothing in the corpus: a retry duplicates nothing.
THEOREM FailedEmpty == Spec => []FailedIsEmpty
<1>1. (\A i \in Jobs : RowTrue(i)) => FailedIsEmpty
  BY DEF RowTrue, FailedIsEmpty
<1>2. QED
  BY <1>1, RowsTrue, PTL

\* The row of trigger_sync stays pending or is cancelled.
THEOREM ApiRowsCancelled == Spec => []ApiRowsOnlyCancelled
<1>1. (\A i \in Jobs : RowTrue(i)) => ApiRowsOnlyCancelled
  BY DEF RowTrue, ApiRowsOnlyCancelled
<1>2. QED
  BY <1>1, RowsTrue, PTL

-----------------------------------------------------------------------------
\* How a row's claim follows from the row, now and after a step.
LEMMA ClaimOf ==
    ASSUME NEW i \in Jobs
    PROVE  /\ job[i].status = "success" =>
                 Claims[i] = [said |-> TRUE, docs |-> job[i].docs]
           /\ job[i].status # "success" => Claims[i] = [said |-> FALSE, docs |-> 0]
  BY DEF Claims

\* A step that leaves every other claim alone rewrites the claim of row j.
LEMMA ClaimNext ==
    ASSUME NEW j \in Jobs, NEW c, Claims'[j] = c,
           \A k \in Jobs : k # j => job'[k] = job[k]
    PROVE  Claims' = [Claims EXCEPT ![j] = c]
<1>1. \A k \in Jobs : k # j => Claims'[k] = Claims[k]
  BY DEF Claims, Jobs
<1>2. Claims = [k \in Jobs |-> Claims[k]] /\ Claims' = [k \in Jobs |-> Claims'[k]]
  BY DEF Claims, Jobs
<1>3. QED
  BY <1>1, <1>2

\* A step of the pipeline is a step of SyncRuns, or leaves its variables alone.
LEMMA PromiseNext ==
    ASSUME TypeOK, RunInv, \A i \in Jobs : RowTrue(i), RowStep
    PROVE  [Promise!RNext]_(Promise!rvars)
<1>1. CASE UNCHANGED <<job, corpus>>
  BY <1>1 DEF Promise!rvars, Claims
<1>2. CASE \E b \in Tasks \cup {Api} : CreateRow(b) /\ UNCHANGED corpus
  <2>1. nJobs + 1 \in Jobs /\ nJobs + 1 > nJobs
    BY <1>2, SyncAssumption DEF CreateRow, TypeOK, Jobs, SyncAssumption
  <2>2. /\ job'[nJobs + 1].status = "pending"
        /\ \A k \in Jobs : k # nJobs + 1 => job'[k] = job[k]
    BY <1>2, <2>1 DEF CreateRow, TypeOK
  <2>3. Claims' = [Claims EXCEPT ![nJobs + 1] = Promise!NoClaim]
    BY <2>1, <2>2, ClaimNext DEF Claims, Promise!NoClaim
  <2>4. Promise!Withdraw(nJobs + 1)
    BY <1>2, <2>3 DEF Promise!Withdraw
  <2>5. QED
    BY <2>1, <2>4 DEF Promise!RNext
<1>3. ASSUME NEW j \in Jobs, NEW s \in {"cancelled", "running", "failed"},
             UpdateStatus(j, s), UNCHANGED corpus
      PROVE  Promise!RNext
  <2>1. /\ job'[j].status = s
        /\ \A k \in Jobs : k # j => job'[k] = job[k]
    BY <1>3, StatusRow
  <2>2. Claims' = [Claims EXCEPT ![j] = Promise!NoClaim]
    BY <2>1, ClaimNext DEF Claims, Promise!NoClaim
  <2>3. QED
    BY <1>3, <2>2 DEF Promise!RNext, Promise!Withdraw
<1>4. ASSUME NEW t \in Tasks, NEW n \in Nat, pc[t] \in {"db_success", "mark_success"},
             n = IF pc[t] = "db_success" THEN 0 ELSE docs[t],
             MarkSuccess(cur[t], n), UNCHANGED corpus
      PROVE  Promise!RNext
  <2>1. /\ cur[t] \in Jobs
        /\ corpus[cur[t]] = [docs |-> n, indexed |-> n]
    BY <1>4, OwnRow DEF RunInv, StageMeansCommit, BeforeCommit
  <2>2. /\ job'[cur[t]].status = "success" /\ job'[cur[t]].docs = n
        /\ \A k \in Jobs : k # cur[t] => job'[k] = job[k]
    BY <1>4, <2>1, SuccessRow
  <2>3. Claims' = [Claims EXCEPT ![cur[t]] = [said |-> TRUE, docs |-> n]]
    BY <2>1, <2>2, ClaimNext DEF Claims
  <2>4. Promise!Claim(cur[t])
    BY <1>4, <2>1, <2>3 DEF Promise!Claim
  <2>5. QED
    BY <2>1, <2>4 DEF Promise!RNext
<1>5. ASSUME NEW t \in Tasks, NEW b \in BOOLEAN, CommitDocs(t, b), UNCHANGED rowVars,
             pc[t] \in {"commit_partial", "commit_bare", "embed"}
      PROVE  Promise!RNext
  <2>1. /\ cur[t] \in Jobs /\ job[cur[t]].status # "success"
        /\ corpus[cur[t]] = Promise!Nothing
    BY <1>5, OwnRow DEF RunInv, StageMeansCommit, BeforeCommit, Promise!Nothing
  <2>2. docs[t] \in 0..MaxDocs
    BY SyncAssumption DEF RunInv, BatchBounded, TypeOK, SyncAssumption
  <2>3. ~Claims[cur[t]].said /\ UNCHANGED Claims
    BY <1>5, <2>1, ClaimOf DEF rowVars, Claims
  <2>4. CASE b
    <3>1. Promise!Publish(cur[t], [docs |-> docs[t], indexed |-> docs[t]])
      BY <1>5, <2>1, <2>3, <2>4 DEF CommitDocs, Promise!Publish
    <3>2. QED
      BY <2>1, <2>2, <3>1 DEF Promise!RNext, Promise!PublishWhole
  <2>5. CASE ~b
    <3>1. Promise!Publish(cur[t], [docs |-> docs[t], indexed |-> 0])
      BY <1>5, <2>1, <2>3, <2>5 DEF CommitDocs, Promise!Publish
    <3>2. QED
      BY <2>1, <2>2, <3>1 DEF Promise!RNext, Promise!PublishBare
  <2>6. QED
    BY <2>4, <2>5
<1>6. \A j \in 1..nJobs : j \in Jobs
  BY SyncAssumption DEF TypeOK, Jobs, SyncAssumption
<1>7. \A t \in Tasks : /\ pc[t] \notin {"idle", "create"} => cur[t] \in Jobs
                       /\ docs[t] \in Nat
  BY OwnRow DEF TypeOK
<1>8. QED
  BY <1>1, <1>2, <1>3, <1>4, <1>5, <1>6, <1>7 DEF RowStep, RowEffect

\* The pipeline implements SyncRuns: whatever is interleaved, a run publishes
\* its documents whole or bare and once, and only a whole commit is claimed.
THEOREM PromiseKept == Spec => KeepsPromise
<1>1. Init => Promise!RInit
  BY DEF Init, Promise!RInit, Promise!Nothing, Promise!NoClaim, Claims
<1>2. /\ TypeOK /\ RunInv /\ (\A i \in Jobs : RowTrue(i)) /\ [Next]_vars
      => [Promise!RNext]_(Promise!rvars)
  BY RowSteps, PromiseNext
<1>3. QED
  BY <1>1, <1>2, TypeCorrect, RunInvariant, RowsTrue, PTL
     DEF Spec, KeepsPromise, Promise!RSpec

-----------------------------------------------------------------------------
(* The promise of cancel_sync_job. *)

\* One task of the source at a time is queued or running.
OneAtATime == \A s, t \in Tasks : InFlight(s) /\ InFlight(t) => s = t

\* The stages of a run that counts as done.
Settled == {"mark_success", "flip", "db_success", "enqueue_study"}

\* A run that was asked to stop in time still finds the flag, or is past its
\* last check without a success.
HonouredInv ==
    /\ early \subseteq Tasks
    /\ \A t \in early :
          /\ task[t].at # "unsent" /\ pc[t] \notin Settled
          /\ InFlight(t) /\ pc[t] \notin {"ack", "fail_stop"} => flag = TRUE

\* What a step of a run does to its stage and to the flag: it settles only
\* where it read no flag, and clears the flag only on its way out.
Passes(u) ==
    /\ task' = task /\ pc[u] \notin {"idle", "ack"}
    /\ \E s \in Stages :
          /\ pc' = [pc EXCEPT ![u] = s]
          /\ s \in Settled => flag = FALSE \/ pc[u] \in Settled
          /\ pc[u] = "fail_stop" => s = "ack"
          /\ flag' = flag \/ s = "ack"

LEMMA StepPasses ==
    ASSUME TypeOK, NEW u \in Tasks, NEW s \in Stages, Goto(u, s), UNCHANGED <<task, flag>>,
           pc[u] \notin {"idle", "ack", "fail_stop"}, s \in Settled => flag = FALSE \/ pc[u] \in Settled
    PROVE  Passes(u)
  BY DEF Passes, Goto

\* A Redis that answers, or raises, reads the flag as it is.
LEMMA ReadsTrue ==
    ASSUME RedisMode # "lenient", NEW v, ReadsFlag(v)
    PROVE  v = flag
  BY DEF ReadsFlag

LEMMA RunPasses ==
    ASSUME TypeOK, RedisMode # "lenient", NEW u \in Tasks, RunStep(u) \/ SoftLimit(u), ~Finish(u)
    PROVE  Passes(u)
<1> USE DEF Stages, Settled
<1>1. CASE CreateJob(u)
  BY <1>1, StepPasses DEF CreateJob
<1>2. CASE BailCheck(u)
  <2>1. UNCHANGED <<task, flag>> /\ pc[u] \in BailStages
    BY <1>2 DEF BailCheck
  <2>2. CASE Goto(u, "cancel_read")
    BY <2>1, <2>2, StepPasses DEF BailStages
  <2>3. CASE ReadsFlag(FALSE) /\ \E s \in Stages : <<pc[u], s>> \in AfterCheck /\ Goto(u, s)
    <3>1. flag = FALSE
      BY <2>3, ReadsTrue
    <3> QED
      BY <2>1, <2>3, <3>1, StepPasses DEF BailStages
  <2> QED
    BY <1>2, <2>2, <2>3 DEF BailCheck
<1>3. CASE BailCheckRaises(u)
  BY <1>3, StepPasses DEF BailCheckRaises, BailStages
<1>4. CASE MarkRunning(u)
  BY <1>4, StepPasses DEF MarkRunning
<1>5. CASE LoadSource(u)
  BY <1>5, StepPasses DEF LoadSource
<1>6. CASE DbSuccess(u)
  BY <1>6, StepPasses DEF DbSuccess
<1>7. CASE EnqueueStudy(u)
  BY <1>7, StepPasses DEF EnqueueStudy
<1>8. CASE Fetch(u)
  BY <1>8, StepPasses DEF Fetch
<1>9. CASE ResolveEmbedder(u)
  BY <1>9, StepPasses DEF ResolveEmbedder
<1>10. CASE LoopDocument(u)
  <2>1. pc' = [pc EXCEPT ![u] = "loop"] /\ pc[u] = "loop" /\ UNCHANGED <<task, flag>>
    BY <1>10 DEF LoopDocument, TypeOK
  <2> QED
    BY <2>1, StepPasses DEF Goto
<1>11. CASE LoopCancelled(u)
  BY <1>11, StepPasses DEF LoopCancelled
<1>12. CASE LoopDone(u)
  BY <1>12, StepPasses DEF LoopDone
<1>13. CASE PreEmbedCheck(u)
  BY <1>13, StepPasses DEF PreEmbedCheck
<1>14. CASE ProcessingRaises(u)
  <2>1. pc[u] \in {"loop", "embed", "commit_partial", "pre_embed"}
    BY <1>14 DEF ProcessingRaises
  <2> QED
    BY <1>14, <2>1, StepPasses DEF ProcessingRaises
<1>15. CASE CommitPartial(u)
  BY <1>15, StepPasses DEF CommitPartial
<1>16. CASE CommitBare(u)
  BY <1>16, StepPasses DEF CommitBare
<1>17. CASE EmbedAndCommit(u)
  BY <1>17, StepPasses DEF EmbedAndCommit
<1>18. CASE FinishSuccess(u)
  BY <1>18, StepPasses DEF FinishSuccess
<1>19. CASE FlipReady(u)
  BY <1>19, StepPasses DEF FlipReady
<1>20. CASE FinishFailed(u)
  <2>1. CASE pc[u] = "fail_stop"
    BY <1>20, <2>1 DEF FinishFailed, Passes, Goto
  <2>2. CASE pc[u] = "fail_retry"
    BY <1>20, <2>2, StepPasses DEF FinishFailed
  <2> QED
    BY <1>20, <2>1, <2>2 DEF FinishFailed
<1>21. CASE CancelRead(u)
  <2>1. /\ pc[u] \in {"cancel_read", "stop_read"} /\ UNCHANGED <<task, flag>>
        /\ \E s \in {"cancel_clear", "stop_clear", "cancel_write", "stop_write"} : Goto(u, s)
    BY <1>21 DEF CancelRead, Exits
  <2> QED
    BY <2>1, StepPasses
<1>22. CASE CancelWrite(u)
  <2>1. /\ pc[u] \in {"cancel_write", "stop_write"} /\ UNCHANGED <<task, flag>>
        /\ \E s \in {"cancel_clear", "stop_clear"} : Goto(u, s)
    BY <1>22 DEF CancelWrite, Exits
  <2> QED
    BY <2>1, StepPasses
<1>23. CASE CancelClear(u)
  BY <1>23 DEF CancelClear, Exits, Passes, Goto
<1>24. CASE SoftLimit(u)
  BY <1>24, StepPasses DEF SoftLimit, TryBlock
<1> QED
  BY <1>1, <1>2, <1>3, <1>4, <1>5, <1>6, <1>7, <1>8, <1>9, <1>10, <1>11, <1>12, <1>13, <1>14, <1>15,
     <1>16, <1>17, <1>18, <1>19, <1>20, <1>21, <1>22, <1>23, <1>24 DEF RunStep

\* What touches no task keeps the flag, unless it expires.
LEMMA HonouredQuiet ==
    ASSUME HonouredInv, UNCHANGED <<task, pc, early>>, flag = TRUE => flag' = TRUE
    PROVE  HonouredInv'
  BY DEF HonouredInv, InFlight

LEMMA HonouredSend ==
    ASSUME TypeOK, HonouredInv, \E t \in Unsent : Send(t), UNCHANGED <<pc, flag, early>>
    PROVE  HonouredInv'
<1>1. PICK t \in Tasks : task[t].at = "unsent" /\ task' = [task EXCEPT ![t].at = "queued"]
  BY DEF Unsent, Send
<1>2. t \notin early
  BY <1>1 DEF HonouredInv
<1>3. \A s \in Tasks : s # t => task'[s] = task[s]
  BY <1>1 DEF TypeOK
<1> QED
  BY <1>2, <1>3 DEF HonouredInv, InFlight

\* Every step but a lost worker keeps it, while one task is in flight.
LEMMA HonouredNext ==
    ASSUME RedisMode # "lenient", FlagTTL = FALSE,
           TypeOK, RunInv, OneAtATime, HonouredInv, Next, UNCHANGED early,
           ~(CancelSetFlag /\ flag' = TRUE), \A t \in Tasks : ~Crash(t)
    PROVE  HonouredInv'
<1> USE DEF rowVars, runVars, sourceVars, apiVars, requestVars
<1>1. \A t \in Tasks : pc[t] # "idle" <=> task[t].at = "running"
  BY DEF RunInv, StageMeansRunning
<1>2. CASE TriggerCreate \/ ComesDue \/ TickSelect \/ TickCommit \/ TickCrash \/ CancelAccept
           \/ CancelList \/ CancelRowRead \/ CancelRowWrite \/ CancelDone
  BY <1>2, HonouredQuiet DEF TriggerCreate, ComesDue, TickSelect, TickCommit, TickCrash, CancelAccept,
     CancelList, CancelRowRead, CancelRowWrite, CancelDone
<1>3. CASE CancelSetFlag
  BY <1>3, HonouredQuiet DEF CancelSetFlag, SetFlag
<1>4. CASE TriggerSend \/ FanOut \/ TickSend
  <2>1. (\E t \in Unsent : Send(t)) \/ UNCHANGED task
    BY <1>4 DEF TriggerSend, FanOut, TickSend
  <2>2. UNCHANGED <<pc, flag, early>>
    BY <1>4 DEF TriggerSend, FanOut, TickSend
  <2> QED
    BY <2>1, <2>2, HonouredSend, HonouredQuiet
<1>5. CASE FlagExpires
  BY <1>5 DEF FlagExpires
<1>6. ASSUME NEW u \in Tasks, Deliver(u) PROVE HonouredInv'
  <2>1. /\ task[u].at = "queued" /\ task'[u].at = "running" /\ pc'[u] = "create" /\ flag' = flag
        /\ \A t \in Tasks : t # u => task'[t] = task[t] /\ pc'[t] = pc[t]
    BY <1>6 DEF Deliver, Goto, TypeOK, MessageType
  <2>2. pc[u] = "idle"
    BY <1>1, <2>1
  <2>3. ASSUME NEW t \in early
        PROVE  /\ task'[t].at # "unsent" /\ pc'[t] \notin Settled
               /\ InFlight(t)' /\ pc'[t] \notin {"ack", "fail_stop"} => flag' = TRUE
    BY <2>1, <2>2 DEF HonouredInv, InFlight, Settled
  <2> QED
    BY <2>3 DEF HonouredInv
<1>7. ASSUME NEW u \in Tasks, Passes(u) PROVE HonouredInv'
  <2>1. PICK s \in Stages : /\ pc' = [pc EXCEPT ![u] = s]
                            /\ s \in Settled => flag = FALSE \/ pc[u] \in Settled
                            /\ pc[u] = "fail_stop" => s = "ack"
                            /\ flag' = flag \/ s = "ack"
    BY <1>7 DEF Passes
  <2>2. /\ task' = task /\ pc[u] \notin {"idle", "ack"} /\ InFlight(u) /\ pc'[u] = s
        /\ \A t \in Tasks : t # u => pc'[t] = pc[t] /\ ~InFlight(t)
    BY <1>1, <1>7, <2>1 DEF Passes, TypeOK, InFlight, OneAtATime
  <2>3. ASSUME NEW t \in early
        PROVE  /\ task'[t].at # "unsent" /\ pc'[t] \notin Settled
               /\ InFlight(t)' /\ pc'[t] \notin {"ack", "fail_stop"} => flag' = TRUE
    <3>1. t \in Tasks
      BY DEF HonouredInv
    <3>2. CASE t # u
      BY <2>2, <3>1, <3>2 DEF HonouredInv, InFlight
    <3>3. CASE t = u
      <4>1. s \notin Settled
        BY <2>1, <2>2, <3>3 DEF HonouredInv, Settled
      <4> QED
        BY <2>1, <2>2, <3>3, <4>1 DEF HonouredInv, InFlight
    <3> QED
      BY <3>2, <3>3
  <2> QED
    BY <2>3 DEF HonouredInv
<1>8. ASSUME NEW u \in Tasks, Finish(u) PROVE HonouredInv'
  <2>1. /\ pc[u] \in {"ack", "retry"} /\ pc'[u] = "idle" /\ flag' = flag
        /\ task'[u].at = "done" \/ (pc[u] = "retry" /\ task'[u].at = "queued")
        /\ \A t \in Tasks : t # u => task'[t] = task[t] /\ pc'[t] = pc[t]
    BY <1>8 DEF Finish, EndRun, Acked, Retried, TypeOK, MessageType
  <2>2. InFlight(u)
    BY <1>1, <2>1 DEF InFlight
  <2>3. ASSUME NEW t \in early
        PROVE  /\ task'[t].at # "unsent" /\ pc'[t] \notin Settled
               /\ InFlight(t)' /\ pc'[t] \notin {"ack", "fail_stop"} => flag' = TRUE
    BY <2>1, <2>2 DEF HonouredInv, InFlight, Settled
  <2> QED
    BY <2>3 DEF HonouredInv
<1> QED
  BY <1>2, <1>3, <1>4, <1>5, <1>6, <1>7, <1>8, RunPasses DEF Next, CancelStep

\* cancel_sync_job promises that an in-flight sync exits at its next safe
\* checkpoint.  It does, whatever else is interleaved, where the flag is read
\* as it is and does not expire, as long as the source has one task in
\* flight and no worker is lost; each of the four is needed.
THEOREM CancelsHonoured ==
    ASSUME RedisMode # "lenient", FlagTTL = FALSE
    PROVE  SSpec /\ []OneAtATime /\ [][\A t \in Tasks : ~Crash(t)]_vars => []CancelHonoured
<1>1. SInit => HonouredInv
  BY DEF SInit, HonouredInv
<1>2. /\ TypeOK /\ RunInv /\ OneAtATime /\ HonouredInv
      /\ [SNext]_<<vars, scopeVars>> /\ [\A t \in Tasks : ~Crash(t)]_vars
      => HonouredInv'
  <2> SUFFICES ASSUME TypeOK, RunInv, OneAtATime, HonouredInv, [SNext]_<<vars, scopeVars>>,
                      [\A t \in Tasks : ~Crash(t)]_vars
               PROVE  HonouredInv'
    OBVIOUS
  <2>1. CASE Aim
    <3>1. /\ flag' = TRUE /\ UNCHANGED <<task, pc>>
          /\ early' = (early \cap aimed') \cup {t \in Tasks : CheckpointAhead(t)}
      BY <2>1 DEF Aim, CancelSetFlag, runVars
    <3>2. ASSUME NEW t \in Tasks, CheckpointAhead(t) PROVE task[t].at # "unsent" /\ pc[t] \notin Settled
      BY <3>2 DEF CheckpointAhead, InFlight, PastLastCheck, Settled
    <3> QED
      BY <3>1, <3>2 DEF HonouredInv
  <2>2. CASE Next /\ ~(CancelSetFlag /\ flag' = TRUE) /\ UNCHANGED scopeVars
    <3>1. CASE UNCHANGED vars
      BY <2>2, <3>1, HonouredQuiet DEF vars, scopeVars
    <3>2. CASE \A t \in Tasks : ~Crash(t)
      BY <2>2, <3>2, HonouredNext DEF scopeVars
    <3> QED
      BY <3>1, <3>2
  <2>3. CASE UNCHANGED <<vars, scopeVars>>
    BY <2>3, HonouredQuiet DEF vars, scopeVars
  <2> QED
    BY <2>1, <2>2, <2>3 DEF SNext
<1>3. HonouredInv => CancelHonoured
  BY DEF HonouredInv, CancelHonoured, Settled
<1>4. SInit => Init
  BY DEF SInit
<1>5. [SNext]_<<vars, scopeVars>> => [Next]_vars
  BY DEF SNext, Aim, Next, CancelStep
<1> QED
  BY <1>1, <1>2, <1>3, <1>4, <1>5, TypeCorrect, RunInvariant, PTL DEF SSpec, Spec
=============================================================================
