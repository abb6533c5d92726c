----------------------------- MODULE SourceText ------------------------------
(***************************************************************************)
(* The text of one source: its name, description and intent, written by    *)
(* admins (PATCH /sources/{id}, PUT /sources/{id}/intent) and by the tasks *)
(* auto_name_source and propose_intent, which wait for a model between     *)
(* their read and their write.                                             *)
(*                                                                         *)
(* Abstractions: a text is known by who wrote it; the session that names   *)
(* the source holds the row lock (FOR UPDATE) until it ends, and every     *)
(* other write of the row waits for it.  The rescue behind a naming        *)
(* (_maybe_enqueue_initial_sync) is a step without effect: the sync whose  *)
(* success sent the message left the SyncJob row that stops it.            *)
(***************************************************************************)
EXTENDS Naturals, FiniteSets

CONSTANTS
    Msgs,            \* task messages
    MaxTextRetries,  \* max_retries of both tasks
    MaxTextCrashes,  \* bound on lost workers
    Free             \* nobody holds the row lock

ASSUME TextAssumption ==
    Free \notin Msgs /\ MaxTextRetries \in Nat /\ MaxTextCrashes \in Nat

VARIABLES
    name, nameStatus,       \* Source.name, Source.name_status
    descr, descrStatus,     \* Source.description, Source.description_status
    purpose, questions,     \* the admin's and the AI-writable intent fields
    intentStatus,           \* Source.intent_status
    deleted,                \* Source.deleted_at is set
    studying,               \* a schema study is queued or running
    documented,             \* a completed study left its document
    audited,                \* descriptions in source_description_history
    rowLock,                \* the naming task that holds the row, or Free
    msg,                    \* the messages
    textCrashes

nameVars == <<name, nameStatus, descr, descrStatus, audited>>
intentVars == <<purpose, questions, intentStatus>>
studyVars == <<studying, documented>>
textVars == <<nameVars, intentVars, deleted, studyVars, rowLock, msg, textCrashes>>

NoMsg == [pc |-> "unsent", kind |-> "name", tries |-> 0, prior |-> "none"]

\* create_source_v2: with auto_name_and_description the model gets the say
\* even over a name the wizard carries, and the description starts empty.
TextInit ==
    /\ \/ /\ nameStatus = "pending_ai" /\ name \in {"none", "wizard"}
          /\ descrStatus = "pending_ai" /\ descr = "none"
       \/ /\ nameStatus = "user_set" /\ name = "wizard"
          /\ descrStatus = "user_set" /\ descr \in {"none", "wizard"}
    /\ purpose = "none" /\ questions = "none" /\ intentStatus = "pending_ai"
    /\ deleted = FALSE /\ studying = FALSE /\ documented = FALSE
    /\ audited = {} /\ rowLock = Free
    /\ msg = [m \in Msgs |-> NoMsg] /\ textCrashes = 0

-----------------------------------------------------------------------------
(* Admins. *)

\* PATCH: a name, a description, or both; either one marks its own status.
PatchText ==
    /\ ~deleted /\ rowLock = Free
    /\ \E fields \in SUBSET {"name", "description"} \ {{}} :
          /\ name' = IF "name" \in fields THEN "admin" ELSE name
          /\ nameStatus' = IF "name" \in fields THEN "user_set" ELSE nameStatus
          /\ descr' = IF "description" \in fields THEN "admin" ELSE descr
          /\ descrStatus' = IF "description" \in fields THEN "user_set" ELSE descrStatus
    /\ UNCHANGED <<audited, intentVars, deleted, studyVars, rowLock, msg, textCrashes>>

\* PUT: the fields given, and the bundle is the user's from then on.
PutIntent ==
    /\ ~deleted /\ rowLock = Free
    /\ purpose' \in {purpose, "admin"}
    /\ questions' \in {questions, "admin"}
    /\ intentStatus' = "user_set"
    /\ UNCHANGED <<nameVars, deleted, studyVars, rowLock, msg, textCrashes>>

SoftDelete ==
    /\ ~deleted /\ rowLock = Free
    /\ deleted' = TRUE
    /\ UNCHANGED <<nameVars, intentVars, studyVars, rowLock, msg, textCrashes>>

-----------------------------------------------------------------------------
(* Messages. *)

Sends(m, kind) ==
    /\ msg[m].pc = "unsent"
    /\ msg' = [msg EXCEPT ![m].pc = "queued", ![m].kind = kind]
    /\ UNCHANGED <<nameVars, intentVars, deleted, rowLock, textCrashes>>

\* The hook of mark_success: a sync ended and the name is still open.
SendNaming(m) ==
    /\ nameStatus = "pending_ai"
    /\ Sends(m, "name")
    /\ UNCHANGED studyVars

\* POST /intent/propose, refused while a study is in flight.
SendProposal(m) ==
    /\ ~deleted /\ ~studying
    /\ Sends(m, "intent")
    /\ UNCHANGED studyVars

StudyStarts ==
    /\ ~studying /\ studying' = TRUE
    /\ UNCHANGED <<nameVars, intentVars, deleted, documented, rowLock, msg, textCrashes>>

\* A study that completes sends a proposal; one that fails does not.
StudyCompletes(m) ==
    /\ studying /\ studying' = FALSE /\ documented' = TRUE
    /\ Sends(m, "intent")

StudyGivesUp ==
    /\ studying /\ studying' = FALSE
    /\ UNCHANGED <<nameVars, intentVars, deleted, documented, rowLock, msg, textCrashes>>

\* Message m goes on; the row is left alone.
Moves(m, pc) ==
    /\ msg' = [msg EXCEPT ![m].pc = pc]
    /\ UNCHANGED <<nameVars, intentVars, deleted, studyVars, textCrashes>>

-----------------------------------------------------------------------------
(* auto_name_source. *)

\* Mutant of LoadPending: the row is read without a lock.
LoadPendingUnlocked(m) ==
    /\ msg[m].pc = "queued" /\ msg[m].kind = "name"
    /\ nameStatus = "pending_ai"
    /\ msg' = [msg EXCEPT ![m].pc = "asking", ![m].prior = descr]
    /\ UNCHANGED <<nameVars, intentVars, deleted, studyVars, rowLock, textCrashes>>

\* _load_pending_source: the row, locked, while its name is open.
LoadPending(m) ==
    /\ msg[m].pc = "queued" /\ msg[m].kind = "name"
    /\ nameStatus = "pending_ai" /\ rowLock = Free
    /\ rowLock' = m
    /\ msg' = [msg EXCEPT ![m].pc = "asking", ![m].prior = descr]
    /\ UNCHANGED <<nameVars, intentVars, deleted, studyVars, textCrashes>>

\* Skipped: the name is set, or some transaction has the row (SKIP LOCKED).
SkipNaming(m) ==
    /\ msg[m].pc = "queued" /\ msg[m].kind = "name"
    /\ Moves(m, "done")
    /\ UNCHANGED rowLock

\* The profile of the source and the model's answer to it: a name and a
\* description that pass.
NamingAnswers(m) ==
    /\ msg[m].pc = "asking" /\ msg[m].kind = "name"
    /\ Moves(m, "answered")
    /\ UNCHANGED rowLock

\* Name and description, the replaced description in the history, one commit.
PersistNaming(m) ==
    /\ msg[m].pc = "answered" /\ msg[m].kind = "name"
    /\ name' = "ai" /\ nameStatus' = "ai_set"
    /\ descr' = "ai" /\ descrStatus' = "ai_set"
    /\ audited' = audited \cup ({msg[m].prior} \ {"none"})
    /\ rowLock' = Free
    /\ msg' = [msg EXCEPT ![m].pc = "naming_saved"]
    /\ UNCHANGED <<intentVars, deleted, studyVars, textCrashes>>

RescueIndexing(m) ==
    /\ msg[m].pc = "naming_saved"
    /\ Moves(m, "done")
    /\ UNCHANGED rowLock

-----------------------------------------------------------------------------
(* propose_intent. *)

\* The bundle is read; nothing to do when it is the user's.  A source that is
\* gone raises.
ReadIntent(m) ==
    /\ msg[m].pc = "queued" /\ msg[m].kind = "intent" /\ ~deleted
    /\ Moves(m, IF intentStatus = "user_set" THEN "done" ELSE "read")
    /\ UNCHANGED rowLock

\* No completed study with a document that can be read: skipped.
LoadDocument(m) ==
    /\ msg[m].pc = "read"
    /\ \/ documented /\ Moves(m, "asking")
       \/ Moves(m, "done")
    /\ UNCHANGED rowLock

\* The model's draft, with what is no list of questions dropped.
ProposalAnswers(m) ==
    /\ msg[m].pc = "asking" /\ msg[m].kind = "intent"
    /\ Moves(m, "answered")
    /\ UNCHANGED rowLock

\* Mutant of ProposeIntent: the UPDATE is not conditional.
ProposeIntentAlways(m) ==
    /\ msg[m].pc = "answered" /\ msg[m].kind = "intent" /\ rowLock = Free
    /\ questions' = "ai" /\ intentStatus' = "ai_set"
    /\ msg' = [msg EXCEPT ![m].pc = "done"]
    /\ UNCHANGED <<nameVars, purpose, deleted, studyVars, rowLock, textCrashes>>

\* The conditional UPDATE: no row is hit when the user or a deletion was first.
ProposeIntent(m) ==
    /\ msg[m].pc = "answered" /\ msg[m].kind = "intent" /\ rowLock = Free
    /\ IF intentStatus # "user_set" /\ ~deleted
       THEN questions' = "ai" /\ intentStatus' = "ai_set"
       ELSE UNCHANGED <<questions, intentStatus>>
    /\ msg' = [msg EXCEPT ![m].pc = "done"]
    /\ UNCHANGED <<nameVars, purpose, deleted, studyVars, rowLock, textCrashes>>

-----------------------------------------------------------------------------
(* Failures of either task. *)

Unlock(m) == rowLock' = IF rowLock = m THEN Free ELSE rowLock

\* Mutant of Raised: the retries are not counted.
RaisedForever(m) == Moves(m, "queued")

\* autoretry_for: the message comes again until max_retries is used up.
Raised(m) ==
    /\ msg' = IF msg[m].tries < MaxTextRetries
              THEN [msg EXCEPT ![m].pc = "queued", ![m].tries = @ + 1]
              ELSE [msg EXCEPT ![m].pc = "failed"]
    /\ UNCHANGED <<nameVars, intentVars, deleted, studyVars, textCrashes>>

\* The database or the model fails, or it answers what makes no name and
\* description; the session is gone, and with it the lock.
NamingRaises(m) ==
    /\ msg[m].pc \in {"queued", "asking", "answered"} /\ msg[m].kind = "name"
    /\ Unlock(m) /\ Raised(m)

\* The same for a proposal, whose answer must have the shape of one.
ProposalRaises(m) ==
    /\ msg[m].pc \in {"queued", "read", "asking", "answered"} /\ msg[m].kind = "intent"
    /\ UNCHANGED rowLock /\ Raised(m)

\* The worker is lost: the message is delivered again.
TextCrash(m) ==
    /\ textCrashes < MaxTextCrashes
    /\ msg[m].pc \in {"read", "asking", "answered", "naming_saved"}
    /\ Unlock(m)
    /\ msg' = [msg EXCEPT ![m].pc = "queued"]
    /\ textCrashes' = textCrashes + 1
    /\ UNCHANGED <<nameVars, intentVars, deleted, studyVars>>

-----------------------------------------------------------------------------
Works(m) ==
    \/ LoadPending(m) \/ SkipNaming(m) \/ NamingAnswers(m) \/ PersistNaming(m)
    \/ RescueIndexing(m) \/ NamingRaises(m)
    \/ ReadIntent(m) \/ LoadDocument(m) \/ ProposalAnswers(m) \/ ProposeIntent(m)
    \/ ProposalRaises(m)

TextNext ==
    \/ PatchText \/ PutIntent \/ SoftDelete \/ StudyStarts \/ StudyGivesUp
    \/ \E m \in Msgs : \/ SendNaming(m) \/ SendProposal(m) \/ StudyCompletes(m)
                       \/ Works(m) \/ TextCrash(m)

TextSpec == TextInit /\ [][TextNext]_textVars

\* A worker takes every message and every call of a task has a timeout.
TextFairSpec == TextSpec /\ \A m \in Msgs : WF_textVars(Works(m))

-----------------------------------------------------------------------------
(* Properties. *)

\* Two overlapping enqueues ask the model once (auto_name_source.py, on
\* FOR UPDATE SKIP LOCKED): at most one task is between its read and its
\* commit, and it finds the row as it read it.
OneNamer ==
    \A m \in Msgs : msg[m].pc \in {"asking", "answered"} /\ msg[m].kind = "name" =>
        /\ rowLock = m /\ nameStatus = "pending_ai" /\ msg[m].prior = descr

\* A name an admin typed while a task was asking the model stays, and a
\* description an admin wrote goes only with a row in
\* source_description_history that has it.
AdminTextAccounted ==
    [][/\ name = "admin" => name' = "admin"
       /\ descr = "admin" /\ descr' = "ai" => "admin" \in audited']_textVars

\* user_set is terminal for the bundle: a proposal that was under way when
\* the admin saved writes nothing.
UserIntentKept ==
    [][intentStatus = "user_set" =>
          intentStatus' = "user_set" /\ questions' \in {questions, "admin"}]_textVars

\* Every message is done with in the end, and the row lock with it.
TextTasksEnd ==
    \A m \in Msgs : msg[m].pc # "unsent" ~> msg[m].pc \in {"done", "failed"} /\ rowLock # m

\* source_service.py: after a manual edit of the description the naming
\* worker must not clobber it.  (The code violates it: the worker looks at
\* name_status alone.)
AdminDescriptionKept == [][descr = "admin" => descr' = "admin"]_textVars
=============================================================================
