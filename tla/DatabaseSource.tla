--------------------------- MODULE DatabaseSource ---------------------------
(***************************************************************************)
(* One database source: its stored connection config, which the requests   *)
(* PATCH /credentials and PATCH /sources/{id} replace, the probes that     *)
(* stamp its connection health, and the studying agent tasks.study_source, *)
(* whose messages come from creation, from a rotation and from a sync.     *)
(*                                                                         *)
(* Abstractions: "host" stands for the fields a config must have (host,    *)
(* port, database), "secret" for the optional ones (username, password);   *)
(* the syncs of the source appear as the three things they do to it: they  *)
(* send a study, set the cancel flag (the endpoint) or clear it, and stamp *)
(* the health.  One action is one transaction, Redis or driver call.       *)
(***************************************************************************)
EXTENDS Naturals, FiniteSets

CONSTANTS
    Studies,            \* messages of tasks.study_source
    Requests,           \* rotations and probes an admin sends
    Hosts, Secrets,     \* values of the two kinds of fields
    Submissions,        \* what a rotation may carry
    Created,            \* <<host, secret>> the wizard stored
    None,               \* a field that is not given or not stored
    MaxStudyCancels,    \* bound: cancel requests
    MaxStudyCrashes,    \* bound: lost workers
    MaxPatches          \* bound: PATCH /sources/{id} with a config

SubmissionType == [uri : (Hosts \X Secrets) \cup {None},
                   host : Hosts \cup {None}, secret : Secrets \cup {None}]

ASSUME DatabaseAssumption ==
    /\ None \notin Hosts \cup Secrets /\ None \notin Hosts \X Secrets
    /\ Submissions \subseteq SubmissionType /\ Created \in Hosts \X Secrets
    /\ MaxStudyCancels \in Nat /\ MaxStudyCrashes \in Nat /\ MaxPatches \in Nat

VARIABLES
    config,         \* config_encrypted: the URL and the structured fields beside it
    passed,         \* the candidates the live probe of a rotation has accepted
    connection,     \* connection_status: "unknown", or stamped with an outcome
    gone,           \* deleted_at is set
    request,        \* per request: its stage, what it carries, what it read or built
    study,          \* per message: its stage, its SchemaStudy row, the URL it studied
    schemaStatus,   \* schema_status
    ready,          \* status is READY
    stop,           \* the cancel flag of the source
    studyCancels, studyCrashes, patches

counters == <<studyCancels, studyCrashes, patches>>
studyFacts == <<study, schemaStatus, ready, stop>>
configFacts == <<config, passed, connection, gone, request>>
dbVars == <<configFacts, studyFacts, counters>>

Url(c) == <<c.host, c.secret>>
NoSubmission == [uri |-> None, host |-> None, secret |-> None]

Answered == [pc |-> "done", sub |-> NoSubmission, cand |-> None]

UnsentStudies == {m \in Studies : study[m].pc = "unsent"}
InFlightRows == {m \in Studies : study[m].row = "QUEUED"}

\* create_source_v2: _build_database_config stores the URL and no structured
\* field; creation sends the first study (or loses it to the broker).
DbInit ==
    /\ config = [host |-> Created[1], secret |-> Created[2],
                 fHost |-> None, fSecret |-> None]
    /\ passed = {} /\ connection = "unknown" /\ gone = FALSE
    /\ request = [r \in Requests |-> [Answered EXCEPT !.pc = "idle"]]
    /\ study = [m \in Studies |-> [pc |-> "unsent", row |-> "none",
                                   of |-> Created, wanted |-> Created]]
    /\ schemaStatus = "none" /\ ready = FALSE /\ stop = FALSE
    /\ studyCancels = 0 /\ studyCrashes = 0 /\ patches = 0

-----------------------------------------------------------------------------
(* Rotation: update_source_credentials, update_database_credentials. *)

\* host, port, username or password given: the URL is built anew, from the
\* structured fields for whatever is not given.
Rebuilds(sub) == sub.host # None \/ sub.secret # None
MergedHost(c, sub) == IF sub.host # None THEN sub.host ELSE c.fHost
MergedSecret(c, sub) == IF sub.secret # None THEN sub.secret ELSE c.fSecret

\* The merged payload fails DatabaseConnectionConfig: 422.
Invalid(c, sub) == Rebuilds(sub) /\ MergedHost(c, sub) = None

Candidate(c, sub) ==
    IF Rebuilds(sub)
    THEN [host |-> MergedHost(c, sub), secret |-> MergedSecret(c, sub),
          fHost |-> MergedHost(c, sub), fSecret |-> MergedSecret(c, sub)]
    ELSE IF sub.uri # None
    THEN [c EXCEPT !.host = sub.uri[1], !.secret = sub.uri[2]]
    ELSE c

\* The stored config is read, overlaid and validated.
RotateRead(r) ==
    /\ request[r].pc = "idle" /\ ~gone
    /\ \E sub \in Submissions :
          request' = [request EXCEPT ![r] =
              IF Invalid(config, sub)
              THEN Answered
              ELSE [pc |-> "probing", sub |-> sub, cand |-> Candidate(config, sub)]]
    /\ UNCHANGED <<config, passed, connection, gone, studyFacts, counters>>

\* The live probe of the candidate; a failure leaves the source alone.
RotateProbe(r) ==
    /\ request[r].pc = "probing"
    /\ \/ /\ request' = [request EXCEPT ![r].pc = "storing"]
          /\ passed' = passed \cup {request[r].cand}
       \/ request' = [request EXCEPT ![r] = Answered] /\ UNCHANGED passed
    /\ UNCHANGED <<config, connection, gone, studyFacts, counters>>

\* Mutant of RotateStore: the fields given are overlaid at the write.
RotateStoreMerges(r) ==
    /\ request[r].pc = "storing"
    /\ config' = Candidate(config, request[r].sub)
    /\ connection' = "unknown"
    /\ request' = [request EXCEPT ![r].pc = "sending"]
    /\ UNCHANGED <<passed, gone, studyFacts, counters>>

\* The candidate replaces the config, the health is reset, one commit.
RotateStore(r) ==
    /\ request[r].pc = "storing"
    /\ config' = request[r].cand
    /\ connection' = "unknown"
    /\ request' = [request EXCEPT ![r].pc = "sending"]
    /\ UNCHANGED <<passed, gone, studyFacts, counters>>

SendStudy(m) ==
    /\ study[m].pc = "unsent"
    /\ study' = [study EXCEPT ![m].pc = "queued", ![m].wanted = Url(config)]
    /\ UNCHANGED <<schemaStatus, ready, stop>>

\* The re-study; an outage of the broker is swallowed.
RotateSend(r) ==
    /\ request[r].pc = "sending"
    /\ request' = [request EXCEPT ![r] = Answered]
    /\ (\E m \in Studies : SendStudy(m)) \/ UNCHANGED studyFacts
    /\ UNCHANGED <<config, passed, connection, gone, counters>>

-----------------------------------------------------------------------------
(* The other requests. *)

\* POST /test-connection: the stored config is read ...
ProbeRead(r) ==
    /\ request[r].pc = "idle" /\ ~gone
    /\ request' = [request EXCEPT ![r] =
                      [pc |-> "testing", sub |-> NoSubmission, cand |-> config]]
    /\ UNCHANGED <<config, passed, connection, gone, studyFacts, counters>>

\* ... and the answer of the database is stamped, whatever is stored by now.
ProbeWrite(r) ==
    /\ request[r].pc = "testing"
    /\ connection' = "stamped"
    /\ request' = [request EXCEPT ![r] = Answered]
    /\ UNCHANGED <<config, passed, gone, studyFacts, counters>>

TestConnection(r) == ProbeRead(r) \/ ProbeWrite(r)

\* PATCH /sources/{id} with a config: a full replacement, untested.
PatchConfig ==
    /\ ~gone /\ patches < MaxPatches
    /\ patches' = patches + 1
    /\ \E h \in Hosts, s \in Secrets :
          config' = [host |-> h, secret |-> s, fHost |-> None, fSecret |-> None]
    /\ UNCHANGED <<passed, connection, gone, request, studyFacts,
                   studyCancels, studyCrashes>>

DeleteDatabase ==
    /\ ~gone /\ gone' = TRUE
    /\ UNCHANGED <<config, passed, connection, request, studyFacts, counters>>

\* Creation and the syncs send a study too.
SendByOthers(m) == ~gone /\ SendStudy(m) /\ UNCHANGED <<configFacts, counters>>

\* mark_success and mark_failed of a sync stamp the health.
SyncStampsHealth ==
    /\ connection' = "stamped"
    /\ UNCHANGED <<config, passed, gone, request, studyFacts, counters>>

\* The cancel endpoint sets the flag of the source; a sync that honours it
\* clears it.
StopRequested ==
    /\ studyCancels < MaxStudyCancels
    /\ studyCancels' = studyCancels + 1 /\ stop' = TRUE
    /\ UNCHANGED <<configFacts, study, schemaStatus, ready,
                   studyCrashes, patches>>

SyncClearsStop ==
    /\ stop /\ stop' = FALSE
    /\ UNCHANGED <<configFacts, study, schemaStatus, ready, counters>>

-----------------------------------------------------------------------------
(* tasks.study_source. *)

StudyGoes(m, s) == study' = [study EXCEPT ![m].pc = s]

\* Source.schema_status, in the transaction of the row it goes with.
StampStudy(status) == schemaStatus' = status

\* The writes of SchemaStudyRepository; the task goes on at s.
CreateStudy(m, s) == study' = [study EXCEPT ![m].pc = s, ![m].row = "QUEUED"]
MarkStudyFailed(m, s) == study' = [study EXCEPT ![m].pc = s, ![m].row = "FAILED"]
MarkCompleted(m, s) == study' = [study EXCEPT ![m].pc = s, ![m].row = "READY"]

\* The source is read first; without it the message is done with.
StudyLoad(m) ==
    /\ study[m].pc = "queued"
    /\ IF gone
       THEN StudyGoes(m, "done")
       ELSE study' = [study EXCEPT ![m].pc = "gate", ![m].of = Url(config)]
    /\ UNCHANGED <<configFacts, schemaStatus, ready, stop, counters>>

\* Mutant of StudyGate: is_running is not asked.
StudyGateOpen(m) ==
    /\ study[m].pc = "gate"
    /\ CreateStudy(m, "check_connect")
    /\ StampStudy("studying")
    /\ UNCHANGED <<configFacts, ready, stop, counters>>

\* Under the advisory lock of the source: a study in flight skips this one;
\* otherwise the row and the 'studying' stamp, one commit.
StudyGate(m) ==
    /\ study[m].pc = "gate"
    /\ IF InFlightRows # {}
       THEN StudyGoes(m, "done") /\ UNCHANGED schemaStatus
       ELSE /\ CreateStudy(m, "check_connect")
            /\ StampStudy("studying")
    /\ UNCHANGED <<configFacts, ready, stop, counters>>

\* The two checkpoints, before the connection and with the document in hand.
StudyCheck(m) ==
    /\ \/ study[m].pc = "check_connect"
          /\ StudyGoes(m, IF stop THEN "cancelled" ELSE "produce")
       \/ study[m].pc = "check_describing"
          /\ StudyGoes(m, IF stop THEN "cancelled" ELSE "persist")
    /\ UNCHANGED <<configFacts, schemaStatus, ready, stop, counters>>

\* The connector answers with a document or raises.
StudyProduce(m) ==
    /\ study[m].pc = "produce"
    /\ \E s \in {"check_describing", "failed"} : StudyGoes(m, s)
    /\ UNCHANGED <<configFacts, schemaStatus, ready, stop, counters>>

\* Mutant of StudyFails: the row is marked, the source is not.
StudyFailsRowOnly(m) ==
    /\ study[m].pc = "failed"
    /\ MarkStudyFailed(m, "done")
    /\ UNCHANGED <<configFacts, schemaStatus, ready, stop, counters>>

\* A phase failed: row and source in one commit, no retry.
StudyFails(m) ==
    /\ study[m].pc = "failed"
    /\ MarkStudyFailed(m, "done")
    /\ StampStudy("failed")
    /\ UNCHANGED <<configFacts, ready, stop, counters>>

\* Mutant of StudyCancelled: the source is marked, the row is not.
StudyCancelledSourceOnly(m) ==
    /\ study[m].pc = "cancelled"
    /\ StudyGoes(m, "clear")
    /\ StampStudy("failed")
    /\ UNCHANGED <<configFacts, ready, stop, counters>>

\* _study_cancelled_response: the same marks ...
StudyCancelled(m) ==
    /\ study[m].pc = "cancelled"
    /\ MarkStudyFailed(m, "clear")
    /\ StampStudy("failed")
    /\ UNCHANGED <<configFacts, ready, stop, counters>>

\* ... and then the flag.
StudyClears(m) ==
    /\ study[m].pc = "clear"
    /\ StudyGoes(m, "done") /\ stop' = FALSE
    /\ UNCHANGED <<configFacts, schemaStatus, ready, counters>>

\* The document, 'completed' and Source.status READY: one commit.
StudyPersist(m) ==
    /\ study[m].pc = "persist"
    /\ MarkCompleted(m, "propose")
    /\ StampStudy("completed") /\ ready' = TRUE
    /\ UNCHANGED <<configFacts, stop, counters>>

\* propose_intent is sent, best effort (module SourceText has its run).
StudyProposes(m) ==
    /\ study[m].pc = "propose"
    /\ StudyGoes(m, "done")
    /\ UNCHANGED <<configFacts, schemaStatus, ready, stop, counters>>

\* The worker is lost: the message is delivered again, its row stays.
StudyCrash(m) ==
    /\ studyCrashes < MaxStudyCrashes
    /\ study[m].pc \notin {"unsent", "queued", "lost", "done"}
    /\ studyCrashes' = studyCrashes + 1
    /\ StudyGoes(m, IF study[m].row = "none" THEN "queued" ELSE "lost")
    /\ UNCHANGED <<configFacts, schemaStatus, ready, stop,
                   studyCancels, patches>>

\* The redelivery of a message that has a row: skipped while its own row is
\* in flight, a study of its own (message n) when the row is terminal.
StudyRedelivered(m) ==
    /\ study[m].pc = "lost"
    /\ \/ /\ study[m].row = "QUEUED" \/ UnsentStudies = {}
          /\ StudyGoes(m, "done")
       \/ /\ study[m].row # "QUEUED"
          /\ \E n \in UnsentStudies :
                study' = [study EXCEPT ![m].pc = "done", ![n].pc = "queued",
                                       ![n].wanted = study[m].wanted]
    /\ UNCHANGED <<configFacts, schemaStatus, ready, stop, counters>>

-----------------------------------------------------------------------------
StudyStep(m) ==
    \/ StudyLoad(m) \/ StudyGate(m) \/ StudyCheck(m) \/ StudyProduce(m)
    \/ StudyFails(m) \/ StudyCancelled(m) \/ StudyClears(m) \/ StudyPersist(m)
    \/ StudyProposes(m) \/ StudyRedelivered(m)

DbNext ==
    \/ \E r \in Requests : \/ RotateRead(r) \/ RotateProbe(r) \/ RotateStore(r)
                           \/ RotateSend(r) \/ TestConnection(r)
    \/ PatchConfig \/ DeleteDatabase \/ SyncStampsHealth
    \/ StopRequested \/ SyncClearsStop
    \/ \E m \in Studies : SendByOthers(m) \/ StudyStep(m) \/ StudyCrash(m)

DbSpec == DbInit /\ [][DbNext]_dbVars

\* A worker takes every message, and every call of a study has a timeout.
DbFairSpec == DbSpec /\ \A m \in Studies : WF_dbVars(StudyStep(m))

-----------------------------------------------------------------------------
(* Properties. *)

\* Two workers that land together run one study: the gate and the row are
\* serialised by the advisory lock.
OneStudy == Cardinality(InFlightRows) <= 1

\* What the sources list shows is what the rows say, also across a crash:
\* 'studying' while a row is in flight, 'completed' only with a document, and
\* a source is READY only once it has one.
StatusMatchesRows ==
    /\ schemaStatus = "studying" <=> InFlightRows # {}
    /\ schemaStatus = "completed" \/ ready => \E m \in Studies : study[m].row = "READY"

\* A rotation stores nothing that did not pass the probe as a whole, however
\* other rotations and PATCHes interleave with its probe.
RotationTested ==
    [][\A r \in Requests : request[r].pc = "storing" /\ request'[r].pc = "sending"
           => config' \in passed]_dbVars

\* Every study whose worker lives ends: its row is terminal and so is the
\* message.
StudiesSettle ==
    \A m \in Studies : study[m].row = "QUEUED"
        ~> study[m].row # "QUEUED" \/ studyCrashes > 0

\* study_source.py: a rotation sends a study so that the schema viewer
\* reflects the new connection: a message that is skipped is covered by a
\* study of the credentials it was sent for.  (The code violates it: the
\* study in flight has read the old ones.)
SkipLosesNothing ==
    \A m \in Studies : study[m].pc = "done" /\ study[m].row = "none" /\ ~gone =>
        \E n \in Studies : study[n].row # "none" /\ study[n].of = study[m].wanted

\* SourceCredentialsUpdateRequest: admins can rotate the secret alone, the
\* rest is the existing config's.  (The code violates it: a URI does not
\* refresh the structured fields, from which the next URL is built.)
PartialKeepsHost ==
    [][\A r \in Requests :
           /\ request[r].pc = "idle" /\ request'[r].pc = "probing"
           /\ request'[r].sub.uri = None /\ request'[r].sub.host = None
           => request'[r].cand.host = config.host]_dbVars
=============================================================================
