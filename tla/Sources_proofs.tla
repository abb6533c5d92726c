--------------------------- MODULE Sources_proofs ---------------------------
(***************************************************************************)
(* Proofs about a source: its config and its study (DatabaseSource), its   *)
(* name, description and intent (SourceText).  ConfigInv types the         *)
(* rotations and says that what is about to be stored has been probed;     *)
(* StudyInv says which row goes with each stage of a study, that one row   *)
(* is in flight, and what the source shows of the rows; TextInv says what  *)
(* the row lock and a name an admin typed stand for.                       *)
(***************************************************************************)
EXTENDS DatabaseSource, SourceText, FiniteSetTheorems, TLAPS

Fields == (Hosts \cup {None}) \X (Secrets \cup {None})
Configs == [host : Hosts \cup {None}, secret : Secrets \cup {None},
            fHost : Hosts \cup {None}, fSecret : Secrets \cup {None}]
RequestTypes == [pc : {"idle", "probing", "storing", "sending", "testing", "done"},
                 sub : SubmissionType, cand : Configs \cup {None}]

ConfigInv ==
    /\ config \in Configs
    /\ request \in [Requests -> RequestTypes]
    /\ \A r \in Requests :
           /\ request[r].pc \in {"probing", "storing"} => request[r].cand \in Configs
           /\ request[r].pc = "storing" => request[r].cand \in passed

InFlight == {"check_connect", "produce", "check_describing", "persist", "failed", "cancelled"}
StudyTypes == [pc : InFlight \cup {"unsent", "queued", "gate", "clear", "propose", "lost", "done"},
               row : {"none", "QUEUED", "FAILED", "READY"}, of : Fields, wanted : Fields]

StudyInv ==
    /\ study \in [Studies -> StudyTypes]
    /\ \A m \in Studies :
           /\ study[m].pc \in {"unsent", "queued", "gate"} => study[m].row = "none"
           /\ study[m].pc \in InFlight => study[m].row = "QUEUED"
    /\ \A m, n \in Studies : study[m].row = "QUEUED" /\ study[n].row = "QUEUED" => m = n
    /\ schemaStatus = "studying" <=> \E m \in Studies : study[m].row = "QUEUED"
    /\ schemaStatus = "completed" \/ ready => \E m \in Studies : study[m].row = "READY"

-----------------------------------------------------------------------------
(* The config and its requests. *)

\* The overlay of a submission that was not refused is a config.
LEMMA CandidateType ==
    ASSUME NEW c \in Configs, NEW sub \in Submissions
    PROVE  Candidate(c, sub) \in Configs
  <1>1. sub \in SubmissionType
    BY DatabaseAssumption DEF DatabaseAssumption
  <1>2. CASE Rebuilds(sub)
    BY <1>1, <1>2 DEF Candidate, MergedHost, MergedSecret, SubmissionType, Configs
  <1>3. CASE ~Rebuilds(sub) /\ sub.uri # None
    <2>1. sub.uri \in Hosts \X Secrets
      BY <1>1, <1>3 DEF SubmissionType
    <2> QED
      BY <1>3, <2>1 DEF Candidate, Configs
  <1>4. CASE ~Rebuilds(sub) /\ sub.uri = None
    BY <1>4 DEF Candidate
  <1> QED
    BY <1>2, <1>3, <1>4

\* The initial states.
LEMMA ConfigStarts == DbInit => ConfigInv
  <1> SUFFICES ASSUME DbInit PROVE ConfigInv
    OBVIOUS
  <1>1. Created[1] \in Hosts /\ Created[2] \in Secrets
    BY DatabaseAssumption DEF DatabaseAssumption
  <1>2. config \in Configs
    BY <1>1 DEF DbInit, Configs
  <1>3. [Answered EXCEPT !.pc = "idle"] \in RequestTypes /\ [Answered EXCEPT !.pc = "idle"].pc = "idle"
    BY DEF Answered, NoSubmission, SubmissionType, RequestTypes
  <1> QED
    BY <1>2, <1>3 DEF DbInit, ConfigInv

\* One request goes on, passed keeps what it has.
LEMMA RequestKept ==
    ASSUME ConfigInv, NEW r \in Requests, NEW q \in RequestTypes,
           request' = [request EXCEPT ![r] = q],
           config' \in Configs, passed \subseteq passed',
           q.pc \in {"probing", "storing"} => q.cand \in Configs,
           q.pc = "storing" => q.cand \in passed'
    PROVE  ConfigInv'
  <1>1. request' \in [Requests -> RequestTypes]
    BY DEF ConfigInv
  <1>2. \A s \in Requests : request'[s] = IF s = r THEN q ELSE request[s]
    BY DEF ConfigInv
  <1> QED
    BY <1>1, <1>2 DEF ConfigInv

\* Every step keeps the invariant, and a rotation stores what was probed.
LEMMA ConfigKept ==
    ASSUME ConfigInv, [DbNext]_dbVars
    PROVE  /\ ConfigInv'
           /\ \A r \in Requests : request[r].pc = "storing" /\ request'[r].pc = "sending"
                  => config' \in passed
  <1> DEFINE Tested == \A r \in Requests : request[r].pc = "storing" /\ request'[r].pc = "sending"
                           => config' \in passed
  <1> SUFFICES ConfigInv' /\ Tested
    OBVIOUS
  <1>a. /\ Answered \in RequestTypes /\ Answered.pc = "done"
        /\ NoSubmission \in SubmissionType
    BY DEF Answered, NoSubmission, SubmissionType, RequestTypes
  <1>b. ASSUME NEW r \in Requests, NEW q \in RequestTypes, request' = [request EXCEPT ![r] = q],
               q.pc # "sending" \/ request[r].pc # "storing"
        PROVE  Tested
    BY <1>b DEF ConfigInv
  <1>1. ASSUME NEW r \in Requests, RotateRead(r) PROVE ConfigInv' /\ Tested
    <2>1. PICK sub \in Submissions :
            request' = [request EXCEPT ![r] =
              IF Invalid(config, sub) THEN Answered
              ELSE [pc |-> "probing", sub |-> sub, cand |-> Candidate(config, sub)]]
      BY <1>1 DEF RotateRead
    <2>2. sub \in SubmissionType /\ Candidate(config, sub) \in Configs
      BY CandidateType, DatabaseAssumption DEF DatabaseAssumption, ConfigInv
    <2>3. [pc |-> "probing", sub |-> sub, cand |-> Candidate(config, sub)] \in RequestTypes
      BY <2>2 DEF RequestTypes
    <2>4. UNCHANGED <<config, passed>>
      BY <1>1 DEF RotateRead
    <2>5. config \in Configs
      BY DEF ConfigInv
    <2>6. CASE Invalid(config, sub)
      BY <1>a, <1>b, <2>1, <2>4, <2>5, <2>6, RequestKept
    <2>7. CASE ~Invalid(config, sub)
      BY <1>b, <2>1, <2>2, <2>3, <2>4, <2>5, <2>7, RequestKept
    <2> QED
      BY <2>6, <2>7
  <1>2. ASSUME NEW r \in Requests, RotateProbe(r) PROVE ConfigInv' /\ Tested
    <2>1. request[r] \in RequestTypes /\ request[r].cand \in Configs /\ config' = config
          /\ config \in Configs
      BY <1>2 DEF RotateProbe, ConfigInv
    <2>2. CASE request' = [request EXCEPT ![r].pc = "storing"] /\ passed' = passed \cup {request[r].cand}
      <3> DEFINE q == [request[r] EXCEPT !.pc = "storing"]
      <3>1. q \in RequestTypes /\ q.pc = "storing" /\ q.cand = request[r].cand
        BY <2>1 DEF RequestTypes
      <3>2. request' = [request EXCEPT ![r] = q]
        BY <2>2
      <3>3. passed \subseteq passed' /\ request[r].cand \in passed'
        BY <2>2
      <3> HIDE DEF q
      <3>4. Tested
        BY <1>b, <3>1, <3>2
      <3> QED
        BY <2>1, <3>1, <3>2, <3>3, <3>4, RequestKept
    <2>3. CASE request' = [request EXCEPT ![r] = Answered] /\ UNCHANGED passed
      BY <1>a, <1>b, <2>1, <2>3, RequestKept
    <2> QED
      BY <1>2, <2>2, <2>3 DEF RotateProbe
  <1>3. ASSUME NEW r \in Requests, RotateStore(r) PROVE ConfigInv' /\ Tested
    <2>1. request[r] \in RequestTypes /\ request[r].cand \in Configs \cap passed
          /\ config' = request[r].cand /\ passed' = passed
      BY <1>3 DEF RotateStore, ConfigInv
    <2> DEFINE q == [request[r] EXCEPT !.pc = "sending"]
    <2>2. q \in RequestTypes /\ q.pc = "sending"
      BY <2>1 DEF RequestTypes
    <2>3. request' = [request EXCEPT ![r] = q]
      BY <1>3 DEF RotateStore
    <2>4. Tested
      BY <2>1
    <2>5. config' \in Configs /\ passed \subseteq passed'
      BY <2>1
    <2> HIDE DEF q, Tested
    <2> QED
      BY <2>2, <2>3, <2>4, <2>5, RequestKept
  <1>4. ASSUME NEW r \in Requests, RotateSend(r) \/ ProbeWrite(r) PROVE ConfigInv' /\ Tested
    <2>1. request' = [request EXCEPT ![r] = Answered] /\ UNCHANGED <<config, passed>>
      BY <1>4 DEF RotateSend, ProbeWrite
    <2>2. config \in Configs
      BY DEF ConfigInv
    <2> QED
      BY <1>a, <1>b, <2>1, <2>2, RequestKept
  <1>5. ASSUME NEW r \in Requests, ProbeRead(r) PROVE ConfigInv' /\ Tested
    <2>1. request' = [request EXCEPT ![r] = [pc |-> "testing", sub |-> NoSubmission, cand |-> config]]
          /\ UNCHANGED <<config, passed>> /\ config \in Configs
      BY <1>5 DEF ProbeRead, ConfigInv
    <2>2. [pc |-> "testing", sub |-> NoSubmission, cand |-> config] \in RequestTypes
      BY <1>a, <2>1 DEF RequestTypes
    <2> QED
      BY <1>b, <2>1, <2>2, RequestKept
  <1>6. CASE UNCHANGED <<request, passed>> /\ config' \in Configs
    BY <1>6 DEF ConfigInv
  <1>7. config \in Configs
    BY DEF ConfigInv
  <1>8. CASE PatchConfig
    BY <1>6, <1>8 DEF PatchConfig, Configs
  <1>9. CASE DeleteDatabase \/ SyncStampsHealth \/ StopRequested \/ SyncClearsStop
    BY <1>6, <1>7, <1>9 DEF DeleteDatabase, SyncStampsHealth, StopRequested, SyncClearsStop, configFacts
  <1>10. ASSUME NEW m \in Studies, SendByOthers(m) \/ StudyStep(m) \/ StudyCrash(m)
         PROVE  ConfigInv' /\ Tested
    <2>1. UNCHANGED configFacts
      BY <1>10 DEF SendByOthers, StudyStep, StudyCrash, StudyLoad, StudyGate, StudyCheck, StudyProduce,
                   StudyFails, StudyCancelled, StudyClears, StudyPersist, StudyProposes, StudyRedelivered
    <2> QED
      BY <1>6, <1>7, <2>1 DEF configFacts
  <1>11. CASE UNCHANGED dbVars
    BY <1>6, <1>7, <1>11 DEF dbVars, configFacts
  <1> QED
    BY <1>1, <1>2, <1>3, <1>4, <1>5, <1>8, <1>9, <1>10, <1>11 DEF DbNext, TestConnection

\* What update_database_credentials stores has passed its live probe as a
\* whole, whatever other requests do in the meantime.
THEOREM RotationsTested == DbSpec => RotationTested
  <1>1. ConfigInv /\ [DbNext]_dbVars => ConfigInv'
    BY ConfigKept
  <1>2. ConfigInv /\ [DbNext]_dbVars =>
          [\A r \in Requests : request[r].pc = "storing" /\ request'[r].pc = "sending"
               => config' \in passed]_dbVars
    BY ConfigKept
  <1> QED
    BY ConfigStarts, <1>1, <1>2, PTL DEF DbSpec, RotationTested

-----------------------------------------------------------------------------
(* The studies. *)

\* The initial states: no message was sent.
LEMMA StudyInvStarts == DbInit => StudyInv
  <1> SUFFICES ASSUME DbInit PROVE StudyInv
    OBVIOUS
  <1>1. Created \in Fields
    BY DatabaseAssumption DEF DatabaseAssumption, Fields
  <1>2. [pc |-> "unsent", row |-> "none", of |-> Created, wanted |-> Created] \in StudyTypes
    BY <1>1 DEF StudyTypes
  <1> QED
    BY <1>2 DEF DbInit, StudyInv, InFlight

\* One message goes on, and its row stays as it is.
LEMMA MessageKept ==
    ASSUME StudyInv, NEW m \in Studies, NEW q \in StudyTypes,
           study' = [study EXCEPT ![m] = q], q.row = study[m].row,
           q.pc \in {"unsent", "queued", "gate"} => q.row = "none",
           q.pc \in InFlight => q.row = "QUEUED",
           UNCHANGED <<schemaStatus, ready>>
    PROVE  StudyInv'
  <1>1. study' \in [Studies -> StudyTypes]
    BY DEF StudyInv
  <1>2. \A n \in Studies : study'[n] = IF n = m THEN q ELSE study[n]
    BY DEF StudyInv
  <1>3. \A n \in Studies : study'[n].row = study[n].row
    BY <1>2
  <1> QED
    BY <1>1, <1>2, <1>3 DEF StudyInv

\* A message moved to another place, in the form the actions have.
LEMMA GoesKept ==
    ASSUME StudyInv, NEW m \in Studies, NEW s, StudyGoes(m, s),
           s \in InFlight \cup {"queued", "gate", "clear", "propose", "lost", "done"},
           s \in {"queued", "gate"} => study[m].row = "none",
           s \in InFlight => study[m].row = "QUEUED",
           UNCHANGED <<schemaStatus, ready>>
    PROVE  StudyInv'
  <1> DEFINE q == [study[m] EXCEPT !.pc = s]
  <1>1. study[m] \in StudyTypes
    BY DEF StudyInv
  <1>2. q \in StudyTypes /\ q.pc = s /\ q.row = study[m].row
    BY <1>1 DEF StudyTypes, InFlight
  <1>3. study' = [study EXCEPT ![m] = q]
    BY DEF StudyGoes
  <1>4. s # "unsent"
    BY DEF InFlight
  <1> HIDE DEF q
  <1> QED
    BY <1>2, <1>3, <1>4, MessageKept

\* The row in flight becomes terminal, and the source says so.
LEMMA RowEnds ==
    ASSUME StudyInv, NEW m \in Studies, study[m].row = "QUEUED",
           NEW s \in {"clear", "propose", "done"}, NEW row \in {"FAILED", "READY"},
           study' = [study EXCEPT ![m].pc = s, ![m].row = row],
           \/ row = "FAILED" /\ schemaStatus' = "failed" /\ ready' = ready
           \/ row = "READY" /\ schemaStatus' = "completed" /\ ready'
    PROVE  StudyInv'
  <1> DEFINE q == [study[m] EXCEPT !.pc = s, !.row = row]
  <1>1. study \in [Studies -> StudyTypes] /\ study[m] \in StudyTypes
    BY DEF StudyInv
  <1>2. q \in StudyTypes /\ q.pc = s /\ q.row = row
    BY <1>1 DEF StudyTypes, InFlight
  <1>3. study' = [study EXCEPT ![m] = q]
    BY <1>1
  <1> HIDE DEF q
  <1>4. study' \in [Studies -> StudyTypes] /\ \A n \in Studies : study'[n] = IF n = m THEN q ELSE study[n]
    BY <1>1, <1>2, <1>3
  <1>5. \A n \in Studies : study'[n].row # "QUEUED"
    BY <1>2, <1>4 DEF StudyInv
  <1>6. \A n \in Studies : study[n].row = "READY" => study'[n].row = "READY"
    BY <1>4
  <1>7. schemaStatus' = "completed" \/ ready' => \E n \in Studies : study'[n].row = "READY"
    BY <1>2, <1>4, <1>6 DEF StudyInv
  <1>8. \A n \in Studies : /\ study'[n].pc \in {"unsent", "queued", "gate"} => study'[n].row = "none"
                           /\ study'[n].pc \in InFlight => study'[n].row = "QUEUED"
    BY <1>2, <1>4 DEF StudyInv, InFlight
  <1> QED
    BY <1>4, <1>5, <1>7, <1>8 DEF StudyInv

\* A message is sent, for the URL that is stored.
LEMMA SendKept ==
    ASSUME StudyInv, config \in Configs, NEW m \in Studies, SendStudy(m)
    PROVE  StudyInv'
  <1> DEFINE q == [study[m] EXCEPT !.pc = "queued", !.wanted = Url(config)]
  <1>1. study[m] \in StudyTypes /\ study[m].pc = "unsent" /\ study[m].row = "none"
    BY DEF StudyInv, SendStudy
  <1>2. q \in StudyTypes /\ q.pc = "queued" /\ q.row = study[m].row
    BY <1>1 DEF StudyTypes, Url, Fields, Configs
  <1>3. study' = [study EXCEPT ![m] = q] /\ UNCHANGED <<schemaStatus, ready>>
    BY DEF SendStudy
  <1> HIDE DEF q
  <1> QED
    BY <1>1, <1>2, <1>3, MessageKept DEF InFlight

\* The gate: the only place where a row comes to be.
LEMMA GateKept ==
    ASSUME StudyInv, NEW m \in Studies, StudyGate(m)
    PROVE  StudyInv'
  <1>1. study[m] \in StudyTypes /\ study[m].pc = "gate" /\ study[m].row = "none" /\ ready' = ready
        /\ study \in [Studies -> StudyTypes]
    BY DEF StudyInv, StudyGate
  <1>2. CASE InFlightRows # {}
    BY <1>1, <1>2, GoesKept DEF StudyGate, InFlight
  <1>3. CASE InFlightRows = {}
    <2> DEFINE q == [study[m] EXCEPT !.pc = "check_connect", !.row = "QUEUED"]
    <2>1. q \in StudyTypes /\ q.pc = "check_connect" /\ q.row = "QUEUED"
      BY <1>1 DEF StudyTypes, InFlight
    <2>2. study' = [study EXCEPT ![m] = q] /\ schemaStatus' = "studying"
      BY <1>1, <1>3 DEF StudyGate, CreateStudy, StampStudy
    <2> HIDE DEF q
    <2>3. study' \in [Studies -> StudyTypes] /\ \A n \in Studies : study'[n] = IF n = m THEN q ELSE study[n]
      BY <1>1, <2>1, <2>2
    <2>4. \A n \in Studies : study[n].row # "QUEUED"
      BY <1>3 DEF InFlightRows
    <2>5. \A n \in Studies : study'[n].row = "QUEUED" <=> n = m
      BY <2>1, <2>3, <2>4
    <2>6. \A n \in Studies : study[n].row = "READY" => study'[n].row = "READY"
      BY <1>1, <2>3
    <2>7. \A n \in Studies : /\ study'[n].pc \in {"unsent", "queued", "gate"} => study'[n].row = "none"
                             /\ study'[n].pc \in InFlight => study'[n].row = "QUEUED"
      BY <2>1, <2>3 DEF StudyInv
    <2> QED
      BY <1>1, <2>2, <2>3, <2>5, <2>6, <2>7 DEF StudyInv
  <1> QED
    BY <1>2, <1>3

\* The other steps of the task, each its place and what it may do to the row.
LEMMA StudyStepKept ==
    ASSUME StudyInv, config \in Configs, NEW m \in Studies, StudyStep(m)
    PROVE  StudyInv'
  <1>a. /\ study \in [Studies -> StudyTypes] /\ study[m] \in StudyTypes
        /\ study[m].pc \in {"unsent", "queued", "gate"} => study[m].row = "none"
        /\ study[m].pc \in InFlight => study[m].row = "QUEUED"
    BY DEF StudyInv
  <1>1. CASE StudyLoad(m)
    <2>1. study[m].pc = "queued" /\ study[m].row = "none" /\ UNCHANGED <<schemaStatus, ready>>
      BY <1>a, <1>1 DEF StudyLoad
    <2>2. CASE StudyGoes(m, "done")
      BY <2>1, <2>2, GoesKept DEF InFlight
    <2>3. CASE study' = [study EXCEPT ![m].pc = "gate", ![m].of = Url(config)]
      <3> DEFINE q == [study[m] EXCEPT !.pc = "gate", !.of = Url(config)]
      <3>1. q \in StudyTypes /\ q.pc = "gate" /\ q.row = study[m].row
        BY <1>a DEF StudyTypes, Url, Fields, Configs
      <3>2. study' = [study EXCEPT ![m] = q]
        BY <1>a, <2>3
      <3> HIDE DEF q
      <3> QED
        BY <2>1, <3>1, <3>2, MessageKept DEF InFlight
    <2> QED
      BY <1>1, <2>2, <2>3 DEF StudyLoad
  <1>2. CASE StudyGate(m)
    BY <1>2, GateKept
  <1>3. CASE StudyCheck(m)
    <2>1. PICK s \in {"cancelled", "produce", "persist"} : StudyGoes(m, s)
      BY <1>3 DEF StudyCheck
    <2> QED
      BY <1>a, <1>3, <2>1, GoesKept DEF StudyCheck, InFlight
  <1>4. CASE StudyProduce(m)
    <2>1. PICK s \in {"check_describing", "failed"} : StudyGoes(m, s)
      BY <1>4 DEF StudyProduce
    <2> QED
      BY <1>a, <1>4, <2>1, GoesKept DEF StudyProduce, InFlight
  <1>5. CASE StudyFails(m)
    BY <1>a, <1>5, RowEnds DEF StudyFails, MarkStudyFailed, StampStudy, InFlight
  <1>6. CASE StudyCancelled(m)
    BY <1>a, <1>6, RowEnds DEF StudyCancelled, MarkStudyFailed, StampStudy, InFlight
  <1>7. CASE StudyPersist(m)
    BY <1>a, <1>7, RowEnds DEF StudyPersist, MarkCompleted, StampStudy, InFlight
  <1>8. CASE StudyClears(m) \/ StudyProposes(m)
    BY <1>8, GoesKept DEF StudyClears, StudyProposes, InFlight
  <1>9. CASE StudyRedelivered(m)
    <2>1. study[m].pc = "lost" /\ UNCHANGED <<schemaStatus, ready>>
      BY <1>9 DEF StudyRedelivered
    <2>2. CASE StudyGoes(m, "done")
      BY <2>1, <2>2, GoesKept DEF InFlight
    <2>3. ASSUME NEW n \in UnsentStudies,
                 study' = [study EXCEPT ![m].pc = "done", ![n].pc = "queued", ![n].wanted = study[m].wanted]
          PROVE  StudyInv'
      <3> DEFINE p == [study[m] EXCEPT !.pc = "done"]
                 q == [study[n] EXCEPT !.pc = "queued", !.wanted = study[m].wanted]
      <3>1. n \in Studies /\ n # m /\ study[n] \in StudyTypes /\ study[n].row = "none"
        BY <1>a, <2>1 DEF UnsentStudies, StudyInv
      <3>2. p \in StudyTypes /\ p.pc = "done" /\ p.row = study[m].row
        BY <1>a DEF StudyTypes
      <3>3. q \in StudyTypes /\ q.pc = "queued" /\ q.row = "none"
        BY <1>a, <3>1 DEF StudyTypes
      <3>4. study' = [[study EXCEPT ![m] = p] EXCEPT ![n] = q]
        BY <1>a, <2>3, <3>1
      <3> HIDE DEF p, q
      <3>5. /\ study' \in [Studies -> StudyTypes]
            /\ \A o \in Studies : study'[o] = IF o = n THEN q ELSE IF o = m THEN p ELSE study[o]
        BY <1>a, <3>1, <3>2, <3>3, <3>4
      <3>6. \A o \in Studies : study'[o].row = study[o].row
        BY <3>1, <3>2, <3>3, <3>5
      <3>7. \A o \in Studies : /\ study'[o].pc \in {"unsent", "queued", "gate"} => study'[o].row = "none"
                               /\ study'[o].pc \in InFlight => study'[o].row = "QUEUED"
        BY <3>2, <3>3, <3>5 DEF StudyInv, InFlight
      <3> QED
        BY <2>1, <3>5, <3>6, <3>7 DEF StudyInv
    <2> QED
      BY <1>9, <2>2, <2>3 DEF StudyRedelivered
  <1> QED
    BY <1>1, <1>2, <1>3, <1>4, <1>5, <1>6, <1>7, <1>8, <1>9 DEF StudyStep

\* Every step keeps the invariant.
LEMMA StudyKept ==
    ASSUME ConfigInv, StudyInv, [DbNext]_dbVars
    PROVE  StudyInv'
  <1>a. config \in Configs
    BY DEF ConfigInv
  <1>1. CASE UNCHANGED <<study, schemaStatus, ready>>
    BY <1>1 DEF StudyInv
  <1>2. ASSUME NEW r \in Requests,
               \/ RotateRead(r) \/ RotateProbe(r) \/ RotateStore(r) \/ RotateSend(r) \/ TestConnection(r)
        PROVE  StudyInv'
    <2>1. CASE RotateSend(r)
      BY <1>a, <1>1, <2>1, SendKept DEF RotateSend, studyFacts
    <2>2. CASE RotateRead(r) \/ RotateProbe(r) \/ RotateStore(r) \/ TestConnection(r)
      BY <1>1, <2>2 DEF RotateRead, RotateProbe, RotateStore, TestConnection, ProbeRead, ProbeWrite, studyFacts
    <2> QED
      BY <1>2, <2>1, <2>2
  <1>3. CASE PatchConfig \/ DeleteDatabase \/ SyncStampsHealth \/ StopRequested \/ SyncClearsStop
    BY <1>1, <1>3 DEF PatchConfig, DeleteDatabase, SyncStampsHealth, StopRequested, SyncClearsStop, studyFacts
  <1>4. ASSUME NEW m \in Studies, SendByOthers(m) PROVE StudyInv'
    BY <1>a, <1>4, SendKept DEF SendByOthers
  <1>5. ASSUME NEW m \in Studies, StudyStep(m) PROVE StudyInv'
    BY <1>a, <1>5, StudyStepKept
  <1>6. ASSUME NEW m \in Studies, StudyCrash(m) PROVE StudyInv'
    <2>1. PICK s \in {"queued", "lost"} :
             StudyGoes(m, s) /\ (s = "queued" => study[m].row = "none")
      BY <1>6 DEF StudyCrash
    <2> QED
      BY <1>6, <2>1, GoesKept DEF StudyCrash, InFlight
  <1>7. CASE UNCHANGED dbVars
    BY <1>1, <1>7 DEF dbVars, studyFacts
  <1> QED
    BY <1>2, <1>3, <1>4, <1>5, <1>6, <1>7 DEF DbNext

\* The advisory lock of StudyGate admits one study of a source at a time,
\* also after a crash and a redelivery.
THEOREM OneStudyAtATime == DbSpec => []OneStudy
  <1>1. StudyInv => OneStudy
    <2> SUFFICES ASSUME StudyInv PROVE OneStudy
      OBVIOUS
    <2>1. CASE InFlightRows = {}
      <3>1. Cardinality(InFlightRows) = 0
        BY <2>1, FS_EmptySet
      <3> QED
        BY <3>1 DEF OneStudy
    <2>2. CASE InFlightRows # {}
      <3>1. \A m, n \in InFlightRows : m = n
        BY DEF InFlightRows, StudyInv
      <3> DEFINE queued == InFlightRows
      <3>2. PICK m : m \in queued
        BY <2>2
      <3> HIDE DEF queued
      <3>3. queued = {m}
        BY <3>1, <3>2 DEF queued
      <3>4. Cardinality(InFlightRows) = 1
        BY <3>3, FS_Singleton DEF queued
      <3> QED
        BY <3>4 DEF OneStudy
    <2> QED
      BY <2>1, <2>2
  <1>2. ConfigInv /\ [DbNext]_dbVars => ConfigInv'
    BY ConfigKept
  <1>3. ConfigInv /\ StudyInv /\ [DbNext]_dbVars => StudyInv'
    BY StudyKept
  <1> QED
    BY ConfigStarts, StudyInvStarts, <1>1, <1>2, <1>3, PTL DEF DbSpec

\* schema_status and status, which the sources list shows, follow the rows of
\* SchemaStudyRepository through every failure, cancel and lost worker.
THEOREM StatusFollowsRows == DbSpec => []StatusMatchesRows
  <1>1. StudyInv => StatusMatchesRows
    BY DEF StudyInv, StatusMatchesRows, InFlightRows
  <1>2. ConfigInv /\ [DbNext]_dbVars => ConfigInv'
    BY ConfigKept
  <1>3. ConfigInv /\ StudyInv /\ [DbNext]_dbVars => StudyInv'
    BY StudyKept
  <1> QED
    BY ConfigStarts, StudyInvStarts, <1>1, <1>2, <1>3, PTL DEF DbSpec

-----------------------------------------------------------------------------
(* The text of the source. *)

MessageType == [pc : {"unsent", "queued", "asking", "answered", "naming_saved", "read", "done",
                      "failed"},
                kind : {"name", "intent"}, tries : Nat, prior : {"none", "wizard", "admin", "ai"}]
Naming(r) == r.pc \in {"asking", "answered"} /\ r.kind = "name"

\* The naming task between its read and its commit holds the row, and a name
\* an admin typed closes the naming.
TextInv ==
    /\ msg \in [Msgs -> MessageType]
    /\ descr \in {"none", "wizard", "admin", "ai"}
    /\ OneNamer
    /\ \A m \in Msgs : msg[m].pc = "read" => msg[m].kind = "intent"
    /\ name = "admin" => nameStatus # "pending_ai"

\* What a step makes of one message and of the lock, for the others' sake.
LEMMA MessageMoves ==
    ASSUME TextInv, NEW m \in Msgs, NEW r \in MessageType, msg' = [msg EXCEPT ![m] = r],
           UNCHANGED <<name, nameStatus, descr>>,
           \/ UNCHANGED rowLock
           \/ rowLock = m /\ rowLock' = Free
           \/ rowLock = Free /\ rowLock' = m,
           Naming(r) => rowLock' = m /\ nameStatus = "pending_ai" /\ r.prior = descr,
           r.pc = "read" => r.kind = "intent"
    PROVE  TextInv'
<1>1. msg' \in [Msgs -> MessageType] /\ \A n \in Msgs : msg'[n] = IF n = m THEN r ELSE msg[n]
  BY DEF TextInv
<1>2. ASSUME NEW n \in Msgs, Naming(msg'[n])
      PROVE  rowLock' = n /\ nameStatus' = "pending_ai" /\ msg'[n].prior = descr'
  <2>1. CASE n = m
    BY <1>1, <1>2, <2>1
  <2>2. CASE n # m
    <3>1. rowLock = n /\ nameStatus = "pending_ai" /\ msg[n].prior = descr
      BY <1>1, <1>2, <2>2 DEF TextInv, OneNamer, Naming
    <3>2. n # Free
      BY TextAssumption
    <3> QED
      BY <1>1, <2>2, <3>1, <3>2
  <2> QED
    BY <2>1, <2>2
<1>3. OneNamer'
  BY <1>2 DEF OneNamer, Naming
<1> QED
  BY <1>1, <1>3 DEF TextInv

\* What is neither a message nor a naming field leaves the invariant alone.
LEMMA TextQuiet ==
    ASSUME TextInv, UNCHANGED <<msg, name, nameStatus, descr, rowLock>>
    PROVE  TextInv'
BY DEF TextInv, OneNamer

\* A PATCH waits for the row: no naming is under way.
LEMMA PatchKeepsText ==
    ASSUME TextInv, PatchText
    PROVE  TextInv'
<1>1. \A m \in Msgs : ~ Naming(msg[m])
  BY TextAssumption DEF TextInv, OneNamer, Naming, PatchText
<1>2. msg' = msg
  BY DEF PatchText
<1>3. OneNamer'
  BY <1>1, <1>2 DEF OneNamer, Naming
<1>4. descr' \in {"none", "wizard", "admin", "ai"} /\ (name' = "admin" => nameStatus' # "pending_ai")
  BY DEF TextInv, PatchText
<1> QED
  BY <1>2, <1>3, <1>4 DEF TextInv

\* The commit of a naming ends the only one there is.
LEMMA PersistKeepsText ==
    ASSUME TextInv, NEW m \in Msgs, PersistNaming(m)
    PROVE  TextInv'
<1>1. rowLock = m
  BY DEF TextInv, OneNamer, PersistNaming
<1>2. \A n \in Msgs : Naming(msg[n]) => n = m
  BY <1>1 DEF TextInv, OneNamer, Naming
<1> DEFINE r == [msg[m] EXCEPT !.pc = "naming_saved"]
<1>3. msg[m] \in MessageType /\ msg' = [msg EXCEPT ![m] = r]
  BY DEF TextInv, PersistNaming
<1>4. r \in MessageType /\ ~ Naming(r)
  BY <1>3 DEF MessageType, Naming
<1> HIDE DEF r
<1>5. msg' \in [Msgs -> MessageType] /\ \A n \in Msgs : msg'[n] = IF n = m THEN r ELSE msg[n]
  BY <1>3, <1>4 DEF TextInv
<1>6. \A n \in Msgs : ~ Naming(msg'[n])
  BY <1>2, <1>4, <1>5
<1>7. OneNamer'
  BY <1>6 DEF OneNamer, Naming
<1> QED
  BY <1>5, <1>7 DEF TextInv, PersistNaming

\* Every other step moves one message.
LEMMA WorkKeepsText ==
    ASSUME TextInv, NEW m \in Msgs,
           \/ SendNaming(m) \/ SendProposal(m) \/ StudyCompletes(m) \/ LoadPending(m)
           \/ SkipNaming(m) \/ NamingAnswers(m) \/ RescueIndexing(m) \/ NamingRaises(m)
           \/ ReadIntent(m) \/ LoadDocument(m) \/ ProposalAnswers(m) \/ ProposeIntent(m)
           \/ ProposalRaises(m) \/ TextCrash(m)
    PROVE  TextInv'
<1>1. msg[m] \in MessageType
  BY DEF TextInv
<1>2. CASE SendNaming(m) \/ SendProposal(m) \/ StudyCompletes(m)
  <2>1. PICK kind \in {"name", "intent"} : Sends(m, kind)
    BY <1>2 DEF SendNaming, SendProposal, StudyCompletes
  <2> DEFINE r == [msg[m] EXCEPT !.pc = "queued", !.kind = kind]
  <2>2. r \in MessageType /\ ~ Naming(r) /\ r.pc # "read"
    BY <1>1 DEF MessageType, Naming
  <2>3. msg' = [msg EXCEPT ![m] = r] /\ UNCHANGED <<name, nameStatus, descr, rowLock>>
    BY <2>1 DEF Sends, nameVars
  <2> HIDE DEF r
  <2> QED
    BY <2>2, <2>3, MessageMoves
<1>3. ASSUME NEW pc \in {"asking", "answered", "read", "done"}, Moves(m, pc), UNCHANGED rowLock,
             ~ (pc \in {"asking", "answered"} /\ msg[m].kind = "name")
                 \/ Naming(msg[m]),
             pc = "read" => msg[m].kind = "intent"
      PROVE  TextInv'
  <2> DEFINE r == [msg[m] EXCEPT !.pc = pc]
  <2>1. /\ r \in MessageType /\ r.pc = pc /\ r.kind = msg[m].kind /\ r.prior = msg[m].prior
    BY <1>1 DEF MessageType
  <2>2. msg' = [msg EXCEPT ![m] = r] /\ UNCHANGED <<name, nameStatus, descr, rowLock>>
    BY <1>3 DEF Moves, nameVars
  <2> HIDE DEF r
  <2>3. Naming(r) => rowLock = m /\ nameStatus = "pending_ai" /\ r.prior = descr
    BY <1>3, <2>1 DEF Naming, TextInv, OneNamer
  <2>4. r.pc = "read" => r.kind = "intent"
    BY <1>3, <2>1
  <2> QED
    BY <2>1, <2>2, <2>3, <2>4, MessageMoves
<1>4. CASE LoadPending(m)
  <2> DEFINE r == [msg[m] EXCEPT !.pc = "asking", !.prior = descr]
  <2>1. r \in MessageType /\ r.prior = descr /\ r.pc # "read"
    BY <1>1 DEF MessageType, TextInv
  <2>2. msg' = [msg EXCEPT ![m] = r] /\ UNCHANGED <<name, nameStatus, descr>>
        /\ rowLock = Free /\ rowLock' = m /\ nameStatus = "pending_ai"
    BY <1>4 DEF LoadPending, nameVars
  <2> HIDE DEF r
  <2> QED
    BY <2>1, <2>2, MessageMoves
<1>5. CASE SkipNaming(m) \/ RescueIndexing(m)
  BY <1>3, <1>5 DEF SkipNaming, RescueIndexing
<1>6. CASE NamingAnswers(m)
  BY <1>3, <1>6 DEF NamingAnswers, Naming
<1>7. CASE ReadIntent(m)
  BY <1>3, <1>7 DEF ReadIntent
<1>8. CASE LoadDocument(m)
  <2>1. CASE Moves(m, "done")
    BY <1>3, <1>8, <2>1 DEF LoadDocument
  <2>2. CASE Moves(m, "asking") /\ msg[m].kind # "name"
    BY <1>3, <1>8, <2>2 DEF LoadDocument
  <2> QED
    BY <1>8, <2>1, <2>2 DEF LoadDocument, TextInv
<1>9. CASE ProposalAnswers(m)
  BY <1>3, <1>9 DEF ProposalAnswers
<1>10. CASE ProposeIntent(m)
  <2> DEFINE r == [msg[m] EXCEPT !.pc = "done"]
  <2>1. r \in MessageType /\ ~ Naming(r) /\ r.pc # "read"
    BY <1>1 DEF MessageType, Naming
  <2>2. msg' = [msg EXCEPT ![m] = r] /\ UNCHANGED <<name, nameStatus, descr, rowLock>>
    BY <1>10 DEF ProposeIntent, nameVars
  <2> HIDE DEF r
  <2> QED
    BY <2>1, <2>2, MessageMoves
<1>11. ASSUME NEW r \in MessageType, ~ Naming(r), r.pc # "read", msg' = [msg EXCEPT ![m] = r],
              Unlock(m) \/ UNCHANGED rowLock, UNCHANGED <<name, nameStatus, descr>>
       PROVE  TextInv'
  BY <1>11, MessageMoves DEF Unlock
<1>12. ASSUME Raised(m), Unlock(m) \/ UNCHANGED rowLock
       PROVE  TextInv'
  <2> DEFINE again == [msg[m] EXCEPT !.pc = "queued", !.tries = @ + 1]
             failed == [msg[m] EXCEPT !.pc = "failed"]
  <2>1. again \in MessageType /\ ~ Naming(again) /\ again.pc # "read"
    <3>1. msg[m].tries + 1 \in Nat
      BY <1>1 DEF MessageType
    <3> QED
      BY <1>1, <3>1 DEF MessageType, Naming
  <2>4. failed \in MessageType /\ ~ Naming(failed) /\ failed.pc # "read"
    BY <1>1 DEF MessageType, Naming
  <2>2. msg' = [msg EXCEPT ![m] = again] \/ msg' = [msg EXCEPT ![m] = failed]
    BY <1>12 DEF Raised
  <2>3. UNCHANGED <<name, nameStatus, descr>>
    BY <1>12 DEF Raised, nameVars
  <2> HIDE DEF again, failed
  <2> QED
    BY <1>11, <1>12, <2>1, <2>2, <2>3, <2>4
<1>13. CASE NamingRaises(m) \/ ProposalRaises(m)
  BY <1>12, <1>13 DEF NamingRaises, ProposalRaises
<1>14. CASE TextCrash(m)
  <2> DEFINE r == [msg[m] EXCEPT !.pc = "queued"]
  <2>1. r \in MessageType /\ ~ Naming(r) /\ r.pc # "read"
    BY <1>1 DEF MessageType, Naming
  <2>2. msg' = [msg EXCEPT ![m] = r] /\ UNCHANGED <<name, nameStatus, descr>> /\ Unlock(m)
    BY <1>14 DEF TextCrash, nameVars
  <2> HIDE DEF r
  <2> QED
    BY <1>11, <2>1, <2>2
<1> QED
  BY <1>2, <1>4, <1>5, <1>6, <1>7, <1>8, <1>9, <1>10, <1>13, <1>14

LEMMA TextStep ==
    ASSUME TextInv, [TextNext]_textVars
    PROVE  TextInv'
<1>1. CASE PutIntent \/ SoftDelete \/ StudyStarts \/ StudyGivesUp \/ UNCHANGED textVars
  BY <1>1, TextQuiet DEF PutIntent, SoftDelete, StudyStarts, StudyGivesUp, textVars, nameVars
<1> QED
  BY <1>1, PatchKeepsText, PersistKeepsText, WorkKeepsText DEF TextNext, Works

THEOREM TextInvariant == TextSpec => []TextInv
<1>1. TextInit => TextInv
  <2> SUFFICES ASSUME TextInit PROVE TextInv
    OBVIOUS
  <2>1. NoMsg \in MessageType /\ ~ Naming(NoMsg)
    BY DEF NoMsg, MessageType, Naming
  <2>2. msg = [m \in Msgs |-> NoMsg]
    BY DEF TextInit
  <2>3. OneNamer
    BY <2>1, <2>2 DEF OneNamer, Naming
  <2>4. msg \in [Msgs -> MessageType] /\ \A m \in Msgs : msg[m].pc # "read"
    BY <2>1, <2>2 DEF NoMsg
  <2> QED
    BY <2>3, <2>4 DEF TextInit, TextInv
<1>2. TextInv /\ [TextNext]_textVars => TextInv'
  BY TextStep
<1> QED
  BY <1>1, <1>2, PTL DEF TextSpec

\* Two overlapping enqueues ask the model once, and the task that asks finds
\* the row as it read it.
THEOREM NamedOnce == TextSpec => []OneNamer
<1>1. TextInv => OneNamer
  BY DEF TextInv
<1> QED
  BY <1>1, TextInvariant, PTL

\* What an admin typed while a task was asking the model stays, or is in the
\* history.
THEOREM AdminTextKept == TextSpec => AdminTextAccounted
<1> DEFINE A == /\ name = "admin" => name' = "admin"
                /\ descr = "admin" /\ descr' = "ai" => "admin" \in audited'
<1>1. TextInv /\ [TextNext]_textVars => [A]_textVars
  <2> SUFFICES ASSUME TextInv, TextNext PROVE A
    OBVIOUS
  <2>1. CASE PatchText
    BY <2>1 DEF PatchText
  <2>2. ASSUME NEW m \in Msgs, PersistNaming(m) PROVE A
    <3>1. nameStatus = "pending_ai" /\ msg[m].prior = descr
      BY <2>2 DEF TextInv, OneNamer, PersistNaming
    <3> QED
      BY <2>2, <3>1 DEF TextInv, PersistNaming
  <2>3. CASE ~ PatchText /\ ~ \E m \in Msgs : PersistNaming(m)
    <3>1. UNCHANGED <<name, descr>>
      BY <2>3 DEF TextNext, Works, PutIntent, SoftDelete, StudyStarts, StudyGivesUp, SendNaming,
                  SendProposal, StudyCompletes, Sends, LoadPending, SkipNaming, NamingAnswers,
                  RescueIndexing, NamingRaises, ReadIntent, LoadDocument, ProposalAnswers,
                  ProposeIntent, ProposalRaises, Moves, Raised, TextCrash, nameVars
    <3> QED
      BY <3>1
  <2> QED
    BY <2>1, <2>2, <2>3
<1> QED
  BY <1>1, TextInvariant, PTL DEF TextSpec, AdminTextAccounted

\* An intent the user saved is the user's from then on.
THEOREM UserIntentStays == TextSpec => UserIntentKept
<1> DEFINE A == intentStatus = "user_set" =>
                    intentStatus' = "user_set" /\ questions' \in {questions, "admin"}
<1>1. [TextNext]_textVars => [A]_textVars
  <2> SUFFICES ASSUME TextNext PROVE A
    OBVIOUS
  <2>1. CASE PutIntent
    BY <2>1 DEF PutIntent
  <2>2. ASSUME NEW m \in Msgs, ProposeIntent(m) PROVE A
    BY <2>2 DEF ProposeIntent
  <2>3. CASE ~ PutIntent /\ ~ \E m \in Msgs : ProposeIntent(m)
    <3>1. UNCHANGED <<questions, intentStatus>>
      BY <2>3 DEF TextNext, Works, PatchText, SoftDelete, StudyStarts, StudyGivesUp, SendNaming,
                  SendProposal, StudyCompletes, Sends, LoadPending, SkipNaming, NamingAnswers,
                  RescueIndexing, NamingRaises, ReadIntent, LoadDocument, ProposalAnswers,
                  PersistNaming, ProposalRaises, Moves, Raised, TextCrash, intentVars
    <3> QED
      BY <3>1
  <2> QED
    BY <2>1, <2>2, <2>3
<1> QED
  BY <1>1, PTL DEF TextSpec, UserIntentKept
=============================================================================
