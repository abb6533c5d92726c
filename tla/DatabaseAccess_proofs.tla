------------------------ MODULE DatabaseAccess_proofs ------------------------
(***************************************************************************)
(* Proofs about the way to a customer's database.  SeamInv says for each   *)
(* place of connect_with_retry what it has counted and how many engines    *)
(* are open, HardInv what the engine and the session were given; CoverInv  *)
(* accounts for the tables of a study, BoundsInv and RowsInv for the       *)
(* statements and the rows of a question.                                  *)
(***************************************************************************)
EXTENDS DatabaseAccess, FiniteSetTheorems, TLAPS

Places == {"idle", "attempt", "handshake", "backoff", "up", "failed", "cancelled", "closed"}

\* Where a surface holds its engine.
Holding ==
    IF surface \in {"study", "chat"}
    THEN {"attempt", "handshake", "backoff", "up", "failed", "cancelled"}
    ELSE IF surface = "extract" THEN {"handshake", "up"} ELSE {"handshake"}

PhaseInv ==
    /\ phase \in {"connecting", "inventory", "columns", "sampling", "describing", "assembling", "done"}
    /\ phase \notin {"connecting", "done"} => surface = "study" /\ at = "up"
    /\ phase = "done" => surface = "study" /\ at = "closed"

TypesInv ==
    /\ surface \in {"study", "extract", "probe", "chat"}
    /\ dialect \in {"sql", "mongodb"}
    /\ dialect = "mongodb" => surface = "study"
    /\ at \in Places
    /\ attempt \in Nat /\ elapsed \in Int /\ delay \in Int
    /\ history \in [sent : Nat, lastStart : Int, refused : Nat]

EngineInv == engines = IF at \in Holding THEN 1 ELSE 0

RetryInv ==
    /\ at = "idle" => history = NoHistory /\ attempt = 0
    /\ dialect = "sql" /\ at \in {"attempt", "handshake", "backoff", "failed"} => attempt = history.sent
    /\ dialect = "mongodb" => history = NoHistory /\ at \notin {"attempt", "backoff", "failed"}
    /\ at \in {"attempt", "backoff"} => attempt < Policy(surface).attempts
    /\ dialect = "sql" /\ at = "handshake" => attempt >= 1 /\ attempt <= Policy(surface).attempts
    /\ at = "backoff" => elapsed + delay < Policy(surface).deadline
    /\ at = "attempt" /\ history.sent > 0 => elapsed < Policy(surface).deadline
    /\ ConnectHonest

SeamInv == PhaseInv /\ TypesInv /\ EngineInv /\ RetryInv

\* What a statement that is about to run looks like.
Bounded(st) ==
    /\ st.count = 1 /\ st.root = "select" /\ st.inner = {}
    /\ st.cap \in 0..Limit

BoundsInv ==
    /\ selected \subseteq Accessible /\ targets \subseteq Accessible /\ toQuery \subseteq Accessible
    /\ step \in {"generate", "check", "connect", "ran"} => asked \in Accessible
    /\ step = "check" => sql \in Statements
    /\ step \in {"connect", "ran"} => Bounded(sql)
    /\ QuestionInBounds

-----------------------------------------------------------------------------
(* The seam itself. *)

\* Every surface has a policy, of at least one attempt.
LEMMA PolicyType ==
    ASSUME NEW s
    PROVE  Policy(s).attempts \in Nat \ {0} /\ Policy(s).deadline \in Nat
  BY DEF Policy

\* A login that was refused is classified as permanent, whatever else matches.
LEMMA AuthPermanent ==
    ASSUME NEW refusal, "auth" \in refusal
    PROVE  Classify(refusal) \in PermanentCategories
  BY DEF Classify, PermanentCategories

\* The seam is never granted more attempts than its surface has.
LEMMA AttemptsCapped ==
    ASSUME NEW s, NEW category
    PROVE  /\ MaxAttemptsFor(s, category) <= Policy(s).attempts
           /\ MaxAttemptsFor(s, category) \in Nat
           /\ category \in PermanentCategories => MaxAttemptsFor(s, category) = 1
  BY PolicyType DEF MaxAttemptsFor

\* A handshake that is refused.
LEMMA RefusalKept ==
    ASSUME SeamInv, dialect = "sql", NEW refusal \in Refusals, HandshakeRefused(refusal),
           UNCHANGED <<dialect, phase>>
    PROVE  SeamInv'
  <1> DEFINE category == Classify(refusal)
  <1> DEFINE auth == "auth" \in refusal
  <1>1. /\ at = "handshake" /\ UNCHANGED <<surface, attempt, dialect, phase>>
        /\ elapsed \in Int /\ delay \in Int /\ attempt \in Nat /\ attempt = history.sent /\ attempt >= 1
        /\ attempt <= Policy(surface).attempts
        /\ history \in [sent : Nat, lastStart : Int, refused : Nat] /\ history.refused = 0
        /\ history.sent > 1 => history.lastStart < Policy(surface).deadline
    <2>1. ~(history.refused > 0)
      BY DEF SeamInv, RetryInv, ConnectHonest, HandshakeRefused
    <2> QED
      BY <2>1 DEF HandshakeRefused, SeamInv, TypesInv, RetryInv, ConnectHonest
  <1>2. elapsed' \in Int
    BY <1>1, RetryAssumption DEF HandshakeRefused, RetryAssumption
  <1>3. /\ history' \in [sent : Nat, lastStart : Int, refused : Nat]
        /\ history'.sent = history.sent /\ history'.lastStart = history.lastStart
        /\ history'.refused = IF auth THEN 1 ELSE 0
    BY <1>1 DEF HandshakeRefused
  <1>4. IF attempt >= MaxAttemptsFor(surface, category) THEN GiveUp(category) ELSE Backoff(category)
    BY DEF HandshakeRefused
  <1>5. engines' = IF EnginePerAttempt(surface) THEN 0 ELSE 1
    BY <1>1 DEF HandshakeRefused, SeamInv, EngineInv, TypesInv, Holding, EnginePerAttempt
  <1>6. PhaseInv /\ surface \in {"study", "extract", "probe", "chat"}
        /\ dialect = "sql"
    BY DEF SeamInv, TypesInv
  <1>7. CASE GiveUp(category)
    <2>1. at' = "failed" /\ UNCHANGED delay /\ failure' = [category |-> category, attempts |-> attempt]
      BY <1>7 DEF GiveUp
    <2>2. auth => category \in PermanentCategories
      BY AuthPermanent
    <2>3. TypesInv' /\ PhaseInv'
      BY <1>1, <1>2, <1>3, <1>6, <2>1 DEF TypesInv, PhaseInv, Places
    <2>4. EngineInv'
      BY <1>1, <1>5, <1>6, <2>1 DEF EngineInv, Holding, EnginePerAttempt
    <2>5. ConnectHonest'
      BY <1>1, <1>3, <2>1, <2>2 DEF ConnectHonest
    <2> QED
      BY <1>1, <1>3, <1>6, <2>1, <2>3, <2>4, <2>5 DEF SeamInv, RetryInv
  <1>8. CASE /\ attempt < MaxAttemptsFor(surface, category)
             /\ at' = "backoff" /\ delay' \in Int /\ elapsed' + delay' < Policy(surface).deadline
    <2>1. ~auth /\ attempt < Policy(surface).attempts
      BY <1>1, <1>8, AuthPermanent, AttemptsCapped, PolicyType
    <2>2. TypesInv' /\ PhaseInv'
      BY <1>1, <1>2, <1>3, <1>6, <1>8 DEF TypesInv, PhaseInv, Places
    <2>3. EngineInv'
      BY <1>1, <1>5, <1>6, <1>8 DEF EngineInv, Holding, EnginePerAttempt
    <2>4. ConnectHonest'
      BY <1>1, <1>3, <1>8, <2>1 DEF ConnectHonest
    <2> QED
      BY <1>1, <1>3, <1>6, <1>8, <2>1, <2>2, <2>3, <2>4 DEF SeamInv, RetryInv
  <1>9. ~(attempt >= MaxAttemptsFor(surface, category)) => attempt < MaxAttemptsFor(surface, category)
    BY <1>1, AttemptsCapped
  <1>10. ASSUME NEW wait \in Int, ~PastDeadline(surface, elapsed', wait)
         PROVE  elapsed' + wait < Policy(surface).deadline
    BY <1>2, <1>10, PolicyType DEF PastDeadline
  <1> QED
    BY <1>4, <1>7, <1>8, <1>9, <1>10 DEF Backoff

\* A step of the seam on a surface that speaks SQL.
LEMMA ConnectKept ==
    ASSUME SeamInv, dialect = "sql", ConnectStep, UNCHANGED <<dialect, phase>>
    PROVE  SeamInv'
  <1> USE PolicyType DEF Places
  <1>0. PhaseInv /\ TypesInv /\ EngineInv /\ RetryInv /\ ConnectHonest
    BY DEF SeamInv, RetryInv
  <1>1. CASE OpenSurface
    <2>1. /\ at = "idle" /\ at' = "attempt" /\ engines = 0
          /\ UNCHANGED <<surface, dialect, phase, attempt, elapsed, delay, failure, history>>
          /\ engines' = IF EnginePerAttempt(surface) THEN 0 ELSE 1
      BY <1>0, <1>1 DEF OpenSurface, EngineInv, Holding
    <2>2. TypesInv' /\ PhaseInv'
      BY <1>0, <2>1 DEF TypesInv, PhaseInv
    <2>3. EngineInv'
      BY <1>0, <2>1 DEF EngineInv, Holding, EnginePerAttempt, TypesInv
    <2>4. RetryInv'
      BY <1>0, <2>1 DEF RetryInv, ConnectHonest, NoHistory, TypesInv
    <2> QED
      BY <2>2, <2>3, <2>4 DEF SeamInv
  <1>2. CASE Acquire
    <2>1. /\ at = "attempt" /\ at' = "handshake" /\ attempt' = attempt + 1
          /\ UNCHANGED <<surface, dialect, phase, elapsed, delay, failure>>
          /\ history' \in [sent : Nat, lastStart : Int, refused : Nat]
          /\ history'.sent = history.sent + 1 /\ history'.lastStart = elapsed
          /\ history'.refused = history.refused
      <3>1. history' = [history EXCEPT !.sent = @ + 1, !.lastStart = elapsed]
        BY <1>2 DEF Acquire
      <3>2. history \in [sent : Nat, lastStart : Int, refused : Nat] /\ elapsed \in Int
        BY <1>0 DEF TypesInv
      <3>3. history' = [sent |-> history.sent + 1, lastStart |-> elapsed, refused |-> history.refused]
        BY <3>1, <3>2
      <3> QED
        BY <1>2, <3>2, <3>3 DEF Acquire
    <2>2. TypesInv' /\ PhaseInv'
      BY <1>0, <2>1 DEF TypesInv, PhaseInv
    <2>3. EngineInv'
      BY <1>0, <1>2 DEF Acquire, EngineInv, Holding, EnginePerAttempt, TypesInv
    <2>4. RetryInv'
      BY <1>0, <2>1 DEF RetryInv, ConnectHonest, TypesInv
    <2> QED
      BY <2>2, <2>3, <2>4 DEF SeamInv
  <1>3. CASE HandshakeAccepted
    <2>1. /\ at = "handshake" /\ at' = "up" /\ elapsed' \in Int
          /\ UNCHANGED <<surface, dialect, phase, attempt, delay, failure, history>>
      BY <1>0, <1>3, RetryAssumption DEF HandshakeAccepted, TypesInv, RetryAssumption
    <2>2. TypesInv' /\ PhaseInv'
      BY <1>0, <2>1 DEF TypesInv, PhaseInv
    <2>3. EngineInv'
      BY <1>0, <1>3 DEF HandshakeAccepted, EngineInv, Holding, TypesInv
    <2>4. RetryInv'
      BY <1>0, <2>1 DEF RetryInv, ConnectHonest, TypesInv
    <2> QED
      BY <2>2, <2>3, <2>4 DEF SeamInv
  <1>4. CASE Wake
    <2>1. /\ at = "backoff" /\ at' = "attempt" /\ elapsed' = elapsed + delay /\ delay' = 0
          /\ UNCHANGED <<surface, dialect, phase, attempt, failure, history, engines>>
      BY <1>4 DEF Wake
    <2>2. TypesInv' /\ PhaseInv'
      BY <1>0, <2>1 DEF TypesInv, PhaseInv
    <2>3. EngineInv'
      BY <1>0, <2>1 DEF EngineInv, Holding, TypesInv
    <2>4. RetryInv'
      BY <1>0, <2>1 DEF RetryInv, ConnectHonest, TypesInv
    <2> QED
      BY <2>2, <2>3, <2>4 DEF SeamInv
  <1>5. CASE CancelConnect
    <2>1. /\ at \in {"handshake", "backoff"} /\ at' = "cancelled"
          /\ UNCHANGED <<surface, dialect, phase, attempt, elapsed, delay, failure, history>>
      BY <1>5 DEF CancelConnect
    <2>2. TypesInv' /\ PhaseInv'
      BY <1>0, <2>1 DEF TypesInv, PhaseInv
    <2>3. EngineInv'
      BY <1>0, <1>5 DEF CancelConnect, EngineInv, Holding, EnginePerAttempt, TypesInv
    <2>4. RetryInv'
      BY <1>0, <2>1 DEF RetryInv, ConnectHonest, TypesInv
    <2> QED
      BY <2>2, <2>3, <2>4 DEF SeamInv
  <1>6. CASE CloseSurface
    <2>1. /\ surface # "study" /\ at \in {"up", "failed", "cancelled"} /\ at' = "closed"
          /\ UNCHANGED <<surface, dialect, phase, attempt, elapsed, delay, failure, history>>
      BY <1>6 DEF CloseSurface
    <2>2. TypesInv' /\ PhaseInv'
      BY <1>0, <2>1 DEF TypesInv, PhaseInv
    <2>3. EngineInv'
      BY <1>0, <1>6 DEF CloseSurface, EngineInv, Holding, TypesInv
    <2>4. RetryInv'
      BY <1>0, <2>1 DEF RetryInv, ConnectHonest, TypesInv
    <2> QED
      BY <2>2, <2>3, <2>4 DEF SeamInv
  <1> QED
    BY <1>1, <1>2, <1>3, <1>4, <1>5, <1>6, RefusalKept DEF ConnectStep

-----------------------------------------------------------------------------
(* Its two users. *)

\* The end of a study: the finally disposes the one engine it holds.
LEMMA DisposeKept ==
    ASSUME SeamInv, surface = "study", at # "closed", Dispose, phase' = "done",
           UNCHANGED <<surface, dialect, attempt, elapsed, delay, failure, history>>
    PROVE  SeamInv'
  <1>1. PhaseInv' /\ TypesInv'
    BY DEF SeamInv, PhaseInv, TypesInv, Dispose, Places
  <1>2. EngineInv'
    BY DEF SeamInv, EngineInv, Holding, Dispose, TypesInv, Places
  <1>3. RetryInv'
    BY DEF SeamInv, RetryInv, ConnectHonest, Dispose, TypesInv
  <1> QED
    BY <1>1, <1>2, <1>3 DEF SeamInv

\* The steps of a study, whose phases keep the session the seam opened.
LEMMA StudyKept ==
    ASSUME SeamInv, surface # "chat", StudyNext
    PROVE  SeamInv'
  <1>0. PhaseInv /\ TypesInv /\ EngineInv /\ RetryInv
    BY DEF SeamInv
  <1>1. CASE SqlConnect
    BY <1>1, ConnectKept DEF SqlConnect
  <1>2. CASE /\ UNCHANGED <<connectVars, dialect>>
             /\ phase' \in {"inventory", "columns", "sampling", "describing", "assembling"}
             /\ phase \notin {"connecting", "done"}
    <2>1. UNCHANGED <<surface, at, attempt, elapsed, delay, failure, engines, history, dialect>>
      BY <1>2 DEF connectVars
    <2>2. PhaseInv' /\ TypesInv'
      BY <1>0, <1>2, <2>1 DEF PhaseInv, TypesInv
    <2>3. EngineInv' /\ RetryInv'
      BY <1>0, <2>1 DEF EngineInv, RetryInv, Holding, ConnectHonest
    <2> QED
      BY <2>2, <2>3 DEF SeamInv
  <1>3. ASSUME /\ phase' = "done" /\ Dispose
               /\ UNCHANGED <<surface, attempt, elapsed, delay, failure, history, dialect>>
               /\ \/ phase \notin {"connecting", "done"}
                  \/ surface = "study" /\ at # "closed"
        PROVE  SeamInv'
    BY <1>0, <1>3, DisposeKept DEF PhaseInv
  <1>4. ASSUME NEW p, NEW key, NEW n, Raise(p, key, n),
               phase \notin {"connecting", "done"} \/ (surface = "study" /\ at # "closed")
        PROVE  SeamInv'
    BY <1>3, <1>4 DEF Raise
  <1>5. CASE MongoClient
    <2>1. dialect = "mongodb" /\ at = "idle" /\ surface = "study" /\ engines = 0
      BY <1>0, <1>5 DEF MongoClient, TypesInv, EngineInv, Holding
    <2>2. CASE \E key \in {"MONGO_DRIVER_MISSING", "CONNECT_REFUSED"} : Raise("CONNECT", key, 0)
      BY <1>4, <2>1, <2>2
    <2>3. CASE /\ at' = "handshake" /\ engines' = engines + 1
               /\ UNCHANGED <<surface, attempt, elapsed, delay, failure, history, dialect, phase>>
      <3>1. PhaseInv' /\ TypesInv'
        BY <1>0, <2>1, <2>3 DEF PhaseInv, TypesInv, Places
      <3>2. EngineInv' /\ RetryInv'
        BY <1>0, <2>1, <2>3 DEF EngineInv, RetryInv, Holding, ConnectHonest, NoHistory
      <3> QED
        BY <3>1, <3>2 DEF SeamInv
    <2> QED
      BY <1>5, <2>2, <2>3 DEF MongoClient
  <1>6. CASE MongoPing
    <2>1. dialect = "mongodb" /\ at = "handshake" /\ surface = "study" /\ engines = 1
      BY <1>0, <1>6 DEF MongoPing, TypesInv, EngineInv, Holding
    <2>2. CASE \E key \in {"CONNECT_TIMEOUT", "CONNECT_AUTH_FAILED", "CONNECT_REFUSED"} :
                  Raise("CONNECT", key, 0)
      BY <1>4, <2>1, <2>2
    <2>3. CASE /\ at' = "up"
               /\ UNCHANGED <<surface, attempt, elapsed, delay, failure, history, dialect, phase, engines>>
      <3>1. PhaseInv' /\ TypesInv'
        BY <1>0, <2>1, <2>3 DEF PhaseInv, TypesInv, Places
      <3>2. EngineInv' /\ RetryInv'
        BY <1>0, <2>1, <2>3 DEF EngineInv, RetryInv, Holding, ConnectHonest, NoHistory
      <3> QED
        BY <3>1, <3>2 DEF SeamInv
    <2> QED
      BY <1>6, <2>2, <2>3 DEF MongoPing
  <1>7. CASE ConnectFails
    BY <1>4, <1>7 DEF ConnectFails
  <1>8. CASE StudyCancelled
    BY <1>3, <1>8 DEF StudyCancelled
  <1>9. CASE Connected
    <2>1. /\ surface = "study" /\ at = "up" /\ phase' = "inventory"
          /\ attempt' = 0 /\ elapsed' = 0 /\ history' = NoHistory
          /\ UNCHANGED <<surface, at, delay, failure, engines, dialect>>
      BY <1>9 DEF Connected, NextPhase
    <2>2. PhaseInv' /\ TypesInv'
      BY <1>0, <2>1 DEF PhaseInv, TypesInv, NoHistory
    <2>3. EngineInv' /\ RetryInv'
      BY <1>0, <2>1 DEF EngineInv, RetryInv, Holding, ConnectHonest, NoHistory
    <2> QED
      BY <2>2, <2>3 DEF SeamInv
  <1>10. CASE InventoryFails
    BY <1>4, <1>10 DEF InventoryFails
  <1>11. CASE Assemble
    BY <1>3, <1>11 DEF Assemble
  <1>12. CASE Inventory \/ ColumnsDone \/ SamplingDone \/ Summarise
    BY <1>2, <1>12 DEF Inventory, ColumnsDone, SamplingDone, Summarise, NextPhase
  <1>13. ASSUME NEW t \in Tables,
                \/ ReadColumns(t) \/ InferColumns(t) \/ ColumnsFail(t)
                \/ SampleRows(t) \/ SampleRefused(t) \/ SampleDocs(t)
                \/ SampleFails(t) \/ SampleNoMore(t)
                \/ DescribeNoMore(t) \/ DescribeNothing(t) \/ Describe(t) \/ DescribeFails(t)
         PROVE  SeamInv'
    <2>1. CASE ReadColumns(t) \/ InferColumns(t) \/ ColumnsFail(t)
      BY <1>2, <2>1 DEF ReadColumns, InferColumns, ColumnsFail, Keep
    <2>2. CASE SampleRows(t) \/ SampleRefused(t) \/ SampleDocs(t) \/ SampleFails(t) \/ SampleNoMore(t)
      BY <1>2, <2>2 DEF SampleRows, SampleRefused, SampleDocs, SampleFails, SampleNoMore, Samples
    <2>3. CASE DescribeNoMore(t) \/ DescribeNothing(t) \/ Describe(t) \/ DescribeFails(t)
      BY <1>2, <2>3 DEF DescribeNoMore, DescribeNothing, Describe, DescribeFails
    <2> QED
      BY <1>13, <2>1, <2>2, <2>3
  <1> QED
    BY <1>1, <1>5, <1>6, <1>7, <1>8, <1>9, <1>10, <1>11, <1>12, <1>13 DEF StudyNext

\* The steps of a chat turn: the seam, its end, and those it does not see.
LEMMA TurnKept ==
    ASSUME SeamInv, surface = "chat", GroundNext, UNCHANGED studyOnlyVars
    PROVE  SeamInv'
  <1>0. PhaseInv /\ TypesInv /\ EngineInv /\ RetryInv /\ dialect = "sql" /\ UNCHANGED <<dialect, phase>>
    BY DEF SeamInv, TypesInv, studyOnlyVars
  <1>1. CASE Connect
    BY <1>0, <1>1, ConnectKept DEF Connect
  <1>2. ASSUME SeamForgets, UNCHANGED <<surface, engines>>,
               \/ at = "up" /\ UNCHANGED at
               \/ at = "closed" /\ at' = "idle"
        PROVE  SeamInv'
    <2>1. PhaseInv' /\ TypesInv'
      <3>1. phase # "done" /\ phase \in {"connecting"}
        BY <1>0 DEF PhaseInv
      <3> QED
        BY <1>0, <1>2, <3>1 DEF PhaseInv, TypesInv, SeamForgets, NoHistory, Places
    <2>2. EngineInv' /\ RetryInv'
      BY <1>0, <1>2 DEF EngineInv, RetryInv, Holding, ConnectHonest, SeamForgets, NoHistory
    <2> QED
      BY <2>1, <2>2 DEF SeamInv
  <1>3. CASE RunSql
    BY <1>2, <1>3 DEF RunSql
  <1>4. CASE SourceDone
    BY <1>2, <1>4 DEF SourceDone, ExecuteEnds
  <1>5. CASE UNCHANGED connectVars
    BY <1>0, <1>5 DEF connectVars, SeamInv, PhaseInv, TypesInv, EngineInv, RetryInv, Holding, ConnectHonest
  <1>6. CASE \E s \in Accessible : SourceTaken(s) \/ PassOver(s) \/ PickSource(s) \/ SketchRaises(s)
    BY <1>5, <1>6 DEF SourceTaken, PassOver, PickSource, SketchRaises, Takes
  <1>7. CASE \/ RouteSources \/ LoadTargets \/ GenerateSql \/ CheckSql \/ EngineRefused
             \/ QueriesDone \/ RetrieveContext \/ Reflect
    BY <1>5, <1>7
       DEF RouteSources, LoadTargets, GenerateSql, CheckSql, EngineRefused, QueriesDone,
           RetrieveContext, Reflect
  <1> QED
    BY <1>1, <1>3, <1>4, <1>6, <1>7 DEF GroundNext

\* The initial states: nothing was sent and no engine is open.
LEMMA SeamStarts == AccessInit => SeamInv
  BY RetryAssumption
     DEF AccessInit, StudyInit, ConnectInit, RetryAssumption, SeamInv, PhaseInv, TypesInv, EngineInv,
         RetryInv, Holding, ConnectHonest, Places, NoHistory

\* Every step of the composition.
LEMMA SeamKept ==
    SeamInv /\ [AccessNext]_<<studyVars, groundVars, hardenVars>> => SeamInv'
  <1> SUFFICES ASSUME SeamInv, [AccessNext]_<<studyVars, groundVars, hardenVars>>
               PROVE  SeamInv'
    OBVIOUS
  <1>1. CASE surface # "chat" /\ StudyNext
    BY <1>1, StudyKept
  <1>2. CASE surface = "chat" /\ GroundNext /\ UNCHANGED studyOnlyVars
    BY <1>2, TurnKept
  <1>3. CASE UNCHANGED <<studyVars, groundVars, hardenVars>>
    <2>1. UNCHANGED <<surface, at, attempt, elapsed, delay, failure, engines, history, dialect, phase>>
      BY <1>3 DEF studyVars, connectVars
    <2> QED
      BY <2>1 DEF SeamInv, PhaseInv, TypesInv, EngineInv, RetryInv, Holding, ConnectHonest
  <1> QED
    BY <1>1, <1>2, <1>3 DEF AccessNext

\* The DBConnectionFailed an admin or the model reads is honest, and a refused
\* login is not repeated, on all four surfaces of connect_with_retry.
THEOREM HonestConnects == AccessSpec => []ConnectHonest
  <1>1. SeamInv => ConnectHonest
    BY DEF SeamInv, RetryInv
  <1> QED
    BY SeamStarts, SeamKept, <1>1, PTL DEF AccessSpec

\* No surface leaves an engine behind, however it ends.
THEOREM EnginesReleased == AccessSpec => []EngineReleased
  <1>1. SeamInv => EngineReleased
    BY DEF SeamInv, EngineInv, EngineReleased, Holding
  <1> QED
    BY SeamStarts, SeamKept, <1>1, PTL DEF AccessSpec

-----------------------------------------------------------------------------
(* The questions. *)

\* What passes validate_sql and inject_limit is bounded.
LEMMA SafeIsBounded ==
    ASSUME NEW st \in Statements, Validate(st) = "safe"
    PROVE  Bounded(InjectLimit(st))
  <1> USE GroundingAssumption DEF GroundingAssumption
  <1>1. /\ st \in [count : Nat, root : {"select", "setop", "other"},
                  inner : SUBSET {"setop", "write"}, cap : Nat \cup {Uncapped}]
        /\ Limit \in Nat
    OBVIOUS
  <1>2. st.count = 1 /\ st.root = "select" /\ st.inner = {}
    BY <1>1 DEF Validate
  <1>3. CASE st.cap # Uncapped /\ st.cap <= Limit
    BY <1>1, <1>2, <1>3 DEF InjectLimit, Bounded
  <1>4. CASE ~(st.cap # Uncapped /\ st.cap <= Limit)
    <2>1. InjectLimit(st) = [st EXCEPT !.cap = Limit]
      BY <1>4 DEF InjectLimit
    <2> QED
      BY <1>1, <1>2, <2>1 DEF Bounded
  <1> QED
    BY <1>3, <1>4

\* The initial states: nothing was asked.
LEMMA BoundsStart == AccessInit => BoundsInv
  BY DEF AccessInit, GroundInit, BoundsInv, QuestionInBounds, None

\* The chunks of the merge were there, or belong to selected sources.
LEMMA MergeOf ==
    ASSUME BoundsInv, NEW schema \in SUBSET Documentable, NEW found \in SUBSET selected,
           NEW c \in Merge({SchemaChunk(s) : s \in schema}, {VectorChunk(s) : s \in found})
    PROVE  c.of \in Accessible
  <1>1. c \in {SchemaChunk(s) : s \in schema} \cup {VectorChunk(s) : s \in found} \cup chunks \cup rows
    BY DEF Merge
  <1>2. selected \subseteq Accessible /\ Documentable \subseteq selected
    BY DEF BoundsInv, Documentable
  <1>3. \A d \in chunks \cup rows : d.of \in Accessible
    BY DEF BoundsInv, QuestionInBounds
  <1> QED
    BY <1>1, <1>2, <1>3 DEF SchemaChunk, VectorChunk

\* Every step of a turn keeps it in bounds.
LEMMA BoundsKept == BoundsInv /\ (GroundNext \/ UNCHANGED groundVars) => BoundsInv'
  <1> SUFFICES ASSUME BoundsInv, GroundNext \/ UNCHANGED groundVars PROVE BoundsInv'
    OBVIOUS
  <1> USE DEF routeVars, queryLoop, queryVars, Bounded
  <1>1. CASE UNCHANGED groundVars
    BY <1>1 DEF groundVars, BoundsInv, QuestionInBounds
  <1>2. CASE Connect
    BY <1>2 DEF Connect, groundVars, BoundsInv, QuestionInBounds
  <1>3. ASSUME NEW s \in Accessible, SourceTaken(s) \/ PassOver(s) \/ PickSource(s) \/ SketchRaises(s)
        PROVE  BoundsInv'
    BY <1>3 DEF SourceTaken, PassOver, PickSource, SketchRaises, Takes, Skip, BoundsInv, QuestionInBounds
  <1>4. CASE RouteSources
    BY <1>4 DEF RouteSources, Selection, QueryTargets, BoundsInv, QuestionInBounds
  <1>5. CASE LoadTargets
    BY <1>5 DEF LoadTargets, BoundsInv, QuestionInBounds
  <1>6. CASE GenerateSql
    BY <1>6 DEF GenerateSql, Skip, NextSource, BoundsInv, QuestionInBounds
  <1>7. CASE CheckSql
    <2>1. sql \in Statements /\ asked \in Accessible
      BY <1>7 DEF CheckSql, BoundsInv
    <2>2. CASE Validate(sql) = "safe"
      <3>1. Bounded(sql') /\ UNCHANGED <<selected, targets, toQuery, asked, chunks, rows, sent>>
            /\ step' = "connect"
        BY <1>7, <2>1, <2>2, SafeIsBounded DEF CheckSql, NextSource
      <3> QED
        BY <2>1, <3>1 DEF BoundsInv, QuestionInBounds
    <2>3. CASE Validate(sql) # "safe"
      BY <1>7, <2>3 DEF CheckSql, Skip, NextSource, BoundsInv, QuestionInBounds
    <2> QED
      BY <2>2, <2>3
  <1>8. CASE EngineRefused
    BY <1>8 DEF EngineRefused, Skip, NextSource, BoundsInv, QuestionInBounds
  <1>9. CASE RunSql
    <2>1. Bounded(sql) /\ asked \in Accessible
      BY <1>9 DEF RunSql, BoundsInv
    <2>2. /\ UNCHANGED <<selected, targets, toQuery, asked, sql, chunks, rows>> /\ step' = "ran"
          /\ \A e \in sent' : e \in sent \/ (e.source = asked /\ e.what = sql)
      BY <1>9 DEF RunSql, NextSource
    <2> QED
      BY <2>1, <2>2 DEF BoundsInv, QuestionInBounds
  <1>10. CASE SourceDone
    <2>1. asked \in Accessible /\ step' = "pick"
          /\ UNCHANGED <<selected, targets, toQuery, chunks, sent>>
      BY <1>10 DEF SourceDone, ExecuteEnds, BoundsInv
    <2>2. \A c \in rows' : c \in rows \/ c.of = asked
      BY <1>10 DEF SourceDone, RowChunks, RowsFrom
    <2> QED
      BY <2>1, <2>2 DEF BoundsInv, QuestionInBounds
  <1>11. CASE QueriesDone
    BY <1>11 DEF QueriesDone, BoundsInv, QuestionInBounds
  <1>12. CASE RetrieveContext
    <2>1. UNCHANGED <<selected, targets, toQuery, asked, step, sql, rows, sent>>
      BY <1>12 DEF RetrieveContext
    <2>2. \A c \in chunks' : c.of \in Accessible
      BY <1>12, MergeOf DEF RetrieveContext
    <2> QED
      BY <2>1, <2>2 DEF BoundsInv, QuestionInBounds
  <1>13. CASE Reflect
    BY <1>13 DEF Reflect, BoundsInv, QuestionInBounds
  <1> QED
    BY <1>1, <1>2, <1>3, <1>4, <1>5, <1>6, <1>7, <1>8, <1>9, <1>10, <1>11, <1>12, <1>13 DEF GroundNext

\* Whatever the models answer in source_router and text_to_query, a question
\* touches only sources of its asker, with one bounded SELECT at a time.
THEOREM QuestionsBounded == AccessSpec => []QuestionInBounds
  <1>1. [AccessNext]_<<studyVars, groundVars, hardenVars>> => GroundNext \/ UNCHANGED groundVars
    BY DEF AccessNext
  <1>2. BoundsInv => QuestionInBounds
    BY DEF BoundsInv
  <1> QED
    BY BoundsStart, BoundsKept, <1>1, <1>2, PTL DEF AccessSpec

-----------------------------------------------------------------------------
(* The document of a study. *)

Tells(errs, p, t) == \E e \in errs : e[1] = p /\ e[3] \in {t, Everything}

\* Behind each loop: what it has left out so far, an error tells.
CoverInv ==
    /\ phase \in {"connecting", "inventory"} => listed = {} /\ kept = {} /\ skipped = {}
    /\ phase \in {"columns", "sampling", "describing", "assembling"} =>
         /\ total \in Nat /\ Cardinality(listed) \in Nat /\ Cardinality(listed) <= total
    /\ phase = "columns" => /\ kept \cup skipped \cup todo = listed
                            /\ \A t \in listed \ (kept \cup todo) : Tells(errors, "COLUMNS", t)
    /\ phase \in {"sampling", "describing", "assembling"} =>
         /\ kept \cup skipped = listed
         /\ \A t \in listed \ kept : Tells(errors, "COLUMNS", t)
    /\ phase \in {"sampling", "describing"} => todo \subseteq kept
    /\ phase = "describing" => \A t \in kept \ (answered \cup todo) : Tells(errors, "DESCRIBING", t)
    /\ phase = "assembling" => \A t \in kept \ answered : Tells(errors, "DESCRIBING", t)
    /\ document.made = TRUE => phase = "done" /\ StudyAccounts

LEMMA ErrorTells ==
    ASSUME NEW p, NEW key, NEW t, NEW u \in {t, Everything}, NEW errs, <<p, key, u>> \in errs
    PROVE  Tells(errs, p, t)
<1> DEFINE e == <<p, key, u>>
<1>1. e[1] = p /\ e[3] \in {t, Everything}
  OBVIOUS
<1> QED
  BY <1>1 DEF Tells

\* What ends or opens a study without its tables.
LEMMA CoverQuiet ==
    ASSUME CoverInv, UNCHANGED <<inventoryVars, tableVars, document>>,
           phase' = "done" \/ (phase' = phase /\ todo' = todo)
               \/ (phase = "connecting" /\ phase' = "inventory")
    PROVE  CoverInv'
<1>1. UNCHANGED <<total, listed, kept, answered, errors, skipped, document>>
  BY DEF inventoryVars, tableVars
<1>2. StudyAccounts' <=> StudyAccounts
  BY <1>1 DEF StudyAccounts, Told
<1> QED
  BY <1>1, <1>2 DEF CoverInv

\* The relations after the cap are not more than there were.
LEMMA CapCounts ==
    ASSUME NEW found \in SUBSET Tables, NEW first \in Capped(found)
    PROVE  /\ Cardinality(found) \in Nat /\ Cardinality(first) \in Nat
           /\ Cardinality(first) <= Cardinality(found)
<1>1. IsFiniteSet(found)
  BY FS_Subset, StudyAssumption
<1>2. first \subseteq found
  BY DEF Capped
<1> QED
  BY <1>1, <1>2, FS_Subset, FS_CardinalityType

\* A step of a loop: a table is left out of it, kept, answered for, or told.
LEMMA CoverStudy ==
    ASSUME CoverInv, StudyNext
    PROVE  CoverInv'
<1>1. CASE SqlConnect \/ MongoClient \/ MongoPing \/ ConnectFails \/ StudyCancelled \/ Connected
           \/ InventoryFails
  BY <1>1, CoverQuiet DEF SqlConnect, MongoClient, MongoPing, ConnectFails, StudyCancelled, Connected,
     InventoryFails, Raise, NextPhase, loopVars
<1>2. CASE Inventory
  <2>1. PICK found \in SUBSET Tables : \E first \in Capped(found) :
            total' = Cardinality(found) /\ listed' = first /\ NextPhase("columns", first)
    BY <1>2 DEF Inventory
  <2>2. PICK first \in Capped(found) :
            total' = Cardinality(found) /\ listed' = first /\ NextPhase("columns", first)
    BY <2>1
  <2>3. phase = "inventory" /\ UNCHANGED <<kept, skipped, document>>
    BY <1>2 DEF Inventory, tableVars
  <2> QED
    BY <2>2, <2>3, CapCounts DEF CoverInv, NextPhase
<1>3. ASSUME NEW t \in Tables, ReadColumns(t) \/ InferColumns(t) \/ ColumnsFail(t) PROVE CoverInv'
  <2>1. /\ phase = "columns" /\ t \in todo /\ phase' = phase /\ todo' = todo \ {t}
        /\ UNCHANGED <<total, listed, document>>
    BY <1>3 DEF ReadColumns, InferColumns, Keep, ColumnsFail, inventoryVars
  <2>2. \/ kept' = kept \cup {t} /\ UNCHANGED <<skipped, errors>>
        \/ /\ skipped' = skipped \cup {t} /\ UNCHANGED kept
           /\ \E key : errors' = errors \cup {<<"COLUMNS", key, t>>}
    BY <1>3 DEF ReadColumns, InferColumns, Keep, ColumnsFail, Report
  <2>3. Tells(errors', "COLUMNS", t) \/ t \in kept'
    BY <2>2, ErrorTells
  <2>4. \A u : Tells(errors, "COLUMNS", u) => Tells(errors', "COLUMNS", u)
    BY <2>2 DEF Tells
  <2> QED
    BY <2>1, <2>2, <2>3, <2>4 DEF CoverInv
<1>4. CASE ColumnsDone
  BY <1>4 DEF ColumnsDone, NextPhase, inventoryVars, tableVars, CoverInv
<1>5. ASSUME NEW t \in Tables,
             SampleRows(t) \/ SampleRefused(t) \/ SampleDocs(t) \/ SampleFails(t) \/ SampleNoMore(t)
      PROVE  CoverInv'
  <2>1. /\ phase = "sampling" /\ phase' = phase /\ t \in todo /\ todo' = todo \ {t}
        /\ UNCHANGED <<total, listed, kept, answered, document>>
        /\ errors \subseteq errors' /\ skipped \subseteq skipped' /\ skipped' \subseteq skipped \cup {t}
    BY <1>5 DEF SampleRows, SampleRefused, SampleDocs, SampleFails, SampleNoMore, Samples, Visit,
       Report, inventoryVars, tableVars
  <2>2. \A p, u : Tells(errors, p, u) => Tells(errors', p, u)
    BY <2>1 DEF Tells
  <2> QED
    BY <2>1, <2>2 DEF CoverInv
<1>6. CASE SamplingDone
  <2>1. /\ phase = "sampling" /\ UNCHANGED <<total, listed, kept, answered, skipped, document>>
        /\ errors \subseteq errors'
        /\ \/ phase' = "describing" /\ todo' = kept
           \/ phase' = "assembling" /\ (kept = {} \/ \E key : <<"DESCRIBING", key, Everything>> \in errors')
    BY <1>6 DEF SamplingDone, NextPhase, Report, inventoryVars
  <2>2. \A p, u : Tells(errors, p, u) => Tells(errors', p, u)
    BY <2>1 DEF Tells
  <2>3. phase' = "assembling" => \A u \in kept : Tells(errors', "DESCRIBING", u)
    BY <2>1, ErrorTells
  <2> QED
    BY <2>1, <2>2, <2>3 DEF CoverInv
<1>7. ASSUME NEW t \in Tables, DescribeNoMore(t) \/ DescribeNothing(t) \/ Describe(t) \/ DescribeFails(t)
      PROVE  CoverInv'
  <2>1. /\ phase = "describing" /\ phase' = phase /\ t \in todo /\ todo' = todo \ {t}
        /\ UNCHANGED <<total, listed, kept, skipped, document>>
        /\ \/ errors' = errors /\ answered' = answered \cup {t}
           \/ answered' = answered /\ errors' = errors \cup {<<"DESCRIBING", "LLM_BUDGET", Everything>>}
           \/ answered' = answered /\ errors' = errors \cup {<<"DESCRIBING", "NO_SIGNAL", t>>}
           \/ answered' = answered /\ errors' = errors \cup {<<"DESCRIBING", "LLM_ERROR", t>>}
    BY <1>7 DEF DescribeNoMore, DescribeNothing, Describe, DescribeFails, Visit, Report, inventoryVars
  <2>2. \A p, u : Tells(errors, p, u) => Tells(errors', p, u)
    BY <2>1 DEF Tells
  <2>3. t \in answered' \/ Tells(errors', "DESCRIBING", t)
    BY <2>1, ErrorTells
  <2> QED
    BY <2>1, <2>2, <2>3 DEF CoverInv
<1>8. CASE Summarise
  <2>1. /\ phase = "describing" /\ todo = {} /\ phase' = "assembling"
        /\ UNCHANGED <<total, listed, kept, answered, skipped, document>> /\ errors \subseteq errors'
    BY <1>8 DEF Summarise, NextPhase, Report, inventoryVars
  <2>2. \A p, u : Tells(errors, p, u) => Tells(errors', p, u)
    BY <2>1 DEF Tells
  <2> QED
    BY <2>1, <2>2 DEF CoverInv
<1>9. CASE Assemble
  <2>1. /\ phase = "assembling" /\ phase' = "done"
        /\ UNCHANGED <<total, listed, kept, answered, errors, skipped>>
        /\ document'.partial = (errors # {}) /\ document'.coverage = (skipped # {} \/ total > Cardinality(listed))
    BY <1>9 DEF Assemble, inventoryVars, tableVars, Partial, PartialCoverage, Truncated
  <2>2. /\ kept \cup skipped = listed
        /\ \A t \in listed \ kept : Tells(errors, "COLUMNS", t)
        /\ \A t \in kept \ answered : Tells(errors, "DESCRIBING", t)
        /\ total \in Nat /\ Cardinality(listed) \in Nat /\ Cardinality(listed) <= total
    BY <2>1 DEF CoverInv
  <2>3. errors = {} => listed \subseteq answered
    BY <2>2 DEF Tells
  <2>4. skipped = {} /\ ~ (total > Cardinality(listed)) => Cardinality(kept) = total
    <3> SUFFICES ASSUME skipped = {}, ~ (total > Cardinality(listed)) PROVE Cardinality(kept) = total
      OBVIOUS
    <3>1. kept = listed
      BY <2>2
    <3> QED
      BY <2>2, <3>1
  <2>5. StudyAccounts'
    BY <2>1, <2>2, <2>3, <2>4 DEF StudyAccounts, Told, Tells
  <2> QED
    BY <2>1, <2>5 DEF CoverInv
<1> QED
  BY <1>1, <1>2, <1>3, <1>4, <1>5, <1>6, <1>7, <1>8, <1>9 DEF StudyNext

\* What a document leaves out it says, whatever failed on the way.
THEOREM StudiesAccount == AccessSpec => []StudyAccounts
<1>1. AccessInit => CoverInv
  BY DEF AccessInit, StudyInit, CoverInv, NoDocument, Tells
<1>2. CoverInv /\ [AccessNext]_<<studyVars, groundVars, hardenVars>> => CoverInv'
  <2> SUFFICES ASSUME CoverInv, [AccessNext]_<<studyVars, groundVars, hardenVars>> PROVE CoverInv'
    OBVIOUS
  <2>1. CASE StudyNext
    BY <2>1, CoverStudy
  <2>2. CASE UNCHANGED studyOnlyVars
    BY <2>2, CoverQuiet DEF studyOnlyVars, loopVars
  <2>3. CASE UNCHANGED <<studyVars, groundVars, hardenVars>>
    BY <2>3, CoverQuiet DEF studyVars, loopVars
  <2> QED
    BY <2>1, <2>2, <2>3 DEF AccessNext
<1>3. CoverInv => StudyAccounts
  <2> SUFFICES ASSUME CoverInv, document.made PROVE StudyAccounts
    BY DEF StudyAccounts
  <2> QED
    BY DEF CoverInv
<1> QED
  BY <1>1, <1>2, <1>3, PTL DEF AccessSpec

-----------------------------------------------------------------------------
(* The rows of a question. *)

Row(s, k, p) == [id |-> <<"sql", s, k>>, of |-> s, pass |-> p]
RowsOf(s, set) == {c \in set : c.of = s}

\* The rows of a pass are finitely many, numbered through.
Numbered(set, p) ==
    /\ IsFiniteSet(set)
    /\ \A c \in set : \E k \in 1..Cardinality(set) : c = Row(c.of, k, p)

\* All rows a source answered with are there.
Complete(s, entries, set) ==
    \E e \in entries : e.source = s /\ e.works = TRUE /\ Cardinality(RowsOf(s, set)) = e.rows

\* The sources the loop has not settled yet.
Open(query, at_step, s) == query \cup (IF at_step = "pick" THEN {} ELSE {s})

\* In the loop every routed source is open, skipped or complete, and only a
\* complete one has rows; an open one has no rows, and no entry unless its
\* statement has run.
SourcesInv ==
    /\ \A s \in targets \cap visible :
            s \in Open(toQuery, step, asked) \/ s \in passedOver \/ Complete(s, sent, rows)
    /\ \A c \in rows : c.of \notin Open(toQuery, step, asked) /\ c.of \notin passedOver
    /\ \A s \in Open(toQuery, step, asked) : s \notin passedOver
    /\ \A e \in sent : e.works \in BOOLEAN /\ e.rows \in Nat /\ e.source \notin toQuery
    /\ step # "pick" => asked \notin toQuery
    /\ step = "ran" => \E e \in sent : e.source = asked /\ \A d \in sent : d.source = asked => d = e
    /\ step \notin {"pick", "ran"} => \A e \in sent : e.source # asked

\* Chunks of earlier passes are older than the rows.
PassInv ==
    /\ pass \in Nat
    /\ \A c \in chunks : c.pass \in Nat /\ c.pass <= pass
    /\ node \in {"router", "text_to_query", "retrieve_context"} => \A c \in chunks : c.pass < pass
    /\ node \in {"text_to_query", "retrieve_context", "generate"} => Numbered(rows, pass)
    /\ node = "generate" => \A r \in rows :
           r \in chunks \/ \E c \in chunks : c.id = r.id /\ c.pass < r.pass

RowsInv ==
    /\ PassInv
    /\ node = "text_to_query" /\ step = "load" => rows = {}
    /\ node = "text_to_query" /\ step # "load" => SourcesInv

\* n more rows of a source, numbered on.
NextRows(new, set, p, s, n) == new = {Row(s, Cardinality(set) + k, p) : k \in 1..n}

\* What the rows of one answer add: no row of another source, and as many as
\* there are.
LEMMA RowsAdded ==
    ASSUME NEW set, NEW p, Numbered(set, p), NEW s, NEW n \in Nat, RowsOf(s, set) = {},
           NEW new, NextRows(new, set, p, s, n)
    PROVE  /\ Numbered(set \cup new, p)
           /\ Cardinality(RowsOf(s, set \cup new)) = n
           /\ \A t : t # s => RowsOf(t, set \cup new) = RowsOf(t, set)
<1>0. new = {Row(s, Cardinality(set) + k, p) : k \in 1..n}
  BY DEF NextRows
<1> DEFINE m == Cardinality(set)
<1>1. IsFiniteSet(set) /\ m \in Nat
  BY FS_CardinalityType DEF Numbered
<1>2. IsFiniteSet(new) /\ Cardinality(new) = n
  <2> DEFINE f == [k \in 1..n |-> Row(s, m + k, p)]
  <2>1. \A k, l \in 1..n : f[k] = f[l] => k = l
    <3> SUFFICES ASSUME NEW k \in 1..n, NEW l \in 1..n, f[k] = f[l] PROVE k = l
      OBVIOUS
    <3>1. Row(s, m + k, p).id = Row(s, m + l, p).id
      OBVIOUS
    <3>2. <<"sql", s, m + k>>[3] = <<"sql", s, m + l>>[3]
      BY <3>1 DEF Row
    <3> QED
      BY <3>2, <1>1
  <2>2. f \in [1..n -> new]
    BY <1>0
  <2>3. \A c \in new : \E k \in 1..n : f[k] = c
    BY <1>0
  <2>4. f \in Bijection(1..n, new)
    BY <2>1, <2>2, <2>3 DEF Bijection, Injection, Surjection, IsInjective
  <2>5. ExistsBijection(1..n, new)
    BY <2>4 DEF ExistsBijection
  <2>6. IsFiniteSet(1..n) /\ Cardinality(1..n) = n
    BY FS_Interval
  <2> QED
    BY <2>5, <2>6, FS_Bijection
<1>3. \A c \in new : c.of = s
  BY <1>0 DEF Row
<1>4. set \cap new = {}
  BY <1>3 DEF RowsOf
<1>5. IsFiniteSet(set \cup new) /\ Cardinality(set \cup new) = m + n
  BY <1>1, <1>2, <1>4, FS_Union, FS_EmptySet
<1>6. ASSUME NEW c \in set \cup new PROVE \E k \in 1..(m + n) : c = Row(c.of, k, p)
  <2>1. CASE c \in set
    <3>1. PICK k \in 1..m : c = Row(c.of, k, p)
      BY <2>1 DEF Numbered
    <3> QED
      BY <3>1, <1>1
  <2>2. CASE c \in new
    <3>1. PICK k \in 1..n : c = Row(s, m + k, p)
      BY <1>0, <2>2
    <3>2. m + k \in 1..(m + n)
      BY <1>1
    <3> QED
      BY <3>1, <3>2, <1>3, <2>2
  <2> QED
    BY <2>1, <2>2
<1>7. RowsOf(s, set \cup new) = new
  BY <1>3 DEF RowsOf
<1>8. \A t : t # s => RowsOf(t, set \cup new) = RowsOf(t, set)
  BY <1>3 DEF RowsOf
<1> QED
  BY <1>2, <1>5, <1>6, <1>7, <1>8 DEF Numbered

\* Two rows under one id are one row.
LEMMA NumbersDiffer ==
    ASSUME NEW set, NEW p, Numbered(set, p), NEW c \in set, NEW d \in set, c.id = d.id
    PROVE  c = d
<1>1. PICK k \in 1..Cardinality(set) : c = Row(c.of, k, p)
  BY DEF Numbered
<1>2. PICK l \in 1..Cardinality(set) : d = Row(d.of, l, p)
  BY DEF Numbered
<1>3. c.id = <<"sql", c.of, k>> /\ d.id = <<"sql", d.of, l>>
  BY <1>1, <1>2 DEF Row
<1>4. <<"sql", c.of, k>>[2] = <<"sql", d.of, l>>[2] /\ <<"sql", c.of, k>>[3] = <<"sql", d.of, l>>[3]
  BY <1>3
<1>5. c.of = d.of /\ k = l
  BY <1>4
<1> QED
  BY <1>1, <1>2, <1>5

\* RouteSources, and the tasks of a pass that has no rows yet.
LEMMA NoRows == ASSUME NEW p PROVE Numbered({}, p)
  BY FS_EmptySet DEF Numbered

\* A row makes it through the merge, unless an older chunk has its id.
LEMMA MergeKeepsRows ==
    ASSUME Numbered(rows, pass), NEW schema, NEW found,
           NEW r \in rows
    PROVE  LET merged == Merge({SchemaChunk(s) : s \in schema}, {VectorChunk(s) : s \in found})
           IN  r \in merged \/ \E c \in merged : c \in chunks /\ c.id = r.id
<1> DEFINE base == {SchemaChunk(s) : s \in schema} \cup {VectorChunk(s) : s \in found}
           earlier == base \cup {c \in chunks : ~\E d \in base : d.id = c.id}
           merged == Merge({SchemaChunk(s) : s \in schema}, {VectorChunk(s) : s \in found})
<1>1. merged = earlier \cup {c \in rows : ~\E d \in earlier : d.id = c.id}
  BY DEF Merge
<1>2. PICK k \in 1..Cardinality(rows) : r = Row(r.of, k, pass)
  BY DEF Numbered
<1>3. r.id[1] = "sql"
  BY <1>2 DEF Row
<1>4. ASSUME NEW d \in base PROVE d.id # r.id
  <2>1. d.id[1] \in {"schema", "vector"}
    BY <1>4 DEF SchemaChunk, VectorChunk
  <2> QED
    BY <2>1, <1>3
<1> HIDE DEF base
<1>5. \A d \in earlier : d.id = r.id => d \in chunks
  BY <1>4
<1> QED
  BY <1>1, <1>5

\* A source taken out, or a connection step, moves no row.
LEMMA RowsQuiet ==
    ASSUME RowsInv, visible' \subseteq visible,
           UNCHANGED <<node, pass, routeVars, queryLoop, queryVars, chunks>>
    PROVE  RowsInv'
<1>1. UNCHANGED <<node, pass, targets, toQuery, asked, step, passedOver, rows, sent, chunks>>
  BY DEF routeVars, queryLoop, queryVars
<1>2. PassInv'
  BY <1>1 DEF RowsInv, PassInv
<1>3. SourcesInv => SourcesInv'
  BY <1>1 DEF SourcesInv
<1> QED
  BY <1>1, <1>2, <1>3 DEF RowsInv

\* What settles a source without rows: it is skipped.
LEMMA RowsSkip ==
    ASSUME RowsInv, node = "text_to_query", step # "load",
           NEW s, s \in Open(toQuery, step, asked),
           step' = "pick", toQuery' = toQuery \ {s},
           toQuery \cup {s} = Open(toQuery, step, asked),
           passedOver' = passedOver \cup {s},
           UNCHANGED <<node, pass, visible, targets, chunks, rows, sent>>
    PROVE  RowsInv'
<1>1. PassInv'
  BY DEF RowsInv, PassInv
<1>2. SourcesInv
  BY DEF RowsInv
<1>3. Open(toQuery', step', asked') = Open(toQuery, step, asked) \ {s}
  BY DEF Open
<1>4. SourcesInv'
  BY <1>2, <1>3 DEF SourcesInv
<1> QED
  BY <1>1, <1>4 DEF RowsInv

\* In the loop: a source is picked, asked about, connected to.
LEMMA RowsLoop ==
    ASSUME RowsInv, BoundsInv, NEW s \in Accessible,
           PassOver(s) \/ PickSource(s) \/ SketchRaises(s) \/ GenerateSql \/ CheckSql
               \/ EngineRefused \/ RunSql \/ QueriesDone
    PROVE  RowsInv'
<1> DEFINE open == Open(toQuery, step, asked)
<1>1. CASE PassOver(s)
  <2>1. /\ step = "pick" /\ node = "text_to_query" /\ s \in toQuery /\ step' = "pick"
        /\ toQuery' = toQuery \ {s} /\ passedOver' = passedOver \cup {s}
        /\ UNCHANGED <<node, pass, visible, targets, chunks, rows, sent>>
    BY <1>1 DEF PassOver, Takes, Skip, catalogVars, routeVars
  <2>2. open = toQuery
    BY <2>1 DEF Open
  <2> QED
    BY <2>1, <2>2, RowsSkip
<1>2. CASE PickSource(s)
  <2>1. /\ step = "pick" /\ node = "text_to_query" /\ s \in toQuery /\ step' = "generate"
        /\ toQuery' = toQuery \ {s} /\ asked' = s
        /\ UNCHANGED <<node, pass, visible, targets, chunks, rows, sent, passedOver>>
    BY <1>2 DEF PickSource, Takes, catalogVars, routeVars
  <2>2. Open(toQuery', step', asked') = open
    BY <2>1 DEF Open
  <2>3. PassInv' /\ SourcesInv
    BY <2>1 DEF RowsInv, PassInv
  <2>4. SourcesInv'
    BY <2>1, <2>2, <2>3 DEF SourcesInv
  <2> QED
    BY <2>1, <2>3, <2>4 DEF RowsInv
<1>3. CASE SketchRaises(s)
  <2>1. node' = "raised" /\ UNCHANGED <<pass, chunks, rows>>
    BY <1>3 DEF SketchRaises, Takes
  <2> QED
    BY <2>1 DEF RowsInv, PassInv
<1>4. ASSUME node = "text_to_query", step \in {"generate", "check", "connect"}, Skip(asked), NextSource,
             UNCHANGED sent
      PROVE  RowsInv'
  <2>1. /\ step' = "pick" /\ passedOver' = passedOver \cup {asked}
        /\ UNCHANGED <<node, pass, visible, targets, toQuery, chunks, rows, sent>>
    BY <1>4 DEF Skip, NextSource, catalogVars, routeVars
  <2>2. toQuery \cup {asked} = open /\ toQuery \ {asked} = toQuery
    BY <1>4 DEF Open, RowsInv, SourcesInv
  <2> QED
    BY <1>4, <2>1, <2>2, RowsSkip
<1>5. ASSUME node = "text_to_query", step \in {"generate", "check"}, step' \in {"check", "connect"},
             NextSource, UNCHANGED <<sent, passedOver, asked>>
      PROVE  RowsInv'
  <2>1. UNCHANGED <<node, pass, visible, targets, toQuery, chunks, rows, sent, passedOver, asked>>
    BY <1>5 DEF NextSource, catalogVars, routeVars
  <2>2. Open(toQuery', step', asked') = open
    BY <1>5, <2>1 DEF Open
  <2>3. PassInv' /\ SourcesInv
    BY <1>5, <2>1 DEF RowsInv, PassInv
  <2>4. SourcesInv'
    BY <1>5, <2>1, <2>2, <2>3 DEF SourcesInv
  <2> QED
    BY <1>5, <2>1, <2>3, <2>4 DEF RowsInv
<1>6. CASE GenerateSql
  BY <1>4, <1>5, <1>6 DEF GenerateSql
<1>7. CASE CheckSql
  BY <1>4, <1>5, <1>7 DEF CheckSql
<1>8. CASE EngineRefused
  BY <1>4, <1>8 DEF EngineRefused
<1>9. CASE RunSql
  <2>1. /\ node = "text_to_query" /\ step = "connect" /\ step' = "ran"
        /\ UNCHANGED <<node, pass, visible, targets, toQuery, chunks, rows, passedOver, asked>>
    BY <1>9 DEF RunSql, NextSource, catalogVars, routeVars
  <2>2. PICK found \in 0..MaxRows : \E works \in BOOLEAN :
            LET n == IF sql.cap # Uncapped /\ sql.cap < found THEN sql.cap ELSE found
            IN sent' = sent \cup {[source |-> asked, what |-> sql, works |-> works,
                                   rows |-> IF works THEN n ELSE 0]}
    BY <1>9 DEF RunSql
  <2> DEFINE n == IF sql.cap # Uncapped /\ sql.cap < found THEN sql.cap ELSE found
  <2>3. n \in Nat
    <3>1. sql.cap \in 0..Limit /\ Limit \in Nat /\ MaxRows \in Nat
      BY <2>1, GroundingAssumption DEF BoundsInv, Bounded
    <3> QED
      BY <3>1
  <2> HIDE DEF n
  <2>4. PICK works \in BOOLEAN : sent' = sent \cup {[source |-> asked, what |-> sql, works |-> works,
                                                   rows |-> IF works THEN n ELSE 0]}
    BY <2>2 DEF n
  <2> DEFINE e == [source |-> asked, what |-> sql, works |-> works, rows |-> IF works THEN n ELSE 0]
  <2>5. sent' = sent \cup {e} /\ e.source = asked /\ e.works \in BOOLEAN /\ e.rows \in Nat
    BY <2>3, <2>4
  <2> HIDE DEF e
  <2>6. Open(toQuery', step', asked') = open
    BY <2>1 DEF Open
  <2>7. PassInv' /\ SourcesInv
    BY <2>1 DEF RowsInv, PassInv
  <2>8. \A t : Complete(t, sent, rows) => Complete(t, sent', rows')
    BY <2>1, <2>5 DEF Complete
  <2>9. SourcesInv'
    BY <2>1, <2>5, <2>6, <2>7, <2>8 DEF SourcesInv
  <2> QED
    BY <2>1, <2>7, <2>9 DEF RowsInv
<1>10. CASE QueriesDone
  <2>1. node = "text_to_query" /\ node' = "retrieve_context" /\ UNCHANGED <<pass, chunks, rows>>
    BY <1>10 DEF QueriesDone, queryVars
  <2> QED
    BY <2>1 DEF RowsInv, PassInv
<1> QED
  BY <1>1, <1>2, <1>3, <1>6, <1>7, <1>8, <1>9, <1>10

\* The answer becomes chunks, or the source is skipped.
LEMMA RowsDone ==
    ASSUME RowsInv, BoundsInv, SourceDone
    PROVE  RowsInv'
<1>1. /\ node = "text_to_query" /\ step \in {"connect", "ran"} /\ step' = "pick"
      /\ UNCHANGED <<pass, visible, targets, toQuery, chunks, sent>>
  BY DEF SourceDone, ExecuteEnds, catalogVars, routeVars, RowsInv
<1>2. SourcesInv /\ PassInv
  BY <1>1 DEF RowsInv
<1>3. Open(toQuery', step', asked') = toQuery /\ Open(toQuery, step, asked) = toQuery \cup {asked}
  BY <1>1 DEF Open
<1>4. CASE step = "ran" /\ Answer(asked).works
  <2>1. rows' = rows \cup RowChunks(asked) /\ UNCHANGED <<node, passedOver>>
    BY <1>4 DEF SourceDone
  <2>2. PICK e \in sent : e.source = asked /\ \A d \in sent : d.source = asked => d = e
    BY <1>2, <1>4 DEF SourcesInv
  <2>3. Answer(asked) = e
    BY <2>2 DEF Answer
  <2>4. e.works = TRUE /\ e.rows \in Nat
    BY <1>2, <1>4, <2>2, <2>3 DEF SourcesInv
  <2>5. asked \notin passedOver /\ RowsOf(asked, rows) = {}
    BY <1>2, <1>3 DEF SourcesInv, RowsOf
  <2> DEFINE new == RowChunks(asked)
  <2>6. NextRows(new, rows, pass, asked, e.rows)
    BY <2>3 DEF RowChunks, RowsFrom, Row, NextRows
  <2>7. Numbered(rows, pass) /\ rows' = rows \cup new
    BY <1>1, <1>2, <2>1 DEF PassInv
  <2> HIDE DEF new
  <2>8. /\ Numbered(rows', pass) /\ Cardinality(RowsOf(asked, rows')) = e.rows
        /\ \A t : t # asked => RowsOf(t, rows') = RowsOf(t, rows)
    BY <2>4, <2>5, <2>6, <2>7, RowsAdded
  <2>9. \A t : Complete(t, sent, rows) => Complete(t, sent', rows')
    <3>1. \A d \in sent : d.source = asked => d = e
      BY <2>2
    <3> QED
      BY <1>1, <2>2, <2>4, <2>8, <3>1 DEF Complete
  <2>10. Complete(asked, sent', rows')
    BY <1>1, <2>2, <2>4, <2>8 DEF Complete
  <2>11. \A c \in rows' : c \in rows \/ c.of = asked
    BY <2>6, <2>7 DEF NextRows, Row
  <2>12. asked \notin toQuery
    BY <1>1, <1>2 DEF SourcesInv
  <2>13. SourcesInv'
    BY <1>1, <1>2, <1>3, <2>1, <2>5, <2>9, <2>10, <2>11, <2>12 DEF SourcesInv
  <2>14. PassInv'
    BY <1>1, <1>2, <2>1, <2>8 DEF PassInv
  <2> QED
    BY <1>1, <2>1, <2>13, <2>14 DEF RowsInv
<1>5. CASE ~(step = "ran" /\ Answer(asked).works)
  <2>1. passedOver' = passedOver \cup {asked} /\ UNCHANGED rows /\ node' \in {"cancelled", node}
    BY <1>5 DEF SourceDone
  <2>2. CASE node' = "cancelled"
    BY <1>1, <1>2, <2>1, <2>2 DEF RowsInv, PassInv
  <2>3. CASE node' = node
    <3>1. toQuery \ {asked} = toQuery
      BY <1>1, <1>2 DEF SourcesInv
    <3> QED
      BY <1>1, <1>3, <2>1, <2>3, <3>1, RowsSkip
  <2> QED
    BY <2>1, <2>2, <2>3
<1> QED
  BY <1>4, <1>5

\* Every step of a turn keeps the account of its rows.
LEMMA RowsKept ==
    ASSUME RowsInv, BoundsInv, GroundNext
    PROVE  RowsInv'
<1>1. ASSUME NEW s \in Accessible, SourceTaken(s) PROVE RowsInv'
  BY <1>1, RowsQuiet DEF SourceTaken
<1>2. ASSUME NEW s \in Accessible, PassOver(s) \/ PickSource(s) \/ SketchRaises(s) PROVE RowsInv'
  BY <1>2, RowsLoop
<1>3. CASE GenerateSql \/ CheckSql \/ EngineRefused \/ RunSql \/ QueriesDone
  <2>1. PICK s \in Accessible : TRUE
    BY GroundingAssumption
  <2> QED
    BY <1>3, RowsLoop
<1>4. CASE RouteSources
  <2>1. /\ node = "router" /\ node' \in {"retrieve_context", "text_to_query"} /\ rows' = {} /\ step' = "load"
        /\ UNCHANGED <<pass, chunks>>
    BY <1>4 DEF RouteSources
  <2> QED
    BY <2>1, NoRows DEF RowsInv, PassInv
<1>5. CASE LoadTargets
  <2>1. node = "text_to_query" /\ step = "load" /\ UNCHANGED <<pass, chunks, rows, visible, targets>>
    BY <1>5 DEF LoadTargets, catalogVars, routeVars
  <2>2. PassInv /\ rows = {}
    BY <2>1 DEF RowsInv
  <2>3. CASE node' = "retrieve_context"
    BY <2>1, <2>2, <2>3 DEF RowsInv, PassInv
  <2>4. CASE node' = node
    <3>1. toQuery' = targets \cap visible /\ step' = "pick" /\ passedOver' = {} /\ sent' = {}
      BY <1>5, <2>1, <2>4 DEF LoadTargets
    <3>2. Open(toQuery', step', asked') = targets \cap visible
      BY <3>1 DEF Open
    <3>3. PassInv' /\ SourcesInv'
      BY <2>1, <2>2, <2>4, <3>1, <3>2 DEF PassInv, SourcesInv
    <3> QED
      BY <3>1, <3>3 DEF RowsInv
  <2> QED
    BY <1>5, <2>3, <2>4 DEF LoadTargets
<1>6. CASE Connect
  BY <1>6, RowsQuiet DEF Connect, groundVars, catalogVars
<1>7. CASE SourceDone
  BY <1>7, RowsDone
<1>8. CASE RetrieveContext
  <2>1. node = "retrieve_context" /\ node' = "generate" /\ UNCHANGED <<pass, rows>>
    BY <1>8 DEF RetrieveContext, queryVars
  <2>2. PICK schema \in SUBSET Documentable, found \in SUBSET selected :
            chunks' = Merge({SchemaChunk(s) : s \in schema}, {VectorChunk(s) : s \in found})
    BY <1>8 DEF RetrieveContext
  <2>3. PassInv /\ Numbered(rows, pass) /\ pass \in Nat /\ \A c \in chunks : c.pass \in Nat /\ c.pass < pass
    BY <2>1 DEF RowsInv, PassInv
  <2>4. \A r \in rows : r.pass = pass
    BY <2>3 DEF Numbered, Row
  <2>5. \A c \in chunks' : c.pass = pass \/ c \in chunks
    BY <2>2, <2>4 DEF Merge, SchemaChunk, VectorChunk
  <2>6. \A r \in rows : r \in chunks' \/ \E c \in chunks' : c \in chunks /\ c.id = r.id
    BY <2>2, <2>3, MergeKeepsRows
  <2>7. \A r \in rows' : r \in chunks' \/ \E c \in chunks' : c.id = r.id /\ c.pass < r.pass
    BY <2>1, <2>3, <2>4, <2>6
  <2>8. \A c \in chunks' : c.pass \in Nat /\ c.pass <= pass'
    BY <2>1, <2>3, <2>5
  <2> QED
    BY <2>1, <2>3, <2>7, <2>8 DEF RowsInv, PassInv
<1>9. CASE Reflect
  <2>1. node = "generate" /\ UNCHANGED chunks
    BY <1>9 DEF Reflect
  <2>2. CASE node' = "answered" /\ UNCHANGED <<pass, queryVars>>
    BY <2>1, <2>2 DEF RowsInv, PassInv, queryVars
  <2>3. CASE node' = "router" /\ pass' = pass + 1
    BY <2>1, <2>3 DEF RowsInv, PassInv
  <2> QED
    BY <1>9, <2>2, <2>3 DEF Reflect
<1> QED
  BY <1>1, <1>2, <1>3, <1>4, <1>5, <1>6, <1>7, <1>8, <1>9 DEF GroundNext

\* One source that fails costs the others nothing, in every pass.
THEOREM SourcesFailAlone == AccessSpec => []OneSourceFails
<1>1. AccessInit => RowsInv
  <2>1. pass = 1 /\ node = "router" /\ chunks = {} => PassInv
    BY DEF PassInv
  <2> QED
    BY <2>1 DEF AccessInit, GroundInit, RowsInv
<1>2. [AccessNext]_<<studyVars, groundVars, hardenVars>> => GroundNext \/ UNCHANGED groundVars
  BY DEF AccessNext
<1>3. RowsInv /\ BoundsInv /\ (GroundNext \/ UNCHANGED groundVars) => RowsInv'
  BY RowsKept, RowsQuiet DEF groundVars, catalogVars
<1>4. RowsInv => OneSourceFails
  <2> SUFFICES ASSUME RowsInv PROVE OneSourceFails
    OBVIOUS
  <2>1. ASSUME node = "text_to_query", step = "pick", toQuery = {}
        PROVE  /\ \A s \in targets \cap visible :
                      s \in passedOver \/ \E e \in sent :
                          e.source = s /\ e.works /\ Cardinality({c \in rows : c.of = s}) = e.rows
               /\ \A c, d \in rows : c.id = d.id => c = d
               /\ {c.of : c \in rows} \cap passedOver = {}
    <3>1. SourcesInv /\ Numbered(rows, pass)
      BY <2>1 DEF RowsInv, PassInv
    <3>2. Open(toQuery, step, asked) = {}
      BY <2>1 DEF Open
    <3>3. \A s \in targets \cap visible : s \in passedOver \/ Complete(s, sent, rows)
      BY <3>1, <3>2 DEF SourcesInv
    <3>4. {c.of : c \in rows} \cap passedOver = {}
      BY <3>1 DEF SourcesInv
    <3> QED
      BY <3>1, <3>3, <3>4, NumbersDiffer DEF Complete, RowsOf
  <2>2. node = "generate" => \A r \in rows :
            r \in chunks \/ \E c \in chunks : c.id = r.id /\ c.pass < r.pass
    BY DEF RowsInv, PassInv
  <2> QED
    BY <2>1, <2>2 DEF OneSourceFails
<1> QED
  BY BoundsStart, BoundsKept, <1>1, <1>2, <1>3, <1>4, PTL DEF AccessSpec

-----------------------------------------------------------------------------
(* Induction over the naturals, in terms of sets. *)

\* A set of naturals has a least element: of the intervals 0..m the finite
\* subsets of Nat have a smallest one.
LEMMA LeastOf ==
    ASSUME NEW B \in SUBSET Nat, B # {}
    PROVE  \E m \in B : \A k \in B : m <= k
<1> DEFINE T == {0..m : m \in B}
<1>1. T \subseteq FiniteSubsetsOf(Nat) /\ T # {}
  <2>1. ASSUME NEW m \in B PROVE 0..m \in SUBSET Nat /\ IsFiniteSet(0..m)
    BY FS_Interval
  <2> QED
    BY <2>1 DEF FiniteSubsetsOf
<1>2. PICK x \in T : \A y \in T : <<y, x>> \notin StrictSubsetOrdering(Nat)
  BY <1>1, FS_StrictSubsetOrderingWellFounded, WFMin
<1>3. PICK m \in B : x = 0..m
  BY <1>2
<1>4. ASSUME NEW k \in B, ~(m <= k) PROVE FALSE
  <2>1. 0..k \in T /\ 0..k \subseteq 0..m /\ m \in 0..m /\ m \notin 0..k
    BY <1>4
  <2>2. <<0..k, x>> \in StrictSubsetOrdering(Nat)
    BY <1>3, <2>1 DEF StrictSubsetOrdering
  <2> QED
    BY <1>2, <2>1, <2>2
<1> QED
  BY <1>4

\* A set that has 0 and with k also k + 1, up to n, has all of them.
LEMMA UpTo ==
    ASSUME NEW n \in Nat, NEW S, 0 \in S, \A k \in 0..(n - 1) : k \in S => k + 1 \in S
    PROVE  0..n \subseteq S
<1> SUFFICES ASSUME ~(0..n \subseteq S) PROVE FALSE
  OBVIOUS
<1> DEFINE B == (0..n) \ S
<1>1. B \in SUBSET Nat /\ B # {}
  OBVIOUS
<1>2. PICK m \in B : \A k \in B : m <= k
  BY <1>1, LeastOf
<1>3. m # 0 /\ m - 1 \in 0..(n - 1)
  BY <1>2
<1>4. m - 1 \in S
  BY <1>2, <1>3
<1> QED
  BY <1>2, <1>3, <1>4

\* What is bounded has a greatest element.
LEMMA GreatestOf ==
    ASSUME NEW n \in Nat, NEW S \in SUBSET (1..n), S # {}
    PROVE  \E m \in S : \A k \in S : k <= m
<1> DEFINE B == {n - k : k \in S}
<1>1. B \in SUBSET Nat /\ B # {}
  <2>1. \A k \in S : n - k \in Nat
    OBVIOUS
  <2> QED
    BY <2>1
<1>2. PICK b \in B : \A c \in B : b <= c
  BY <1>1, LeastOf
<1>3. PICK m \in S : b = n - m
  BY <1>2
<1>4. \A k \in S : n - m <= n - k
  BY <1>2, <1>3
<1>5. \A k \in S : k \in Nat
  OBVIOUS
<1> QED
  BY <1>4, <1>5

-----------------------------------------------------------------------------
(* The options of a libpq URL. *)

LEMMA AppendType ==
    ASSUME NEW S, NEW s \in Seq(S), NEW x \in S
    PROVE  /\ Append(s, x) \in Seq(S) /\ Len(s) \in Nat /\ Len(Append(s, x)) = Len(s) + 1
           /\ \A i \in 1..Len(s) : Append(s, x)[i] = s[i]
           /\ Append(s, x)[Len(s) + 1] = x
  OBVIOUS

\* What one entry makes of the entries merged so far.
LEMMA MergeEntryType ==
    ASSUME NEW merged \in Seq(Entries), NEW entry \in Entries
    PROVE  MergeEntry(merged, entry) \in Seq(Entries)
<1>1. "our timeout" \in Entries
  BY DEF Entries
<1>2. Append(merged, entry) \in Seq(Entries) /\ Append(merged, "our timeout") \in Seq(Entries)
  BY <1>1, AppendType
<1> QED
  BY <1>2 DEF MergeEntry

\* Merging is the function its recursion defines.
LEMMA MergingIs ==
    ASSUME NEW options \in Seq(Entries)
    PROVE  /\ Merging(options)[0] = <<>>
           /\ \A k \in 1..Len(options) :
                  Merging(options)[k] = MergeEntry(Merging(options)[k - 1], options[k])
<1> DEFINE n == Len(options)
           Def(g, m) == [k \in 0..m |-> IF k = 0 THEN <<>> ELSE MergeEntry(g[k - 1], options[k])]
           S == {m \in 0..n : \E g : g = Def(g, m)}
<1>1. n \in Nat
  OBVIOUS
<1>2. 0 \in S
  <2> DEFINE g == [k \in 0..0 |-> <<>>]
  <2>1. g = Def(g, 0)
    OBVIOUS
  <2>2. \E f : f = Def(f, 0)
    BY <2>1
  <2> QED
    BY <1>1, <2>2
<1>3. ASSUME NEW m \in 0..(n - 1), m \in S PROVE m + 1 \in S
  <2>1. PICK g : g = Def(g, m)
    BY <1>3
  <2> DEFINE h == [k \in 0..(m + 1) |-> IF k <= m THEN g[k] ELSE MergeEntry(g[m], options[m + 1])]
  <2>2. ASSUME NEW k \in 0..(m + 1)
        PROVE  h[k] = IF k = 0 THEN <<>> ELSE MergeEntry(h[k - 1], options[k])
    <3>1. CASE k = 0
      BY <2>1, <3>1
    <3>2. CASE k # 0 /\ k <= m
      <4>1. g[k] = MergeEntry(g[k - 1], options[k])
        BY <2>1, <3>2
      <4>2. h[k] = g[k] /\ h[k - 1] = g[k - 1]
        BY <3>2
      <4> QED
        BY <3>2, <4>1, <4>2
    <3>3. CASE k = m + 1
      <4>1. h[k - 1] = g[m] /\ h[k] = MergeEntry(g[m], options[k])
        BY <3>3
      <4> QED
        BY <3>3, <4>1
    <3> QED
      BY <3>1, <3>2, <3>3
  <2>3. h = Def(h, m + 1)
    BY <2>2
  <2>4. \E f : f = Def(f, m + 1)
    BY <2>3
  <2>5. m + 1 \in 0..n
    BY <1>1
  <2> QED
    BY <2>4, <2>5
<1>4. n \in S
  <2> HIDE DEF S
  <2>1. 0..n \subseteq S
    BY <1>1, <1>2, <1>3, UpTo
  <2> QED
    BY <1>1, <2>1
<1>5. \E g : g = Def(g, n)
  BY <1>4
<1>6. Merging(options) = Def(Merging(options), n)
  BY <1>5 DEF Merging
<1> QED
  BY <1>1, <1>6

\* The last entry for read-only turns it on; there is no timeout but ours.
Guarded(m) == \E p \in 1..Len(m) : m[p] = "read_only=on" /\ \A q \in p..Len(m) : m[q] # "read_only=off"
Timely(m) == \A p \in 1..Len(m) : m[p] # "a timeout"

LEMMA AppendGuards ==
    ASSUME NEW m \in Seq(Entries), NEW x \in Entries
    PROVE  /\ \A y : Contains(Append(m, x), y) <=> Contains(m, y) \/ x = y
           /\ x = "read_only=on" \/ (x # "read_only=off" /\ Guarded(m)) => Guarded(Append(m, x))
           /\ Timely(m) /\ x # "a timeout" => Timely(Append(m, x))
<1> DEFINE a == Append(m, x)
<1>1. /\ Len(m) \in Nat /\ Len(a) = Len(m) + 1 /\ a[Len(m) + 1] = x
      /\ \A i \in 1..Len(m) : a[i] = m[i]
  BY AppendType
<1> HIDE DEF a
<1>2. \A i \in 1..Len(a) : i \in 1..Len(m) \/ i = Len(m) + 1
  BY <1>1
<1>3. \A y : Contains(a, y) <=> Contains(m, y) \/ x = y
  <2>1. ASSUME NEW y, Contains(a, y) PROVE Contains(m, y) \/ x = y
    BY <1>1, <1>2, <2>1 DEF Contains
  <2>2. ASSUME NEW y, Contains(m, y) PROVE Contains(a, y)
    <3>1. PICK i \in 1..Len(m) : m[i] = y
      BY <2>2 DEF Contains
    <3>2. i \in 1..Len(a) /\ a[i] = y
      BY <1>1, <3>1
    <3> QED
      BY <3>2 DEF Contains
  <2>3. Contains(a, x)
    <3>1. Len(m) + 1 \in 1..Len(a)
      BY <1>1
    <3> QED
      BY <1>1, <3>1 DEF Contains
  <2> QED
    BY <2>1, <2>2, <2>3
<1>4. CASE x = "read_only=on"
  <2>1. Len(m) + 1 \in 1..Len(a) /\ \A q \in (Len(m) + 1)..Len(a) : q = Len(m) + 1
    BY <1>1
  <2>2. Guarded(a)
    BY <1>1, <1>4, <2>1 DEF Guarded
  <2> QED
    BY <1>1, <1>2, <1>3, <1>4, <2>2 DEF Timely, a
<1>5. CASE x # "read_only=on"
  <2>1. ASSUME x # "read_only=off", Guarded(m) PROVE Guarded(a)
    <3>1. PICK p \in 1..Len(m) : m[p] = "read_only=on" /\ \A q \in p..Len(m) : m[q] # "read_only=off"
      BY <2>1 DEF Guarded
    <3>2. p \in 1..Len(a) /\ a[p] = "read_only=on"
      BY <1>1, <3>1
    <3>3. ASSUME NEW q \in p..Len(a) PROVE a[q] # "read_only=off"
      <4>1. q \in p..Len(m) \/ q = Len(m) + 1
        BY <1>1
      <4>2. q \in p..Len(m) => q \in 1..Len(m)
        OBVIOUS
      <4> QED
        BY <1>1, <2>1, <3>1, <4>1, <4>2
    <3> QED
      BY <3>2, <3>3 DEF Guarded
  <2> QED
    BY <1>1, <1>2, <1>3, <1>5, <2>1 DEF Timely, a
<1> QED
  BY <1>4, <1>5

\* What the entries merged so far keep of the first k of the admin's.
Keeps(options, k, m) ==
    /\ m \in Seq(Entries) /\ Timely(m)
    /\ Contains(m, "read_only=on") => \E i \in 1..k : options[i] = "read_only=on"
    /\ \/ Guarded(m) \/ ~Contains(m, "read_only=on")
       \/ \E i, j \in 1..k : i < j /\ options[i] = "read_only=on" /\ options[j] = "read_only=off"

LEMMA MergeKeeps ==
    ASSUME NEW options \in Seq(Entries), NEW k \in 0..(Len(options) - 1), NEW m, Keeps(options, k, m)
    PROVE  Keeps(options, k + 1, MergeEntry(m, options[k + 1]))
<1> DEFINE e == options[k + 1]
           n == MergeEntry(m, e)
<1>1. e \in Entries /\ k \in Nat /\ k + 1 \in 1..(k + 1)
      /\ \A i \in 1..k : i \in 1..(k + 1) /\ i < k + 1
  OBVIOUS
<1>2. m \in Seq(Entries) /\ Timely(m)
  BY DEF Keeps
<1> DEFINE Later == \E i, j \in 1..(k + 1) :
               i < j /\ options[i] = "read_only=on" /\ options[j] = "read_only=off"
<1>3. \/ Guarded(m) \/ ~Contains(m, "read_only=on") \/ Later
  BY <1>1 DEF Keeps
<1>4. Contains(m, "read_only=on") /\ e = "read_only=off" => Later
  BY <1>1 DEF Keeps
<1>5. Contains(m, "read_only=on") => \E i \in 1..(k + 1) : options[i] = "read_only=on"
  BY <1>1 DEF Keeps
<1>6. n = m \/ (n = Append(m, e) /\ e # "a timeout") \/ n = Append(m, "our timeout")
  BY DEF MergeEntry
<1> HIDE DEF e, n
<1>7. ASSUME n = m PROVE Keeps(options, k + 1, n)
  BY <1>2, <1>3, <1>5, <1>7 DEF Keeps
<1>8. ASSUME NEW x \in Entries, x # "a timeout", x = "read_only=on" => e = x,
             x = "read_only=off" => e = x, n = Append(m, x)
      PROVE  Keeps(options, k + 1, n)
  <2>1. n \in Seq(Entries) /\ Timely(n)
    BY <1>2, <1>8, AppendType, AppendGuards
  <2>2. Contains(n, "read_only=on") <=> Contains(m, "read_only=on") \/ x = "read_only=on"
    <3>1. \A y : Contains(Append(m, x), y) <=> Contains(m, y) \/ x = y
      BY <1>2, <1>8, AppendGuards
    <3> QED
      BY <1>8, <3>1
  <2>3. Contains(n, "read_only=on") => \E i \in 1..(k + 1) : options[i] = "read_only=on"
    <3>1. x = "read_only=on" => k + 1 \in 1..(k + 1) /\ options[k + 1] = "read_only=on"
      BY <1>1, <1>8 DEF e
    <3> QED
      BY <1>5, <2>2, <3>1
  <2>4. Guarded(n) \/ ~Contains(n, "read_only=on") \/ Later
    <3>1. x = "read_only=on" \/ (x # "read_only=off" /\ Guarded(m)) => Guarded(n)
      BY <1>2, <1>8, AppendGuards
    <3> QED
      BY <1>3, <1>4, <1>8, <2>2, <3>1
  <2> QED
    BY <2>1, <2>3, <2>4 DEF Keeps
<1>9. "our timeout" \in Entries
  BY DEF Entries
<1> QED
  BY <1>1, <1>6, <1>7, <1>8, <1>9 DEF e, n

LEMMA MergingKeeps ==
    ASSUME NEW options \in Seq(Entries)
    PROVE  Keeps(options, Len(options), Merging(options)[Len(options)])
<1> DEFINE n == Len(options)
           S == {k \in 0..n : Keeps(options, k, Merging(options)[k])}
<1>1. n \in Nat
  OBVIOUS
<1>2. 0 \in S
  <2>1. <<>> \in Seq(Entries) /\ ~Contains(<<>>, "read_only=on") /\ Timely(<<>>)
    BY DEF Contains, Timely
  <2>2. Keeps(options, 0, <<>>)
    BY <2>1 DEF Keeps
  <2> QED
    BY <1>1, <2>2, MergingIs
<1>3. ASSUME NEW k \in 0..(n - 1), k \in S PROVE k + 1 \in S
  <2>1. Merging(options)[k + 1] = MergeEntry(Merging(options)[k], options[k + 1])
    <3>1. k + 1 \in 1..n /\ (k + 1) - 1 = k
      BY <1>1
    <3> QED
      BY <3>1, MergingIs
  <2>2. k + 1 \in 0..n
    BY <1>1
  <2> QED
    BY <1>3, <2>1, <2>2, MergeKeeps
<1>4. 0..n \subseteq S
  <2> HIDE DEF S
  <2> QED
    BY <1>1, <1>2, <1>3, UpTo
<1> QED
  BY <1>1, <1>4

\* From some place on every entry of the set says x ...
Settles(m, E, x, p) ==
    /\ x \in E /\ p \in 1..Len(m) /\ m[p] = x
    /\ \A q \in p..Len(m) : m[q] \in E => m[q] = x

\* ... and x is in force.
LEMMA LastInForce ==
    ASSUME NEW m \in Seq(Entries), NEW E, NEW x, NEW p, Settles(m, E, x, p)
    PROVE  InForce(m, E) = x
<1> DEFINE at_ == {i \in DOMAIN m : m[i] \in E}
<1>1. at_ \in SUBSET (1..Len(m)) /\ p \in at_ /\ Len(m) \in Nat /\ p \in 1..Len(m)
  BY DEF Settles
<1> HIDE DEF at_
<1>2. \E i \in at_ : \A j \in at_ : j <= i
  BY <1>1, GreatestOf
<1> DEFINE last == CHOOSE i \in at_ : \A j \in at_ : j <= i
<1>3. last \in at_ /\ p <= last
  BY <1>1, <1>2
<1>4. InForce(m, E) = m[last]
  BY <1>1 DEF InForce, at_
<1> HIDE DEF last
<1>5. last \in p..Len(m) /\ m[last] \in E
  BY <1>1, <1>3 DEF at_
<1> QED
  BY <1>4, <1>5 DEF Settles

\* harden_postgres_connection: unless the admin's own options turn read-only
\* off behind our flag, the merged options turn it on, and the statement
\* timeout in force is ours.
LEMMA MergeHardens ==
    ASSUME NEW options \in Seq(Entries)
    PROVE  /\ \/ InForce(MergeOptions(options), {"read_only=on", "read_only=off"}) = "read_only=on"
              \/ \E i, j \in DOMAIN options :
                     i < j /\ options[i] = "read_only=on" /\ options[j] = "read_only=off"
           /\ InForce(MergeOptions(options), {"our timeout", "a timeout"}) = "our timeout"
<1> DEFINE merged == Merging(options)[Len(options)]
           flagged == IF Contains(merged, "read_only=on") THEN merged ELSE Append(merged, "read_only=on")
           timed == IF Contains(flagged, "our timeout") THEN flagged ELSE Append(flagged, "our timeout")
<1>1. Keeps(options, Len(options), merged)
  BY MergingKeeps
<1>2. "read_only=on" \in Entries /\ "our timeout" \in Entries
  BY DEF Entries
<1> HIDE DEF merged
<1>3. merged \in Seq(Entries) /\ Timely(merged)
  BY <1>1 DEF Keeps
<1>4. flagged \in Seq(Entries) /\ Timely(flagged)
  BY <1>2, <1>3, AppendType, AppendGuards
<1>5. timed \in Seq(Entries) /\ Timely(timed) /\ Contains(timed, "our timeout")
  <2> HIDE DEF flagged
  <2> QED
    BY <1>2, <1>4, AppendType, AppendGuards
<1>6. MergeOptions(options) = timed
  <2>1. \A s \in Seq(Entries), x \in Entries : s \o <<x>> = Append(s, x) /\ s \o <<>> = s
    OBVIOUS
  <2>2. merged \o (IF Contains(merged, "read_only=on") THEN <<>> ELSE <<"read_only=on">>) = flagged
    BY <1>2, <1>3, <2>1
  <2>3. flagged \o (IF Contains(flagged, "our timeout") THEN <<>> ELSE <<"our timeout">>) = timed
    <3> HIDE DEF flagged
    <3> QED
      BY <1>2, <1>4, <2>1
  <2> HIDE DEF timed
  <2>4. flagged = merged \o (IF Contains(merged, "read_only=on") THEN <<>> ELSE <<"read_only=on">>)
    BY <2>2
  <2>5. Contains(flagged, "our timeout") <=> Contains(merged, "our timeout")
    BY <1>2, <1>3, AppendGuards
  <2> HIDE DEF flagged
  <2>6. flagged \o (IF Contains(merged, "our timeout") THEN <<>> ELSE <<"our timeout">>) = timed
    BY <2>3, <2>5
  <2> QED
    BY <2>4, <2>6 DEF MergeOptions, merged
<1>7. InForce(timed, {"our timeout", "a timeout"}) = "our timeout"
  <2> HIDE DEF timed
  <2>1. PICK p \in 1..Len(timed) : timed[p] = "our timeout"
    BY <1>5 DEF Contains
  <2>2. \A q \in p..Len(timed) : q \in 1..Len(timed)
    <3>1. Len(timed) \in Nat
      BY <1>2, <1>5, AppendType
    <3> QED
      BY <3>1
  <2>3. Settles(timed, {"our timeout", "a timeout"}, "our timeout", p)
    BY <1>5, <2>1, <2>2 DEF Timely, Settles
  <2> QED
    BY <1>5, <2>3, LastInForce
<1>8. ASSUME Guarded(timed) PROVE InForce(timed, {"read_only=on", "read_only=off"}) = "read_only=on"
  <2> HIDE DEF timed
  <2>1. PICK p \in 1..Len(timed) : timed[p] = "read_only=on" /\ \A q \in p..Len(timed) : timed[q] # "read_only=off"
    BY <1>8 DEF Guarded
  <2>2. Settles(timed, {"read_only=on", "read_only=off"}, "read_only=on", p)
    BY <2>1 DEF Settles
  <2> QED
    BY <1>5, <2>2, LastInForce
<1>9. Guarded(merged) \/ ~Contains(merged, "read_only=on") => Guarded(flagged)
  BY <1>2, <1>3, AppendGuards
<1>10. Guarded(flagged) => Guarded(timed)
  <2> HIDE DEF flagged
  <2> QED
    BY <1>2, <1>4, AppendGuards
<1> HIDE DEF flagged, timed
<1>11. DOMAIN options = 1..Len(options)
  OBVIOUS
<1> QED
  BY <1>1, <1>6, <1>7, <1>8, <1>9, <1>10, <1>11 DEF Keeps

-----------------------------------------------------------------------------
(* The session. *)

\* The engine in hand is the one the surface makes for its server, and an open
\* session has what that engine sets on connect.  The probe is "up" when its
\* engine is disposed already.
HardInv ==
    /\ server \in Servers
    /\ at \in Holding \cup {"up"} => engine = MakeEngine(NoEngine) /\ ~Refused
    /\ at = "up" => session = OnConnect(engine)

\* A surface stays the surface it is, and a session is opened by a handshake.
LEMMA StudyShakes ==
    ASSUME StudyNext
    PROVE  surface' = surface /\ (at' = "up" => at \in {"handshake", "up"})
  <1>1. CASE SqlConnect
    BY <1>1 DEF SqlConnect, ConnectStep, OpenSurface, Acquire, HandshakeAccepted, HandshakeRefused,
                GiveUp, Backoff, Wake, CancelConnect, CloseSurface
  <1>2. CASE MongoClient \/ MongoPing \/ ConnectFails \/ StudyCancelled \/ Connected
    BY <1>2 DEF MongoClient, MongoPing, ConnectFails, StudyCancelled, Connected, Raise, Dispose
  <1>3. CASE InventoryFails \/ Assemble
    BY <1>3 DEF InventoryFails, Assemble, Raise, Dispose
  <1>4. CASE Inventory \/ ColumnsDone \/ SamplingDone \/ Summarise
    BY <1>4 DEF Inventory, ColumnsDone, SamplingDone, Summarise, connectVars
  <1>5. ASSUME NEW t \in Tables,
               \/ ReadColumns(t) \/ InferColumns(t) \/ ColumnsFail(t)
               \/ SampleRows(t) \/ SampleRefused(t) \/ SampleDocs(t)
               \/ SampleFails(t) \/ SampleNoMore(t)
               \/ DescribeNoMore(t) \/ DescribeNothing(t) \/ Describe(t) \/ DescribeFails(t)
        PROVE  UNCHANGED connectVars
    <2>1. CASE ReadColumns(t) \/ InferColumns(t) \/ ColumnsFail(t)
      BY <2>1 DEF ReadColumns, InferColumns, ColumnsFail, Keep
    <2>2. CASE SampleRows(t) \/ SampleRefused(t) \/ SampleDocs(t) \/ SampleFails(t) \/ SampleNoMore(t)
      BY <2>2 DEF SampleRows, SampleRefused, SampleDocs, SampleFails, SampleNoMore, Samples
    <2>3. CASE DescribeNoMore(t) \/ DescribeNothing(t) \/ Describe(t) \/ DescribeFails(t)
      BY <2>3 DEF DescribeNoMore, DescribeNothing, Describe, DescribeFails
    <2> QED
      BY <1>5, <2>1, <2>2, <2>3
  <1>6. CASE UNCHANGED connectVars
    BY <1>6 DEF connectVars
  <1> QED
    BY <1>1, <1>2, <1>3, <1>4, <1>5, <1>6 DEF StudyNext

LEMMA TurnShakes ==
    ASSUME GroundNext
    PROVE  surface' = surface /\ (at' = "up" => at \in {"handshake", "up"})
  <1>1. CASE Connect
    BY <1>1 DEF Connect, ConnectStep, OpenSurface, Acquire, HandshakeAccepted, HandshakeRefused,
                GiveUp, Backoff, Wake, CancelConnect, CloseSurface
  <1>2. CASE RunSql \/ SourceDone
    BY <1>2 DEF RunSql, SourceDone, ExecuteEnds
  <1>3. CASE UNCHANGED connectVars
    BY <1>3 DEF connectVars
  <1>4. CASE \E s \in Accessible : SourceTaken(s) \/ PassOver(s) \/ PickSource(s) \/ SketchRaises(s)
    BY <1>3, <1>4 DEF SourceTaken, PassOver, PickSource, SketchRaises, Takes
  <1>5. CASE \/ RouteSources \/ LoadTargets \/ GenerateSql \/ CheckSql \/ EngineRefused
             \/ QueriesDone \/ RetrieveContext \/ Reflect
    BY <1>3, <1>5
       DEF RouteSources, LoadTargets, GenerateSql, CheckSql, EngineRefused, QueriesDone,
           RetrieveContext, Reflect
  <1> QED
    BY <1>1, <1>2, <1>4, <1>5 DEF GroundNext

\* What a step of the composition makes of engine and session.
LEMMA HardKept ==
    ASSUME SeamInv, SeamInv', HardInv, [AccessNext]_<<studyVars, groundVars, hardenVars>>
    PROVE  HardInv'
  <1>1. CASE AccessNext
    <2>1. Harden
      BY <1>1 DEF AccessNext
    <2>2. surface' = surface /\ server' = server /\ (at' = "up" => at \in {"handshake", "up"})
      BY <1>1, <2>1, StudyShakes, TurnShakes DEF AccessNext, Harden
    <2>3. MakeEngine(engine) = MakeEngine(NoEngine) /\ MakeEngine(NoEngine)' = MakeEngine(NoEngine)
      BY <2>2 DEF MakeEngine, PostgresEngine, Handlers, NoEngine
    <2>4. /\ engines = (IF at \in Holding THEN 1 ELSE 0)
          /\ engines' = (IF at' \in Holding THEN 1 ELSE 0)
      BY <2>2 DEF SeamInv, EngineInv, Holding
    <2>5. "handshake" \in Holding /\ "idle" \notin Holding
      BY DEF Holding
    <2>6. ASSUME at' \in Holding \cup {"up"} PROVE engine' = MakeEngine(NoEngine) /\ ~Refused
      <3>1. at \in Holding \cup {"up"} \/ engines' > engines
        BY <2>2, <2>4, <2>5, <2>6
      <3>2. CASE engines' > engines
        BY <2>1, <2>3, <3>2 DEF Harden
      <3>3. CASE ~(engines' > engines)
        BY <2>1, <2>5, <2>6, <3>1, <3>3 DEF Harden, HardInv
      <3> QED
        BY <3>2, <3>3
    <2>7. Holding' = Holding /\ Refused' = Refused
      BY <2>2 DEF Holding, Refused
    <2>8. at' = "up" => session' = OnConnect(engine)
      BY <2>1 DEF Harden, HardInv
    <2>9. at' = "up" => engine' = engine
      BY <2>2, <2>5, <2>6 DEF HardInv
    <2>10. at' = "up" => OnConnect(engine)' = OnConnect(engine)
      BY <2>2, <2>9 DEF OnConnect, PostgresSession, ExecSets
    <2> QED
      BY <2>2, <2>3, <2>6, <2>7, <2>8, <2>10 DEF HardInv
  <1>2. CASE UNCHANGED <<studyVars, groundVars, hardenVars>>
    BY <1>2 DEF studyVars, connectVars, hardenVars, HardInv, Holding, Refused, MakeEngine, PostgresEngine,
                OnConnect, PostgresSession, ExecSets
  <1> QED
    BY <1>1, <1>2

LEMMA HardStarts == AccessInit => HardInv
  BY DEF AccessInit, StudyInit, ConnectInit, HardenInit, HardInv, Holding

\* What the invariant says of an open session, per kind of server.
LEMMA HardMeans == HardInv => SessionHardened
  <1> SUFFICES ASSUME HardInv, at = "up" PROVE SessionHardened
    BY DEF SessionHardened
  <1>1. engine = MakeEngine(NoEngine) /\ ~Refused /\ session = OnConnect(engine) /\ server \in Servers
    BY DEF HardInv
  <1>2. server.url \in {"asyncpg", "libpq", "foreign"} /\ server.options \in Seq(Entries)
    BY <1>1, HardeningAssumption DEF HardeningAssumption
  <1>3. ASSUME server.db = "postgresql", server.url # "foreign", ~OverruledByAdmin
        PROVE  {"read_only", "timeout"} \subseteq session
    <2>1. session = PostgresSession(engine) /\ engine = PostgresEngine
      BY <1>1, <1>3 DEF OnConnect, MakeEngine
    <2>2. CASE server.url = "asyncpg"
      <3>1. engine.args = {"read_only", "timeout"}
        BY <2>1, <2>2 DEF PostgresEngine, NoEngine
      <3> QED
        BY <2>1, <3>1 DEF PostgresSession
    <2>3. CASE server.url = "libpq"
      <3>1. engine.options = MergeOptions(server.options)
        BY <2>1, <2>3 DEF PostgresEngine, NoEngine
      <3>2. /\ InForce(engine.options, {"read_only=on", "read_only=off"}) = "read_only=on"
            /\ InForce(engine.options, {"our timeout", "a timeout"}) = "our timeout"
        BY <1>2, <1>3, <3>1, MergeHardens DEF OverruledByAdmin
      <3> QED
        BY <2>1, <3>2 DEF PostgresSession
    <2> QED
      BY <1>2, <1>3, <2>2, <2>3
  <1>4. surface = "chat" /\ server.db = "postgresql" => server.url # "foreign"
    BY <1>1 DEF Refused
  <1>5. ASSUME surface # "chat", server.db = "mysql"
        PROVE  session = MySqlSettings \ server.refuses
    BY <1>1, <1>5 DEF OnConnect, ExecSets, MakeEngine, Handlers, NoEngine
  <1>6. ASSUME surface # "chat", server.db = "mssql"
        PROVE  session = {"command_timeout"} \cup (MsSqlSettings \ server.refuses)
    BY <1>1, <1>6 DEF OnConnect, ExecSets, MakeEngine, Handlers, NoEngine
  <1> QED
    BY <1>3, <1>4, <1>5, <1>6 DEF SessionHardened

\* Whichever attempt it was that connected, on whichever surface: the session
\* is as hard as harden_postgres_connection and its siblings make it, for any
\* options an admin's URL may bring.
THEOREM SessionsHardened == AccessSpec => []SessionHardened
  <1>1. AccessInit => SeamInv /\ HardInv
    BY SeamStarts, HardStarts
  <1>2. SeamInv /\ HardInv /\ [AccessNext]_<<studyVars, groundVars, hardenVars>>
        => SeamInv' /\ HardInv'
    BY SeamKept, HardKept
  <1> QED
    BY <1>1, <1>2, HardMeans, PTL DEF AccessSpec
=============================================================================
