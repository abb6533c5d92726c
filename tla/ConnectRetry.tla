---------------------------- MODULE ConnectRetry ----------------------------
(***************************************************************************)
(* The connect handshake of a customer database under connect_with_retry,  *)
(* on its four surfaces: the schema study and the chat query, which open   *)
(* one engine and run every attempt on it, and the extraction and the      *)
(* admin's probe, which open an engine per attempt.  A handshake may be    *)
(* refused or cancelled while it is on its way or while the seam sleeps.   *)
(*                                                                         *)
(* Abstractions: an exception is the set of the signal tiers its text      *)
(* matches; time is counted in fifths of a second from the first attempt,  *)
(* and only a handshake and a sleep take any.                              *)
(***************************************************************************)
EXTENDS Naturals, FiniteSets

CONSTANTS
    Surfaces,        \* subset of {"study", "extract", "probe", "chat"}
    Refusals,        \* exceptions a handshake may end with: sets of tiers
    HandshakeTimes   \* bound: how long a handshake may take

Tiers == {"tls", "auth", "role", "permission", "missing", "overloaded",
          "unavailable", "timeout", "unreachable"}
PermanentCategories == {"TLS_FAILED", "AUTH_FAILED", "PERMISSION_DENIED", "DATABASE_NOT_FOUND"}
Categories == PermanentCategories \cup
    {"SERVER_OVERLOADED", "SERVER_UNAVAILABLE", "CONNECT_TIMEOUT", "DB_UNREACHABLE", "UNKNOWN"}

ASSUME RetryAssumption ==
    /\ Surfaces \subseteq {"study", "extract", "probe", "chat"}
    /\ Refusals \subseteq SUBSET Tiers
    /\ HandshakeTimes \subseteq Nat

VARIABLES
    surface,     \* who connects
    at,          \* "idle", "attempt", "handshake", "backoff", "up", "failed", "cancelled", "closed"
    attempt,     \* attempts made
    elapsed,     \* now() - start
    delay,       \* the sleep that was chosen
    failure,     \* the DBConnectionFailed raised: category and attempts_made
    engines,     \* engines open
    history      \* handshakes sent, when the last one started, logins refused

connectVars == <<surface, at, attempt, elapsed, delay, failure, engines, history>>

Policy(s) ==
    IF s \in {"study", "extract"} THEN [attempts |-> 3, base |-> 5, cap |-> 20, deadline |-> 100]
    ELSE IF s = "chat" THEN [attempts |-> 2, base |-> 1, cap |-> 5, deadline |-> 15]
    ELSE [attempts |-> 1, base |-> 0, cap |-> 0, deadline |-> 25]

NoFailure == [category |-> "none", attempts |-> 0]
NoHistory == [sent |-> 0, lastStart |-> 0, refused |-> 0]

\* Mutant: the generic tiers first.
GenericFirst(refusal) ==
    IF "unavailable" \in refusal THEN "SERVER_UNAVAILABLE"
    ELSE IF "timeout" \in refusal THEN "CONNECT_TIMEOUT"
    ELSE IF "tls" \in refusal THEN "TLS_FAILED"
    ELSE IF refusal \cap {"auth", "role"} # {} THEN "AUTH_FAILED"
    ELSE "UNKNOWN"

\* The permanent, specific tiers come before the transient, generic ones.
Classify(refusal) ==
    IF "tls" \in refusal THEN "TLS_FAILED"
    ELSE IF refusal \cap {"auth", "role"} # {} THEN "AUTH_FAILED"
    ELSE IF "permission" \in refusal THEN "PERMISSION_DENIED"
    ELSE IF "missing" \in refusal THEN "DATABASE_NOT_FOUND"
    ELSE IF "overloaded" \in refusal THEN "SERVER_OVERLOADED"
    ELSE IF "unavailable" \in refusal THEN "SERVER_UNAVAILABLE"
    ELSE IF "timeout" \in refusal THEN "CONNECT_TIMEOUT"
    ELSE IF "unreachable" \in refusal THEN "DB_UNREACHABLE"
    ELSE "UNKNOWN"

MaxAttemptsFor(s, category) ==
    IF category \in PermanentCategories THEN 1 ELSE Policy(s).attempts

\* min(max_delay, base_delay * 2 ** (attempt - 1))
BackoffCap(s, n) ==
    LET grown == Policy(s).base * (2 ^ (n - 1))
    IN  IF grown < Policy(s).cap THEN grown ELSE Policy(s).cap

PastDeadline(s, spent, wait) == spent + wait >= Policy(s).deadline

EnginePerAttempt(s) == s \in {"extract", "probe"}

ConnectInit ==
    /\ surface \in Surfaces
    /\ at = "idle" /\ attempt = 0 /\ elapsed = 0 /\ delay = 0
    /\ failure = NoFailure /\ engines = 0
    /\ history = NoHistory

\* study_sql_schema and _execute build their engine before the seam.
OpenSurface ==
    /\ at = "idle"
    /\ at' = "attempt"
    /\ engines' = IF EnginePerAttempt(surface) THEN engines ELSE engines + 1
    /\ UNCHANGED <<surface, attempt, elapsed, delay, failure, history>>

\* The head of the loop: attempt += 1 and acquire().
Acquire ==
    /\ at = "attempt"
    /\ at' = "handshake" /\ attempt' = attempt + 1
    /\ engines' = IF EnginePerAttempt(surface) THEN engines + 1 ELSE engines
    /\ history' = [history EXCEPT !.sent = @ + 1, !.lastStart = elapsed]
    /\ UNCHANGED <<surface, elapsed, delay, failure>>

\* The probe disposes its engine on success too.
HandshakeAccepted ==
    /\ at = "handshake"
    /\ \E d \in HandshakeTimes : elapsed' = elapsed + d
    /\ at' = "up"
    /\ engines' = IF surface = "probe" THEN engines - 1 ELSE engines
    /\ UNCHANGED <<surface, attempt, delay, failure, history>>

GiveUp(category) ==
    /\ failure' = [category |-> category, attempts |-> attempt]
    /\ at' = "failed" /\ UNCHANGED delay

Backoff(category) ==
    \E wait \in 0..BackoffCap(surface, attempt) :
        \/ PastDeadline(surface, elapsed', wait) /\ GiveUp(category)
        \/ /\ ~PastDeadline(surface, elapsed', wait)
           /\ delay' = wait /\ at' = "backoff" /\ UNCHANGED failure

HandshakeRefused(refusal) ==
    /\ at = "handshake"
    /\ \E d \in HandshakeTimes : elapsed' = elapsed + d
    /\ engines' = IF EnginePerAttempt(surface) THEN engines - 1 ELSE engines
    /\ history' = [history EXCEPT !.refused = IF "auth" \in refusal THEN @ + 1 ELSE @]
    /\ LET category == Classify(refusal)
       IN  IF attempt >= MaxAttemptsFor(surface, category)
           THEN GiveUp(category) ELSE Backoff(category)
    /\ UNCHANGED <<surface, attempt>>

Wake ==
    /\ at = "backoff"
    /\ elapsed' = elapsed + delay /\ delay' = 0 /\ at' = "attempt"
    /\ UNCHANGED <<surface, attempt, failure, engines, history>>

\* Mutant: the engine of the attempt is disposed on an Exception only.
CancelLeaks ==
    /\ at \in {"handshake", "backoff"}
    /\ at' = "cancelled"
    /\ UNCHANGED <<surface, attempt, elapsed, delay, failure, engines, history>>

\* A cancellation is no Exception: the seam does not catch it, the
\* BaseException and finally clauses around acquire() dispose the engine.
CancelConnect ==
    /\ at \in {"handshake", "backoff"}
    /\ at' = "cancelled"
    /\ engines' = IF at = "handshake" /\ EnginePerAttempt(surface) THEN engines - 1 ELSE engines
    /\ UNCHANGED <<surface, attempt, elapsed, delay, failure, history>>

\* What follows the seam on the surfaces that do no more than connect: the
\* finally of _execute, disconnect() of a connector that was entered.
CloseSurface ==
    /\ surface # "study" /\ at \in {"up", "failed", "cancelled"}
    /\ at' = "closed"
    /\ engines' = IF surface = "chat" \/ (surface = "extract" /\ at = "up")
                  THEN engines - 1 ELSE engines
    /\ UNCHANGED <<surface, attempt, elapsed, delay, failure, history>>

ConnectStep ==
    \/ OpenSurface \/ Acquire \/ HandshakeAccepted \/ Wake \/ CancelConnect
    \/ CloseSurface \/ \E refusal \in Refusals : HandshakeRefused(refusal)

------------------------------------------------------------------------------
(* Properties. *)

\* The failure an admin reads is honest: as many attempts as handshakes were
\* sent, and no more than the surface allows; a server that refused the login
\* is not asked again, whatever else its message says; no attempt after the
\* first starts at or past the deadline of its surface.
ConnectHonest ==
    /\ at = "failed" => /\ failure.attempts = history.sent
                        /\ failure.attempts <= Policy(surface).attempts
    /\ history.refused > 0 =>
        /\ history.refused = 1 /\ at \in {"failed", "closed"}
        /\ failure.category \in PermanentCategories
    /\ history.sent > 1 => history.lastStart < Policy(surface).deadline

\* At most one engine is open at any time, and none is left when the surface
\* is closed, whichever way it ended.
EngineReleased ==
    /\ engines <= 1
    /\ at = "closed" => engines = 0
    /\ surface = "probe" /\ at # "handshake" => engines = 0
=============================================================================
