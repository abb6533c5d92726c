------------------------------ MODULE Hardening ------------------------------
(***************************************************************************)
(* What the engines of ConnectRetry ask of a customer's server before any  *)
(* statement runs: the settings that make a session read-only and bound    *)
(* its statements.  PostgreSQL gets them in the URL (libpq) or in          *)
(* connect_args (asyncpg), MySQL and SQL Server from a handler that runs   *)
(* on every new connection.                                                *)
(*                                                                         *)
(* Abstractions: a libpq options value is a sequence of well-formed        *)
(* "-c key=value" entries; a setting is a name.                            *)
(***************************************************************************)
EXTENDS ConnectRetry, Sequences, SequencesExt

CONSTANT
    Servers      \* the databases of the instance: see ServerType

\* db is the declared db_type; url is the kind of its connection string,
\* options the libpq options in it, refuses what the server will not SET.
Entries == {"read_only=on", "read_only=off", "our timeout", "a timeout", "other"}
MySqlSettings == {"read_only", "execution_time", "statement_time", "lock_wait"}
MsSqlSettings == {"lock_timeout", "read_uncommitted"}

ASSUME HardeningAssumption ==
    \A s \in Servers :
        /\ s.db \in {"postgresql", "mysql", "mssql", "mongodb"}
        /\ s.url \in {"asyncpg", "libpq", "foreign"}
        /\ s.options \in Seq(Entries)
        /\ s.url # "libpq" => s.options = <<>>
        /\ s.refuses \subseteq MySqlSettings \cup MsSqlSettings

VARIABLES
    server,     \* the database the surface is for
    engine,     \* the engine in hand: its sentinel, its handlers, what it was built with
    session     \* settings in force on the open session

hardenVars == <<server, engine, session>>

NoEngine == [hardened |-> FALSE, handlers |-> {}, options |-> <<>>, args |-> {}]

HardenInit ==
    /\ server \in Servers /\ engine = NoEngine /\ session = {}

\* --- PostgreSQL

\* One step of _merge_options: of our two flags the first is kept, a timeout
\* with our value in it.
MergeEntry(merged, entry) ==
    IF entry = "read_only=on" /\ Contains(merged, entry) THEN merged
    ELSE IF entry \notin {"our timeout", "a timeout"} THEN Append(merged, entry)
    ELSE IF Contains(merged, "our timeout") THEN merged
    ELSE Append(merged, "our timeout")

\* Mutant: ours go first, where a later entry of the admin overrules them.
OptionsFirst(options) == <<"read_only=on", "our timeout">> \o options

\* ... entry by entry, and what is missing is put at the end.
Merging(options) ==
    LET upto[k \in 0..Len(options)] ==
            IF k = 0 THEN <<>> ELSE MergeEntry(upto[k - 1], options[k])
    IN  upto

MergeOptions(options) ==
    LET merged == Merging(options)[Len(options)]
        Missing(entry) == IF Contains(merged, entry) THEN <<>> ELSE <<entry>>
    IN  merged \o Missing("read_only=on") \o Missing("our timeout")

\* The last entry for a setting is the one in force.
InForce(options, entries) ==
    LET at_ == {i \in DOMAIN options : options[i] \in entries}
    IN  IF at_ = {} THEN "none" ELSE options[CHOOSE i \in at_ : \A j \in at_ : j <= i]

PostgresSession(e) ==
    e.args
    \cup {x \in {"read_only"} : InForce(e.options, {"read_only=on", "read_only=off"}) = "read_only=on"}
    \cup {x \in {"timeout"} : InForce(e.options, {"our timeout", "a timeout"}) = "our timeout"}

\* harden_postgres_engine_kwargs; a foreign URL is a ValueError, after which
\* the study, the extraction and the probe go on with it as it is.
PostgresEngine ==
    CASE server.url = "asyncpg" -> [NoEngine EXCEPT !.args = {"read_only", "timeout"}]
      [] server.url = "libpq"   -> [NoEngine EXCEPT !.options = MergeOptions(server.options)]
      [] server.url = "foreign" -> NoEngine

\* --- MySQL and SQL Server

\* harden_mysql_connection, harden_mssql_connection: the sentinel is on the
\* engine that was just made.
Handlers(settings, last) ==
    [NoEngine EXCEPT !.hardened = TRUE, !.handlers = settings]

\* _exec_set: a SET the server refuses costs itself alone.
ExecSets(e) == e.handlers \ server.refuses

\* The chat query hardens PostgreSQL alone ("until Phase 2").
MakeEngine(last) ==
    IF server.db = "postgresql" THEN PostgresEngine
    ELSE IF surface = "chat" \/ server.db = "mongodb" THEN NoEngine
    ELSE IF server.db = "mysql" THEN Handlers(MySqlSettings, last)
    ELSE [Handlers(MsSqlSettings, last) EXCEPT !.args = {"command_timeout"}]

OnConnect(e) ==
    IF server.db = "postgresql" THEN PostgresSession(e) ELSE e.args \cup ExecSets(e)

\* _execute lets the ValueError of a foreign URL out.
Refused == surface = "chat" /\ server.db = "postgresql" /\ server.url = "foreign"

\* What a step of the surface does to engine and session.
Harden ==
    /\ engines' > engines => ~Refused
    /\ engine' = IF engines' > engines THEN MakeEngine(engine)
                 ELSE IF at' = "idle" THEN NoEngine ELSE engine
    /\ session' = IF at' # "up" THEN {} ELSE IF at = "up" THEN session ELSE OnConnect(engine)
    /\ UNCHANGED server

-----------------------------------------------------------------------------
(* Properties. *)

\* The admin's own options turn read-only off after they turned it on; that
\* they turn it on again is lost, since the first of our flags is kept.
OverruledByAdmin ==
    \E i, j \in DOMAIN server.options :
        i < j /\ server.options[i] = "read_only=on" /\ server.options[j] = "read_only=off"

\* Whatever attempt it was that succeeded, and on whichever surface, the
\* session it opened is as hard as the code makes it: PostgreSQL read-only
\* and with our timeout, on the chat surface without any way round it, also
\* against the options the admin's URL brings; MySQL and SQL Server with every
\* setting the server did not refuse.
SessionHardened ==
    at = "up" =>
        /\ server.db = "postgresql" /\ server.url # "foreign" /\ ~OverruledByAdmin =>
               {"read_only", "timeout"} \subseteq session
        /\ surface = "chat" /\ server.db = "postgresql" => server.url # "foreign"
        /\ surface # "chat" /\ server.db = "mysql" => session = MySqlSettings \ server.refuses
        /\ surface # "chat" /\ server.db = "mssql" =>
               session = {"command_timeout"} \cup (MsSqlSettings \ server.refuses)

\* _merge_options is idempotent on what it returns.
MergeIdempotent ==
    LET once == MergeOptions(server.options) IN MergeOptions(once) = once

\* (The code violates it: options that turn read-only on and off again keep
\* both entries, and the later one counts.)  A hardened URL is read-only.
UrlForcesReadOnly ==
    InForce(MergeOptions(server.options), {"read_only=on", "read_only=off"}) = "read_only=on"
=============================================================================
