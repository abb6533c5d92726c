-------------------------- MODULE MCDatabaseAccess --------------------------
(* Small instances of DatabaseAccess for TLC. *)
EXTENDS DatabaseAccess

AllSurfaces == {"study", "extract", "probe", "chat"}
\* Single tiers, none, and texts that match two.
MCRefusals == {{}, {"auth"}, {"timeout"}, {"overloaded"}, {"auth", "unavailable"}, {"tls", "timeout"}}
\* At once, after three seconds, and later than the deadline of the probe.
Times == {0, 14, 47}

Server(db, url, options, refuses) ==
    [db |-> db, url |-> url, options |-> options, refuses |-> refuses]
MCServers ==
    {Server("postgresql", url, <<>>, {}) : url \in {"asyncpg", "foreign"}}
    \cup {Server("postgresql", "libpq", o, {}) : o \in
            {<<>>, <<"other">>, <<"read_only=off">>, <<"a timeout", "read_only=on">>,
             <<"read_only=on", "read_only=off">>, <<"read_only=off", "read_only=on", "read_only=on">>,
             <<"read_only=on", "read_only=off", "read_only=on">>, <<"our timeout", "a timeout">>}}
    \cup {Server("mysql", "foreign", <<>>, r) : r \in {{}, {"statement_time"}}}
    \cup {Server("mssql", "foreign", <<>>, {"lock_timeout"}), Server("mongodb", "foreign", <<>>, {})}

\* The long behaviours of a chat turn and of a study meet three of
\* the servers; connecting alone meets all.
ServersFor(s) == {server_ \in MCServers :
    /\ s = "chat" => server_.url # "libpq" /\ server_.refuses = {} /\ server_.db # "mongodb"
    /\ s = "study" => server_.db \in {"mssql", "mongodb"} \/ server_.options = <<"our timeout", "a timeout">>}
MCInit == AccessInit /\ server \in ServersFor(surface)
MCSpec == MCInit /\ [][AccessNext]_<<studyVars, groundVars, hardenVars>>

Statement(count, root, inner, cap) ==
    [count |-> count, root |-> root, inner |-> inner, cap |-> cap]
MCStatements ==
    {Statement(0, "other", {}, Uncapped), Statement(2, "select", {}, Uncapped),
     Statement(1, "setop", {}, Uncapped), Statement(1, "select", {"setop"}, Uncapped),
     Statement(1, "other", {"write"}, Uncapped), Statement(1, "select", {"write"}, Uncapped),
     Statement(1, "select", {}, Uncapped), Statement(1, "select", {}, 3)}

MCKindOf == [s \in {"d1", "d2", "files"} |-> IF s = "files" THEN "documents" ELSE "sql"]
=============================================================================
