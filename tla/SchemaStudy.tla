---------------------------- MODULE SchemaStudy ----------------------------
(***************************************************************************)
(* One run of the studying agent's inspector, study_sql_schema or          *)
(* study_mongo_schema: CONNECTING, INVENTORY, COLUMNS, SAMPLING and        *)
(* DESCRIBING over the tables of the source, and the SchemaDocument it     *)
(* returns or the SchemaStudyPhaseError it raises.  A SQL study connects   *)
(* through the seam of ConnectRetry, a MongoDB study with one ping.        *)
(*                                                                         *)
(* Abstractions: a table is known by whether it was kept, has sample       *)
(* values, rows, a description; its columns, keys, tags and the texts are  *)
(* left out.  A budget is a number of time units that steps may take.      *)
(***************************************************************************)
EXTENDS ConnectRetry

CONSTANTS
    Tables,      \* relations a source can have
    MaxTables,   \* _MAX_TABLES, _MAX_COLLECTIONS
    Budget,      \* of SAMPLING and of DESCRIBING, in time units
    Everything   \* the place of an error that names no table

ASSUME StudyAssumption ==
    /\ IsFiniteSet(Tables) /\ MaxTables \in Nat /\ Budget \in Nat
    /\ Everything \notin Tables

VARIABLES
    dialect,     \* "sql" or "mongodb"
    resolver,    \* an AIModelResolver is wired
    phase,       \* the phase the study is in, "done" at the end
    total,       \* total_seen
    listed,      \* relations after the cap
    populated,   \* tables whose row_count_estimate is known and positive
    todo,        \* tables the loop of the phase has yet to visit
    kept,        \* tables of the document
    valued,      \* tables with a sample value
    described,   \* tables with a description
    answered,    \* tables whose LLM call returned
    errors,      \* phase_errors: <<phase, error_key, table>>
    skipped,     \* skipped_tables
    spent,       \* time the phase has taken
    fault,       \* the SchemaStudyPhaseError raised
    document     \* the flags of the SchemaDocument returned

loopVars == <<todo, spent>>
tableVars == <<kept, valued, described, answered, errors, skipped>>
inventoryVars == <<total, listed, populated>>
studyVars == <<connectVars, dialect, resolver, phase, inventoryVars, loopVars,
               tableVars, fault, document>>

NoFault == [phase |-> "none", key |-> "none", attempts |-> 0]
NoDocument == [made |-> FALSE, partial |-> FALSE, coverage |-> FALSE, truncated |-> FALSE, ai |-> FALSE]

StudyInit ==
    /\ ConnectInit
    /\ dialect \in {"sql", "mongodb"} /\ resolver \in BOOLEAN
    /\ dialect = "mongodb" => surface = "study"
    /\ phase = "connecting" /\ total = 0 /\ listed = {} /\ todo = {}
    /\ populated = {}
    /\ kept = {} /\ valued = {} /\ described = {} /\ answered = {}
    /\ errors = {} /\ skipped = {} /\ spent = 0
    /\ fault = NoFault /\ document = NoDocument

Report(p, key, t) == errors' = errors \cup {<<p, key, t>>}
OutOfBudget == spent >= Budget

\* The finally that disposes the engine, or closes the client.
Dispose ==
    /\ at' = "closed"
    /\ engines' = IF at = "idle" THEN engines ELSE engines - 1

\* The raise of a SchemaStudyPhaseError.
Raise(p, key, attempts) ==
    /\ fault' = [phase |-> p, key |-> key, attempts |-> attempts]
    /\ phase' = "done" /\ Dispose
    /\ UNCHANGED <<surface, attempt, elapsed, delay, failure, history, dialect, resolver,
                   inventoryVars, loopVars, tableVars, document>>

NextPhase(p, over) ==
    /\ phase' = p /\ todo' = over /\ spent' = 0

\* --- CONNECTING

SqlConnect ==
    /\ dialect = "sql" /\ ConnectStep
    /\ UNCHANGED <<dialect, resolver, phase, inventoryVars, loopVars, tableVars, fault, document>>

\* _import_motor_client and client_factory(uri) fail before the try block.
MongoClient ==
    /\ dialect = "mongodb" /\ at = "idle"
    /\ \/ \E key \in {"MONGO_DRIVER_MISSING", "CONNECT_REFUSED"} : Raise("CONNECT", key, 0)
       \/ /\ at' = "handshake" /\ engines' = engines + 1
          /\ UNCHANGED <<surface, attempt, elapsed, delay, failure, history, dialect, resolver,
                         phase, inventoryVars, loopVars, tableVars, fault, document>>

MongoPing ==
    /\ dialect = "mongodb" /\ at = "handshake"
    /\ \/ \E key \in {"CONNECT_TIMEOUT", "CONNECT_AUTH_FAILED", "CONNECT_REFUSED"} :
              Raise("CONNECT", key, 0)
       \/ /\ at' = "up"
          /\ UNCHANGED <<surface, attempt, elapsed, delay, failure, engines, history, dialect,
                         resolver, phase, inventoryVars, loopVars, tableVars, fault, document>>

\* _phase_connecting maps the DBConnectionFailed to a phase error.
ConnectFails ==
    /\ surface = "study" /\ dialect = "sql" /\ at = "failed"
    /\ Raise("CONNECT", failure.category, failure.attempts)

StudyCancelled ==
    /\ surface = "study" /\ at = "cancelled" /\ phase # "done"
    /\ phase' = "done" /\ Dispose
    /\ UNCHANGED <<surface, attempt, elapsed, delay, failure, history, dialect, resolver,
                   inventoryVars, loopVars, tableVars, fault, document>>

\* The seam has returned, and its locals are gone.
Connected ==
    /\ surface = "study" /\ at = "up" /\ phase = "connecting"
    /\ NextPhase("inventory", {})
    /\ attempt' = 0 /\ elapsed' = 0 /\ history' = NoHistory
    /\ UNCHANGED <<surface, at, delay, failure, engines, dialect, resolver, inventoryVars, tableVars, fault, document>>

\* --- INVENTORY, with the row estimates, which are never fatal

InventoryFails ==
    /\ phase = "inventory"
    /\ Raise("INVENTORY", IF dialect = "sql" THEN "REFLECT_FAILED" ELSE "LIST_FAILED", 0)

\* The first MaxTables of what the source reports, in the order it reports them.
Capped(found) ==
    IF Cardinality(found) <= MaxTables THEN {found}
    ELSE {first \in SUBSET found : Cardinality(first) = MaxTables}

\* MongoDB collections are never counted.
Estimates(found) == IF dialect = "sql" THEN SUBSET found ELSE {{}}

Inventory ==
    /\ phase = "inventory"
    /\ \E found \in SUBSET Tables : \E first \in Capped(found) :
        /\ total' = Cardinality(found) /\ listed' = first
        /\ populated' \in Estimates(first)
        /\ NextPhase("columns", first)
    /\ UNCHANGED <<connectVars, dialect, resolver, tableVars, fault, document>>

\* --- COLUMNS

Keep(t) ==
    /\ phase = "columns" /\ t \in todo
    /\ todo' = todo \ {t} /\ kept' = kept \cup {t}
    /\ UNCHANGED <<connectVars, dialect, resolver, phase, inventoryVars, spent, valued,
                   described, answered, errors, skipped, fault, document>>

\* The columns, keys and indexes are reflected ...
ReadColumns(t) == dialect = "sql" /\ Keep(t)

\* ... or the fields inferred from the first documents of a collection.
InferColumns(t) == dialect = "mongodb" /\ Keep(t)

ColumnsFail(t) ==
    /\ phase = "columns" /\ t \in todo
    /\ todo' = todo \ {t} /\ skipped' = skipped \cup {t}
    /\ Report("COLUMNS", IF dialect = "sql" THEN "REFLECT_FAILED" ELSE "SAMPLE_DOCS_FAILED", t)
    /\ UNCHANGED <<connectVars, dialect, resolver, phase, inventoryVars, spent, kept, valued,
                   described, answered, fault, document>>

ColumnsDone ==
    /\ phase = "columns" /\ todo = {}
    /\ NextPhase("sampling", kept)
    /\ UNCHANGED <<connectVars, dialect, resolver, inventoryVars, tableVars, fault, document>>

\* --- SAMPLING

Visit(t) ==
    /\ t \in todo /\ todo' = todo \ {t}
    /\ IF OutOfBudget THEN UNCHANGED spent ELSE spent' \in {spent, spent + 1}

Samples(t, values) ==
    /\ phase = "sampling" /\ ~OutOfBudget /\ Visit(t)
    /\ valued' \in values
    /\ UNCHANGED <<connectVars, dialect, resolver, phase, inventoryVars, kept, described,
                   answered, errors, skipped, fault, document>>

\* Rows with values, or none of an empty or all-binary table.
SampleRows(t) == dialect = "sql" /\ Samples(t, {valued, valued \cup {t}})

\* _build_sample_sql: an identifier that cannot be quoted makes no statement.
SampleRefused(t) == dialect = "sql" /\ Samples(t, {valued})

\* The documents the fields were inferred from are looked at again.
SampleDocs(t) == dialect = "mongodb" /\ Samples(t, {valued, valued \cup {t}})

SampleKeys == IF dialect = "sql" THEN {"SAMPLE_TIMEOUT", "SAMPLE_DENIED", "SAMPLE_FAILED"}
              ELSE {"SAMPLE_FAILED"}

SampleFails(t) ==
    /\ phase = "sampling" /\ ~OutOfBudget /\ Visit(t)
    /\ \E key \in SampleKeys :
        /\ Report("SAMPLING", key, t)
        /\ skipped' = IF key = "SAMPLE_DENIED" THEN skipped \cup {t} ELSE skipped
    /\ UNCHANGED <<connectVars, dialect, resolver, phase, inventoryVars, kept, valued,
                   described, answered, fault, document>>

\* A spent budget leaves a warning in the log and no phase error.
SampleNoMore(t) ==
    /\ phase = "sampling" /\ OutOfBudget /\ Visit(t)
    /\ UNCHANGED <<connectVars, dialect, resolver, phase, inventoryVars, tableVars, fault, document>>

\* --- DESCRIBING

SamplingDone ==
    /\ phase = "sampling" /\ todo = {}
    /\ IF resolver /\ kept # {}
       THEN NextPhase("describing", kept) /\ UNCHANGED errors
       ELSE /\ NextPhase("assembling", {})
            /\ IF kept # {} THEN Report("DESCRIBING", "LLM_UNAVAILABLE", Everything)
               ELSE UNCHANGED errors
    /\ UNCHANGED <<connectVars, dialect, resolver, inventoryVars, kept, valued, described,
                   answered, skipped, fault, document>>

\* _is_signal_free_for_llm
SignalFree(t) == t \notin valued \cup populated

\* Mutant: a spent budget is only logged, as in SAMPLING.
DescribeNoMoreQuietly(t) ==
    /\ phase = "describing" /\ OutOfBudget /\ Visit(t)
    /\ UNCHANGED <<connectVars, dialect, resolver, phase, inventoryVars, kept, valued,
                   described, answered, errors, skipped, fault, document>>

DescribeNoMore(t) ==
    /\ phase = "describing" /\ OutOfBudget /\ Visit(t)
    /\ Report("DESCRIBING", "LLM_BUDGET", Everything)
    /\ UNCHANGED <<connectVars, dialect, resolver, phase, inventoryVars, kept, valued,
                   described, answered, skipped, fault, document>>

DescribeNothing(t) ==
    /\ phase = "describing" /\ ~OutOfBudget /\ SignalFree(t) /\ Visit(t)
    /\ Report("DESCRIBING", "NO_SIGNAL", t)
    /\ UNCHANGED <<connectVars, dialect, resolver, phase, inventoryVars, kept, valued,
                   described, answered, skipped, fault, document>>

\* content or "{}": an answer without a description counts as an answer.
Describe(t) ==
    /\ phase = "describing" /\ ~OutOfBudget /\ ~SignalFree(t) /\ Visit(t)
    /\ described' \in {described, described \cup {t}}
    /\ answered' = answered \cup {t}
    /\ UNCHANGED <<connectVars, dialect, resolver, phase, inventoryVars, kept, valued,
                   errors, skipped, fault, document>>

DescribeFails(t) ==
    /\ phase = "describing" /\ ~OutOfBudget /\ ~SignalFree(t) /\ Visit(t)
    /\ Report("DESCRIBING", "LLM_ERROR", t)
    /\ UNCHANGED <<connectVars, dialect, resolver, phase, inventoryVars, kept, valued,
                   described, answered, skipped, fault, document>>

\* The summary is asked for whatever is left of the budget.
Summarise ==
    /\ phase = "describing" /\ todo = {}
    /\ NextPhase("assembling", {})
    /\ \/ UNCHANGED errors
       \/ Report("DESCRIBING", "LLM_ERROR", Everything)
    /\ UNCHANGED <<connectVars, dialect, resolver, inventoryVars, kept, valued, described,
                   answered, skipped, fault, document>>

Truncated == total > Cardinality(listed)
Partial == errors # {}
PartialCoverage == skipped # {} \/ Truncated

Assemble ==
    /\ phase = "assembling"
    /\ document' = [made |-> TRUE, partial |-> Partial, coverage |-> PartialCoverage, 
                    truncated |-> Truncated, ai |-> kept = {} \/ (resolver /\ answered # {})]
    /\ phase' = "done" /\ Dispose
    /\ UNCHANGED <<surface, attempt, elapsed, delay, failure, history, dialect, resolver,
                   inventoryVars, loopVars, tableVars, fault>>

StudyNext ==
    \/ SqlConnect \/ MongoClient \/ MongoPing \/ ConnectFails \/ StudyCancelled \/ Connected
    \/ InventoryFails \/ Inventory \/ ColumnsDone \/ SamplingDone \/ Summarise \/ Assemble
    \/ \E t \in Tables : \/ ReadColumns(t) \/ InferColumns(t) \/ ColumnsFail(t)
                         \/ SampleRows(t) \/ SampleRefused(t) \/ SampleDocs(t)
                         \/ SampleFails(t) \/ SampleNoMore(t)
                         \/ DescribeNoMore(t) \/ DescribeNothing(t) \/ Describe(t)
                         \/ DescribeFails(t)

StudySpec == StudyInit /\ [][StudyNext]_studyVars

------------------------------------------------------------------------------
(* Properties. *)

Told(p, t) == \E e \in errors : e[1] = p /\ e[3] \in {t, Everything}

\* What a document leaves out it says, whatever failed on the way: a table
\* the source listed is in it or among the skipped ones; a table no model
\* answered for has an error that says why; a document without partial has
\* an answer for every table it lists; one without partial_coverage has every
\* table the source reported.
StudyAccounts ==
    document.made =>
        /\ kept \cup skipped = listed
        /\ \A t \in listed \ kept : Told("COLUMNS", t)
        /\ \A t \in kept \ answered : Told("DESCRIBING", t)
        /\ ~document.partial => listed \subseteq answered
        /\ ~document.coverage => Cardinality(kept) = total

\* (The code violates it when the SAMPLING budget is spent or an identifier is
\* refused: neither leaves an error.)  A table without sample values is one
\* that has none, or one an error or the coverage flag tells of.
SamplesTold ==
    document.made => \A t \in kept \ valued :
        t \notin populated \/ Told("SAMPLING", t) \/ t \in skipped
=============================================================================
