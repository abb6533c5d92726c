----------------------------- MODULE Grounding -----------------------------
(***************************************************************************)
(* What a chat question is grounded on: the nodes source_router,           *)
(* text_to_query and retrieve_context of the v2 graph, once per pass of    *)
(* the reflector's loop.  text_to_query asks each routed database in turn  *)
(* for SQL, checks it, caps it, and runs it over a connection made by the  *)
(* chat surface of ConnectRetry; retrieve_context adds schema overviews    *)
(* and vector hits to the rows.  Meanwhile an admin may take a source out. *)
(*                                                                         *)
(* Abstractions: a statement is what the validator and inject_limit look   *)
(* at; a chunk is its id, its source and the pass that made it; each       *)
(* source holds one vector chunk; the query is not blank.                  *)
(***************************************************************************)
EXTENDS ConnectRetry

CONSTANTS
    Routable,    \* the sources of the system
    Accessible,  \* source_ids: those the asker may use
    KindOf,      \* "sql", "mongodb" or "documents", per source
    Limit,       \* _LIMIT
    Statements,  \* what the model may answer: see Validate
    MaxRows,     \* bound: rows a statement finds without a LIMIT
    Uncapped,    \* the cap of a statement with no LIMIT, or one that is no literal
    MaxPasses    \* 1 + PIPELINE_REFLECTOR_MAX_RETRIES

ASSUME GroundingAssumption ==
    /\ IsFiniteSet(Routable) /\ Accessible \subseteq Routable /\ Accessible # {}
    /\ KindOf \in [Routable -> {"sql", "mongodb", "documents"}]
    /\ Limit \in Nat \ {0} /\ MaxRows \in Nat /\ MaxPasses \in Nat \ {0}
    /\ Uncapped \notin Nat
    /\ Statements \subseteq [count : Nat, root : {"select", "setop", "other"},
                             inner : SUBSET {"setop", "write"}, cap : Nat \cup {Uncapped}]

VARIABLES
    node,       \* "router", "text_to_query", "retrieve_context", "generate", or how it ended
    pass,       \* times the router ran
    existing,   \* sources that are not deleted
    visible,    \* of those, the approved ones
    selected,   \* selected_source_ids
    targets,    \* text_to_query_source_ids
    toQuery,    \* rows of list_by_ids the loop has yet to visit
    asked,      \* the source the loop is at
    step,       \* where the loop is
    sql,        \* the statement in hand
    generated,  \* sources with an entry in generated_sql
    passedOver, \* skipped
    rows,       \* new_chunks
    chunks,     \* retrieved_chunks as the last retrieve_context left them
    sent        \* history: statements executed, and what became of them

queryLoop == <<toQuery, asked, step, sql>>
queryVars == <<generated, passedOver, rows, sent>>
routeVars == <<selected, targets>>
catalogVars == <<existing, visible>>
groundVars == <<node, pass, catalogVars, routeVars, queryLoop, queryVars, chunks>>

None == "none"
NoStatement == [count |-> 0, root |-> "other", inner |-> {}, cap |-> Uncapped]

GroundInit ==
    /\ node = "router" /\ pass = 1 /\ existing = Routable
    /\ visible = Routable
    /\ selected = {} /\ targets = {} /\ toQuery = {} /\ asked = None
    /\ step = "load" /\ sql = NoStatement
    /\ generated = {} /\ passedOver = {} /\ rows = {} /\ chunks = {} /\ sent = {}

\* An admin disapproves a source, or deletes it.
SourceTaken(s) ==
    /\ s \in visible /\ visible' = visible \ {s}
    /\ existing' \in {existing, existing \ {s}}
    /\ UNCHANGED <<connectVars, node, pass, routeVars, queryLoop, queryVars, chunks>>

-----------------------------------------------------------------------------
(* source_router. *)

\* Mutant: the ids the model answers are taken as they come.
SelectionUnclipped(picked) == IF picked = {} THEN Accessible ELSE picked

\* What the model selects is cut to what the asker may use; an empty rest
\* means everything.
Selection(picked) ==
    IF picked \cap Accessible = {} THEN Accessible ELSE picked \cap Accessible

\* The type of a source is that of its catalog row.
QueryTargets(picked, chosen, catalog) ==
    {s \in picked \cap chosen \cap catalog : KindOf[s] # "documents"}

RouteSources ==
    /\ node = "router"
    /\ \/ selected' = Accessible /\ targets' = {}          \* the call fails
       \/ \E picked, forSql \in SUBSET Routable : \E catalog \in {visible, {}} :
            /\ selected' = Selection(picked)
            /\ targets' = QueryTargets(forSql, selected', catalog)
    /\ node' = IF targets' = {} THEN "retrieve_context" ELSE "text_to_query"
    /\ rows' = {} /\ step' = "load"
    /\ UNCHANGED <<connectVars, pass, catalogVars, toQuery, asked, sql, generated,
                   passedOver, chunks, sent>>

-----------------------------------------------------------------------------
(* text_to_query. *)

\* list_by_ids leaves out what is gone; when it fails the node returns {}.
LoadTargets ==
    /\ node = "text_to_query" /\ step = "load"
    /\ \/ /\ toQuery' = targets \cap visible /\ step' = "pick"
          /\ generated' = {} /\ passedOver' = {} /\ sent' = {} /\ UNCHANGED node
       \/ /\ node' = "retrieve_context"
          /\ UNCHANGED <<toQuery, step, generated, passedOver, sent>>
    /\ UNCHANGED <<connectVars, pass, catalogVars, routeVars, asked, sql, rows, chunks>>

Skip(s) == passedOver' = passedOver \cup {s} /\ step' = "pick" /\ asked' = None /\ sql' = NoStatement
NextSource == UNCHANGED <<node, pass, catalogVars, routeVars, toQuery, chunks, rows>>

Takes(s) ==
    /\ node = "text_to_query" /\ step = "pick" /\ s \in toQuery
    /\ toQuery' = toQuery \ {s}
    /\ UNCHANGED <<connectVars, pass, catalogVars, routeVars, generated, rows, chunks, sent>>

\* No database, or a config that does not decrypt or has no connection string.
PassOver(s) == Takes(s) /\ Skip(s) /\ UNCHANGED node

\* The schema sketch of the last study that left a document, or the source's
\* own words.
PickSource(s) ==
    /\ Takes(s) /\ KindOf[s] # "documents"
    /\ step' = "generate" /\ asked' = s
    /\ UNCHANGED <<node, passedOver, sql>>

\* Reading the sketch is not guarded.
SketchRaises(s) ==
    /\ Takes(s) /\ KindOf[s] # "documents"
    /\ node' = "raised" /\ UNCHANGED <<step, asked, passedOver, sql>>

GenerateSql ==
    /\ node = "text_to_query" /\ step = "generate"
    /\ \/ Skip(asked)
       \/ sql' \in Statements /\ step' = "check" /\ UNCHANGED <<passedOver, asked>>
    /\ NextSource /\ UNCHANGED <<connectVars, generated, sent>>

\* validate_sql, in the order of its checks.
Validate(st) ==
    IF st.count = 0 THEN "parse_error"
    ELSE IF st.count > 1 THEN "multiple_statements"
    ELSE IF st.root = "setop" THEN "forbidden_set_operator"
    ELSE IF st.root # "select" THEN "not_select"
    ELSE IF "setop" \in st.inner THEN "forbidden_set_operator"
    ELSE IF "write" \in st.inner THEN "forbidden_keyword"
    ELSE "safe"

\* Mutant: a statement that has a LIMIT keeps it.
InjectLimitOnce(st) == IF st.cap = Uncapped THEN [st EXCEPT !.cap = Limit] ELSE st

\* inject_limit: a literal LIMIT or FETCH that is small enough stays.
InjectLimit(st) ==
    IF st.cap # Uncapped /\ st.cap <= Limit THEN st ELSE [st EXCEPT !.cap = Limit]

CheckSql ==
    /\ node = "text_to_query" /\ step = "check"
    /\ IF Validate(sql) = "safe"
       THEN /\ sql' = InjectLimit(sql) /\ generated' = generated \cup {asked}
            /\ step' = "connect" /\ UNCHANGED <<passedOver, asked>>
       ELSE Skip(asked) /\ UNCHANGED generated
    /\ NextSource /\ UNCHANGED <<connectVars, sent>>

\* No engine can be built: the hardening refuses the URL, or SQLAlchemy has no
\* driver for it, as for MongoDB's.
EngineRefused ==
    /\ node = "text_to_query" /\ step = "connect" /\ at = "idle"
    /\ Skip(asked) /\ NextSource /\ UNCHANGED <<connectVars, generated, sent>>

Connect ==
    /\ node = "text_to_query"
    /\ \/ step = "connect" /\ at # "up" /\ KindOf[asked] = "sql"
       \/ step = "ran"
    /\ ConnectStep
    /\ UNCHANGED groundVars

\* The locals of a connect_with_retry that has returned.
SeamForgets == attempt' = 0 /\ elapsed' = 0 /\ delay' = 0 /\ history' = NoHistory

\* The statement runs once, outside the retry seam.
RunSql ==
    /\ node = "text_to_query" /\ step = "connect" /\ at = "up"
    /\ \E found \in 0..MaxRows, works \in BOOLEAN :
           LET n == IF sql.cap # Uncapped /\ sql.cap < found THEN sql.cap ELSE found
           IN sent' = sent \cup {[source |-> asked, what |-> sql, works |-> works,
                                  rows |-> IF works THEN n ELSE 0]}
    /\ step' = "ran"
    /\ NextSource /\ SeamForgets
    /\ UNCHANGED <<surface, at, failure, engines, asked, sql, generated, passedOver>>

Answer(s) == CHOOSE e \in sent : e.source = s
RowsFrom(s, ids) == {[id |-> id, of |-> s, pass |-> pass] : id \in ids}

\* Mutant: rows are numbered per source and the id leaves the source out.
RowChunksPerSource(s) == RowsFrom(s, {<<"sql", "any", k>> : k \in 1..Answer(s).rows})

\* f"sql:{sid}:{len(new_chunks)}": the number goes on from source to source.
RowChunks(s) ==
    RowsFrom(s, {<<"sql", s, Cardinality(rows) + k>> : k \in 1..Answer(s).rows})

\* The engine of the source is gone with _execute.
ExecuteEnds ==
    /\ node = "text_to_query" /\ step \in {"connect", "ran"} /\ at = "closed"
    /\ at' = "idle" /\ failure' = NoFailure /\ SeamForgets /\ UNCHANGED <<surface, engines>>
    /\ step' = "pick" /\ asked' = None /\ sql' = NoStatement
    /\ UNCHANGED <<pass, catalogVars, routeVars, generated, chunks, sent>>

\* The rows become chunks; a failed connection or statement skips the source,
\* whose SQL stays among the generated; a cancellation ends the turn.
SourceDone ==
    /\ ExecuteEnds /\ UNCHANGED toQuery
    /\ IF step = "ran" /\ Answer(asked).works
       THEN rows' = rows \cup RowChunks(asked) /\ UNCHANGED <<node, passedOver>>
       ELSE /\ node' = IF step = "connect" /\ failure = NoFailure THEN "cancelled" ELSE node
            /\ passedOver' = passedOver \cup {asked} /\ UNCHANGED rows

QueriesDone ==
    /\ node = "text_to_query" /\ step = "pick" /\ toQuery = {}
    /\ node' = "retrieve_context"
    /\ UNCHANGED <<connectVars, pass, catalogVars, routeVars, queryLoop, queryVars, chunks>>

-----------------------------------------------------------------------------
(* retrieve_context. *)

VectorChunk(s) == [id |-> <<"vector", s>>, of |-> s, pass |-> pass]
SchemaChunk(s) == [id |-> <<"schema", s>>, of |-> s, pass |-> pass]

\* load_schema_context_chunks: a database that has a document gets one chunk,
\* unless its row, the document or the document's shape cannot be read.
\* Approval is not asked about.
Documentable == {s \in selected \cap existing : KindOf[s] # "documents"}

\* _merge_with_extras: of two chunks with one id the first stays, in the
\* order schema, hits, earlier passes, rows of this pass.
Merge(schema, found) ==
    LET Without(S, T) == {c \in S : ~\E d \in T : d.id = c.id}
        base == schema \cup found
        earlier == base \cup Without(chunks, base)
    IN earlier \cup Without(rows, earlier)

\* The search may find any of the selected sources' chunks, none above the
\* threshold, or fail for every variant of the query.
RetrieveContext ==
    /\ node = "retrieve_context"
    /\ \E schema \in SUBSET Documentable : \E found \in SUBSET selected :
           chunks' = Merge({SchemaChunk(s) : s \in schema}, {VectorChunk(s) : s \in found})
    /\ node' = "generate"
    /\ UNCHANGED <<connectVars, pass, catalogVars, routeVars, queryLoop, queryVars>>

\* The reflector accepts the answer or asks for another pass, of which only
\* retrieved_chunks is left: the nodes write the rest anew.
Reflect ==
    /\ node = "generate"
    /\ \/ /\ node' = "answered" /\ UNCHANGED <<pass, routeVars, queryVars>>
       \/ /\ pass < MaxPasses /\ pass' = pass + 1 /\ node' = "router"
          /\ selected' = {} /\ targets' = {}
          /\ generated' = {} /\ passedOver' = {} /\ rows' = {} /\ sent' = {}
    /\ UNCHANGED <<connectVars, catalogVars, queryLoop, chunks>>

GroundNext ==
    \/ \E s \in Accessible : SourceTaken(s) \/ PassOver(s) \/ PickSource(s) \/ SketchRaises(s)
    \/ RouteSources \/ LoadTargets \/ GenerateSql \/ CheckSql \/ EngineRefused
    \/ Connect \/ RunSql \/ SourceDone \/ QueriesDone \/ RetrieveContext \/ Reflect

-----------------------------------------------------------------------------
(* Properties. *)

\* A question stays where it may go, whatever ids and statements the models
\* make up: what the answer is written from belongs to a source the asker may
\* use (FR-019), and what reaches a database of those is one SELECT without a
\* write or a set operation in it, for no more rows than the limit.
QuestionInBounds ==
    /\ \A c \in chunks \cup rows : c.of \in Accessible
    /\ \A e \in sent : /\ e.source \in Accessible
                       /\ e.what.count = 1 /\ e.what.root = "select" /\ e.what.inner = {}
                       /\ e.what.cap \in 0..Limit

\* One source that fails costs the others nothing: behind text_to_query a
\* routed source is either skipped, or gone, or all rows it picked with are
\* there, under ids of their own; and they survive retrieve_context, whatever
\* fails in it, unless an earlier pass left a row under the same id
\* (retrieve.py: "We preserve them across this node's return paths").
OneSourceFails ==
    /\ node = "text_to_query" /\ step = "pick" /\ toQuery = {} =>
         /\ \A s \in targets \cap visible :
                s \in passedOver \/ \E e \in sent :
                    e.source = s /\ e.works /\ Cardinality({c \in rows : c.of = s}) = e.rows
         /\ \A c, d \in rows : c.id = d.id => c = d
         /\ {c.of : c \in rows} \cap passedOver = {}
    /\ node = "generate" => \A r \in rows :
         r \in chunks \/ \E c \in chunks : c.id = r.id /\ c.pass < r.pass

\* (The code violates it in the second pass: ids start over at zero, and the
\* older row of two wins.)  The rows of this pass reach the answer.
FreshRowsWin == node = "generate" => rows \subseteq chunks
=============================================================================
