---------------------------- MODULE ModelServing ----------------------------
(***************************************************************************)
(* What the API process serves of the configuration the admins edit: the   *)
(* AI model linked to a pipeline stage (AIModelResolver) and the active    *)
(* embedder (EmbeddingServiceFactory), behind caches with a time to live,  *)
(* a lock and an explicit invalidation; the syncs, which build a factory   *)
(* each; and the admin endpoints that edit the rows, link a stage, test,   *)
(* activate and delete embedders.                                          *)
(*                                                                         *)
(* Abstractions: one stage; a row is known by its version, which counts    *)
(* its edits; keys, prompts and names are part of it.  Embedders all have  *)
(* the locked dimensions, and a test that has aged is no test.             *)
(***************************************************************************)
EXTENDS Naturals, Sequences, FiniteSets

CONSTANTS
    Models, Embedders,   \* identities of ai_models and embedders rows
    Calls,               \* coroutines of the API process
    Syncs,               \* sync tasks, each with a factory of its own
    Admins,              \* concurrent admin requests
    None,                \* no row
    Deployments,         \* bound: the rows present at the start
    TimeToLive,          \* ttl_seconds
    MaxBuild,            \* timing assumption: how long a build may take
    MaxEdits             \* bound: admin requests, syncs and restarts

ASSUME ServingAssumption ==
    /\ TimeToLive \in Nat \ {0} /\ MaxBuild \in Nat
    /\ MaxEdits \in Nat
    /\ Deployments \subseteq SUBSET (Models \cup Embedders)
    /\ {None, "link", "active", "stage"} \cap (Models \cup Embedders) = {}

VARIABLES
    present,     \* rows of ai_models and embedders
    link,        \* ai_model_id of the stage's llm_configurations row
    active,      \* embedders with is_active
    tested,      \* embedders whose last_test_status is ok and fresh
    retired,     \* per row: how long ago each of its versions was replaced
    chunks,      \* stored chunks: embedder_id and the version that embedded them
    cache,       \* per cache and key: what is stored, and for how long
    lock,        \* per cache: the coroutine that holds its asyncio.Lock
    call,        \* per coroutine: what it resolves and how far it is
    sync,        \* per sync task
    admin,       \* per admin request: what it still has to do
    edits,       \* requests, syncs and restarts so far
    unheard      \* the active flag changed with no invalidation after it

rowVars == <<present, link, active, tested, retired>>
servingVars == <<rowVars, chunks, cache, lock, call, sync, admin, edits, unheard>>

Rows == {"link", "active"} \cup Models \cup Embedders
Keys == {"stage", "active"} \cup Embedders
Caches == {"resolver", "factory"}
\* _stage_cache of the resolver; _active_id and _cache of the factory.
CacheOf(key) == IF key = "stage" THEN "resolver" ELSE "factory"

Nothing == [age |-> 0, id |-> None, seen |-> {}, torn |-> FALSE]
Idle == [pc |-> "idle", key |-> "stage", id |-> None, seen |-> {}, since |-> 0, torn |-> FALSE,
         stale |-> 0]
Done == [Idle EXCEPT !.pc = "done"]
NoRequest == [op |-> "none", row |-> None]

TooLong == TimeToLive + MaxBuild   \* ages are not counted beyond
Version(row) == Len(retired[row])
Seen(row) == <<row, Version(row)>>
Touch(touched) == retired' = [r \in Rows |-> IF r \in touched THEN Append(retired[r], 0) ELSE retired[r]]

ServingInit ==
    /\ present \in Deployments
    /\ link \in (present \cap Models) \cup {None}
    /\ active \in {{e} : e \in present \cap Embedders} \cup {{}}
    /\ tested = present \cap Embedders
    /\ retired = [r \in Rows |-> <<>>] /\ chunks = {}
    /\ cache = [o \in Caches |-> [k \in Keys |-> Nothing]]
    /\ lock = [o \in Caches |-> None]
    /\ call = [c \in Calls |-> Idle]
    /\ sync = [s \in Syncs |-> Idle]
    /\ admin = [a \in Admins |-> NoRequest]
    /\ edits = 0 /\ unheard = FALSE

------------------------------------------------------------------------------
(* The caches. *)

Entry(key) == cache[CacheOf(key)][key]
\* Mutant: an entry is served at the end of its time to live too.
FreshInclusive(entry) == entry.seen # {} /\ entry.age <= TimeToLive

Fresh(entry) == entry.seen # {} /\ entry.age < TimeToLive

Building(c) == call[c].pc \in {"read", "model", "store"}

\* How long ago the oldest of these versions was replaced.
Age(seen) ==
    LET ages == {retired[s[1]][s[2] + 1] : s \in {t \in seen : t[2] < Version(t[1])}}
    IN  IF ages = {} THEN 0 ELSE CHOOSE a \in ages : \A b \in ages : b <= a

\* Mutant: for_active answers with the id that is cached when it returns.
ServeRereads(c, key, entry) ==
    LET active_id == cache["factory"]["active"].id IN
    call' = [call EXCEPT ![c] =
        [Idle EXCEPT !.pc = IF key = "active" THEN "lookup" ELSE "use",
                     !.key = IF key = "active" THEN entry.id ELSE key,
                     !.id = IF key \in Embedders /\ active_id # None THEN active_id ELSE entry.id,
                     !.seen = entry.seen, !.stale = Age(entry.seen)]]

\* The return of resolve, of _resolve_active_id, which for_active follows
\* with for_embedder(id), and of for_active itself.
Serve(c, key, entry) ==
    call' = [call EXCEPT ![c] =
        [Idle EXCEPT !.pc = IF key = "active" THEN "lookup" ELSE "use",
                     !.key = IF key = "active" THEN entry.id ELSE key,
                     !.id = IF key \in Embedders THEN call[c].id ELSE entry.id,
                     !.seen = entry.seen, !.stale = Age(entry.seen)]]

\* The path without the lock, or the queue of the lock.
Lookup(c, key) ==
    /\ IF Fresh(Entry(key)) THEN Serve(c, key, Entry(key))
       ELSE call' = [call EXCEPT ![c] = [Idle EXCEPT !.pc = "wait", !.key = key, !.id = call[c].id]]
    /\ UNCHANGED <<rowVars, chunks, cache, lock, sync, admin, edits, unheard>>

ResolveStage(c) == call[c].pc = "idle" /\ Lookup(c, "stage")
ForActive(c) == call[c].pc = "idle" /\ Lookup(c, "active")
ForEmbedder(c) == call[c].pc = "lookup" /\ Lookup(c, call[c].key)

\* The lock, and the second look at the cache under it.
Acquire(c) ==
    LET key == call[c].key  own == CacheOf(key) IN
    /\ call[c].pc = "wait" /\ lock[own] = None
    /\ IF Fresh(Entry(key)) THEN Serve(c, key, Entry(key)) /\ UNCHANGED lock
       ELSE /\ lock' = [lock EXCEPT ![own] = c]
            /\ call' = [call EXCEPT ![c].pc = "read", ![c].since = 0]
    /\ UNCHANGED <<rowVars, chunks, cache, sync, admin, edits, unheard>>

Got(c, pc, id, seen) ==
    /\ call' = [call EXCEPT ![c].pc = pc, ![c].id = id, ![c].seen = @ \cup seen]
    /\ UNCHANGED <<rowVars, chunks, cache, lock, sync, admin, edits, unheard>>

\* get_by_slot, then get_by_id: two statements of a session.
ReadLink(c) ==
    /\ call[c].pc = "read" /\ call[c].key = "stage"
    /\ Got(c, "model", link, {Seen("link")})

\* The linked model, or any active one.
ReadModel(c) ==
    /\ call[c].pc = "model"
    /\ \E m \in Models \cap present :
        /\ call[c].id \in present => m = call[c].id
        /\ Got(c, "store", m, {Seen(m)})

ReadActive(c) ==
    /\ call[c].pc = "read" /\ call[c].key = "active"
    /\ \E e \in active : Got(c, "store", e, {Seen("active")})

ReadEmbedder(c) ==
    /\ call[c].pc = "read" /\ call[c].key \in Embedders \cap present
    /\ Got(c, "store", call[c].id, {Seen(call[c].key)})

\* No row to build from, or the database fails: the exception leaves the
\* async with, and resolve.
BuildFails(c) ==
    /\ call[c].pc \in {"read", "model"}
    /\ call' = [call EXCEPT ![c] = Idle]
    /\ lock' = [lock EXCEPT ![CacheOf(call[c].key)] = None]
    /\ UNCHANGED <<rowVars, chunks, cache, sync, admin, edits, unheard>>

\* The entry is stamped after the build, not when its rows were read.
StoreEntry(c) ==
    LET key == call[c].key  own == CacheOf(key)
        entry == [age |-> 0, id |-> call[c].id,
                  seen |-> call[c].seen, torn |-> call[c].torn]
    IN
    /\ call[c].pc = "store"
    /\ cache' = [cache EXCEPT ![own][key] = entry]
    /\ lock' = [lock EXCEPT ![own] = None]
    /\ Serve(c, key, entry)
    /\ UNCHANGED <<rowVars, chunks, sync, admin, edits, unheard>>

\* The stage calls its model; retrieve_context embeds the query and searches
\* the chunks of that id.
Uses(c) ==
    /\ call[c].pc = "use"
    /\ call' = [call EXCEPT ![c] = Idle]
    /\ UNCHANGED <<rowVars, chunks, cache, lock, sync, admin, edits, unheard>>

\* invalidate() takes no lock: a build under way will still store its entry.
Invalidated(own) ==
    /\ cache' = [cache EXCEPT ![own] = [k \in Keys |-> Nothing]]
    /\ call' = [c \in Calls |->
        IF Building(c) /\ CacheOf(call[c].key) = own
        THEN [call[c] EXCEPT !.torn = TRUE] ELSE call[c]]

\* The versions somebody may yet serve: the others need no age.
Held == UNION ({call[c].seen : c \in Calls} \cup {cache[o][k].seen : o \in Caches, k \in Keys})

\* An entry that expired a while ago is as good as none.
Tick ==
    /\ \A c \in Calls : Building(c) => call[c].since < MaxBuild
    /\ call' = [c \in Calls |-> IF Building(c) THEN [call[c] EXCEPT !.since = @ + 1] ELSE call[c]]
    /\ cache' = [o \in Caches |-> [k \in Keys |->
           IF cache[o][k] = Nothing \/ cache[o][k].age >= TimeToLive THEN Nothing
           ELSE [cache[o][k] EXCEPT !.age = @ + 1]]]
    /\ retired' = [r \in Rows |-> [n \in DOMAIN retired[r] |->
           IF retired[r][n] < TooLong /\ <<r, n - 1>> \in Held THEN retired[r][n] + 1 ELSE TooLong]]
    /\ UNCHANGED <<present, link, active, tested, chunks, lock, sync, admin, edits, unheard>>

------------------------------------------------------------------------------
(* A sync: for_source on a fresh factory, embedding, the chunks' insert.    *)

\* The id, then the row of that id.
SyncReads(s) ==
    /\ sync[s].pc = "idle" /\ edits < MaxEdits /\ edits' = edits + 1
    /\ \E e \in active :
           sync' = [sync EXCEPT ![s] = [@ EXCEPT !.pc = "embed", !.id = e, !.seen = {Seen(e)}]]
    /\ UNCHANGED <<rowVars, chunks, cache, lock, call, admin, unheard>>

\* chunks.embedder_id is a foreign key: the insert fails without the row.
SyncStores(s) ==
    /\ sync[s].pc = "embed"
    /\ chunks' = IF sync[s].id \in present
                 THEN chunks \cup {[stamp |-> sync[s].id, by |-> sync[s].seen]} ELSE chunks
    /\ sync' = [sync EXCEPT ![s] = Done]
    /\ UNCHANGED <<rowVars, cache, lock, call, admin, edits, unheard>>

------------------------------------------------------------------------------
(* The admin endpoints. *)

Ask(a) == admin[a] = NoRequest /\ edits < MaxEdits /\ edits' = edits + 1
Owes(a, op, row) == admin' = [admin EXCEPT ![a] = [op |-> op, row |-> row]]

\* Mutant: the cache is cleared before the commit.
PutStageLate(a) ==
    \/ /\ Ask(a) /\ Models \cap present # {}
       /\ Invalidated("resolver")
       /\ Owes(a, "late", None)
       /\ UNCHANGED <<rowVars, chunks, lock, sync, unheard>>
    \/ /\ admin[a].op = "late"
       /\ \E m \in Models \cap present : link' = m
       /\ Touch({"link"}) /\ Owes(a, "none", None)
       /\ UNCHANGED <<present, active, tested, chunks, cache, lock, call, sync, edits, unheard>>

\* update_stage_config up to the commit inside upsert.
PutStage(a) ==
    /\ Ask(a)
    /\ \E m \in Models \cap present : link' = m
    /\ Touch({"link"}) /\ Owes(a, "put", None)
    /\ UNCHANGED <<present, active, tested, chunks, cache, lock, call, sync, unheard>>

PutInvalidates(a) ==
    /\ admin[a].op = "put"
    /\ Invalidated("resolver") /\ Owes(a, "none", None)
    /\ UNCHANGED <<rowVars, chunks, lock, sync, edits, unheard>>

\* POST /invalidate-cache reaches the resolver of the API process.
InvalidateCache(a) ==
    /\ Ask(a) /\ Invalidated("resolver")
    /\ UNCHANGED <<rowVars, chunks, lock, sync, admin, unheard>>

\* create_model, patch_model, and delete_model of a model no stage links to
\* (a foreign key restricts it): the caches are left to expire.
CreateModel(a) ==
    /\ Ask(a)
    /\ \E m \in Models \ present : present' = present \cup {m} /\ Touch({m})
    /\ UNCHANGED <<link, active, tested, chunks, cache, lock, call, sync, admin, unheard>>

PatchModel(a) ==
    /\ Ask(a) /\ \E m \in Models \cap present : Touch({m})
    /\ UNCHANGED <<present, link, active, tested, chunks, cache, lock, call, sync, admin, unheard>>

DeleteModel(a) ==
    /\ Ask(a)
    /\ \E m \in (Models \cap present) \ {link} : present' = present \ {m} /\ Touch({m})
    /\ UNCHANGED <<link, active, tested, chunks, cache, lock, call, sync, admin, unheard>>

\* one_active_embedder, the partial unique index: a commit that breaks it fails.
IndexAllows(flags) == Cardinality(flags) <= 1

CreateEmbedder(a) ==
    /\ Ask(a)
    /\ \E e \in Embedders \ present, on \in BOOLEAN :
        LET flags == IF on THEN active \cup {e} ELSE active IN
        /\ IndexAllows(flags) /\ active' = flags
        /\ present' = present \cup {e}
        /\ Touch(IF on THEN {e, "active"} ELSE {e})
        /\ unheard' = (unheard \/ on)
    /\ UNCHANGED <<link, tested, chunks, cache, lock, call, sync, admin>>

\* PATCH may change the model of a row and turn the row off, not on; what was
\* tested stays tested.
PatchEmbedder(a) ==
    /\ Ask(a)
    /\ \E e \in Embedders \cap present :
        \/ Touch({e}) /\ UNCHANGED <<active, unheard>>
        \/ e \in active /\ active' = active \ {e} /\ Touch({"active"}) /\ unheard' = TRUE
    /\ UNCHANGED <<present, link, tested, chunks, cache, lock, call, sync, admin>>

\* test_connection_record pings with what it read, and writes afterwards.
TestEmbedder(a) ==
    /\ Ask(a)
    /\ \E e \in Embedders \cap present : Owes(a, "test", e)
    /\ UNCHANGED <<rowVars, chunks, cache, lock, call, sync, unheard>>

TestWritten(a) ==
    /\ admin[a].op = "test"
    /\ LET e == admin[a].row IN
       \/ e \in present /\ tested' = tested \cup {e}
       \/ tested' = tested \ {e}
    /\ Owes(a, "none", None)
    /\ UNCHANGED <<present, link, active, retired, chunks, cache, lock, call, sync, edits, unheard>>

\* activate_embedder: the row and its test, then the commit of both flags and
\* the audit row, then the factory of the API process.
ActivateChecks(a) ==
    /\ Ask(a)
    /\ \E e \in tested : Owes(a, IF e \in active THEN "reactivate" ELSE "activate", e)
    /\ UNCHANGED <<rowVars, chunks, cache, lock, call, sync, unheard>>

\* The prior active row as get_active reads it, before the updates wait for
\* the rows another request holds.
ActivateReadsPrior(a) ==
    /\ admin[a].op = "activate"
    /\ \E prior \in active \cup (IF active = {} THEN {None} ELSE {}) :
           admin' = [admin EXCEPT ![a] = [op |-> "flip", row |-> <<admin[a].row, prior>>]]
    /\ UNCHANGED <<rowVars, chunks, cache, lock, call, sync, edits, unheard>>

ActivateCommits(a) ==
    /\ admin[a].op = "flip"
    /\ LET e == admin[a].row[1]  flags == (active \ {admin[a].row[2]}) \cup {e}
       IN  IF e \in present /\ IndexAllows(flags)
           THEN /\ active' = flags /\ Touch({"active"})
                /\ Owes(a, "announce", None)
           ELSE Owes(a, "none", None) /\ UNCHANGED <<active, retired>>
    /\ UNCHANGED <<present, link, tested, chunks, cache, lock, call, sync, edits, unheard>>

ActivateInvalidates(a) ==
    /\ admin[a].op \in {"announce", "reactivate"}
    /\ Invalidated("factory") /\ Owes(a, "none", None)
    /\ unheard' = FALSE
    /\ UNCHANGED <<rowVars, chunks, lock, sync, edits>>

\* delete_embedder reads the flag and counts the chunks, then deletes by id;
\* the foreign key of chunks still holds at the commit.
DeleteChecks(a) ==
    /\ Ask(a)
    /\ \E e \in (Embedders \cap present) \ active :
        /\ \A x \in chunks : x.stamp # e
        /\ Owes(a, "delete", e)
    /\ UNCHANGED <<rowVars, chunks, cache, lock, call, sync, unheard>>

DeleteCommits(a) ==
    /\ admin[a].op = "delete"
    /\ LET e == admin[a].row  gone == \A x \in chunks : x.stamp # e IN
       /\ present' = IF gone THEN present \ {e} ELSE present
       /\ active' = IF gone THEN active \ {e} ELSE active
       /\ tested' = IF gone THEN tested \ {e} ELSE tested
       /\ Touch(IF gone THEN {e} \cup (IF e \in active THEN {"active"} ELSE {}) ELSE {})
       /\ unheard' = (unheard \/ (gone /\ e \in active))
    /\ Owes(a, "none", None)
    /\ UNCHANGED <<link, chunks, cache, lock, call, sync, edits>>

\* The API process restarts with empty caches and seeds an unlinked stage;
\* what its requests had left to do is lost.
Boot ==
    /\ edits < MaxEdits /\ edits' = edits + 1
    /\ cache' = [own \in Caches |-> [k \in Keys |-> Nothing]]
    /\ lock' = [own \in Caches |-> None]
    /\ call' = [c \in Calls |-> Idle]
    /\ admin' = [a \in Admins |-> NoRequest]
    /\ IF link = None /\ Models \cap present # {}
       THEN link' \in Models \cap present /\ Touch({"link"})
       ELSE UNCHANGED <<link, retired>>
    /\ unheard' = FALSE
    /\ UNCHANGED <<present, active, tested, chunks, sync>>

CallStep(c) ==
    \/ ResolveStage(c) \/ ForActive(c) \/ ForEmbedder(c) \/ Acquire(c) \/ ReadLink(c)
    \/ ReadModel(c) \/ ReadActive(c) \/ ReadEmbedder(c) \/ BuildFails(c) \/ StoreEntry(c)
    \/ Uses(c)

AdminStep(a) ==
    \/ PutStage(a) \/ PutInvalidates(a) \/ InvalidateCache(a) \/ CreateModel(a)
    \/ PatchModel(a) \/ DeleteModel(a) \/ CreateEmbedder(a) \/ PatchEmbedder(a)
    \/ TestEmbedder(a) \/ TestWritten(a) \/ ActivateChecks(a) \/ ActivateReadsPrior(a)
    \/ ActivateCommits(a) \/ ActivateInvalidates(a) \/ DeleteChecks(a) \/ DeleteCommits(a)

ServingNext ==
    \/ \E c \in Calls : CallStep(c)
    \/ \E s \in Syncs : SyncReads(s) \/ SyncStores(s)
    \/ \E a \in Admins : AdminStep(a)
    \/ Boot \/ Tick

ServingSpec == ServingInit /\ [][ServingNext]_servingVars

------------------------------------------------------------------------------
(* Properties. *)

\* What a resolver or the factory serves was the configuration at most a time
\* to live and a build ago, whatever invalidations were lost: "Admin updates
\* take effect on the next request after TTL".
StaleBounded == \A c \in Calls : call[c].stale <= TimeToLive - 1 + MaxBuild

\* In the API process the entry of the stage is the linked model, and the id
\* the factory holds the active embedder, unless the request that changed it
\* has not come to its invalidation, the entry's build was already under way
\* when it came, or a request without one (create, PATCH, DELETE) changed the flag.
InvalidationHeard ==
    LET stage == cache["resolver"]["stage"]  id == cache["factory"]["active"] IN
    /\ stage.seen # {} /\ Seen("link") \notin stage.seen =>
           stage.torn \/ \E a \in Admins : admin[a].op = "put"
    /\ id.seen # {} /\ id.id \notin active =>
           id.torn \/ unheard \/ \E a \in Admins : admin[a].op = "announce"

\* A search compares the query with vectors of the embedder that embedded it:
\* the id it filters by is that of its service, and a chunk of that id comes
\* from the same version of the row, unless a PATCH replaced its model.
FilterKeepsSpaces ==
    \A c \in Calls : call[c].pc = "use" /\ call[c].key # "stage" => \A x \in chunks :
        x.stamp = call[c].id => \E s \in call[c].seen, t \in x.by :
            s[1] = t[1] /\ (s[2] = t[2] \/ Version(s[1]) > 0)

\* (The code violates it: a PATCH of the model or key of an embedder keeps its
\* id, its chunks and its test.)  Query and chunks are in the same space.
SpacesNeverMix ==
    \A c \in Calls : call[c].pc = "use" /\ call[c].key # "stage" => \A x \in chunks :
        x.stamp = call[c].id => x.by = call[c].seen
=============================================================================
