------------------------- MODULE ModelServing_proofs -------------------------
(***************************************************************************)
(* Proofs about what the API process serves of the configuration.  An      *)
(* entry and a build remember the versions of the rows they read; the      *)
(* invariants say which rows these are, how long ago each was replaced at  *)
(* most, and who still owes an invalidation for it.                        *)
(***************************************************************************)
EXTENDS ModelServing, SequenceTheorems, TLAPS

Ids == Models \cup Embedders \cup {None}
Versions == Rows \X Nat
EntryType == [age : Nat, id : Ids, seen : SUBSET Versions, torn : BOOLEAN]
CallType == [pc : {"idle", "lookup", "wait", "read", "model", "store", "use"}, key : Keys,
             id : Ids, seen : SUBSET Versions, since : Nat, torn : BOOLEAN, stale : Nat]
SyncType == [pc : {"idle", "embed", "done"}, key : Keys, id : Ids, seen : SUBSET Versions,
             since : Nat, torn : BOOLEAN, stale : Nat]

RequestType == [op : {"none", "put", "test", "activate", "reactivate", "flip", "announce", "delete"},
                row : Ids \cup (Embedders \X Ids)]
RequestOK(q) ==
    /\ q.op \in {"test", "activate", "reactivate", "delete"} => q.row \in Embedders
    /\ q.op = "flip" => q.row \in Embedders \X Ids

\* The rows, and what the requests and syncs in progress are about.
RowsInv ==
    /\ active \subseteq Embedders /\ tested \subseteq Embedders
    /\ link \in Models \cup {None}
    /\ retired \in [Rows -> Seq(Nat)]
    /\ admin \in [Admins -> RequestType] /\ \A a \in Admins : RequestOK(admin[a])
    /\ unheard \in BOOLEAN

\* What somebody has read who resolved a key.
Read(key, id, seen) ==
    \/ key = "stage" /\ \E n, k \in Nat, m \in Models : seen = {<<"link", n>>, <<m, k>>}
    \/ key = "active" /\ id \in Embedders /\ \E n \in Nat : seen = {<<"active", n>>}
    \/ key \in Embedders /\ id = key /\ \E n \in Nat : seen = {<<key, n>>}

\* A version exists, and was the row's at most so long ago.
Exists(ret, s) == s[2] <= Len(ret[s[1]])
Recent(ret, s, limit) ==
    Exists(ret, s) /\ (s[2] < Len(ret[s[1]]) => ret[s[1]][s[2] + 1] <= limit)

EntryOK(ret, key, entry) ==
    /\ entry.seen # {} => Read(key, entry.id, entry.seen)
    /\ \A s \in entry.seen : Recent(ret, s, entry.age + MaxBuild)

\* An entry lies in the cache of its key.
CacheInv ==
    /\ cache \in [Caches -> [Keys -> EntryType]]
    /\ \A o \in Caches, k \in Keys : EntryOK(retired, k, cache[o][k])

\* A coroutine knows what its place in resolve says it has read.
Progress(r) ==
    /\ r.pc \in {"wait", "read"} => r.seen = {} /\ (r.key \in Embedders => r.id = r.key)
    /\ r.pc = "model" => r.key = "stage" /\ \E n \in Nat : r.seen = {<<"link", n>>}
    /\ r.pc = "store" => Read(r.key, r.id, r.seen)
    /\ r.pc = "lookup" => r.key \in Embedders /\ r.id = r.key
    /\ r.pc = "use" => r.key = "stage" \/ (r.key \in Embedders /\ Read(r.key, r.id, r.seen))

CallOK(ret, r) ==
    /\ Progress(r)
    /\ \A s \in r.seen : Exists(ret, s)
    /\ r.pc \in {"read", "model", "store"} =>
         r.since <= MaxBuild /\ \A s \in r.seen : Recent(ret, s, r.since)
    /\ r.stale <= TimeToLive - 1 + MaxBuild

CallInv ==
    /\ call \in [Calls -> CallType]
    /\ \A c \in Calls : CallOK(retired, call[c])

\* A chunk is stamped with the embedder whose row its vectors came from.
Stamped(ret, id, seen) ==
    id \in Embedders /\ \E n \in Nat : n <= Len(ret[id]) /\ seen = {<<id, n>>}
ChunkInv ==
    /\ sync \in [Syncs -> SyncType]
    /\ \A s \in Syncs : sync[s].pc = "embed" => Stamped(retired, sync[s].id, sync[s].seen)
    /\ \A x \in chunks : Stamped(retired, x.stamp, x.by)

\* Somebody still has to invalidate the resolver, or the factory.
PutDue == \E a \in Admins : admin[a].op = "put"
FlagDue == unheard \/ \E a \in Admins : admin[a].op = "announce"

\* Who has read the link, or the flag, has the one that holds, or was torn by
\* an invalidation.
StageHeard(ret, r) == r.seen # {} => r.torn = TRUE \/ <<"link", Len(ret["link"])>> \in r.seen
FlagHeard(flags, r) == r.seen # {} => r.torn = TRUE \/ r.id \in flags
CallHeardStage(ret, r) == r.key = "stage" /\ r.pc \in {"model", "store"} => StageHeard(ret, r)
CallHeardFlag(flags, r) == r.key = "active" /\ r.pc = "store" => FlagHeard(flags, r)

HeardInv ==
    /\ ~ PutDue => /\ StageHeard(retired, cache["resolver"]["stage"])
                   /\ \A c \in Calls : CallHeardStage(retired, call[c])
    /\ ~ FlagDue => /\ FlagHeard(active, cache["factory"]["active"])
                    /\ \A c \in Calls : CallHeardFlag(active, call[c])

ServingInv == RowsInv /\ CacheInv /\ CallInv /\ ChunkInv /\ HeardInv

------------------------------------------------------------------------------
(* Versions and ages. *)

\* The names of rows and keys differ.
LEMMA Names ==
    /\ Embedders \subseteq Rows /\ Models \subseteq Rows /\ Embedders \subseteq Keys
    /\ "link" \in Rows /\ "active" \in Rows /\ "stage" \in Keys /\ "active" \in Keys
    /\ "stage" \notin Embedders /\ "active" \notin Embedders /\ "link" \notin Embedders
    /\ "link" \notin Models /\ "active" \notin Models /\ None \notin Embedders
    /\ None \notin Models
BY ServingAssumption DEF Rows, Keys

\* The times the model counts with.
LEMMA Times ==
    /\ TimeToLive \in Nat /\ TimeToLive >= 1 /\ MaxBuild \in Nat
    /\ TooLong \in Nat /\ TooLong = TimeToLive + MaxBuild
BY ServingAssumption DEF TooLong

\* Every row is as it was, or has a version more.
Grows(old, new) ==
    /\ new \in [Rows -> Seq(Nat)]
    /\ \A r \in Rows : new[r] = old[r] \/ new[r] = Append(old[r], 0)

\* Touch replaces the newest version of the rows it names.
LEMMA Touched ==
    ASSUME retired \in [Rows -> Seq(Nat)], NEW R, Touch(R)
    PROVE  Grows(retired, retired') /\ \A r \in Rows \ R : retired'[r] = retired[r]
<1>1. \A r \in Rows : Append(retired[r], 0) \in Seq(Nat)
  OBVIOUS
<1> QED
  BY <1>1 DEF Touch, Grows

\* What was known of a version stays true when rows get new ones.
LEMMA RecentKept ==
    ASSUME NEW old \in [Rows -> Seq(Nat)], NEW new, Grows(old, new),
           NEW s \in Versions, NEW limit \in Nat
    PROVE  /\ Exists(old, s) => Exists(new, s)
           /\ Recent(old, s, limit) => Recent(new, s, limit)
<1>1. s[1] \in Rows /\ s[2] \in Nat
  BY DEF Versions
<1> DEFINE u == old[s[1]]
           v == new[s[1]]
<1>2. u \in Seq(Nat) /\ v \in Seq(Nat) /\ (v = u \/ v = Append(u, 0))
  BY <1>1 DEF Grows
<1> HIDE DEF u, v
<1>3. Len(u) \in Nat /\ Len(v) \in Nat /\ Len(u) <= Len(v)
  BY <1>2
<1>4. ASSUME s[2] < Len(u) PROVE s[2] < Len(v) /\ v[s[2] + 1] = u[s[2] + 1]
  <2>1. s[2] < Len(v)
    BY <1>1, <1>3, <1>4
  <2>2. s[2] + 1 \in 1 .. Len(u)
    BY <1>1, <1>3, <1>4
  <2> QED
    BY <1>2, <2>1, <2>2
<1>5. ASSUME s[2] = Len(u), s[2] < Len(v) PROVE v[s[2] + 1] = 0
  BY <1>1, <1>2, <1>3, <1>5
<1>6. s[2] <= Len(u) => s[2] <= Len(v)
  BY <1>1, <1>3
<1>7. ASSUME s[2] <= Len(u), s[2] < Len(u) => u[s[2] + 1] <= limit, s[2] < Len(v)
      PROVE  v[s[2] + 1] <= limit
  BY <1>1, <1>3, <1>4, <1>5, <1>7
<1> QED
  BY <1>6, <1>7 DEF Exists, Recent, u, v

\* The newest version of a row has not been replaced.
LEMMA NewestRecent ==
    ASSUME NEW ret \in [Rows -> Seq(Nat)], NEW r \in Rows, NEW limit \in Nat
    PROVE  /\ <<r, Len(ret[r])>> \in Versions
           /\ Recent(ret, <<r, Len(ret[r])>>, limit)
<1>1. Len(ret[r]) \in Nat
  OBVIOUS
<1> QED
  BY <1>1 DEF Versions, Recent, Exists

\* One version is read of a key, or two.
LEMMA ReadPair ==
    ASSUME NEW key, NEW id, NEW seen, Read(key, id, seen)
    PROVE  seen \subseteq Versions /\ \E s, t \in Versions : seen = {s, t}
<1>1. CASE key = "stage"
  <2>1. PICK n \in Nat, k \in Nat, m \in Models : seen = {<<"link", n>>, <<m, k>>}
    BY <1>1, Names DEF Read
  <2>2. <<"link", n>> \in Versions /\ <<m, k>> \in Versions
    BY Names DEF Versions
  <2> QED
    BY <2>1, <2>2
<1>2. CASE key # "stage"
  <2>1. PICK r \in {"active"} \cup Embedders, n \in Nat : seen = {<<r, n>>}
    <3>1. CASE key = "active"
      BY <1>2, <3>1, Names DEF Read
    <3>2. CASE key # "active"
      BY <1>2, <3>2, Names DEF Read
    <3> QED
      BY <3>1, <3>2
  <2>2. <<r, n>> \in Versions
    BY Names DEF Versions
  <2> QED
    BY <2>1, <2>2
<1> QED
  BY <1>1, <1>2

\* Age finds the oldest version, and it is as recent as the others are.
LEMMA AgeBounded ==
    ASSUME retired \in [Rows -> Seq(Nat)], NEW seen, NEW limit \in Nat,
           \E s, t \in Versions : seen = {s, t},
           \A s \in seen : Recent(retired, s, limit)
    PROVE  Age(seen) \in Nat /\ Age(seen) <= limit
<1>1. PICK s \in Versions, t \in Versions : seen = {s, t}
  OBVIOUS
<1> DEFINE ages == {retired[v[1]][v[2] + 1] : v \in {w \in seen : w[2] < Version(w[1])}}
<1>2. \A v \in seen : v[2] < Version(v[1]) =>
          retired[v[1]][v[2] + 1] \in Nat /\ retired[v[1]][v[2] + 1] <= limit
  <2> SUFFICES ASSUME NEW v \in seen, v[2] < Version(v[1])
               PROVE  retired[v[1]][v[2] + 1] \in Nat /\ retired[v[1]][v[2] + 1] <= limit
    OBVIOUS
  <2>1. v[1] \in Rows /\ v[2] \in Nat
    BY <1>1 DEF Versions
  <2>2. retired[v[1]] \in Seq(Nat) /\ v[2] < Len(retired[v[1]])
    BY <2>1 DEF Version
  <2>3. v[2] + 1 \in 1 .. Len(retired[v[1]])
    BY <2>1, <2>2
  <2> QED
    BY <2>2, <2>3 DEF Recent
<1>3. \A a \in ages : a \in Nat /\ a <= limit
  BY <1>2
<1>4. \A a \in ages : a = retired[s[1]][s[2] + 1] \/ a = retired[t[1]][t[2] + 1]
  BY <1>1
<1>5. Age(seen) = IF ages = {} THEN 0 ELSE CHOOSE a \in ages : \A b \in ages : b <= a
  BY DEF Age
<1> HIDE DEF ages
<1>6. CASE ages = {}
  BY <1>5, <1>6
<1>7. CASE ages # {}
  <2>1. \E a \in ages : \A b \in ages : b <= a
    <3>1. PICK x \in ages : TRUE
      BY <1>7
    <3>2. CASE \A b \in ages : b <= x
      BY <3>2
    <3>3. CASE \E y \in ages : ~ (y <= x)
      <4>1. PICK y \in ages : ~ (y <= x)
        BY <3>3
      <4>2. x \in Nat /\ y \in Nat /\ x # y
        BY <1>3, <3>1, <4>1
      <4>3. \A b \in ages : b = x \/ b = y
        BY <1>4, <3>1, <4>1, <4>2
      <4>4. \A b \in ages : b <= y
        BY <4>1, <4>2, <4>3
      <4> QED
        BY <4>1, <4>4
    <3> QED
      BY <3>2, <3>3
  <2>2. Age(seen) \in ages
    BY <1>5, <1>7, <2>1
  <2> QED
    BY <1>3, <2>2
<1> QED
  BY <1>6, <1>7

------------------------------------------------------------------------------
(* A coroutine. *)

\* What a step of a coroutine may make of its record.
Sound(r) ==
    /\ r \in CallType
    /\ CallOK(retired, r)
    /\ ~ PutDue => CallHeardStage(retired, r)
    /\ ~ FlagDue => CallHeardFlag(active, r)

\* One that serves is sound: what it serves is not older than the bound.
LEMMA ServedSound ==
    ASSUME ServingInv, NEW c \in Calls, NEW key \in Keys, NEW entry \in EntryType,
           Read(key, entry.id, entry.seen),
           \A s \in entry.seen : Recent(retired, s, TimeToLive - 1 + MaxBuild),
           key \in Embedders => call[c].id = key,
           Serve(c, key, entry)
    PROVE  \E r : Sound(r) /\ call' = [call EXCEPT ![c] = r]
<1> DEFINE pc == IF key = "active" THEN "lookup" ELSE "use"
           next == IF key = "active" THEN entry.id ELSE key
           id == IF key \in Embedders THEN call[c].id ELSE entry.id
           stale == Age(entry.seen)
           r == [Idle EXCEPT !.pc = pc, !.key = next, !.id = id, !.seen = entry.seen,
                             !.stale = stale]
<1>1. call' = [call EXCEPT ![c] = r]
  BY DEF Serve
<1>2. TimeToLive - 1 + MaxBuild \in Nat
  <2>1. TimeToLive - 1 \in Nat
    BY Times
  <2> QED
    BY <2>1, Times
<1>3. retired \in [Rows -> Seq(Nat)] /\ call[c] \in CallType
  BY DEF ServingInv, RowsInv, CallInv
<1>4. Age(entry.seen) \in Nat /\ Age(entry.seen) <= TimeToLive - 1 + MaxBuild
  <2>1. \E s, t \in Versions : entry.seen = {s, t}
    BY ReadPair
  <2> DEFINE limit == TimeToLive - 1 + MaxBuild
  <2>2. limit \in Nat /\ \A s \in entry.seen : Recent(retired, s, limit)
    BY <1>2
  <2> HIDE DEF limit
  <2>3. Age(entry.seen) \in Nat /\ Age(entry.seen) <= limit
    BY <1>3, <2>1, <2>2, AgeBounded
  <2> QED
    BY <2>3 DEF limit
<1>5. entry.seen \subseteq Versions /\ entry.id \in Ids
  BY DEF EntryType
<1>6. key = "active" => entry.id \in Embedders
  BY Names DEF Read
<1>7. next \in Keys /\ id \in Ids /\ pc \in {"lookup", "use"} /\ stale \in Nat
  BY <1>3, <1>4, <1>5, <1>6, Names DEF CallType
<1>8. /\ r \in CallType /\ r.pc = pc /\ r.key = next /\ r.id = id /\ r.seen = entry.seen
      /\ r.stale = stale
  <2> HIDE DEF pc, next, id, stale
  <2> QED
    BY <1>5, <1>7 DEF Idle, CallType
<1> HIDE DEF r
<1>9. Progress(r)
  <2>1. CASE key = "stage"
    BY <2>1, <1>8, Names DEF Progress
  <2>2. CASE key = "active"
    BY <2>2, <1>6, <1>8, Names DEF Progress
  <2>3. CASE key \in Embedders
    <3>1. entry.id = key /\ call[c].id = key
      BY <2>3, Names DEF Read
    <3> QED
      BY <2>3, <3>1, <1>8, Names DEF Progress
  <2> QED
    BY <2>1, <2>2, <2>3 DEF Keys
<1>10. CallOK(retired, r)
  BY <1>4, <1>8, <1>9 DEF CallOK, Recent
<1>11. Sound(r)
  BY <1>8, <1>10 DEF Sound, CallHeardStage, CallHeardFlag
<1> QED
  BY <1>1, <1>11

\* A fresh entry is not older than the bound.
LEMMA FreshBounded ==
    ASSUME ServingInv, NEW key \in Keys, Fresh(Entry(key))
    PROVE  /\ Entry(key) \in EntryType
           /\ Read(key, Entry(key).id, Entry(key).seen)
           /\ \A s \in Entry(key).seen : Recent(retired, s, TimeToLive - 1 + MaxBuild)
<1>1. PICK e : e = Entry(key)
  OBVIOUS
<1>2. CacheOf(key) \in Caches
  BY DEF CacheOf, Caches
<1>3. e \in EntryType /\ EntryOK(retired, key, e)
  BY <1>1, <1>2 DEF Entry, ServingInv, CacheInv
<1>4. e.seen # {} /\ e.age < TimeToLive /\ e.age \in Nat /\ e.seen \subseteq Versions
  BY <1>1, <1>3 DEF Fresh, EntryType
<1>5. Read(key, e.id, e.seen)
  BY <1>3, <1>4 DEF EntryOK
<1>6. ASSUME NEW s \in e.seen PROVE Recent(retired, s, TimeToLive - 1 + MaxBuild)
  <2>1. Recent(retired, s, e.age + MaxBuild)
    BY <1>3 DEF EntryOK
  <2>2. s[1] \in Rows /\ s[2] \in Nat /\ retired \in [Rows -> Seq(Nat)]
    BY <1>4 DEF Versions, ServingInv, RowsInv
  <2>3. s[2] < Len(retired[s[1]]) => retired[s[1]][s[2] + 1] \in Nat
    BY <2>2
  <2> QED
    BY <1>4, <2>1, <2>3, Times DEF Recent
<1> QED
  BY <1>1, <1>3, <1>5, <1>6

\* Every step of a coroutine leaves a sound record; the rows and requests
\* stay as they are.
LEMMA CallStepSound ==
    ASSUME ServingInv, NEW c \in Calls, CallStep(c)
    PROVE  /\ \E r : Sound(r) /\ call' = [call EXCEPT ![c] = r]
           /\ UNCHANGED <<rowVars, chunks, sync, admin, unheard>>
           /\ cache' = cache \/ StoreEntry(c)
<1>1. call[c] \in CallType /\ CallOK(retired, call[c]) /\ Progress(call[c])
  BY DEF ServingInv, CallInv, CallOK
<1>2. retired \in [Rows -> Seq(Nat)] /\ active \subseteq Embedders /\ link \in Models \cup {None}
  BY DEF ServingInv, RowsInv
<1>3. ASSUME NEW key \in Keys, Lookup(c, key), key \in Embedders => call[c].id = key
      PROVE  \E r : Sound(r) /\ call' = [call EXCEPT ![c] = r]
  <2>1. CASE Fresh(Entry(key))
    <3>1. Serve(c, key, Entry(key))
      BY <1>3, <2>1 DEF Lookup
    <3>2. PICK e : e = Entry(key)
      OBVIOUS
    <3>3. Serve(c, key, e) /\ e \in EntryType /\ Read(key, e.id, e.seen)
          /\ \A s \in e.seen : Recent(retired, s, TimeToLive - 1 + MaxBuild)
      BY <2>1, <3>1, <3>2, FreshBounded
    <3> QED
      BY <1>3, <3>3, ServedSound
  <2>2. CASE ~ Fresh(Entry(key))
    <3> DEFINE r == [pc |-> "wait", key |-> key, id |-> call[c].id, seen |-> {}, since |-> 0,
                     torn |-> FALSE, stale |-> 0]
    <3>1. call' = [call EXCEPT ![c] = r]
      BY <1>3, <2>2 DEF Lookup, Idle
    <3>2. r \in CallType
      BY <1>1 DEF CallType
    <3>3. Sound(r)
      BY <3>2, <1>3, Times DEF Sound, CallOK, Progress, CallHeardStage, CallHeardFlag
    <3> QED
      BY <3>1, <3>3
  <2> QED
    BY <2>1, <2>2
<1> DEFINE Reads(pc, id, row) ==
        [call[c] EXCEPT !.pc = pc, !.id = id, !.seen = @ \cup {<<row, Len(retired[row])>>}]
<1>4. ASSUME NEW pc \in {"model", "store"}, NEW id \in Ids, NEW row \in Rows,
             call[c].pc \in {"read", "model"}, Got(c, pc, id, {Seen(row)}),
             Progress(Reads(pc, id, row)),
             ~ PutDue => CallHeardStage(retired, Reads(pc, id, row)),
             ~ FlagDue => CallHeardFlag(active, Reads(pc, id, row))
      PROVE  \E r : Sound(r) /\ call' = [call EXCEPT ![c] = r]
  <2> DEFINE new == <<row, Len(retired[row])>>
             r == Reads(pc, id, row)
  <2>1. call' = [call EXCEPT ![c] = r]
    BY <1>4 DEF Got, Seen, Version
  <2>2. /\ r \in CallType /\ r.since = call[c].since /\ r.stale = call[c].stale
        /\ r.seen = call[c].seen \cup {new} /\ r.pc = pc
    BY <1>1, <1>2, NewestRecent, Times DEF CallType
  <2>3. r.since \in Nat /\ r.since <= MaxBuild /\ \A s \in call[c].seen : Recent(retired, s, r.since)
    BY <1>1, <1>4, <2>2 DEF CallType, CallOK
  <2>4. Recent(retired, new, r.since)
    BY <1>2, <2>3, NewestRecent
  <2>5. \A s \in r.seen : Recent(retired, s, r.since) /\ Exists(retired, s)
    BY <2>2, <2>3, <2>4 DEF Recent
  <2>6. r.stale <= TimeToLive - 1 + MaxBuild
    BY <1>1, <2>2 DEF CallOK
  <2> HIDE DEF r
  <2>7. CallOK(retired, r)
    BY <1>4, <2>3, <2>5, <2>6 DEF CallOK, r
  <2>8. Sound(r)
    BY <1>4, <2>2, <2>7 DEF Sound, r
  <2> QED
    BY <2>1, <2>8
<1>5. CASE ResolveStage(c)
  <2>1. Lookup(c, "stage")
    BY <1>5 DEF ResolveStage
  <2> QED
    BY <2>1, <1>3, Names DEF Lookup
<1>6. CASE ForActive(c)
  <2>1. Lookup(c, "active")
    BY <1>6 DEF ForActive
  <2> QED
    BY <2>1, <1>3, Names DEF Lookup
<1>7. CASE ForEmbedder(c)
  <2>1. Lookup(c, call[c].key) /\ call[c].key \in Embedders /\ call[c].id = call[c].key
    BY <1>7, <1>1 DEF ForEmbedder, Progress
  <2>2. PICK key \in Embedders : key = call[c].key
    BY <2>1
  <2> QED
    BY <2>1, <2>2, <1>3, Names DEF Lookup
<1>8. CASE Acquire(c)
  <2>1. PICK key \in Keys : key = call[c].key
    BY <1>1 DEF CallType
  <2>2. call[c].pc = "wait" /\ call[c].seen = {} /\ (key \in Embedders => call[c].id = key)
    BY <1>1, <1>8, <2>1 DEF Acquire, Progress
  <2>3. UNCHANGED <<rowVars, chunks, cache, sync, admin, unheard>>
    BY <1>8 DEF Acquire
  <2>4. CASE Fresh(Entry(key))
    <3>1. Serve(c, key, Entry(key))
      BY <1>8, <2>1, <2>4 DEF Acquire
    <3>2. PICK e : e = Entry(key)
      OBVIOUS
    <3>3. Serve(c, key, e) /\ e \in EntryType /\ Read(key, e.id, e.seen)
          /\ \A s \in e.seen : Recent(retired, s, TimeToLive - 1 + MaxBuild)
      BY <2>4, <3>1, <3>2, FreshBounded
    <3> QED
      BY <2>2, <2>3, <3>3, ServedSound
  <2>5. CASE ~ Fresh(Entry(key))
    <3> DEFINE r == [call[c] EXCEPT !.pc = "read", !.since = 0]
    <3>1. call' = [call EXCEPT ![c] = r]
      BY <1>8, <2>1, <2>5 DEF Acquire
    <3>2. /\ r \in CallType /\ r.pc = "read" /\ r.since = 0 /\ r.key = key /\ r.id = call[c].id
          /\ r.seen = {} /\ r.stale = call[c].stale
      BY <1>1, <2>1, <2>2 DEF CallType
    <3> HIDE DEF r
    <3>3. r.stale <= TimeToLive - 1 + MaxBuild
      BY <3>2, <1>1 DEF CallOK
    <3>4. CallOK(retired, r)
      BY <3>2, <3>3, <2>2, Times DEF CallOK, Progress
    <3>5. Sound(r)
      BY <3>2, <3>4 DEF Sound, CallHeardStage, CallHeardFlag
    <3> QED
      BY <3>1, <3>5, <2>3
  <2> QED
    BY <2>4, <2>5
<1>9. CASE ReadLink(c)
  <2>1. Got(c, "model", link, {Seen("link")}) /\ call[c].pc = "read" /\ call[c].key = "stage"
    BY <1>9 DEF ReadLink
  <2>2. PICK id \in Ids : id = link
    BY <1>2 DEF Ids
  <2> DEFINE r == Reads("model", id, "link")
  <2>3. /\ r.pc = "model" /\ r.key = "stage" /\ r.seen = {<<"link", Len(retired["link"])>>}
    BY <1>1, <2>1 DEF CallType, Progress
  <2>4. Len(retired["link"]) \in Nat
    BY <1>2, Names
  <2> HIDE DEF r
  <2>5. Progress(r) /\ CallHeardStage(retired, r) /\ CallHeardFlag(active, r)
    BY <2>3, <2>4 DEF Progress, CallHeardStage, StageHeard, CallHeardFlag
  <2>6. \E x : Sound(x) /\ call' = [call EXCEPT ![c] = x]
    BY <2>1, <2>2, <2>5, <1>4, Names DEF r
  <2> QED
    BY <2>1, <2>6 DEF Got
<1>10. CASE ReadModel(c)
  <2>1. PICK m \in Models : Got(c, "store", m, {Seen(m)})
    BY <1>10 DEF ReadModel
  <2>2. call[c].pc = "model" /\ call[c].key = "stage"
    BY <1>10, <1>1 DEF ReadModel, Progress
  <2>3. PICK n \in Nat : call[c].seen = {<<"link", n>>}
    BY <1>1, <2>2 DEF Progress
  <2>4. m \in Rows /\ m \in Ids
    BY Names DEF Ids
  <2>5. PICK k \in Nat : k = Len(retired[m])
    BY <2>4, <1>2
  <2> DEFINE r == Reads("store", m, m)
  <2>6. /\ r.pc = "store" /\ r.key = "stage" /\ r.torn = call[c].torn
        /\ r.seen = {<<"link", n>>, <<m, k>>}
    BY <1>1, <2>2, <2>3, <2>5 DEF CallType
  <2> HIDE DEF r
  <2>7. Progress(r)
    BY <2>6 DEF Progress, Read
  <2>8. ~ PutDue => CallHeardStage(retired, r)
    BY <2>2, <2>3, <2>6 DEF ServingInv, HeardInv, CallHeardStage, StageHeard
  <2>9. CallHeardFlag(active, r)
    BY <2>6 DEF CallHeardFlag
  <2>10. \E x : Sound(x) /\ call' = [call EXCEPT ![c] = x]
    BY <2>1, <2>2, <2>4, <2>7, <2>8, <2>9, <1>4 DEF r
  <2> QED
    BY <2>1, <2>10 DEF Got
<1>11. CASE ReadActive(c)
  <2>1. PICK e \in active : Got(c, "store", e, {Seen("active")})
    BY <1>11 DEF ReadActive
  <2>2. call[c].pc = "read" /\ call[c].key = "active" /\ call[c].seen = {}
    BY <1>11, <1>1 DEF ReadActive, Progress
  <2>3. e \in Embedders /\ e \in Ids
    BY <1>2 DEF Ids
  <2>4. PICK n \in Nat : n = Len(retired["active"])
    BY <1>2, Names
  <2> DEFINE r == Reads("store", e, "active")
  <2>5. /\ r.pc = "store" /\ r.key = "active" /\ r.id = e /\ r.seen = {<<"active", n>>}
    BY <1>1, <2>2, <2>4 DEF CallType
  <2> HIDE DEF r
  <2>6. Progress(r) /\ CallHeardStage(retired, r) /\ CallHeardFlag(active, r)
    BY <2>3, <2>5 DEF Progress, Read, CallHeardStage, CallHeardFlag, FlagHeard
  <2>7. \E x : Sound(x) /\ call' = [call EXCEPT ![c] = x]
    BY <2>1, <2>2, <2>3, <2>6, <1>4, Names DEF r
  <2> QED
    BY <2>1, <2>7 DEF Got
<1>12. CASE ReadEmbedder(c)
  <2>1. PICK e \in Embedders : e = call[c].key
    BY <1>12 DEF ReadEmbedder
  <2>2. call[c].pc = "read" /\ call[c].id = e /\ call[c].seen = {}
    BY <1>12, <1>1, <2>1 DEF ReadEmbedder, Progress
  <2>3. Got(c, "store", e, {Seen(e)}) /\ e \in Ids /\ e \in Rows
    BY <1>12, <2>1, <2>2, Names DEF ReadEmbedder, Ids
  <2>4. PICK n \in Nat : n = Len(retired[e])
    BY <1>2, <2>3
  <2> DEFINE r == Reads("store", e, e)
  <2>5. /\ r.pc = "store" /\ r.key = e /\ r.id = e /\ r.seen = {<<e, n>>}
    BY <1>1, <2>1, <2>2, <2>4 DEF CallType
  <2> HIDE DEF r
  <2>6. Progress(r) /\ CallHeardStage(retired, r) /\ CallHeardFlag(active, r)
    BY <2>5, Names DEF Progress, Read, CallHeardStage, CallHeardFlag
  <2>7. \E x : Sound(x) /\ call' = [call EXCEPT ![c] = x]
    BY <2>2, <2>3, <2>6, <1>4 DEF r
  <2> QED
    BY <2>3, <2>7 DEF Got
<1>13. Sound(Idle)
  <2>1. Idle \in CallType /\ Idle.pc = "idle" /\ Idle.seen = {} /\ Idle.stale = 0
    BY DEF Idle, CallType, Keys, Ids
  <2> QED
    BY <2>1, Times DEF Sound, CallOK, Progress, CallHeardStage, CallHeardFlag
<1>14. CASE BuildFails(c) \/ Uses(c)
  BY <1>13, <1>14 DEF BuildFails, Uses
<1>15. CASE StoreEntry(c)
  <2>1. PICK key \in Keys : key = call[c].key
    BY <1>1 DEF CallType
  <2>2. PICK entry : entry = [age |-> 0, id |-> call[c].id, seen |-> call[c].seen,
                              torn |-> call[c].torn]
    OBVIOUS
  <2>3. entry \in EntryType /\ entry.seen = call[c].seen /\ entry.id = call[c].id
    BY <1>1, <2>2 DEF CallType, EntryType
  <2>4. Read(key, entry.id, entry.seen)
    BY <1>1, <1>15, <2>1, <2>3 DEF StoreEntry, Progress
  <2>5. key \in Embedders => call[c].id = key
    BY <2>3, <2>4, Names DEF Read
  <2>6. ASSUME NEW s \in entry.seen PROVE Recent(retired, s, TimeToLive - 1 + MaxBuild)
    <3>1. Recent(retired, s, call[c].since) /\ call[c].since <= MaxBuild /\ call[c].since \in Nat
      BY <1>1, <1>15, <2>3 DEF StoreEntry, CallOK, CallType
    <3>2. s[1] \in Rows /\ s[2] \in Nat
      BY <2>3 DEF EntryType, Versions
    <3>3. s[2] < Len(retired[s[1]]) => retired[s[1]][s[2] + 1] \in Nat
      BY <1>2, <3>2
    <3> QED
      BY <3>1, <3>3, Times DEF Recent
  <2>7. Serve(c, key, entry)
    BY <1>15, <2>1, <2>2 DEF StoreEntry
  <2>8. \E r : Sound(r) /\ call' = [call EXCEPT ![c] = r]
    BY <2>3, <2>4, <2>5, <2>6, <2>7, ServedSound
  <2> QED
    BY <1>15, <2>8 DEF StoreEntry
<1> QED
  BY <1>5, <1>6, <1>7, <1>8, <1>9, <1>10, <1>11, <1>12, <1>14, <1>15 DEF CallStep

LEMMA CallKeeps ==
    ASSUME ServingInv, NEW c \in Calls, CallStep(c)
    PROVE  ServingInv'
<1>1. PICK r : Sound(r) /\ call' = [call EXCEPT ![c] = r]
  BY CallStepSound
<1>2. UNCHANGED <<rowVars, chunks, sync, admin, unheard>>
  BY CallStepSound
<1>3. /\ r \in CallType /\ CallOK(retired, r)
      /\ ~ PutDue => CallHeardStage(retired, r)
      /\ ~ FlagDue => CallHeardFlag(active, r)
  BY <1>1 DEF Sound
<1>4. /\ call \in [Calls -> CallType] /\ \A d \in Calls : CallOK(retired, call[d])
      /\ ~ PutDue => \A d \in Calls : CallHeardStage(retired, call[d])
      /\ ~ FlagDue => \A d \in Calls : CallHeardFlag(active, call[d])
  BY DEF ServingInv, CallInv, HeardInv
<1>5. call' \in [Calls -> CallType] /\ \A d \in Calls : call'[d] = call[d] \/ call'[d] = r
  BY <1>1, <1>3, <1>4
<1>6. retired' = retired /\ active' = active /\ (PutDue' <=> PutDue) /\ (FlagDue' <=> FlagDue)
  BY <1>2 DEF rowVars, PutDue, FlagDue
<1>7. RowsInv' /\ ChunkInv'
  BY <1>2 DEF ServingInv, RowsInv, ChunkInv, rowVars
<1>8. CallInv'
  BY <1>3, <1>4, <1>5, <1>6 DEF CallInv
<1>9. CASE cache' = cache
  <2>1. CacheInv'
    BY <1>6, <1>9 DEF ServingInv, CacheInv
  <2>2. HeardInv'
    BY <1>3, <1>4, <1>5, <1>6, <1>9 DEF ServingInv, HeardInv
  <2> QED
    BY <1>7, <1>8, <2>1, <2>2 DEF ServingInv
<1>10. CASE StoreEntry(c)
  <2>1. call[c] \in CallType /\ CallOK(retired, call[c]) /\ call[c].pc = "store"
    BY <1>4, <1>10 DEF StoreEntry
  <2>2. PICK key \in Keys : key = call[c].key
    BY <2>1 DEF CallType
  <2>3. PICK own \in Caches : own = CacheOf(key)
    BY DEF CacheOf, Caches
  <2>4. PICK entry : entry = [age |-> 0, id |-> call[c].id, seen |-> call[c].seen,
                              torn |-> call[c].torn]
    OBVIOUS
  <2>5. /\ entry \in EntryType /\ entry.age = 0 /\ entry.seen = call[c].seen
        /\ entry.id = call[c].id /\ entry.torn = call[c].torn
    BY <2>1, <2>4 DEF CallType, EntryType
  <2>6. cache' = [cache EXCEPT ![own][key] = entry]
    BY <1>10, <2>2, <2>3, <2>4 DEF StoreEntry
  <2>7. Read(key, entry.id, entry.seen)
    BY <2>1, <2>2, <2>5 DEF CallOK, Progress
  <2>8. ASSUME NEW s \in entry.seen PROVE Recent(retired, s, entry.age + MaxBuild)
    <3>1. Recent(retired, s, call[c].since) /\ call[c].since <= MaxBuild /\ call[c].since \in Nat
      BY <2>1, <2>5 DEF CallOK, CallType
    <3>2. s[1] \in Rows /\ s[2] \in Nat /\ retired \in [Rows -> Seq(Nat)]
      BY <2>5 DEF EntryType, Versions, ServingInv, RowsInv
    <3>3. s[2] < Len(retired[s[1]]) => retired[s[1]][s[2] + 1] \in Nat
      BY <3>2
    <3>4. entry.age + MaxBuild = MaxBuild /\ MaxBuild \in Nat
      BY <2>5, Times
    <3> QED
      BY <3>1, <3>3, <3>4 DEF Recent
  <2>9. EntryOK(retired, key, entry)
    BY <2>7, <2>8 DEF EntryOK
  <2>10. /\ cache \in [Caches -> [Keys -> EntryType]]
         /\ \A o \in Caches, k \in Keys : EntryOK(retired, k, cache[o][k])
    BY DEF ServingInv, CacheInv
  <2>11. /\ cache' \in [Caches -> [Keys -> EntryType]]
         /\ \A o \in Caches, k \in Keys :
               cache'[o][k] = IF o = own /\ k = key THEN entry ELSE cache[o][k]
    BY <2>5, <2>6, <2>10
  <2>12. CacheInv'
    BY <1>6, <2>9, <2>10, <2>11 DEF CacheInv
  <2>13. ~ PutDue => StageHeard(retired, cache'["resolver"]["stage"])
    <3>1. CASE own = "resolver" /\ key = "stage"
      BY <1>4, <2>1, <2>2, <2>5, <2>11, <3>1, Names DEF CallHeardStage, StageHeard, Caches
    <3>2. CASE ~ (own = "resolver" /\ key = "stage")
      BY <2>11, <3>2, Names DEF ServingInv, HeardInv, Caches
    <3> QED
      BY <3>1, <3>2
  <2>14. ~ FlagDue => FlagHeard(active, cache'["factory"]["active"])
    <3>1. CASE own = "factory" /\ key = "active"
      BY <1>4, <2>1, <2>2, <2>5, <2>11, <3>1, Names DEF CallHeardFlag, FlagHeard, Caches
    <3>2. CASE ~ (own = "factory" /\ key = "active")
      BY <2>11, <3>2, Names DEF ServingInv, HeardInv, Caches
    <3> QED
      BY <3>1, <3>2
  <2>15. HeardInv'
    BY <1>3, <1>4, <1>5, <1>6, <2>13, <2>14 DEF HeardInv
  <2> QED
    BY <1>7, <1>8, <2>12, <2>15 DEF ServingInv
<1> QED
  BY <1>9, <1>10, CallStepSound

------------------------------------------------------------------------------
(* A sync. *)

LEMMA SyncKeeps ==
    ASSUME ServingInv, NEW s \in Syncs, SyncReads(s) \/ SyncStores(s)
    PROVE  ServingInv'
<1>1. UNCHANGED <<rowVars, cache, call, admin, unheard>>
  BY DEF SyncReads, SyncStores
<1>2. RowsInv' /\ CacheInv' /\ CallInv'
  BY <1>1 DEF ServingInv, RowsInv, CacheInv, CallInv, rowVars
<1>3. HeardInv'
  BY <1>1 DEF ServingInv, HeardInv, PutDue, FlagDue, rowVars
<1>4. /\ sync \in [Syncs -> SyncType] /\ retired \in [Rows -> Seq(Nat)]
      /\ \A t \in Syncs : sync[t].pc = "embed" => Stamped(retired, sync[t].id, sync[t].seen)
      /\ \A x \in chunks : Stamped(retired, x.stamp, x.by)
      /\ active \subseteq Embedders /\ retired' = retired
  BY <1>1 DEF ServingInv, RowsInv, ChunkInv, rowVars
<1>5. CASE SyncReads(s)
  <2>1. PICK e \in active :
            sync' = [sync EXCEPT ![s] = [@ EXCEPT !.pc = "embed", !.id = e, !.seen = {Seen(e)}]]
    BY <1>5 DEF SyncReads
  <2>2. e \in Embedders /\ e \in Rows /\ e \in Ids
    BY <1>4, <2>1, Names DEF Ids
  <2>3. PICK n \in Nat : n = Len(retired[e])
    BY <1>4, <2>2
  <2> DEFINE new == [sync[s] EXCEPT !.pc = "embed", !.id = e, !.seen = {<<e, n>>}]
  <2>4. sync' = [sync EXCEPT ![s] = new]
    BY <2>1, <2>3 DEF Seen, Version
  <2>5. new \in SyncType /\ new.id = e /\ new.seen = {<<e, n>>}
    <3>1. sync[s] \in SyncType
      BY <1>4
    <3>2. {<<e, n>>} \in SUBSET Versions
      BY <2>2, <2>3 DEF Versions
    <3> QED
      BY <2>2, <3>1, <3>2 DEF SyncType
  <2>6. Stamped(retired, new.id, new.seen)
    BY <2>2, <2>3, <2>5 DEF Stamped
  <2> HIDE DEF new
  <2>7. sync' \in [Syncs -> SyncType] /\ \A t \in Syncs : sync'[t] = IF t = s THEN new ELSE sync[t]
    BY <1>4, <2>4, <2>5
  <2>8. ChunkInv'
    BY <1>4, <1>5, <2>6, <2>7 DEF ChunkInv, SyncReads
  <2> QED
    BY <1>2, <1>3, <2>8 DEF ServingInv
<1>6. CASE SyncStores(s)
  <2>1. Done \in SyncType /\ Done.pc = "done"
    BY DEF Done, Idle, SyncType, Ids, Keys
  <2>2. sync' = [sync EXCEPT ![s] = Done]
    BY <1>6 DEF SyncStores
  <2>3. sync' \in [Syncs -> SyncType] /\ \A t \in Syncs : sync'[t] = IF t = s THEN Done ELSE sync[t]
    BY <1>4, <2>1, <2>2
  <2>4. Stamped(retired, sync[s].id, sync[s].seen)
    BY <1>4, <1>6 DEF SyncStores
  <2>5. \A x \in chunks' : Stamped(retired, x.stamp, x.by)
    BY <1>4, <1>6, <2>4 DEF SyncStores
  <2>6. ChunkInv'
    BY <1>4, <2>1, <2>3, <2>5 DEF ChunkInv
  <2> QED
    BY <1>2, <1>3, <2>6 DEF ServingInv
<1> QED
  BY <1>5, <1>6

------------------------------------------------------------------------------
(* An admin request. *)

\* What a request changes of the rows it accounts for: a row only gets new
\* versions, and a change of the link or of the flags is followed by the
\* invalidation the request, or an unheard flag, stands for.
Accounted ==
    /\ Grows(retired, retired')
    /\ retired'["link"] = retired["link"] \/ PutDue'
    /\ active \subseteq active' \/ FlagDue'
    /\ PutDue => PutDue' \/ Invalidated("resolver")
    /\ FlagDue => FlagDue' \/ Invalidated("factory")
    /\ UNCHANGED <<call, cache>> \/ \E own \in Caches : Invalidated(own)
    /\ UNCHANGED <<chunks, sync>>

\* A request turns to something else, and what it owed was no invalidation.
LEMMA OwesKeeps ==
    ASSUME RowsInv, NEW a \in Admins, NEW op, NEW row,
           [op |-> op, row |-> row] \in RequestType, RequestOK([op |-> op, row |-> row]),
           Owes(a, op, row), admin[a].op \notin {"put", "announce"}
    PROVE  /\ admin' \in [Admins -> RequestType] /\ \A b \in Admins : RequestOK(admin'[b])
           /\ PutDue => PutDue'
           /\ (unheard => unheard') => (FlagDue => FlagDue')
           /\ op = "put" => PutDue'
           /\ op = "announce" => FlagDue'
<1> DEFINE q == [op |-> op, row |-> row]
<1>1. admin \in [Admins -> RequestType] /\ \A b \in Admins : RequestOK(admin[b])
  BY DEF RowsInv
<1>2. admin' = [admin EXCEPT ![a] = q] /\ q.op = op
  BY DEF Owes
<1>3. q \in RequestType /\ RequestOK(q)
  OBVIOUS
<1> HIDE DEF q
<1>4. admin' \in [Admins -> RequestType] /\ \A b \in Admins : admin'[b] = IF b = a THEN q ELSE admin[b]
  BY <1>1, <1>2, <1>3
<1>5. \A b \in Admins : admin[b].op \in {"put", "announce"} => admin'[b].op = admin[b].op
  BY <1>4
<1>6. (\E b \in Admins : admin[b].op = "announce") => \E b \in Admins : admin'[b].op = "announce"
  BY <1>5
<1> QED
  BY <1>1, <1>2, <1>3, <1>4, <1>5, <1>6 DEF PutDue, FlagDue

LEMMA AskedNothing ==
    ASSUME NEW a \in Admins, Ask(a)
    PROVE  admin[a].op \notin {"put", "announce"}
BY DEF Ask, NoRequest

\* What leaves the rows and caches alone accounts for it.
LEMMA QuietAccounted ==
    ASSUME RowsInv, UNCHANGED <<retired, active, call, cache, chunks, sync>>,
           PutDue => PutDue', FlagDue => FlagDue'
    PROVE  Accounted
BY DEF Accounted, Grows, RowsInv

LEMMA OnlyAsks ==
    ASSUME RowsInv, NEW a \in Admins,
           TestEmbedder(a) \/ TestWritten(a) \/ ActivateChecks(a) \/ ActivateReadsPrior(a)
               \/ DeleteChecks(a)
    PROVE  RowsInv' /\ Accounted
<1>1. /\ active \subseteq Embedders /\ tested \subseteq Embedders
      /\ admin[a] \in RequestType /\ RequestOK(admin[a])
  BY DEF RowsInv
<1>2. /\ UNCHANGED <<present, link, active, retired, call, cache, chunks, sync, unheard>>
      /\ tested' \subseteq Embedders
  <2>1. CASE TestWritten(a)
    BY <1>1, <2>1 DEF TestWritten, RequestOK
  <2> QED
    BY <1>1, <2>1 DEF TestEmbedder, ActivateChecks, ActivateReadsPrior, DeleteChecks, rowVars
<1>3. PICK op \in {"none", "test", "activate", "reactivate", "flip", "delete"},
            row \in Ids \cup (Embedders \X Ids) :
          /\ Owes(a, op, row)
          /\ RequestOK([op |-> op, row |-> row])
          /\ admin[a].op \notin {"put", "announce"}
  <2>1. CASE TestEmbedder(a)
    BY <2>1, AskedNothing DEF TestEmbedder, RequestOK, Ids
  <2>2. CASE TestWritten(a)
    BY <2>2 DEF TestWritten, RequestOK, Ids
  <2>3. CASE ActivateChecks(a)
    BY <1>1, <2>3, AskedNothing DEF ActivateChecks, RequestOK, Ids
  <2>4. CASE ActivateReadsPrior(a)
    <3>1. PICK prior \in active \cup {None} :
              admin' = [admin EXCEPT ![a] = [op |-> "flip", row |-> <<admin[a].row, prior>>]]
      BY <2>4 DEF ActivateReadsPrior
    <3>2. admin[a].op = "activate" /\ admin[a].row \in Embedders /\ prior \in Ids
      BY <1>1, <2>4, <3>1 DEF ActivateReadsPrior, RequestOK, Ids
    <3>3. <<admin[a].row, prior>> \in Embedders \X Ids
      BY <3>2
    <3> QED
      BY <3>1, <3>2, <3>3 DEF Owes, RequestOK
  <2>5. CASE DeleteChecks(a)
    BY <1>1, <2>5, AskedNothing DEF DeleteChecks, RequestOK, Ids
  <2> QED
    BY <2>1, <2>2, <2>3, <2>4, <2>5
<1>4. [op |-> op, row |-> row] \in RequestType
  BY <1>3 DEF RequestType
<1>5. /\ admin' \in [Admins -> RequestType] /\ \A b \in Admins : RequestOK(admin'[b])
      /\ PutDue => PutDue'
      /\ FlagDue => FlagDue'
  BY <1>2, <1>3, <1>4, OwesKeeps
<1>6. RowsInv'
  BY <1>2, <1>5 DEF RowsInv
<1>7. Accounted
  BY <1>2, <1>5, QuietAccounted
<1> QED
  BY <1>6, <1>7

\* The models' and the stage's endpoints.
LEMMA ModelRequests ==
    ASSUME RowsInv, NEW a \in Admins,
           CreateModel(a) \/ PatchModel(a) \/ DeleteModel(a) \/ PutStage(a)
    PROVE  RowsInv' /\ Accounted
<1>1. UNCHANGED <<active, tested, call, cache, chunks, sync, unheard>>
  BY DEF CreateModel, PatchModel, DeleteModel, PutStage
<1>2. CASE CreateModel(a) \/ PatchModel(a) \/ DeleteModel(a)
  <2>1. PICK m \in Models : Touch({m})
    BY <1>2 DEF CreateModel, PatchModel, DeleteModel
  <2>2. UNCHANGED <<link, admin>>
    BY <1>2 DEF CreateModel, PatchModel, DeleteModel
  <2>3. Grows(retired, retired') /\ retired'["link"] = retired["link"]
    BY <2>1, Touched, Names DEF RowsInv
  <2>4. (PutDue => PutDue') /\ (FlagDue => FlagDue')
    BY <1>1, <2>2 DEF PutDue, FlagDue
  <2> QED
    BY <1>1, <2>2, <2>3, <2>4 DEF Accounted, RowsInv, Grows
<1>3. CASE PutStage(a)
  <2>1. link' \in Models /\ Touch({"link"}) /\ Owes(a, "put", None)
        /\ admin[a].op \notin {"put", "announce"}
    BY <1>3, AskedNothing DEF PutStage
  <2>2. [op |-> "put", row |-> None] \in RequestType /\ RequestOK([op |-> "put", row |-> None])
    BY DEF RequestType, RequestOK, Ids
  <2>3. /\ admin' \in [Admins -> RequestType] /\ \A b \in Admins : RequestOK(admin'[b])
        /\ PutDue' /\ (FlagDue => FlagDue')
    BY <1>1, <2>1, <2>2, OwesKeeps
  <2>4. Grows(retired, retired')
    BY <2>1, Touched DEF RowsInv
  <2> QED
    BY <1>1, <2>1, <2>3, <2>4 DEF Accounted, RowsInv, Grows
<1> QED
  BY <1>2, <1>3

\* The requests that come to their invalidation.
LEMMA Invalidations ==
    ASSUME RowsInv, NEW a \in Admins,
           PutInvalidates(a) \/ InvalidateCache(a) \/ ActivateInvalidates(a)
    PROVE  RowsInv' /\ Accounted
<1>1. UNCHANGED <<present, link, active, tested, retired, chunks, sync>>
  BY DEF PutInvalidates, InvalidateCache, ActivateInvalidates, rowVars
<1>2. Grows(retired, retired')
  BY <1>1 DEF Grows, RowsInv
<1>3. [op |-> "none", row |-> None] \in RequestType /\ RequestOK([op |-> "none", row |-> None])
  BY DEF RequestType, RequestOK, Ids
<1> DEFINE none == [op |-> "none", row |-> None]
<1>4. admin' = admin \/ admin' = [admin EXCEPT ![a] = none]
  BY DEF PutInvalidates, InvalidateCache, ActivateInvalidates, Owes
<1>5. /\ admin' \in [Admins -> RequestType] /\ \A b \in Admins : RequestOK(admin'[b])
      /\ \A b \in Admins : b # a => admin'[b] = admin[b]
  <2> HIDE DEF none
  <2>1. none \in RequestType /\ RequestOK(none)
    BY <1>3 DEF none
  <2> QED
    BY <1>4, <2>1 DEF RowsInv
<1>6. unheard' \in BOOLEAN
  BY DEF PutInvalidates, InvalidateCache, ActivateInvalidates, RowsInv
<1>7. RowsInv'
  BY <1>1, <1>5, <1>6 DEF RowsInv
<1>8. CASE PutInvalidates(a)
  <2>1. admin[a].op = "put" /\ unheard' = unheard /\ Invalidated("resolver")
    BY <1>8 DEF PutInvalidates
  <2>2. FlagDue => FlagDue'
    BY <1>5, <2>1 DEF FlagDue
  <2> QED
    BY <1>1, <1>2, <1>7, <2>1, <2>2 DEF Accounted, Caches
<1>9. CASE InvalidateCache(a)
  <2>1. admin' = admin /\ unheard' = unheard /\ Invalidated("resolver")
    BY <1>9 DEF InvalidateCache
  <2>2. FlagDue => FlagDue'
    BY <2>1 DEF FlagDue
  <2> QED
    BY <1>1, <1>2, <1>7, <2>1, <2>2 DEF Accounted, Caches
<1>10. CASE ActivateInvalidates(a)
  <2>1. admin[a].op \in {"announce", "reactivate"} /\ Invalidated("factory")
    BY <1>10 DEF ActivateInvalidates
  <2>2. PutDue => PutDue'
    BY <1>5, <2>1 DEF PutDue
  <2> QED
    BY <1>1, <1>2, <1>7, <2>1, <2>2 DEF Accounted, Caches
<1> QED
  BY <1>8, <1>9, <1>10

\* The embedders' endpoints that write rows.
LEMMA EmbedderRequests ==
    ASSUME RowsInv, NEW a \in Admins,
           CreateEmbedder(a) \/ PatchEmbedder(a) \/ ActivateCommits(a) \/ DeleteCommits(a)
    PROVE  RowsInv' /\ Accounted
<1>1. UNCHANGED <<link, call, cache, chunks, sync>>
  BY DEF CreateEmbedder, PatchEmbedder, ActivateCommits, DeleteCommits
<1>2. /\ active \subseteq Embedders /\ tested \subseteq Embedders /\ unheard \in BOOLEAN
      /\ admin[a] \in RequestType /\ RequestOK(admin[a]) /\ retired \in [Rows -> Seq(Nat)]
      /\ admin \in [Admins -> RequestType] /\ \A b \in Admins : RequestOK(admin[b])
  BY DEF RowsInv
<1>3. Grows(retired, retired)
  BY <1>2 DEF Grows
<1>4. CASE CreateEmbedder(a)
  <2>1. PICK e \in Embedders, on \in BOOLEAN :
            /\ active' = IF on THEN active \cup {e} ELSE active
            /\ Touch(IF on THEN {e, "active"} ELSE {e})
            /\ unheard' = (unheard \/ on)
    BY <1>4 DEF CreateEmbedder
  <2>2. admin' = admin /\ tested' = tested
    BY <1>4 DEF CreateEmbedder
  <2>3. unheard' \in BOOLEAN /\ (unheard => unheard')
    BY <1>2, <2>1
  <2>4. Grows(retired, retired') /\ retired'["link"] = retired["link"]
    BY <1>2, <2>1, Touched, Names
  <2>5. (PutDue => PutDue') /\ (FlagDue => FlagDue')
    BY <2>2, <2>3 DEF PutDue, FlagDue
  <2>6. active \subseteq active' /\ active' \subseteq Embedders
    BY <1>2, <2>1
  <2> QED
    BY <1>1, <1>2, <2>2, <2>3, <2>4, <2>5, <2>6 DEF Accounted, RowsInv, Grows
<1>5. CASE PatchEmbedder(a)
  <2>1. PICK e \in Embedders :
            \/ Touch({e}) /\ UNCHANGED <<active, unheard>>
            \/ e \in active /\ active' = active \ {e} /\ Touch({"active"}) /\ unheard' = TRUE
    BY <1>5 DEF PatchEmbedder
  <2>2. admin' = admin /\ tested' = tested
    BY <1>5 DEF PatchEmbedder
  <2>3. unheard' \in BOOLEAN /\ (unheard => unheard') /\ (active \subseteq active' \/ unheard')
        /\ active' \subseteq Embedders
    BY <1>2, <2>1
  <2>4. Grows(retired, retired') /\ retired'["link"] = retired["link"]
    BY <1>2, <2>1, Touched, Names
  <2>5. (PutDue => PutDue') /\ (FlagDue => FlagDue')
    BY <2>2, <2>3 DEF PutDue, FlagDue
  <2>6. active \subseteq active' \/ FlagDue'
    BY <2>3 DEF FlagDue
  <2> QED
    BY <1>1, <1>2, <2>2, <2>3, <2>4, <2>5, <2>6 DEF Accounted, RowsInv, Grows
<1>6. CASE ActivateCommits(a)
  <2>1. UNCHANGED <<tested, unheard>> /\ admin[a].op = "flip" /\ admin[a].row \in Embedders \X Ids
    BY <1>2, <1>6 DEF ActivateCommits, RequestOK
  <2>2. \A op \in {"none", "announce"} :
            [op |-> op, row |-> None] \in RequestType /\ RequestOK([op |-> op, row |-> None])
    BY DEF RequestType, RequestOK, Ids
  <2>3. PICK op \in {"none", "announce"} : Owes(a, op, None) /\
            \/ /\ op = "announce" /\ Touch({"active"})
               /\ active' = (active \ {admin[a].row[2]}) \cup {admin[a].row[1]}
            \/ UNCHANGED <<active, retired>>
    BY <1>6 DEF ActivateCommits
  <2>4. /\ admin' \in [Admins -> RequestType] /\ \A b \in Admins : RequestOK(admin'[b])
        /\ (PutDue => PutDue') /\ (FlagDue => FlagDue') /\ (op = "announce" => FlagDue')
    BY <2>1, <2>2, <2>3, OwesKeeps
  <2>5. Grows(retired, retired') /\ retired'["link"] = retired["link"]
    BY <1>2, <1>3, <2>3, Touched, Names
  <2>6. active' \subseteq Embedders /\ (active \subseteq active' \/ FlagDue')
    BY <1>2, <2>1, <2>3, <2>4
  <2> QED
    BY <1>1, <1>2, <2>1, <2>4, <2>5, <2>6 DEF Accounted, RowsInv, Grows
<1>7. CASE DeleteCommits(a)
  <2>1. admin[a].op = "delete" /\ Owes(a, "none", None)
    BY <1>7 DEF DeleteCommits
  <2>2. [op |-> "none", row |-> None] \in RequestType /\ RequestOK([op |-> "none", row |-> None])
    BY DEF RequestType, RequestOK, Ids
  <2>3. PICK e : e = admin[a].row
    OBVIOUS
  <2>4. PICK R \in SUBSET {e, "active"} : Touch(R)
    <3>1. PICK gone \in BOOLEAN :
            Touch(IF gone THEN {e} \cup (IF e \in active THEN {"active"} ELSE {}) ELSE {})
      BY <1>7, <2>3 DEF DeleteCommits
    <3> QED
      BY <3>1
  <2>5. /\ active' \subseteq active /\ tested' \subseteq tested /\ unheard' \in BOOLEAN
        /\ (unheard => unheard') /\ (active \subseteq active' \/ unheard')
    BY <1>2, <1>7 DEF DeleteCommits
  <2>6. /\ admin' \in [Admins -> RequestType] /\ \A b \in Admins : RequestOK(admin'[b])
        /\ (PutDue => PutDue') /\ (FlagDue => FlagDue')
    BY <2>1, <2>2, <2>5, OwesKeeps
  <2>7. e \in Embedders
    BY <1>2, <2>1, <2>3 DEF RequestOK
  <2>8. Grows(retired, retired') /\ retired'["link"] = retired["link"]
    <3>1. "link" \in Rows \ R
      BY <2>4, <2>7, Names
    <3> QED
      BY <1>2, <2>4, <3>1, Touched
  <2>9. active \subseteq active' \/ FlagDue'
    BY <2>5 DEF FlagDue
  <2> QED
    BY <1>1, <1>2, <2>5, <2>6, <2>8, <2>9 DEF Accounted, RowsInv, Grows
<1> QED
  BY <1>4, <1>5, <1>6, <1>7

LEMMA AdminAccounted ==
    ASSUME RowsInv, NEW a \in Admins, AdminStep(a)
    PROVE  RowsInv' /\ Accounted
BY OnlyAsks, ModelRequests, Invalidations, EmbedderRequests DEF AdminStep

\* Rows that only get new versions leave what was read of them true.
LEMMA RowsGrow ==
    ASSUME ServingInv, NEW new, Grows(retired, new)
    PROVE  /\ \A key, e : e \in EntryType /\ EntryOK(retired, key, e) => EntryOK(new, key, e)
           /\ \A r \in CallType : CallOK(retired, r) => CallOK(new, r)
           /\ \A id, seen : Stamped(retired, id, seen) => Stamped(new, id, seen)
<1>1. retired \in [Rows -> Seq(Nat)]
  BY DEF ServingInv, RowsInv
<1>2. ASSUME NEW key, NEW e \in EntryType, EntryOK(retired, key, e) PROVE EntryOK(new, key, e)
  <2>1. e.seen \subseteq Versions /\ e.age + MaxBuild \in Nat
    BY Times DEF EntryType
  <2> DEFINE limit == e.age + MaxBuild
  <2>2. limit \in Nat /\ \A s \in e.seen : Recent(retired, s, limit)
    BY <1>2, <2>1 DEF EntryOK
  <2> HIDE DEF limit
  <2>3. \A s \in e.seen : Recent(new, s, limit)
    BY <1>1, <2>1, <2>2, RecentKept
  <2> QED
    BY <1>2, <2>3 DEF EntryOK, limit
<1>3. ASSUME NEW r \in CallType, CallOK(retired, r) PROVE CallOK(new, r)
  <2>1. r.seen \subseteq Versions /\ r.since \in Nat
    BY DEF CallType
  <2>2. \A s \in r.seen : Exists(new, s)
    BY <1>1, <1>3, <2>1, RecentKept, Times DEF CallOK
  <2>3. (\A s \in r.seen : Recent(retired, s, r.since)) => \A s \in r.seen : Recent(new, s, r.since)
    BY <1>1, <2>1, RecentKept
  <2> QED
    BY <1>3, <2>2, <2>3 DEF CallOK
<1>4. ASSUME NEW id, NEW seen, Stamped(retired, id, seen) PROVE Stamped(new, id, seen)
  <2>1. PICK n \in Nat : n <= Len(retired[id]) /\ seen = {<<id, n>>} /\ id \in Embedders
    BY <1>4 DEF Stamped
  <2>2. <<id, n>> \in Versions /\ Exists(retired, <<id, n>>)
    BY <2>1, Names DEF Versions, Exists
  <2>3. Exists(new, <<id, n>>)
    BY <1>1, <2>2, RecentKept, Times
  <2> QED
    BY <2>1, <2>3 DEF Stamped, Exists
<1> QED
  BY <1>2, <1>3, <1>4

\* An invalidation clears one of the caches and tears the builds for it.
LEMMA InvalidatedKeeps ==
    ASSUME CacheInv, CallInv, NEW own \in Caches, Invalidated(own)
    PROVE  /\ cache' \in [Caches -> [Keys -> EntryType]]
           /\ \A o \in Caches, k \in Keys :
                 cache'[o][k] = IF o = own THEN Nothing ELSE cache[o][k]
           /\ call' \in [Calls -> CallType]
           /\ \A c \in Calls :
                /\ call'[c] = call[c] \/ call'[c] = [call[c] EXCEPT !.torn = TRUE]
                /\ call[c].pc \in {"read", "model", "store"} /\ CacheOf(call[c].key) = own =>
                      call'[c].torn = TRUE
<1>1. Nothing \in EntryType
  BY DEF Nothing, EntryType, Ids
<1>2. cache' = [cache EXCEPT ![own] = [k \in Keys |-> Nothing]]
  BY DEF Invalidated
<1>3. [k \in Keys |-> Nothing] \in [Keys -> EntryType]
  BY <1>1
<1>4. \A c \in Calls : call[c] \in CallType /\ [call[c] EXCEPT !.torn = TRUE] \in CallType
                      /\ [call[c] EXCEPT !.torn = TRUE].torn = TRUE
  BY DEF CallInv, CallType
<1>5. /\ cache' \in [Caches -> [Keys -> EntryType]]
      /\ \A o \in Caches, k \in Keys : cache'[o][k] = IF o = own THEN Nothing ELSE cache[o][k]
  BY <1>2, <1>3 DEF CacheInv
<1>6. call' = [c \in Calls |->
          IF call[c].pc \in {"read", "model", "store"} /\ CacheOf(call[c].key) = own
          THEN [call[c] EXCEPT !.torn = TRUE] ELSE call[c]]
  BY DEF Invalidated, Building
<1> QED
  BY <1>4, <1>5, <1>6

\* A torn record knows what it knew, and has heard.
LEMMA TornKeeps ==
    ASSUME NEW ret, NEW flags, NEW r \in CallType
    PROVE  LET t == [r EXCEPT !.torn = TRUE] IN
           /\ t \in CallType /\ t.torn = TRUE /\ t.key = r.key /\ t.pc = r.pc /\ t.seen = r.seen
           /\ CallOK(ret, r) => CallOK(ret, t)
           /\ CallHeardStage(ret, t) /\ CallHeardFlag(flags, t)
<1> DEFINE t == [r EXCEPT !.torn = TRUE]
<1>1. /\ t \in CallType /\ t.torn = TRUE /\ t.key = r.key /\ t.pc = r.pc /\ t.seen = r.seen
      /\ t.id = r.id /\ t.since = r.since /\ t.stale = r.stale
  BY DEF CallType
<1> HIDE DEF t
<1>2. CallOK(ret, r) => CallOK(ret, t)
  BY <1>1 DEF CallOK, Progress
<1>3. CallHeardStage(ret, t) /\ CallHeardFlag(flags, t)
  BY <1>1 DEF CallHeardStage, CallHeardFlag, StageHeard, FlagHeard
<1> QED
  BY <1>1, <1>2, <1>3 DEF t

LEMMA NothingOK ==
    /\ Nothing \in EntryType /\ Nothing.seen = {}
    /\ \A ret, key : EntryOK(ret, key, Nothing)
    /\ \A ret : StageHeard(ret, Nothing)
    /\ \A flags : FlagHeard(flags, Nothing)
BY DEF Nothing, EntryType, Ids, EntryOK, StageHeard, FlagHeard

LEMMA AdminKeeps ==
    ASSUME ServingInv, NEW a \in Admins, AdminStep(a)
    PROVE  ServingInv'
<1>1. RowsInv' /\ Accounted
  BY AdminAccounted DEF ServingInv
<1>2. PICK new : new = retired'
  OBVIOUS
<1>3. Grows(retired, new)
  BY <1>1, <1>2 DEF Accounted
<1>4. /\ cache \in [Caches -> [Keys -> EntryType]]
      /\ \A o \in Caches, k \in Keys : EntryOK(retired, k, cache[o][k])
      /\ call \in [Calls -> CallType] /\ \A c \in Calls : CallOK(retired, call[c])
  BY DEF ServingInv, CacheInv, CallInv
<1>5. /\ cache' \in [Caches -> [Keys -> EntryType]]
      /\ \A o \in Caches, k \in Keys : cache'[o][k] = cache[o][k] \/ cache'[o][k] = Nothing
      /\ call' \in [Calls -> CallType]
      /\ \A c \in Calls : call'[c] = call[c] \/ call'[c] = [call[c] EXCEPT !.torn = TRUE]
  <2>1. CASE UNCHANGED <<call, cache>>
    BY <2>1, <1>4
  <2>2. CASE \E own \in Caches : Invalidated(own)
    BY <2>2, InvalidatedKeeps DEF ServingInv
  <2> QED
    BY <2>1, <2>2, <1>1 DEF Accounted
<1>6. CacheInv'
  <2>1. ASSUME NEW o \in Caches, NEW k \in Keys PROVE EntryOK(new, k, cache'[o][k])
    <3>1. PICK e : e = cache[o][k]
      OBVIOUS
    <3>2. EntryOK(new, k, e)
      BY <3>1, <1>3, <1>4, RowsGrow
    <3> QED
      BY <3>1, <3>2, <1>5, NothingOK
  <2> QED
    BY <2>1, <1>2, <1>5 DEF CacheInv
<1>7. CallInv'
  <2>1. ASSUME NEW c \in Calls PROVE CallOK(new, call'[c])
    <3>1. PICK r \in CallType : r = call[c]
      BY <1>4
    <3>2. CallOK(new, r)
      BY <3>1, <1>3, <1>4, RowsGrow
    <3>3. CallOK(new, [r EXCEPT !.torn = TRUE])
      BY <3>2, TornKeeps
    <3> QED
      BY <3>1, <3>2, <3>3, <1>5
  <2> QED
    BY <2>1, <1>2, <1>5 DEF CallInv
<1>8. ChunkInv'
  <2>1. UNCHANGED <<chunks, sync>>
    BY <1>1 DEF Accounted
  <2>2. \A id, seen : Stamped(retired, id, seen) => Stamped(new, id, seen)
    BY <1>3, RowsGrow
  <2> QED
    BY <2>1, <2>2, <1>2 DEF ServingInv, ChunkInv
<1>9. ASSUME ~ PutDue'
      PROVE  /\ StageHeard(retired', cache'["resolver"]["stage"])
             /\ \A c \in Calls : CallHeardStage(retired', call'[c])
  <2>1. retired'["link"] = retired["link"] /\ (PutDue => Invalidated("resolver"))
    BY <1>1, <1>9 DEF Accounted
  <2>2. CASE Invalidated("resolver")
    <3>1. cache'["resolver"]["stage"] = Nothing
      BY <2>2, InvalidatedKeeps, Names DEF ServingInv, Caches
    <3>2. \A c \in Calls :
            call[c].pc \in {"read", "model", "store"} /\ call[c].key = "stage" => call'[c].torn = TRUE
      BY <2>2, InvalidatedKeeps DEF ServingInv, Caches, CacheOf
    <3>3. ASSUME NEW c \in Calls PROVE CallHeardStage(retired', call'[c])
      <4>1. PICK r \in CallType : r = call[c]
        BY <1>4
      <4>2. call'[c].pc = r.pc /\ call'[c].key = r.key
        BY <4>1, <1>5, TornKeeps
      <4> QED
        BY <4>1, <4>2, <3>2 DEF CallHeardStage, StageHeard
    <3> QED
      BY <3>1, <3>3, NothingOK
  <2>3. CASE ~ PutDue
    <3>1. /\ StageHeard(retired, cache["resolver"]["stage"])
          /\ \A c \in Calls : CallHeardStage(retired, call[c])
      BY <2>3 DEF ServingInv, HeardInv
    <3>2. StageHeard(retired', cache'["resolver"]["stage"])
      <4>1. cache'["resolver"]["stage"] \in {cache["resolver"]["stage"], Nothing}
        BY <1>5, Names DEF Caches
      <4> QED
        BY <4>1, <3>1, <2>1, NothingOK DEF StageHeard
    <3>3. ASSUME NEW c \in Calls PROVE CallHeardStage(retired', call'[c])
      <4>1. PICK r \in CallType : r = call[c]
        BY <1>4
      <4>2. CallHeardStage(retired', r)
        BY <4>1, <3>1, <2>1 DEF CallHeardStage, StageHeard
      <4>3. CallHeardStage(new, [r EXCEPT !.torn = TRUE])
        BY TornKeeps
      <4> QED
        BY <4>1, <4>2, <4>3, <1>2, <1>5
    <3> QED
      BY <3>2, <3>3
  <2> QED
    BY <2>1, <2>2, <2>3
<1>10. ASSUME ~ FlagDue'
       PROVE  /\ FlagHeard(active', cache'["factory"]["active"])
              /\ \A c \in Calls : CallHeardFlag(active', call'[c])
  <2>1. active \subseteq active' /\ (FlagDue => Invalidated("factory"))
    BY <1>1, <1>10 DEF Accounted
  <2>2. CASE Invalidated("factory")
    <3>1. cache'["factory"]["active"] = Nothing
      BY <2>2, InvalidatedKeeps, Names DEF ServingInv, Caches
    <3>2. \A c \in Calls :
            call[c].pc \in {"read", "model", "store"} /\ call[c].key = "active" => call'[c].torn = TRUE
      BY <2>2, InvalidatedKeeps DEF ServingInv, Caches, CacheOf
    <3>3. ASSUME NEW c \in Calls PROVE CallHeardFlag(active', call'[c])
      <4>1. PICK r \in CallType : r = call[c]
        BY <1>4
      <4>2. call'[c].pc = r.pc /\ call'[c].key = r.key
        BY <4>1, <1>5, TornKeeps
      <4> QED
        BY <4>1, <4>2, <3>2 DEF CallHeardFlag, FlagHeard
    <3> QED
      BY <3>1, <3>3, NothingOK
  <2>3. CASE ~ FlagDue
    <3>1. /\ FlagHeard(active, cache["factory"]["active"])
          /\ \A c \in Calls : CallHeardFlag(active, call[c])
      BY <2>3 DEF ServingInv, HeardInv
    <3>2. FlagHeard(active', cache'["factory"]["active"])
      <4>1. cache'["factory"]["active"] \in {cache["factory"]["active"], Nothing}
        BY <1>5, Names DEF Caches
      <4> QED
        BY <4>1, <3>1, <2>1, NothingOK DEF FlagHeard
    <3>3. ASSUME NEW c \in Calls PROVE CallHeardFlag(active', call'[c])
      <4>1. PICK r \in CallType : r = call[c]
        BY <1>4
      <4>2. CallHeardFlag(active', r)
        BY <4>1, <3>1, <2>1 DEF CallHeardFlag, FlagHeard
      <4>3. PICK flags : flags = active'
        OBVIOUS
      <4>4. CallHeardFlag(flags, [r EXCEPT !.torn = TRUE])
        BY TornKeeps
      <4> QED
        BY <4>1, <4>2, <4>3, <4>4, <1>5
    <3> QED
      BY <3>2, <3>3
  <2> QED
    BY <2>1, <2>2, <2>3
<1>11. HeardInv'
  BY <1>9, <1>10 DEF HeardInv
<1> QED
  BY <1>1, <1>6, <1>7, <1>8, <1>11 DEF ServingInv

------------------------------------------------------------------------------
(* A restart, and time. *)

LEMMA IdleOK ==
    /\ Idle \in CallType /\ \A ret : CallOK(ret, Idle)
    /\ \A ret, flags : CallHeardStage(ret, Idle) /\ CallHeardFlag(flags, Idle)
<1>1. Idle \in CallType /\ Idle.pc = "idle" /\ Idle.seen = {} /\ Idle.stale = 0
  BY DEF Idle, CallType, Keys, Ids
<1> QED
  BY <1>1, Times DEF CallOK, Progress, CallHeardStage, CallHeardFlag

LEMMA BootKeeps ==
    ASSUME ServingInv, Boot
    PROVE  ServingInv'
<1>1. UNCHANGED <<active, tested, chunks, sync>> /\ unheard' = FALSE
  BY DEF Boot
<1>2. PICK new : new = retired'
  OBVIOUS
<1>3. Grows(retired, new) /\ link' \in Models \cup {None}
  <2>1. CASE UNCHANGED <<link, retired>>
    BY <2>1, <1>2 DEF Grows, ServingInv, RowsInv
  <2>2. CASE link' \in Models \cap present /\ Touch({"link"})
    BY <2>2, <1>2, Touched DEF ServingInv, RowsInv
  <2> QED
    BY <2>1, <2>2 DEF Boot
<1>4. NoRequest \in RequestType /\ RequestOK(NoRequest)
  BY DEF NoRequest, RequestType, RequestOK, Ids
<1>5. RowsInv'
  <2>1. admin' = [b \in Admins |-> NoRequest]
    BY DEF Boot
  <2> QED
    BY <1>1, <1>2, <1>3, <1>4, <2>1 DEF ServingInv, RowsInv, Grows
<1>6. /\ cache' \in [Caches -> [Keys -> EntryType]]
      /\ \A o \in Caches, k \in Keys : cache'[o][k] = Nothing
  BY NothingOK DEF Boot
<1>7. call' \in [Calls -> CallType] /\ \A c \in Calls : call'[c] = Idle
  BY IdleOK DEF Boot
<1>8. CacheInv' /\ CallInv'
  BY <1>6, <1>7, NothingOK, IdleOK DEF CacheInv, CallInv
<1>9. ChunkInv'
  <2>1. \A id, seen : Stamped(retired, id, seen) => Stamped(new, id, seen)
    BY <1>3, RowsGrow
  <2> QED
    BY <2>1, <1>1, <1>2 DEF ServingInv, ChunkInv
<1>10. HeardInv'
  <2>1. cache'["resolver"]["stage"] = Nothing /\ cache'["factory"]["active"] = Nothing
    BY <1>6, Names DEF Caches
  <2> QED
    BY <2>1, <1>7, NothingOK, IdleOK DEF HeardInv
<1> QED
  BY <1>5, <1>8, <1>9, <1>10 DEF ServingInv

\* A tick ages the versions somebody may yet serve by one, and adds none.
LEMMA Aged ==
    ASSUME ServingInv, Tick
    PROVE  /\ retired' \in [Rows -> Seq(Nat)]
           /\ \A r \in Rows : Len(retired'[r]) = Len(retired[r])
           /\ \A s \in Versions : Exists(retired, s) => Exists(retired', s)
           /\ \A s \in Versions, limit \in Nat :
                 s \in Held /\ limit < TooLong /\ Recent(retired, s, limit)
                     => Recent(retired', s, limit + 1)
<1> DEFINE Aging(r, n) == IF retired[r][n] < TooLong /\ <<r, n - 1>> \in Held
                          THEN retired[r][n] + 1 ELSE TooLong
<1>1. retired' = [r \in Rows |-> [n \in DOMAIN retired[r] |-> Aging(r, n)]]
  BY DEF Tick
<1>2. ASSUME NEW r \in Rows
      PROVE  /\ retired[r] \in Seq(Nat) /\ Len(retired[r]) \in Nat
             /\ \A n \in 1 .. Len(retired[r]) : retired[r][n] \in Nat
             /\ retired'[r] = [n \in 1 .. Len(retired[r]) |-> Aging(r, n)]
  <2>1. retired[r] \in Seq(Nat)
    BY DEF ServingInv, RowsInv
  <2>2. Len(retired[r]) \in Nat /\ DOMAIN retired[r] = 1 .. Len(retired[r])
    BY <2>1
  <2>3. retired'[r] = [n \in DOMAIN retired[r] |-> Aging(r, n)]
    BY <1>1
  <2> QED
    BY <2>1, <2>2, <2>3
<1>3. ASSUME NEW r \in Rows, NEW n \in 1 .. Len(retired[r]) PROVE Aging(r, n) \in Nat
  <2>1. retired[r][n] \in Nat
    BY <1>2
  <2> QED
    BY <2>1, Times
<1> HIDE DEF Aging
<1>4. ASSUME NEW r \in Rows
      PROVE  retired'[r] \in Seq(Nat) /\ Len(retired'[r]) = Len(retired[r])
  <2>1. PICK k \in Nat : k = Len(retired[r])
    BY <1>2
  <2>2. \A n \in 1 .. k : Aging(r, n) \in Nat
    BY <1>3, <2>1
  <2>3. retired'[r] = [n \in 1 .. k |-> Aging(r, n)]
    BY <1>2, <2>1
  <2>4. [n \in 1 .. k |-> Aging(r, n)] \in [1 .. k -> Nat]
    BY <2>2
  <2>5. retired'[r] \in Seq(Nat) /\ DOMAIN retired'[r] = 1 .. k
    BY <2>3, <2>4
  <2>6. Len(retired'[r]) = k
    BY <2>5
  <2> QED
    BY <2>1, <2>5, <2>6
<1>5. retired' \in [Rows -> Seq(Nat)]
  BY <1>1, <1>4
<1>6. ASSUME NEW s \in Versions, Exists(retired, s) PROVE Exists(retired', s)
  BY <1>4, <1>6 DEF Exists, Versions
<1>7. ASSUME NEW s \in Versions, NEW limit \in Nat, s \in Held, limit < TooLong,
             Recent(retired, s, limit)
      PROVE  Recent(retired', s, limit + 1)
  <2>1. PICK r \in Rows, k \in Nat : s = <<r, k>>
    BY DEF Versions
  <2>2. Len(retired'[r]) = Len(retired[r]) /\ Len(retired[r]) \in Nat
    BY <1>2, <1>4
  <2>3. k <= Len(retired[r]) /\ (k < Len(retired[r]) => retired[r][k + 1] <= limit)
    BY <1>7, <2>1 DEF Recent, Exists
  <2>4. ASSUME k < Len(retired[r]) PROVE retired'[r][k + 1] <= limit + 1
    <3>1. k + 1 \in 1 .. Len(retired[r]) /\ (k + 1) - 1 = k
      BY <2>2, <2>4
    <3>2. retired'[r][k + 1] = Aging(r, k + 1)
      BY <1>2, <3>1
    <3>3. retired[r][k + 1] \in Nat /\ retired[r][k + 1] <= limit
      BY <1>2, <2>3, <2>4, <3>1
    <3>4. <<r, (k + 1) - 1>> \in Held
      BY <1>7, <2>1, <3>1
    <3>5. Aging(r, k + 1) = retired[r][k + 1] + 1
      BY <1>7, <3>3, <3>4, Times DEF Aging
    <3> QED
      BY <3>2, <3>3, <3>5
  <2> QED
    BY <2>1, <2>2, <2>3, <2>4 DEF Recent, Exists
<1> QED
  BY <1>4, <1>5, <1>6, <1>7

LEMMA TickKeeps ==
    ASSUME ServingInv, Tick
    PROVE  ServingInv'
<1>1. UNCHANGED <<present, link, active, tested, chunks, lock, sync, admin, edits, unheard>>
  BY DEF Tick
<1>2. /\ cache \in [Caches -> [Keys -> EntryType]]
      /\ \A o \in Caches, k \in Keys : EntryOK(retired, k, cache[o][k])
      /\ call \in [Calls -> CallType] /\ \A c \in Calls : CallOK(retired, call[c])
  BY DEF ServingInv, CacheInv, CallInv
<1>3. /\ \A c \in Calls : call[c].seen \subseteq Held
      /\ \A o \in Caches, k \in Keys : cache[o][k].seen \subseteq Held
  BY DEF Held
<1>4. RowsInv'
  BY <1>1, Aged DEF ServingInv, RowsInv
<1>5. ASSUME NEW o \in Caches, NEW k \in Keys
      PROVE  \/ cache'[o][k] = Nothing
             \/ /\ cache'[o][k] = [cache[o][k] EXCEPT !.age = @ + 1]
                /\ cache[o][k].age < TimeToLive
  <2>1. cache[o][k].age \in Nat
    BY <1>2 DEF EntryType
  <2>2. cache'[o][k] = IF cache[o][k] = Nothing \/ cache[o][k].age >= TimeToLive THEN Nothing
                       ELSE [cache[o][k] EXCEPT !.age = @ + 1]
    BY DEF Tick
  <2> QED
    BY <2>1, <2>2, Times
<1>6. ASSUME NEW o \in Caches, NEW k \in Keys
      PROVE  /\ cache'[o][k] \in EntryType /\ EntryOK(retired', k, cache'[o][k])
             /\ \A flags : FlagHeard(flags, cache[o][k]) => FlagHeard(flags, cache'[o][k])
             /\ StageHeard(retired, cache[o][k]) => StageHeard(retired', cache'[o][k])
  <2>1. CASE cache'[o][k] = Nothing
    BY <2>1, NothingOK
  <2>2. CASE /\ cache'[o][k] = [cache[o][k] EXCEPT !.age = @ + 1]
             /\ cache[o][k].age < TimeToLive
    <3>1. PICK e \in EntryType : e = cache[o][k]
      BY <1>2
    <3>2. PICK d : d = cache'[o][k]
      OBVIOUS
    <3>3. e.age \in Nat /\ e.seen \subseteq Versions
      BY DEF EntryType
    <3>4. /\ d \in EntryType /\ d.age = e.age + 1 /\ d.seen = e.seen /\ d.id = e.id
          /\ d.torn = e.torn
      BY <2>2, <3>1, <3>2, <3>3 DEF EntryType
    <3>5. EntryOK(retired, k, e) /\ e.seen \subseteq Held
      BY <1>2, <1>3, <3>1
    <3> DEFINE limit == e.age + MaxBuild
    <3>6. limit \in Nat /\ limit < TooLong /\ limit + 1 = d.age + MaxBuild
      BY <2>2, <3>1, <3>3, <3>4, Times
    <3>7. \A s \in e.seen : Recent(retired, s, limit)
      BY <3>5 DEF EntryOK
    <3> HIDE DEF limit
    <3>8. \A s \in e.seen : Recent(retired', s, limit + 1)
      BY <3>3, <3>5, <3>6, <3>7, Aged
    <3>9. EntryOK(retired', k, d)
      BY <3>4, <3>5, <3>6, <3>8 DEF EntryOK
    <3>10. \A flags : FlagHeard(flags, e) => FlagHeard(flags, d)
      BY <3>4 DEF FlagHeard
    <3>11. StageHeard(retired, e) => StageHeard(retired', d)
      BY <3>4, Aged, Names DEF StageHeard
    <3> QED
      BY <3>1, <3>2, <3>4, <3>9, <3>10, <3>11
  <2> QED
    BY <1>5, <2>1, <2>2
<1>7. cache' = [o \in Caches |-> [k \in Keys |-> cache'[o][k]]]
  BY DEF Tick
<1>8. CacheInv'
  BY <1>6, <1>7 DEF CacheInv
<1>9. ASSUME NEW c \in Calls
      PROVE  /\ call'[c] \in CallType /\ CallOK(retired', call'[c])
             /\ CallHeardStage(retired, call[c]) => CallHeardStage(retired', call'[c])
             /\ CallHeardFlag(active, call[c]) => CallHeardFlag(active, call'[c])
  <2>1. PICK r \in CallType : r = call[c]
    BY <1>2
  <2>2. PICK q : q = call'[c]
    OBVIOUS
  <2>3. /\ CallOK(retired, r) /\ r.seen \subseteq Held /\ r.seen \subseteq Versions
        /\ r.since \in Nat
    BY <1>2, <1>3, <2>1 DEF CallType
  <2>4. q = IF r.pc \in {"read", "model", "store"} THEN [r EXCEPT !.since = @ + 1] ELSE r
    BY <2>1, <2>2 DEF Tick, Building
  <2>5. r.pc \in {"read", "model", "store"} => r.since < MaxBuild
    BY <2>1 DEF Tick, Building
  <2>6. /\ q \in CallType /\ q.pc = r.pc /\ q.key = r.key /\ q.id = r.id /\ q.seen = r.seen
        /\ q.torn = r.torn /\ q.stale = r.stale
        /\ r.pc \in {"read", "model", "store"} => q.since = r.since + 1
    BY <2>3, <2>4 DEF CallType
  <2>7. \A s \in r.seen : Exists(retired', s)
    BY <2>3, Aged DEF CallOK
  <2>8. ASSUME r.pc \in {"read", "model", "store"}
        PROVE  q.since <= MaxBuild /\ \A s \in q.seen : Recent(retired', s, q.since)
    <3>1. r.since < TooLong /\ q.since = r.since + 1 /\ q.since <= MaxBuild
      BY <2>3, <2>5, <2>6, <2>8, Times
    <3>2. \A s \in r.seen : Recent(retired, s, r.since)
      BY <2>3, <2>8 DEF CallOK
    <3>3. \A s \in r.seen : Recent(retired', s, r.since + 1)
      BY <2>3, <3>1, <3>2, Aged
    <3> QED
      BY <2>6, <3>1, <3>3
  <2>9. CallOK(retired', q)
    BY <2>3, <2>6, <2>7, <2>8 DEF CallOK, Progress
  <2>10. CallHeardStage(retired, r) => CallHeardStage(retired', q)
    BY <2>6, Aged, Names DEF CallHeardStage, StageHeard
  <2>11. CallHeardFlag(active, r) => CallHeardFlag(active, q)
    BY <2>6 DEF CallHeardFlag, FlagHeard
  <2> QED
    BY <2>1, <2>2, <2>6, <2>9, <2>10, <2>11
<1>10. call' = [c \in Calls |-> call'[c]]
  BY DEF Tick
<1>11. CallInv'
  BY <1>9, <1>10 DEF CallInv
<1>12. ChunkInv'
  <2>1. ASSUME NEW id, NEW seen, Stamped(retired, id, seen) PROVE Stamped(retired', id, seen)
    BY <2>1, Aged, Names DEF Stamped
  <2> QED
    BY <1>1, <2>1 DEF ServingInv, ChunkInv
<1>13. HeardInv'
  <2>1. (PutDue' <=> PutDue) /\ (FlagDue' <=> FlagDue) /\ active' = active
    BY <1>1 DEF PutDue, FlagDue
  <2>2. "resolver" \in Caches /\ "factory" \in Caches
    BY DEF Caches
  <2>3. ASSUME ~ PutDue
        PROVE  /\ StageHeard(retired', cache'["resolver"]["stage"])
               /\ \A c \in Calls : CallHeardStage(retired', call'[c])
    BY <1>6, <1>9, <2>2, <2>3, Names DEF ServingInv, HeardInv
  <2>4. ASSUME ~ FlagDue
        PROVE  /\ FlagHeard(active, cache'["factory"]["active"])
               /\ \A c \in Calls : CallHeardFlag(active, call'[c])
    BY <1>6, <1>9, <2>2, <2>4, Names DEF ServingInv, HeardInv
  <2> QED
    BY <2>1, <2>3, <2>4 DEF HeardInv
<1> QED
  BY <1>4, <1>8, <1>11, <1>12, <1>13 DEF ServingInv

------------------------------------------------------------------------------
(* The invariant and the properties. *)

\* Nothing is cached, nobody resolves or syncs, and no request owes anything.
LEMMA ServingStarts ==
    ASSUME ServingInit
    PROVE  ServingInv
<1>1. retired \in [Rows -> Seq(Nat)]
  <2>1. <<>> \in Seq(Nat)
    OBVIOUS
  <2> QED
    BY <2>1 DEF ServingInit
<1>2. NoRequest \in RequestType /\ RequestOK(NoRequest)
  BY DEF NoRequest, RequestType, RequestOK, Ids
<1>3. RowsInv
  BY <1>1, <1>2 DEF ServingInit, RowsInv
<1>4. cache = [o \in Caches |-> [k \in Keys |-> Nothing]] /\ call = [c \in Calls |-> Idle]
  BY DEF ServingInit
<1>5. CacheInv /\ CallInv
  BY <1>4, NothingOK, IdleOK DEF CacheInv, CallInv
<1>6. HeardInv
  <2>1. cache["resolver"]["stage"] = Nothing /\ cache["factory"]["active"] = Nothing
    BY <1>4, Names DEF Caches
  <2> QED
    BY <2>1, <1>4, NothingOK, IdleOK DEF HeardInv
<1>7. ChunkInv
  <2>1. Idle \in SyncType /\ Idle.pc = "idle"
    BY DEF Idle, SyncType, Ids, Keys
  <2>2. sync = [s \in Syncs |-> Idle] /\ chunks = {}
    BY DEF ServingInit
  <2> QED
    BY <2>1, <2>2 DEF ChunkInv
<1> QED
  BY <1>3, <1>5, <1>6, <1>7 DEF ServingInv

LEMMA ServingStep ==
    ASSUME ServingInv, [ServingNext]_servingVars
    PROVE  ServingInv'
<1>1. CASE UNCHANGED servingVars
  <2>1. UNCHANGED <<present, link, active, tested, retired, chunks, cache, call, sync, admin, unheard>>
    BY <1>1 DEF servingVars, rowVars
  <2>2. RowsInv' /\ CacheInv' /\ CallInv' /\ ChunkInv'
    BY <2>1 DEF ServingInv, RowsInv, CacheInv, CallInv, ChunkInv
  <2>3. HeardInv'
    BY <2>1 DEF ServingInv, HeardInv, PutDue, FlagDue
  <2> QED
    BY <2>2, <2>3 DEF ServingInv
<1> QED
  BY <1>1, CallKeeps, SyncKeeps, AdminKeeps, BootKeeps, TickKeeps DEF ServingNext

\* What is cached, what a coroutine has read so far, what a chunk is stamped
\* with and which invalidations are due, in every state.
THEOREM ServingInvariant == ServingSpec => []ServingInv
<1>1. ServingInit => ServingInv
  BY ServingStarts
<1>2. ServingInv /\ [ServingNext]_servingVars => ServingInv'
  BY ServingStep
<1> QED
  BY <1>1, <1>2, PTL DEF ServingSpec

\* What a resolver or the factory serves was the configuration at most a time
\* to live and a build ago, whatever the requests, restarts and lost
\* invalidations in between.
THEOREM ServesRecent == ServingSpec => []StaleBounded
<1>1. ServingInv => StaleBounded
  BY DEF ServingInv, CallInv, CallOK, StaleBounded
<1> QED
  BY <1>1, ServingInvariant, PTL

\* An entry that is not the linked model, or not the active embedder, was torn
\* by an invalidation or has one coming, except for the requests that have none.
THEOREM InvalidationsHeard == ServingSpec => []InvalidationHeard
<1>1. ServingInv => InvalidationHeard
  <2> SUFFICES ASSUME ServingInv PROVE InvalidationHeard
    OBVIOUS
  <2>1. /\ ~ PutDue => StageHeard(retired, cache["resolver"]["stage"])
        /\ ~ FlagDue => FlagHeard(active, cache["factory"]["active"])
    BY DEF ServingInv, HeardInv
  <2> QED
    BY <2>1 DEF InvalidationHeard, PutDue, FlagDue, StageHeard, FlagHeard, Seen, Version
<1> QED
  BY <1>1, ServingInvariant, PTL

\* A search filters by the embedder its service embeds with, and both it and
\* the chunk come from versions of that embedder's row: the same one, unless
\* the row was edited.
THEOREM FiltersKeepSpaces == ServingSpec => []FilterKeepsSpaces
<1>1. ServingInv => FilterKeepsSpaces
  <2> SUFFICES ASSUME ServingInv, NEW c \in Calls, call[c].pc = "use", call[c].key # "stage",
                      NEW x \in chunks, x.stamp = call[c].id
               PROVE  \E s \in call[c].seen, t \in x.by :
                          s[1] = t[1] /\ (s[2] = t[2] \/ Version(s[1]) > 0)
    BY DEF FilterKeepsSpaces
  <2>1. CallOK(retired, call[c]) /\ call[c].key \in Embedders
        /\ Read(call[c].key, call[c].id, call[c].seen)
    BY DEF ServingInv, CallInv, CallOK, Progress
  <2>2. PICK e \in Embedders, n \in Nat : e = call[c].id /\ call[c].seen = {<<e, n>>}
    BY <2>1, Names DEF Read
  <2>3. PICK k \in Nat : k <= Len(retired[e]) /\ x.by = {<<e, k>>}
    BY <2>2 DEF ServingInv, ChunkInv, Stamped
  <2>4. n <= Len(retired[e]) /\ Len(retired[e]) \in Nat
    BY <2>1, <2>2, Names DEF CallOK, Exists, ServingInv, RowsInv
  <2>5. n = k \/ Len(retired[e]) > 0
    BY <2>3, <2>4
  <2> QED
    BY <2>2, <2>3, <2>5 DEF Version
<1> QED
  BY <1>1, ServingInvariant, PTL
=============================================================================
