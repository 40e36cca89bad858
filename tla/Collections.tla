----------------------------- MODULE Collections -----------------------------
(***************************************************************************)
(* internal/collections/collections.go over the engine: the calls that     *)
(* change schemas, which hold the service's mutex, the calls that change   *)
(* records, which hold nothing, and callers that page through a listing.   *)
(*                                                                         *)
(* The engine's Set, Get, Delete, ListKeys and Scan are one step each, as  *)
(* KVStore says; a step of this module is one of those calls with the code *)
(* up to the next one.  The process may die between any two steps.         *)
(***************************************************************************)
EXTENDS Schema, FiniteSets, FiniteSetsExt, SequencesExt

CONSTANTS
    Coll,             \* collection names of the form nameRe accepts
    Id,               \* record ids; newID sorts by time, then at random
    Admin,            \* goroutines that call CreateCollection and the like
    Client,           \* goroutines that call Insert, UpdateRecord, DeleteRecord
    Pager,            \* callers that list a collection page by page
    NewMeta, Patch, NewData, PatchData,  \* what the callers send
    PageSize,         \* ListRecords' limit
    Nobody,           \* the owner of a free mutex
    MaxSchemaCalls, MaxRecordCalls, MaxWalks,   \* bounds: calls
    MaxCrashes,       \* bound: deaths of the process
    MaxFaults,        \* bound: engine calls that return an error
    MaxMisses         \* bound: Gets that a read error makes answer "not there"

ASSUME CollectionsAssumption ==
    /\ Id \subseteq Nat \ {0} /\ IsFiniteSet(Id)
    /\ PageSize \in Nat \ {0}
    /\ Nobody \notin Admin \cup Client /\ Admin \cap Client = {}
    /\ NewMeta \subseteq Meta /\ Patch \subseteq PatchType
    /\ NewData \subseteq Data /\ PatchData \subseteq Data

VARIABLES
    meta,       \* the engine's contents under _coll:meta:
    recs,       \* under _coll:rec:, for each collection a map from ids
    mu,         \* who holds Service.mu
    call,       \* the calls in progress
    walk,       \* the listings in progress
    used,       \* ids given out so far
    events,     \* history: what was published, in order
    history,    \* history: the record writes that took effect, in order
    late,       \* history: records written after their collection was listed
                \* for deletion, or while there was no such collection
    edited,     \* history: collections whose first schema was replaced
    schemaCalls, recordCalls, walks, crashes, faults, misses

store == <<meta, recs>>
ghosts == <<used, events, history, late, edited>>
counters == <<schemaCalls, recordCalls, walks, crashes, faults, misses>>
vars == <<store, mu, call, walk, ghosts, counters>>

NoPatch == [keep |-> TRUE, fields |-> <<>>, rules |-> <<>>]

IdleCall == [pc |-> "idle", op |-> "none", n |-> 0, c |-> Nobody, id |-> 0, meta |-> NoMeta,
             patch |-> NoPatch,
             data |-> <<>>, keys |-> {}]

IdleWalk == [pc |-> "idle", c |-> Nobody, after |-> 0, next |-> 0, keys |-> {},
             seen |-> <<>>, stable |-> {}]

Init ==
    /\ meta = [c \in Coll |-> NoMeta]
    /\ recs = [c \in Coll |-> <<>>]
    /\ mu = Nobody
    /\ call = [p \in Admin \cup Client |-> IdleCall]
    /\ walk = [p \in Pager |-> IdleWalk]
    /\ used = {} /\ events = <<>> /\ history = <<>> /\ late = {} /\ edited = {}
    /\ schemaCalls = 0 /\ recordCalls = 0 /\ walks = 0
    /\ crashes = 0 /\ faults = 0 /\ misses = 0

----------------------------------------------------------------------------
(* Definitions named X_Y are variants of X with the mistake Y, which the   *)
(* properties are there to notice; no other definition uses them.          *)

Exists(c) == meta[c] # NoMeta

Ids(c) == DOMAIN recs[c]

\* An engine call succeeds, or fails before or after it took effect (Set and
\* Delete return the error of a flush that comes after the write).
Attempt(ok, applied) ==
    /\ ok => applied
    /\ ok \/ faults < MaxFaults
    /\ faults' = IF ok THEN faults ELSE faults + 1

\* Get answers as if the key were not there when reading a table fails.
Gets(present, found) ==
    \/ found = present /\ UNCHANGED misses
    \/ found = FALSE /\ present /\ misses < MaxMisses /\ misses' = misses + 1

With(c, id, data) == [recs EXCEPT ![c] =
    [i \in DOMAIN @ \cup {id} |-> IF i = id THEN data ELSE @[i]]]

Without(c, id) == [recs EXCEPT ![c] = [i \in DOMAIN @ \ {id} |-> @[i]]]

\* Every return of a call.
Idle(p) == call' = [call EXCEPT ![p] = IdleCall]

At(p, pc) == call[p].pc = pc

\* A record that is gone is no longer owed to the listings in progress.
Forget(c, id) ==
    walk' = [w \in Pager |->
        IF walk[w].c = c THEN [walk[w] EXCEPT !.stable = @ \ {id}] ELSE walk[w]]

----------------------------------------------------------------------------
(* CreateCollection, UpdateCollection, DeleteCollection.                   *)

\* A caller goes up to s.mu.Lock.
CallSchema(p, op, c, m, patch) ==
    /\ At(p, "idle")
    /\ schemaCalls < MaxSchemaCalls
    /\ schemaCalls' = schemaCalls + 1
    /\ call' = [call EXCEPT ![p] = [IdleCall EXCEPT
          !.pc = "lock", !.op = op, !.c = c, !.meta = m, !.patch = patch]]
    /\ UNCHANGED <<store, mu, walk, ghosts, recordCalls, walks, crashes, faults, misses>>

Lock_NotTaken(p) == At(p, "lock")

\* s.mu is free for p.
Lock(p) == At(p, "lock") /\ mu = Nobody

\* The deferred unlock of every return.
Unlock(p) == mu' = Nobody

\* CreateCollection up to putMeta.
CreateCheck(p) ==
    /\ Lock(p) /\ call[p].op = "create"
    /\ \E found \in BOOLEAN :
          /\ Gets(Exists(call[p].c), found)
          /\ IF validateFields(call[p].meta.fields) /\ ~found
             THEN mu' = p /\ call' = [call EXCEPT ![p].pc = "putMeta"]
             ELSE Unlock(p) /\ Idle(p)
    /\ UNCHANGED <<store, walk, ghosts, schemaCalls, recordCalls, walks, crashes, faults>>

\* UpdateCollection up to putMeta.
UpdateCheck(p) ==
    /\ Lock(p) /\ call[p].op = "update"
    /\ \E found \in BOOLEAN :
          /\ Gets(Exists(call[p].c), found)
          /\ IF found /\ LegalPatch(call[p].patch)
             THEN /\ mu' = p
                  /\ call' = [call EXCEPT ![p].pc = "putMeta",
                                          ![p].meta = Patched(meta[call[p].c], call[p].patch)]
             ELSE Unlock(p) /\ Idle(p)
    /\ UNCHANGED <<store, walk, ghosts, schemaCalls, recordCalls, walks, crashes, faults>>

\* putMeta and the return of CreateCollection or UpdateCollection.
PutMeta(p) ==
    /\ At(p, "putMeta")
    /\ \E ok, applied \in BOOLEAN :
          /\ Attempt(ok, applied)
          /\ meta' = IF applied THEN [meta EXCEPT ![call[p].c] = call[p].meta] ELSE meta
    /\ LET c == call[p].c
       IN  edited' = IF Exists(c) \/ Ids(c) # {} THEN edited \cup {c} ELSE edited
    /\ Unlock(p) /\ Idle(p)
    /\ UNCHANGED <<recs, walk, used, events, history, late,
                   schemaCalls, recordCalls, walks, crashes, misses>>

\* DeleteCollection finds the collection, or returns.
DeleteCheck(p) ==
    /\ Lock(p) /\ call[p].op = "delete"
    /\ \E found \in BOOLEAN :
          /\ Gets(Exists(call[p].c), found)
          /\ IF found
             THEN mu' = p /\ call' = [call EXCEPT ![p].pc = "list"]
             ELSE Unlock(p) /\ Idle(p)
    /\ UNCHANGED <<store, walk, ghosts, schemaCalls, recordCalls, walks, crashes, faults>>

\* ListKeys of all the records.
ListDoomed(p) ==
    /\ At(p, "list")
    /\ \E ok \in BOOLEAN :
          /\ Attempt(ok, TRUE)
          /\ IF ok
             THEN /\ call' = [call EXCEPT ![p].pc = "wipe", ![p].keys = Ids(call[p].c)]
                  /\ UNCHANGED mu
             ELSE Unlock(p) /\ Idle(p)
    /\ UNCHANGED <<store, walk, ghosts, schemaCalls, recordCalls, walks, crashes, misses>>

\* The next record of the list is deleted; an error ends the call.
WipeRecord(p) ==
    /\ At(p, "wipe") /\ call[p].keys # {}
    /\ LET c == call[p].c
           id == Min(call[p].keys)
       IN  \E ok, applied \in BOOLEAN :
              /\ Attempt(ok, applied)
              /\ IF applied
                 THEN recs' = Without(c, id) /\ Forget(c, id)
                 ELSE UNCHANGED <<recs, walk>>
              /\ IF ok
                 THEN call' = [call EXCEPT ![p].keys = @ \ {id}] /\ UNCHANGED mu
                 ELSE Unlock(p) /\ Idle(p)
    /\ UNCHANGED <<meta, ghosts, schemaCalls, recordCalls, walks, crashes, misses>>

DropMeta_First(p) ==
    /\ At(p, "wipe")
    /\ \E ok, applied \in BOOLEAN :
          /\ Attempt(ok, applied)
          /\ meta' = IF applied THEN [meta EXCEPT ![call[p].c] = NoMeta] ELSE meta
          /\ IF ok /\ call[p].keys # {}
             THEN UNCHANGED <<mu, call>>
             ELSE Unlock(p) /\ Idle(p)
    /\ edited' = edited \cup {call[p].c}
    /\ UNCHANGED <<recs, walk, used, events, history, late,
                   schemaCalls, recordCalls, walks, crashes, misses>>

\* All records are deleted; the metadata goes last.
DropMeta(p) ==
    /\ At(p, "wipe") /\ call[p].keys = {}
    /\ \E ok, applied \in BOOLEAN :
          /\ Attempt(ok, applied)
          /\ meta' = IF applied THEN [meta EXCEPT ![call[p].c] = NoMeta] ELSE meta
    /\ edited' = edited \cup {call[p].c}
    /\ Unlock(p) /\ Idle(p)
    /\ UNCHANGED <<recs, walk, used, events, history, late,
                   schemaCalls, recordCalls, walks, crashes, misses>>

SchemaStep(p) ==
    \/ CreateCheck(p) \/ UpdateCheck(p) \/ PutMeta(p)
    \/ DeleteCheck(p) \/ ListDoomed(p) \/ WipeRecord(p) \/ DropMeta(p)

----------------------------------------------------------------------------
(* Insert, UpdateRecord, DeleteRecord.                                     *)

\* Each begins with its first read.
CallRecord(p) ==
    /\ At(p, "idle")
    /\ recordCalls < MaxRecordCalls
    /\ recordCalls' = recordCalls + 1

\* Insert up to putRecord.
InsertCheck(p, c, data) ==
    /\ CallRecord(p)
    /\ \E found \in BOOLEAN :
          /\ Gets(Exists(c), found)
          /\ IF found /\ validateRecord(meta[c].fields, data)
             THEN \E id \in Id \ used :
                     /\ used' = used \cup {id}
                     /\ call' = [call EXCEPT ![p] = [IdleCall EXCEPT
                          !.pc = "put", !.op = "create", !.n = recordCalls', !.c = c,
                          !.id = id, !.data = data]]
             ELSE UNCHANGED <<used, call>>
    /\ UNCHANGED <<store, mu, walk, events, history, late, edited,
                   schemaCalls, walks, crashes, faults>>

\* UpdateRecord reads the metadata.
UpdateReadMeta(p, c, id, data) ==
    /\ CallRecord(p)
    /\ \E found \in BOOLEAN :
          /\ Gets(Exists(c), found)
          /\ call' = IF found
                     THEN [call EXCEPT ![p] = [IdleCall EXCEPT
                          !.pc = "merge", !.op = "update", !.n = recordCalls', !.c = c,
                          !.id = id, !.meta = meta[c], !.data = data]]
                     ELSE call
    /\ UNCHANGED <<store, mu, walk, ghosts, schemaCalls, walks, crashes, faults>>

MergeCheck_OldRecord(fields, held, patch) ==
    validateFieldValues(fields, patch) /\ validateRequired(fields, held)

\* Only what the patch brings must have the types of the schema; what is
\* required must be in the merged record.
MergeCheck(fields, held, patch) ==
    validateFieldValues(fields, patch) /\ validateRequired(fields, Merged(held, patch))

\* UpdateRecord reads the record, merges and validates.
UpdateMerge(p) ==
    /\ At(p, "merge")
    /\ LET c == call[p].c
           id == call[p].id
           fields == call[p].meta.fields
       IN  \E found \in BOOLEAN :
              /\ Gets(id \in Ids(c), found)
              /\ IF found /\ MergeCheck(fields, recs[c][id], call[p].data)
                 THEN call' = [call EXCEPT ![p].pc = "put",
                          ![p].data = Merged(recs[c][id], call[p].data)]
                 ELSE Idle(p)
    /\ UNCHANGED <<store, mu, walk, ghosts, schemaCalls, recordCalls, walks, crashes, faults>>

\* DeleteRecord reads the record.
DeleteFind(p, c, id) ==
    /\ CallRecord(p)
    /\ \E found \in BOOLEAN :
          /\ Gets(id \in Ids(c), found)
          /\ call' = IF found
                     THEN [call EXCEPT ![p] = [IdleCall EXCEPT
                          !.pc = "put", !.op = "delete", !.n = recordCalls', !.c = c, !.id = id]]
                     ELSE call
    /\ UNCHANGED <<store, mu, walk, ghosts, schemaCalls, walks, crashes, faults>>

\* What a call writes and publishes.
Change(p) == [kind |-> call[p].op, c |-> call[p].c, id |-> call[p].id, n |-> call[p].n]

AfterWrite_EvenIfRefused(ok) == "notify"

\* A write that returned an error is not published.
AfterWrite(ok) == IF ok THEN "notify" ELSE "idle"

\* c is listed for deletion or not there.
Doomed(c) ==
    \/ ~Exists(c)
    \/ \E q \in Admin : At(q, "wipe") /\ call[q].c = c

\* putRecord or Delete: the write of a record call.
Put(p) ==
    /\ At(p, "put")
    /\ LET c == call[p].c
           id == call[p].id
       IN  \E ok, applied \in BOOLEAN :
              /\ Attempt(ok, applied)
              /\ IF ~applied THEN UNCHANGED <<recs, walk, history, late>>
                 ELSE /\ history' = Append(history, Change(p))
                      /\ IF call[p].op = "delete"
                         THEN recs' = Without(c, id) /\ Forget(c, id) /\ UNCHANGED late
                         ELSE /\ recs' = With(c, id, call[p].data)
                              /\ late' = IF Doomed(c) THEN late \cup {<<c, id>>} ELSE late
                              /\ UNCHANGED walk
              /\ IF AfterWrite(ok) = "notify"
                 THEN call' = [call EXCEPT ![p].pc = "notify"]
                 ELSE Idle(p)
    /\ UNCHANGED <<meta, mu, used, events, edited,
                   schemaCalls, recordCalls, walks, crashes, misses>>

\* notify and return.
Notify(p) ==
    /\ At(p, "notify")
    /\ events' = Append(events, Change(p))
    /\ Idle(p)
    /\ UNCHANGED <<store, mu, walk, used, history, late, edited, counters>>

RecordStep(p) == UpdateMerge(p) \/ Put(p) \/ Notify(p)

----------------------------------------------------------------------------
(* A caller that lists a collection to the end: ListRecords with the       *)
(* NextAfter of the page before, until there is none.                      *)

WalkAt(w, pc) == walk[w].pc = pc

BeginWalk(w, c) ==
    /\ WalkAt(w, "idle")
    /\ walks < MaxWalks
    /\ walks' = walks + 1
    /\ walk' = [walk EXCEPT ![w] = [IdleWalk EXCEPT
          !.pc = "scan", !.c = c, !.stable = Ids(c)]]
    /\ UNCHANGED <<store, mu, call, ghosts, schemaCalls, recordCalls, crashes, faults, misses>>

\* The first PageSize of a set of ids.
FirstOf(S) == {id \in S : Cardinality({i \in S : i < id}) < PageSize}

NextAfter_FirstLeftOut(rest, page) == IF rest = page THEN 0 ELSE Min(rest \ page)

\* The cursor of the next page; 0 when there is none.
NextAfter(rest, page) == IF rest = page THEN 0 ELSE Max(page)

\* What there is to list behind the cursor.
Behind(w) == {id \in Ids(walk[w].c) : id > walk[w].after}

\* ListRecords scans a page of keys, or returns an error.
ScanPage(w) ==
    /\ WalkAt(w, "scan")
    /\ \E ok \in BOOLEAN :
          /\ Attempt(ok, TRUE)
          /\ LET page == FirstOf(Behind(w))
             IN  walk' = [walk EXCEPT ![w] = IF ~ok THEN IdleWalk
                    ELSE [@ EXCEPT !.pc = "get", !.keys = page,
                                   !.next = NextAfter(Behind(w), page)]]
    /\ UNCHANGED <<store, mu, call, ghosts, schemaCalls, recordCalls, walks, crashes, misses>>

\* It reads the next record of the page; one that is gone by now is left out.
GetListed(w) ==
    /\ WalkAt(w, "get") /\ walk[w].keys # {}
    /\ LET id == Min(walk[w].keys)
       IN  \E found \in BOOLEAN :
              /\ Gets(id \in Ids(walk[w].c), found)
              /\ walk' = [walk EXCEPT ![w].keys = @ \ {id},
                      ![w].seen = IF found THEN Append(@, id) ELSE @]
    /\ UNCHANGED <<store, mu, call, ghosts, schemaCalls, recordCalls, walks, crashes, faults>>

\* The page is returned; the caller goes on behind it.
EndPage(w) ==
    /\ WalkAt(w, "get") /\ walk[w].keys = {}
    /\ walk' = [walk EXCEPT ![w].pc = IF walk[w].next = 0 THEN "done" ELSE "scan",
                            ![w].after = walk[w].next]
    /\ UNCHANGED <<store, mu, call, ghosts, counters>>

FinishWalk(w) ==
    /\ WalkAt(w, "done")
    /\ walk' = [walk EXCEPT ![w] = IdleWalk]
    /\ UNCHANGED <<store, mu, call, ghosts, counters>>

WalkStep(w) == ScanPage(w) \/ GetListed(w) \/ EndPage(w) \/ FinishWalk(w)

----------------------------------------------------------------------------
\* The process dies and is started again; the engine keeps what was written.
Crash ==
    /\ crashes < MaxCrashes
    /\ crashes' = crashes + 1
    /\ mu' = Nobody
    /\ call' = [p \in Admin \cup Client |-> IdleCall]
    /\ walk' = [w \in Pager |-> IdleWalk]
    /\ UNCHANGED <<store, ghosts, schemaCalls, recordCalls, walks, faults, misses>>

Next ==
    \/ \E p \in Admin, c \in Coll :
          \/ \E m \in NewMeta : CallSchema(p, "create", c, m, NoPatch)
          \/ \E patch \in Patch : CallSchema(p, "update", c, NoMeta, patch)
          \/ CallSchema(p, "delete", c, NoMeta, NoPatch)
    \/ \E p \in Client, c \in Coll :
          \/ \E data \in NewData : InsertCheck(p, c, data)
          \/ \E id \in used, data \in PatchData : UpdateReadMeta(p, c, id, data)
          \/ \E id \in used : DeleteFind(p, c, id)
    \/ \E w \in Pager, c \in Coll : BeginWalk(w, c)
    \/ \E p \in Admin : SchemaStep(p)
    \/ \E p \in Client : RecordStep(p)
    \/ \E w \in Pager : WalkStep(w)
    \/ Crash

Spec == Init /\ [][Next]_vars

----------------------------------------------------------------------------
(* Properties.                                                             *)

Change_Type == [kind : {"create", "update", "delete"}, c : Coll, id : Id, n : Nat]

\* Every variable keeps its type, and the mutex has an owner exactly while a
\* schema call is past its check.
TypeOK ==
    /\ meta \in [Coll -> Meta]
    /\ \A c \in Coll : Ids(c) \subseteq used /\ \A id \in Ids(c) : recs[c][id] \in Data
    /\ \A p \in Admin : (mu = p) <=> call[p].pc \in {"putMeta", "list", "wipe"}
    /\ \A p \in Admin : call[p].pc \in {"idle", "lock", "putMeta", "list", "wipe"}
    /\ \A p \in Client : call[p].pc \in {"idle", "merge", "put", "notify"}
    /\ \A w \in Pager : walk[w].pc \in {"idle", "scan", "get", "done"}
    /\ used \subseteq Id /\ edited \subseteq Coll /\ late \subseteq Coll \X Id
    /\ events \in Seq(Change_Type) /\ history \in Seq(Change_Type)

\* A record whose collection is gone was written late: deleting a collection
\* removes its records before its metadata, so that after a failure or a
\* crash in the middle it can be deleted again (DeleteCollection).
OrphansAreLateWrites ==
    \A c \in Coll : ~Exists(c) => \A id \in Ids(c) : <<c, id>> \in late

\* As long as the fields of a collection are those it was created with,
\* every record satisfies them in full, whatever patches were merged at the
\* same time (Insert, UpdateRecord).
RecordsFitSchema ==
    \A c \in Coll : Exists(c) /\ c \notin edited =>
        \A id \in Ids(c) : validateRecord(meta[c].fields, recs[c][id])

\* What is published is a write that took effect, and each write is
\* published at most once (putRecord before notify, error returns).
EventsTellOfWrites ==
    /\ \A i \in DOMAIN events : events[i] \in Range(history)
    /\ \A i, j \in DOMAIN events : i # j => events[i] # events[j]

\* A caller who follows NextAfter to the end gets each record that was there
\* all the time and could be read, none twice, in id order, while others
\* insert and delete.
ListingExact ==
    \A w \in Pager :
        /\ \A i, j \in DOMAIN walk[w].seen : i < j => walk[w].seen[i] < walk[w].seen[j]
        /\ WalkAt(w, "done") /\ misses = 0 => walk[w].stable \subseteq Range(walk[w].seen)

Schemas == INSTANCE Catalog

\* Schema calls are atomic: each changes the metadata once, as if it had been
\* alone (Service.mu), until an error of reading a table makes a collection
\* look as if it were not there.
SchemaCallsAreAtomic == Schemas!Init /\ [][Schemas!Next \/ misses > 0]_meta

\* The state is well-formed, and so is every record.
RecordsAreSound == TypeOK /\ RecordsFitSchema

----------------------------------------------------------------------------
(* What a document or a comment says and the code does not do: TLC refutes *)
(* each of these statements.                                               *)

\* docs/collections.md calls PATCH on a record a merge-patch: only the fields
\* it names change, of a record that is there.
MergePatchOnly ==
    [][\A p \in Client :
          call[p].pc = "put" /\ call[p].op = "update" /\ recs' # recs /\ call'[p] # call[p]
          => LET c == call[p].c
                 id == call[p].id
             IN  /\ id \in Ids(c)
                 /\ \E patch \in PatchData : recs'[c][id] = Merged(recs[c][id], patch)]_vars

\* The comment of DeleteCollection: it removes the metadata and every record
\* in the collection.
DeleteLeavesNothing == \A c \in Coll : ~Exists(c) => Ids(c) = {}

\* docs/realtime.md: the server streams events as they happen.
EventsInWriteOrder ==
    \A i, j \in DOMAIN events, k, l \in DOMAIN history :
        /\ i < j /\ events[i] = history[k] /\ events[j] = history[l]
        /\ events[i].c = events[j].c /\ events[i].id = events[j].id
        => k < l
=============================================================================
