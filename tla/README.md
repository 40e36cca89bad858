# A TLA+ development of SolderDB

SolderDB is a small database in Go: a log-structured storage engine, services on
top of it (collections, accounts, files, realtime events), a REST server, and a
desktop application around them. This directory holds TLA+ models of it, the
configurations TLC checks them with, and theorems about them that TLAPS checks.
Paths and line numbers below are those of this repository.

Contents: [inventory](#inventory) - [the engine](#the-engine-model) -
[beside the engine](#beside-and-below-the-engine) - [collections](#collections) -
[files, accounts, access](#files-accounts-access) - [streams](#streams) -
[runs](#runs) - [proofs](#proofs) -
[disagreements](#where-documents-and-code-disagree) -
[left out](#what-the-models-leave-out) - [plan](#plan).

## Inventory

```
 desktop UI -- bridge --+                         +-- hardware monitor (gate)
                        +-- collections --+       |
 CLI, SDKs -- REST API -+-- auth ---------+-- engine -- wal.bin, sstables/*.sst, LOCK
             (SSE)      +-- files --------+---- files/ (blobs)
                        |       |
                        +-- realtime hub <-- events of collections and of the request log
```

| component | state | operations | hard behaviour | what makes it correct | modules |
|---|---|---|---|---|---|
| storage engine (`internal/engine/db.go`) | WAL, memtable and its size, list of open tables with reference counts, last table number, two locks (`db.mu`, `compactMu`) | Open, Set, Delete, Get, Scan, ListKeys, Compact, Snapshot, ListSnapshots, Close | a flush inside a write; a compaction that works outside `db.mu`; readers that search without a lock; kill, power failure or failing system call between any two steps | acknowledged writes survive and are not shadowed by older ones; reads are not older than their call; files in use stay open; copies and listings are of one instant; calls return | `LSM`, `Engine`, `KVStore`, `Scan`, `Backup` |
| on-disk format, bloom filter (`db.go`) | file contents | encode, decode, CRC, filter | torn records; filters beyond the size a reader takes | a record or table is read as written or rejected; the filter has no false negatives | `TableFile`, `LogFile` |
| directory lock (`lock_*.go`) | one lock on `LOCK` | lock, unlock | Close releases it while a Compact of that handle may run | handles on one directory lose nothing of each other, unless two merges choose one name | `DirLock` |
| collections (`internal/collections`) | metadata and records as engine keys, `Service.mu` | Create-, Update-, DeleteCollection, Insert, Get-, Update-, Delete-, ListRecords | read-modify-write without a lock; Insert against DeleteCollection; events published after the write | schema calls are atomic; records fit their schema; orphans are only late writes; each event tells of a write; paging is exact | `Schema`, `Catalog`, `Collections` |
| realtime hub (`internal/realtime`) | subscribers and their bounded channels | Subscribe, Publish, unsubscribe | drop when full; unsubscribe closes a channel that publishers use | no send on a closed channel; an event is lost only to a full channel of its own subscriber | `Topics`, `Realtime` |
| request log (`internal/logs`) | ring buffer | Append, Tail | publication after unlock | the newest entries, in order | `RequestLog` |
| auth (`internal/auth`) | users as records, signing secret, `regMu` | Register, Login, ChangePassword, VerifyToken | check-then-insert of an address; a secret that is lost, removed or cannot be read | one account per address, as far as the sign-up looks; one admin; tokens follow the secret | `Auth` |
| files (`internal/files`) | blobs on disk, metadata as records | Upload, Stream, Delete, List, Meta | blob and metadata are two steps with a crash in between; Stream against Delete | what is listed can be downloaded whole; failures leave nothing | `Files` |
| REST server (`internal/api`) | listener, event streams | handlers, Start, Stop | rules that change under a request; shutdown while streams are open, with a time limit | requests act within their rights and are logged; Stop returns, and the engine is closed after the handlers | `Access`, `Realtime`, `Subscriber` |
| Go SDK (`sdk/solderdb-go`) | an open stream | Subscribe, stop | a stream cut between any two lines | the function gets whole events, once and in order | `Subscriber` |
| log view (`LogsView.tsx`) | entries shown | load, follow | the tail and the stream are fetched independently | it misses entries only while it loads | `RequestLog` |
| hardware monitor, gate; bridge, CLI, other SDK, views, build | thresholds; none, or a token | compare; forward calls | - | - | - |

How they interact: everything above the engine reaches it by method calls from
goroutines of their own (one for each HTTP request, one for each call of the
user interface); it has no callbacks but the gate, which Compact asks after
releasing `db.mu`. The hub is called after a write has returned, and the request
log after an answer was given. `PROJECT.json` lists every component with its
state of modelling, and under `hazards` what is hard to test, with its line and
the property that covers it.

How the models are put together: `Engine` is checked to implement `KVStore`,
whose operations are atomic; `Collections`, `Files` and `Auth` therefore take a
call of the engine as one step, which may fail, and which a read error may make
answer "not there". `Files` and `Auth` take a call on records as one step, which
`Collections` justifies for calls on one record. `Backup` extends `Engine` and
runs its steps unchanged. `Realtime` has many publishers and streams with an
event's topic as a set of streams that want it; `Topics` says what the set is,
and `Subscriber` follows one stream to the last line. `LogFile` and `TableFile`
justify what `Engine` abstracts: that a torn record is recognised, that a table
reads back as it was written. Small parts that share no state stand side by side
in a module for each layer, where a step is a step of one of them: `Services`
(`Files`, `Auth`, `Access`), `Streams` (`Realtime`, `Subscriber`, `RequestLog`)
and `Storage` (`Scan`, `TableFile`, `LogFile`, `DirLock`, `Topics`).

## The engine model

| module | contents |
|---|---|
| `LSM` | the data: versions, tables, the age order of tables, merging, list replacement, log replay, size accounting; pure operators for the functions of `db.go` |
| `Engine` | `db.go` as a state machine: disk, handle, one writer, one compactor, any number of readers, Close, Open, crashes and failures; its properties and its fairness |
| `KVStore` | the abstract store: what callers of the engine may rely on |
| `EngineInv` | three inductive invariants, as named parts: `ListInv`, `DataInv`, `ReaderFresh` |
| `MCEngine` | symmetry sets for TLC; `MCEngine_*.cfg` are the instances |
| `EngineProofs` | lemmas on the operators of `LSM`; `ListInv`: the list, the open files, the directory |
| `DurabilityProofs` | `DataInv`: what the log, the memtable and the tables hold of a key |
| `ContentsProofs` | what follows: recovery, refinement, Gets, sizes, `.tmp` files, copies |

### Data

A value is the number of the call that wrote it (`Entry.id`), and writes are
numbered in the order in which they take `db.mu`. So "newer" is `>`, and a
tombstone is a version like any other with `del = TRUE`; number 0 is "not
there". A table is its name, `<<seq, compacted>>` for `<seq>[_compacted].sst`,
and a map of keys to versions. Encodings, checksums, index and bloom filter are
abstracted to what they provide: a table is complete once it has been renamed,
an incomplete tail of the log is recognised as such.

### State

| variable | code |
|---|---|
| `wal`, `walDisk`, `torn` | `wal.bin` as the system sees it, the part of it that is fsynced, and whether it ends inside a record |
| `files`, `unsynced`, `unlinked`, `tmps` | `sstables/`: tables, renames and removals the directory fsync has not covered yet, `.tmp` files |
| `memtable`, `memBytes`, `sstables`, `lastSeq`, `walBroken`, `opened` | the fields of `DB`, the sticky error of its `bufio.Writer`, the open file descriptors |
| `writer`, `comp`, `reader` | the call that holds `db.mu`, the one that holds `compactMu`, the Gets: a program counter and local variables |
| `acked` | history: the last write to each key that returned nil |

### Steps

A step is the code between two points at which another goroutine, a crash or a
failing call can be noticed. `db.mu` held for writing is `writer.pc # "idle"`
(or `up = "closing"`), held for reading is a single step, so `MuFree` is the
guard of whoever takes it; `compactMu` is `comp.pc # "idle"`.

* **Set, Delete**: `BeginWrite`, `AppendWAL` (record to the file), `ApplyWrite`
  (fsync, memtable, size, and return unless the threshold is reached).
* **Flush**, inside that call: `FlushWriteTmp`, `FlushRename`, `FlushSyncDir`,
  `FlushInstall` (open, append to the list, empty the memtable), `TruncateWAL`,
  `SyncReset`. Every one has a failing twin that follows the code's early
  return: the table number stays used, a file renamed before the failure stays.
* **Compact**: `CompactBegin`, `CompactAcquire` (references), `CompactMerge`,
  `CompactWriteTmp`, `CompactRename`, `CompactSyncDir`, `CompactOpen`,
  `CompactSwap` (or `CompactRaced`, when Close has emptied the list), and
  `CompactCleanup` once for each input, waiting for its readers.
* **Get**: `GetMemtable`, `GetTables`, `GetRead` are its three regions: read
  lock, read lock again, and the search without a lock. `GetReadFails` is the
  search with an I/O error on one table, which the code passes over.
* **Close**: `CloseBegin` takes the lock, `CloseTables` ends when no reference
  is left. **Open**: one step, since nobody else is there.
* **Kill** loses the handle and keeps what the system was given. **PowerLoss**
  also loses any unsynced tail of the log, and undoes any set of renames and
  removals the directory was not fsynced for; a truncated log whose
  truncation was not fsynced may be back.

Definitions named `X_Y`, here and in the other modules, are `X` with a plausible mistake `Y`; nothing refers to
them. They show that the properties notice: with `X_Y` for `X`, TLC reports the
property as violated (`mutants` in `PROJECT.json`).

### Properties

* `AckedSurvives`: at every moment, whichever unsynced changes a power failure
  undoes, the next Open finds each acknowledged write or a newer one.
* `NoLostWrite`, `GetIsFresh`: the same for what a running engine answers, at an
  instant and for a Get spread over other calls.
* `ReloadLosesNothing`: the order of the list in memory and the order the file
  names have on disk tell the same story.
* `RemovedIsCovered`: nothing is deleted unless files durably in the directory
  have its contents.
* `HeldTablesOpen`: reference counts against compaction and Close.
* `MemBytesExact`: the size that is kept by differences is the size.
* `NoStrayTmp`: no `.tmp` of an earlier life survives Open.
* `Implements`: the engine refines `KVStore`: its contents change only by a
  write and at a restart, flush and compaction are invisible, and what has been
  acknowledged stays.
* `WriteReturns`, `CompactReturns`, `GetReturns`, `CloseReturns`: no two calls
  wait for each other.

The refinement maps `open` to `up = "open"` and `store` to what a Get would
answer at this instant (`Visible`); `acked` is the same variable.

## Beside and below the engine

**`Backup`** (Snapshot, ListSnapshots). `snap` is the call in progress,
`backups` the directories in `snapshots/`. `SnapshotBegin` takes `db.mu` for
writing, notes the list and makes the directory, `CopyWAL` and one `CopyTable` for each
table follow, `CopyFails` removes the directory, `CutShort` and `PowerCutsShort`
are crashes. `WithMu` and `WithoutMu` split the steps of `Engine` into those a
Snapshot keeps out and those that go on, among them most of a compaction.
`SnapshotsAreSound`: a copy whose Snapshot has returned shows the database as it
was at the lock, and no compaction takes a table away before it is copied.

**`Scan`** (Scan, ListKeys). `Ask` starts a page, `Take` copies the memtable and
the list under the lock, `ReadTable` reads one table at a time, newest first,
while `Write`, `Flush` and `Compact` go on, `Page` sorts, filters and cuts,
`AskAgain` follows the cursor. `ListingsAreRight`: a page is exactly what was
live at its lock, behind the cursor, in the range, up to the limit; a listing
over all pages is in order, has each key once, leaves out none that was there
all the time and shows none that never was.

**`TableFile`** has a file as a sequence of cells: `writeSSTable` and
`openSSTable`, `get`, `readAll` are operators, and its machine adds records. The
writer sizes the bloom filter in 32 bits (`BloomBits`) and does not know the
largest one a reader takes (`MaxBloomBits`). `TableReadsBack` compares the two
sides for every small table and every outcome of the two hash functions: what is
not refused reads back as written, and nothing is refused whose filter is of a
size a reader takes. **`LogFile`** has
`wal.bin` cell by cell: `appendWAL` gives the system a whole record and fsyncs
it; a kill in it leaves any part of the record, `appendWALFails` writes a part
and breaks the handle, and after a power failure any prefix of what was not
fsynced is there, or zeros; `Open` is `replayWAL`, which stops at the first
record that is not whole and cuts there. `ReplayIsExact`: what was
acknowledged is replayed, and nothing that was not written.

**`DirLock`** has several handles on one directory, in one process or several:
`Open` under `LockFile`, `Set`, `Flush`, `Close`, `Exit` (a kill), and Compact
as `Merge`, `Stat`, `WriteTmp`, `Rename`, `Swap` or `Raced`, which finds the list
changed, and `Cleanup` once for each input. Close gives the lock up while a
Compact may be at work, and nothing keeps the next Open from going ahead under
it: so the Compact of a closed handle and those of the handle opened after it
interleave. `WritesAreKept`: no write is lost on disk, and an open handle sees
them all, until two Compacts at work have chosen one name for their tables
(`clash`). After that a write can be lost: see the disagreements.

## Collections

`meta` and `recs` are the engine's contents under the two prefixes, `mu` is
`Service.mu`, `call` the calls in progress, `walk` the callers that page through
a listing. A step is one engine call with the code up to the next one: schema
calls are `CallSchema`, `Lock`, then `CreateCheck`, `UpdateCheck` or
`DeleteCheck`, `PutMeta`, and for a deletion `ListDoomed`, `WipeRecord` for each
record, `DropMeta`; record calls are `InsertCheck`, `UpdateReadMeta`,
`UpdateMerge`, `DeleteFind`, then `Put` and `Notify`; a listing is `BeginWalk`,
`ScanPage`, `GetListed` for each key, `EndPage`. The process may die between any
two. `Schema` has the types of fields, validation, merging and the rules.

* `SchemaCallsAreAtomic`: the metadata changes as `Catalog` says, the abstract
  specification in which a schema call is one step (refinement). Only as long as
  no read fails: see the disagreements.
* `OrphansAreLateWrites`: a record whose collection is gone was written after its
  collection had been listed for deletion, whatever failed or died in between.
* `RecordsAreSound`: every record fits the schema its collection was created
  with, whatever patches were merged at the same time, until the fields change.
* `EventsTellOfWrites`: every event is a write that took effect, told once.
* `ListingExact`: paging over insertions and deletions.

## Files, accounts, access

**`Files`**: `tmps` and `blob` are the directory, `recs` the records of
`_files`. `UploadBegin`, `Copy`, `Rename`, `Insert` with the failing twins
`CopyFails`, `RenameFails`, `InsertFails` and the clean-ups they lead to;
`DeleteFind`, `DeleteRecord`, `RemoveBlob`; `StreamFind`, `StreamOpen`,
`StreamSend`; `Kill` and `PowerLoss`, which may cut any blob that was never
fsynced. `ListedIsWhole`: what is listed can be downloaded whole, unless the
power failed. `NoGarbage`: without kills, and as long as `os.Remove` works,
whatever failed leaves nothing behind.

**`Auth`**: `CallRegister`, `FindByEmail`, `UserCount`, `InsertUser` under
`regMu`, each of which may fail or die; `Login`; `VerifyCurrent` and
`UpdatePassword`. The search for an address sees the first `ListLimit` accounts
(10000 in the code, which does not page) in the order of their ids, which need
not be that of creation (`Lists`). `Start` is `loadOrCreateSecret`: `ReadSecret`,
or `NewSecret` when the file is missing, too short or cannot be read, and then
`CutSecret` and `WriteSecret`, the two halves of a `WriteFile`, or
`WriteSecretFails`. `Rotate`, at any time, is somebody who removes or replaces the
file; `Kill`, `PowerLoss` (which may bring back what the file was until
`WriteBack`) and a clock are the rest.
`AccountsAreUnique`: two accounts have one address only if the later one was made
when there were `ListLimit` of them. `FirstIsTheAdmin`. `TokensFollowSecret`: while
the server is up a token is accepted until it expires, through restarts and
changed passwords, unless `.secret` has lost its secret (`gone`); and none is whose
secret it had lost when the server came up (`void`).

**`Access`**: a request goes through `Arrive`, `Authenticate`, and `Handle` or
`LoadMeta` and `Enforce`, then `Act` and `Log`, while `Create`, `ChangeRule` and
`Drop` change rules in between. `RequestsAreRight`: a request acts only with
rights the table of `docs/rest-api.md` gives its user, on records with a rule
that was in force since it arrived, and every answer is in the log with its
status. `StreamAgreesWithREST`: a user is sent an event exactly if REST would
let that user read what it carries.

## Streams

**`Realtime`**: `PublishBegin` (read lock), `Deliver` for each subscriber in any
order as `Skip`, `Send` or `Drop`, `PublishEnd`; a stream is `Connect`,
`Subscribe`, `Hello`, `Receive`, `Filter`, `Write`, `Leave`, `Unsubscribe`; its
client `Read`s or goes away; `Stop`, `Stopped`, `TimeOut`, `CloseEngine` are the
shutdown of `main.go`. `NothingUsedAfterClose`: no send on a closed channel, and
no engine closed under a request unless the time limit ran out.
`NothingElseIsLost`: an event published after a stream said it is connected is
lost only to that stream's own full channel, or to the rules.
`StopNeedsNoLimit`: when clients read, Stop comes to its end by itself.

**`Subscriber`**: one `Subscribe` of the Go SDK against `handleRealtime`, line
by line: `CallSubscribe`, `Opened`, `ReadLine`, `Handle`, `Check`, `ReadFails`,
`Stop`, and `Lost`, which cuts the connection anywhere. `CallsAreSound`: whole
events in order, one call at most after stop, and every event published since
Subscribe returned is handled, dropped by the hub, or on its way. `StreamEnds`:
a stopped or lost stream ends on both sides.

**`RequestLog`**: `AppendEntry` and, separately, `Publish`; the view's
`Subscribe`, `Ask`, `Answer`, `Show`, `Hear`. `TailIsFollowed`: the tail is the
newest entries, and the view lacks an entry only if it came while it loaded, or
was dropped by the hub because the view's channel was full (`Deliver`).

**`Topics`**: `matches` over characters against a definition over segments.

## Runs

| run | instance | shows |
|---|---|---|
| `crash` | 2 keys, 3 writes, 2 compactions, 2 crashes | crashes at every step of writes, flushes and compactions: type invariant, durability, reload order, removals, refinement |
| `faults` | 2 keys, 3 writes, 1 compaction, 1 crash, 2 failing system calls | error paths, alone and followed by a crash: durability, exact accounting, the inductive invariant |
| `readers` | 2 keys, 1 reader, 4 writes, 1 compaction | a Get across flushes, a compaction with its deletions, and Close |
| `live` | 1 key, 1 reader, 3 writes, 1 compaction, 1 failing read | the liveness of the engine's calls, under `FairSpec` |
| `copies` | 1 key, 3 writes, 1 compaction, 1 crash, 1 fault, 1 snapshot | a Snapshot over everything that can go on meanwhile |
| `collections` | 1 name, 2 ids, 2 callers that change schemas, 2 that change records, 1 that pages; 2 calls of each kind, 1 kill, 1 failing write, 1 missed read | the five properties of `Collections` |
| `services` | files: 3 blobs, 2 requests, 2 kills or power failures, 2 faults; accounts: 3 addresses, 2 passwords, 2 requests, 4 accounts, 4 calls, lists of 2; secrets: 1 account, 2 calls, 2 restarts or rotations, 2 faults; access: 15 paths, 5 methods, 3 kinds of user, 2 changes of the rules | the properties of `Files`, `Auth`, `Access` |
| `streams` | hub: 1 publisher, 2 streams, channels of 1, 2 events; the same with 1 stream and a shutdown; SDK: 3 events, channel of 2, 1 keep-alive; log: 2 handlers, 4 entries, a ring of 3, a channel of 1, 2 loads | the properties of `Realtime`, `Subscriber`, `RequestLog`, two of them liveness |
| `storage` | scan: 3 keys, 3 writes, 2 flushes, pages of 1 and 2; table: 3 keys, 2 hashes, a reader that takes filters of 16 bits, words of 32 values; log: 4 records, 3 crashes; lock: 2 handles, 4 writes, 3 opens, 2 compactions; topics up to 4 characters | the properties of `Scan`, `TableFile`, `LogFile`, `DirLock`, `Topics` |
| `close`, `stale`, `orphans` | minimal | three of the disagreements below; these runs end in a violation |

`services`, `streams` and `storage` check several small modules in one run: a
behaviour picks one of them as its `part` and the others stay as they begin. The
parts share no state, so nothing is checked of one that the others could change:
`ServicesRunApart`, `StreamsRunApart` and `StorageRunsApart` prove that in the
modules that put them side by side, a behaviour satisfies the specification of
every part.

Runs of `Engine` check for deadlock: an idle engine can always be closed and
reopened. The other runs do not, since their bounded callers stop when they
have made their calls; that calls return is stated as liveness where something
is waited for, and otherwise nothing but the mutexes is.

**Bounds of the engine.** `MaxWrites`, `MaxCompactions`, `MaxCrashes`, `MaxFaults` and
`MaxReadFaults` bound the behaviours; `FlushThreshold = 2`, with keys and
values of one byte, makes a Set fill the memtable and a Delete fill half of it:
so some writes flush and some only stay in the log, and there are records in the
log and in tables at once. Three writes give two tables and a third
flush that overlaps the merge of the first two, or a crash with one more record
in the log; the second compaction of `crash` merges an earlier result, whose
number may equal that of a flushed table: that is where the order of names
matters. Two crashes are a crash and another during or after the recovery from
it. In `faults` two failures include a failure that hides another. A flush
number is at most `MaxClockStep` past the last: 1 is the tightest case (equal or
backward clock), in which numbers of flushes and compactions collide. Keys
beyond two would add only independent copies of the same history.

**Bounds of the rest.** Hazards here are between two calls, and each instance has
two of every kind that can overlap. `collections`: two records make a page that
is full and not the last; two schema calls and two record calls are a deletion
over an insertion, or two patches of one record, and a kill in the middle of
either; the crash and the fault can hit the retry. `services`: three blobs and
two faults let a clean-up fail after a failure; four accounts and four calls,
a sign-up that fails, is tried again and overlaps another, and, with lists of
two accounts, addresses that are taken twice; two rotations and two faults, a
secret that is replaced under a running server and then cannot be read.
`streams`: a channel of one is full with one event, and a second one is lost, for
the view as for a stream; a stream with a
shutdown meets every step of it. `storage`: tables of one, two and three keys,
whose filters a reader takes, refuses, and takes since their size has gone around;
two flushes and a write between the
tables of a page; three crashes, the last in the replay after the second; two
handles with two compactions, one of which has lost its handle when the other
begins, so that they come to choose one name or not. Names, payloads and
rules are few: no code compares them but for equality.
The mutants show that the cases which matter do occur within these bounds.

**Fairness of the engine.** A goroutine that can run does (weak fairness of its steps). Where
it waits for something that comes and goes, `db.mu` or the last reference to a
table, it gets it in the end (strong fairness): a `sync.RWMutex` keeps new
readers out once a writer waits, and a `sync.Mutex` hands over to a waiter that
has starved; a table that has left the list gets no new references. No fairness
is assumed of the callers, of Close, of crashes and of failures, except that a
call that must fail (a sticky write error, a name that exists) does return.

**Fairness of the streams.** `Realtime!Fairness`: a request and a handler go on
when they can (weak fairness; strong where they wait for `h.mu`), and the
goroutine that called Stop goes on. `ClientsRead` is assumed for
`StopNeedsNoLimit` alone and says so in its name: a client that does not read
blocks its handler, which the time limit of the shutdown is there for. The
connection of `Subscriber` delivers what it carries until it is cut; both ends
run. Nothing else is assumed of publishers, clients or the user who stops.

## Proofs

Every invariant, action property and refinement that a passing run checks is also
a theorem, for every value of the constants that satisfies the assumptions of its
module: sets of keys, requests, streams and handles of any size, any bounds, any
threshold, any number of crashes and failures. What the theorems assume beyond
that is in the last column; nothing else is.

| module | theorem | property | premise |
|---|---|---|---|
| `EngineProofs` | `ListConsistent`, `TablesAreOrdered` | `ListInv`, `ListOrder` | - |
| | `TypeCorrect` | `TypeOK` | - |
| | `UsedTablesAreOpen` | `HeldTablesOpen` | - |
| `DurabilityProofs` | `ContentsConsistent`, `EngineIsConsistent` | `DataInv`, `EngineInvariant` | - |
| | `NothingAcknowledgedIsLost` | `NoLostWrite` | - |
| `ContentsProofs` | `CrashesLoseNothing` | `AckedSurvives` | - |
| | `MemoryAndFilesAgree` | `ReloadLosesNothing` | - |
| | `RemovalsAreCovered` | `RemovedIsCovered` | - |
| | `EngineImplementsKVStore` | `Implements` | - |
| | `GetsAreFresh` | `GetIsFresh` | while no read of a table has failed |
| | `FlushTotalIsExact`, `TmpFilesAreInUse` | `MemBytesExact`, `NoStrayTmp` | - |
| | `CopiesAreConsistent` | `SnapshotsAreSound` | no Snapshot of a closed handle (`~CalledClosed`) |
| `CollectionsProofs` | `CollectionsAgree` | `CollInv` | - |
| | `OnlyLateWritesAreOrphans`, `RecordsStaySound`, `NoFalseEvents`, `ListingsAreComplete` | `OrphansAreLateWrites`, `RecordsAreSound`, `EventsTellOfWrites`, `ListingExact` | - |
| | `SchemaCallsImplementCatalog` | `SchemaCallsAreAtomic` | - |
| `ServicesProofs` | `ListedFilesAreWhole`, `FailuresLeaveNoGarbage`, `FilesTypeCorrect` | `ListedIsWhole`, `NoGarbage`, `TypeOK` of `Files` | a write of the engine that reports an error has not taken effect (`~LateErrors`) |
| | `AccountsStayUnique`, `OneAdmin` | `AccountsAreUnique`, `FirstIsTheAdmin` | while no read of the engine has failed |
| | `SecretDecidesTokens` | `TokensFollowSecret` | - |
| | `RequestsActWithinRights`, `StreamAndRESTAgree` | `RequestsAreRight`, `StreamAgreesWithREST` | - |
| `StreamsProofs` | `NothingIsUsedAfterClose`, `RealtimeTypeCorrect` | `NothingUsedAfterClose`, `TypeOK` of `Realtime` | - |
| | `ConnectedStreamsMissNothing` | `NothingElseIsLost` | - |
| | `TailIsRight` | `TailIsFollowed` | - |
| | `TheCallerGetsEveryEvent` | `CallsAreSound` | - |
| `StorageProofs` | `NoHandleLosesWrites` | `WritesAreKept` | - |
| | `ListingsHoldWhatIsThere` | `ListingsAreRight` | - |
| | `TopicsMatchBySegments` | `MatchesBySegments` | - |
| `FormatProofs` | `WalInvHolds`, `TheLogIsReplayedExactly` | `WalInv`, `ReplayIsExact` | - |
| | `TablesReadBack` | `TableReadsBack` | - |
| three of them | `ServicesRunApart`, `StreamsRunApart`, `StorageRunsApart` | the parts of a layer keep their specifications side by side | - |

The premises `~LateErrors` and `~CalledClosed`, and the two that begin with
"while", are not conveniences: without each the property is false, and the table
of disagreements below names the behaviour. Some properties say themselves how
far the code goes: `AccountsAreUnique` up to the length of a listing,
`TableReadsBack` up to the size of a filter, `WritesAreKept` until two names are
the same, `TokensFollowSecret` for a secret the file has not lost. The statements
without these limits are in the table too.

Each proof that a step keeps an invariant has a theorem or a step for every
action, and under it one for each part the action can disturb. `PTL` combines
them. Statements about all naturals are proved by the least counterexample
(`SmallestOf`, `LargestOf` in `StorageProofs`). A function that is defined by
recursion is first shown to exist in the same way, as in `ReadRecursion`, and is
unfolded from then on.

**The engine: list and files.** `HeldTablesOpen` is not inductive: that
cleanup closes no table of the list needs `CleanupApart`, which at the swap
follows from the inputs being the beginning of the list (`InputsLive`) and the
list being without duplicates (`ListOrder`). That the swapped list is still in
order needs the number of the merged table to be directly after its newest input
(`MergedNext`) and everything behind the inputs to have been flushed with a
larger number; at equal numbers, `tableOlder` puts the merged one first, which is
why `InputsLive` says that those behind are not compacted. The table a flush is
about to append has to sort last at the time it is appended, not when it was
numbered, whatever a compaction does in between (`FlushFresh`, and the bound by
`lastSeq`, which the swap raises). That removals never meet an unsynced rename
(part of `TypeOK`) needs `InputsDurable`: whatever is in the list has been through
`syncDir` by the time a swap happens, because the compactor's own `syncDir`
covers the flushes before it. `Modes` ties the calls to the mode of the
handle, and says that Close empties the list.

**The engine: contents.** The heart is `VersionsOrdered`: of two tables on disk
with a key, the one with the newer name has the newer version, and no two files
have one name (`UniqueNames`). Then loading any set of them in the order of names
shows the newest, and it is enough to know for each version that something at
least as new is left: the list has what is in any file up to its end
(`ListCovers`), the inputs of a merge have what is in any file up to theirs and
stay until the merged table is durable (`InputsCover`, `InputsOnDisk`), and what
is removed is in a file that stays (`RemovalsCovered`).
The log needs a part of its own. It is replayed over all tables, so a version
that was left in it must not be older than what is in a table: `LogIsNewest`,
for each image a power failure can leave, among them the log whose truncation was
not fsynced. `AckedIsHeld` locates an acknowledged write: in a durable file, or
in every image of the log. `ShownIsNewest` is the same for the running handle,
`WriteTrail` follows a write in progress, `IdsGiven`, `TableContents` and
`NumbersGiven` say where ids, entries and table numbers can come from.

From these, `AckedSurvives` and `NoLostWrite` are a comparison of versions, and
the simulation of `KVStore` is one fact for each action: a write changes
`Visible` at its own key when it is applied, Open and the crash before it choose
what the log left, and everything else leaves `Visible` as it is. `GetsAreFresh`
needs `ReaderFresh`: what a Get between its steps has in its hands is at least as
new as what was acknowledged when it was called, although the memtable it looked
at and the list it took may be of two moments. `CopiesAreConsistent` adds
`SnapInv`: what an Open of the copy would read has not changed since the lock was
taken, because the steps of a compaction that go on meanwhile neither take a
table from the list nor remove one that is in it.

**Collections.** `CollInv` has a part for each kind of call: `SchemaCallOK` says
what the holder of `Service.mu` has read still stands, `RecordCallOK` what an
insertion or update may put after it has read the schema or the record, which
may be gone by then; so `OrphansAreLateWrites` speaks of versions written after
the listing of a deletion, and the numbers of writes (`Numbers`) are what makes
"after" and "once" provable. `WalkOK` is about a caller between two pages: what is
behind its cursor is settled. The refinement of `Catalog` follows with one step
of the abstract call for `PutMeta` and `DropMeta`, and stuttering for the rest.

**Files, accounts, access.** `ListedIsWhole` needs `Written` (who has come to
the insertion has copied and renamed), `Owned` (no other request has the file of
an upload), `Unlisted` (a failed upload removes a blob nobody lists) and `Known`
(a new upload meets no old file); `NoGarbage` follows from `Attended`: without
kills every file is listed or in the hands of the request that will list it or
remove it. `AuthInv`: who holds `regMu` and has passed the check has, when there
are no more accounts than a listing shows, found none of its address, and nobody
else inserts one (`Signup`, `Unique`); a token was signed with the secret of the
running server, or of the file when it is down, or with one the file has lost
(`Signed`). A server that writes a new secret has made one that no token was
signed with, and once the file is cut all secrets before it are lost.
`AccessInv`: who is past a middleware has been let through by it (`Admitted`), and
the rules a request has read were in force while it was in progress
(`RulesSeen`).

**Streams.** `HubInv` adds `Visiting`: who is still to be visited by a Publish
is subscribed, because `unsubscribe` takes `h.mu` for writing, when no Publish is
under way. `Owing` accounts for events: each one a connected stream is owed is
still to be delivered, in its channel, in its handler's hands, written, or was
dropped at a full channel or by the rules (`Told`, `Accounted`). `LogInv`: the ring and the count
of entries say which entries are in the tail (`Buffered`), and an entry the view
lacks came while it loaded or was dropped since (`TailShown`). `SdkInv`: the phases of the two ends
(`Phases`), the lines on the connection as whole frames of growing numbers
(`Lined`, `Ordered`), and for every event published since Subscribe returned the
place where it is (`Promised`).

**Storage.** A Compact of a closed handle ends by removing files: its merged
table by name, or the rest of its inputs. `DirInv` therefore counts on none of
the files whose names are still to be removed, nor on a merged table that is not
in a list yet (`Doomed`): the log and the other files (`Base`) hold every write.
An open handle sees every write and numbers its tables above all that are to be
removed (`HandleOK`). A Compact has a merged table that holds its inputs (`Merged`),
a name no file gets before its rename (`NameIsFree`) and a `.tmp` of its own
(`OwnTmp`); its inputs still start the list as long as its handle is open
(`StillFirst`); what is removed is older than a table that stays, so that no later
name meets it (`Outlived`). All this rests on Compacts at work having chosen
different names (`NamesDiffer`), which is what `clash` denies. `ScanInv`: what
was live throughout the listing or when the page took its lock
(`LiveThroughout`, `LiveWhenTaken`), that what has been gathered and the tables
still to be read together say what was live then (`Gathered`), and that nothing
up to the cursor was left out (`CursorInPlace`, `NoneLeftOut`). `TopicsMatchBySegments` counts colons: the
segments of a topic are the stretches between the colons, by rank.

**On disk.** `WalInv`: the log is a chain of whole records, in the order they
were appended, with something else behind it only when the handle is broken or
down (`FileInOrder`); the fsynced beginning (`DurableBegins`) is a chain too and
has what was acknowledged (`AckedAreDurable`); the memtable has what was
acknowledged, in order (`MemtableInOrder`). `replayWAL` of a cut chain then ends at the last whole
record. `TablesReadBack` computes where the cells of each record lie in the data
section, that reading at that offset gives the record and the offset behind it,
so that the recursion of `readAll` ends at the index; that the offsets of the index are
those, and that the filter has every probe of every key it was given. `BloomFits`:
up to as many keys as `MaxBloomBits` has room for, the size of the filter is not
cut to 32 bits, and is a number of whole bytes that a reader takes.

**Model-checked only.** `WriteReturns`, `CompactReturns`, `GetReturns`,
`CloseReturns`, `StreamEnds` and `StopNeedsNoLimit`: liveness under fairness, and
the ENABLED behind it, are out of the reach of the proof system. So are the
violations: that a statement is false is shown by the counterexample of its run.

## Where documents and code disagree

Three have a run that ends in the violation:

* **Clean shutdown and fsync** (run `close`). `docs/engine.md:108` says that
  after Close the log is flushed and fsynced. `Close` (db.go:390) flushes the
  buffer and closes the file. Every acknowledged write has been fsynced by its
  own append, so no acknowledged write is at risk; but a record that a killed
  process had written and not yet fsynced is replayed and served by the next
  one, and can vanish in a power failure after a clean Close.
* **Newest table wins** (run `stale`). `docs/engine.md:78` says that of two
  tables with a key the newer one answers. When reading the newer one fails,
  `getFromSSTables` (db.go:1353) goes on as if the key were not in it, and Get
  answers with an older version and no error.
* **Deleting a collection** (run `orphans`). `collections.go:249` says that
  DeleteCollection removes every record of the collection. A record that is
  written after the records were listed stays, and is in the next collection of
  that name.

The others are stated in the last section of their module, or arise with the
constant that is named; TLC refutes each when it is put in a configuration:

| statement | where it is said | what happens |
|---|---|---|
| `Collections!MergePatchOnly` | docs/collections.md:64, "merge-patch" | of two patches at a time the later write takes the other's field back, or brings a deleted record back |
| `Collections!EventsInWriteOrder` | docs/realtime.md:17, "as they happen" | events of one record come in the other order than its writes |
| `SchemaCallsAreAtomic` without its premise on `misses` | collections.go:155, "already exists" | when the read of the metadata fails, CreateCollection takes the name for free and overwrites the schema of a collection that is there |
| `Files!UploadIsAtomic` | docs/files.md:47, "Uploads are atomic" | a blob is not fsynced and may be lost in a power failure, its record not; with `LateErrors`, an insertion that reports an error and took effect leaves a record without a blob |
| `Files!NoGarbage` after a kill | docs/files.md:47, "A partial upload leaves no garbage" | the `.tmp` of a killed upload, or a blob without a record, is removed by nobody |
| `Auth!FirstIsTheAdmin` with `MaxMisses = 1` | auth.go:130-131 | a read error hides the only account from the count, and the second becomes admin |
| `Auth!AddressesAreUnique` | auth.go:72-74, "nor both claim the same email" | `findByEmail` lists the first 10000 accounts (auth.go:268): an address that only an account beyond them has can be taken again, and its owner cannot sign in |
| `Auth!RotationIsImmediate` | docs/auth.md:78, "Every token becomes invalid immediately" | the running server keeps the secret it has in memory; docs/operating.md:68 has it right, with a restart |
| `Auth!GeneratedOnFirstRun` | docs/auth.md:53, "generated on first run" | a start that cannot read `.secret` for any reason generates another and writes it over the good one (auth.go:309-316): all tokens are void |
| `Auth!ChangeVerifiesCurrent` | auth.go:169, "after verifying the current one" | of two changes at a time the second replaces a password it has not verified |
| `Backup!HalfCopiesAreRemoved` | db.go:580-581 | a kill in the middle leaves a partial copy that is listed |
| `Backup!ListedIsConsistent` with `CalledClosed` | db.go:549 | a Snapshot of a closed handle copies the log and no table, and reports success |
| `DirLock!NothingLost` | db.go:321-322, "only one may open it" | Close unlocks (db.go:411) while a Compact may be at work; it and one of the handle opened after it choose one name for their tables, the second renames its own over the first one's, and the first removes it by that name (db.go:751) when the second has swapped it in and removes the inputs |
| `TableFile!EveryTableOpens` | nowhere; `openSSTable` (db.go:1215) limits the filter, `writeSSTable` does not | a table of more than about 107 million keys is written and refused at once, and by every later Open |
| `Access!InternalIsForAdmins` | docs/collections.md:50, "admin-only over the API" | an admin is answered 403 like everybody |
| `RequestLog!LiveTailOfEveryRequest` | LogsView.tsx:84 | an entry that falls between the tail and the subscription is not shown |
| `Topics!LogsUnderWildcard` | logs.go:3, "under the logs:* topic" | entries are published on `logs`, which `logs:*` does not match |

By reading alone: `monitor.go:2-4` says that snapshots consult the gate, and
Snapshot does not.

Met while modelling, and part of the model, but contradicting nothing that is
written down: a Set whose flush fails returns an error although the value is
applied and durable; a record whose fsync failed is refused to the caller and
present after a restart; after a failed write of the log every Set and Delete
fails until the database is opened again; a merged file left behind by a failed
compaction makes the next Compact of the same tables fail; two DeleteRecords of
one record at a time both succeed and both publish.

## What the models leave out

* **Engine.** A Get that starts after Close (the code answers from the memtable
  that was left behind), and what a Get that overlaps Close answers. A failing
  Open (unreadable table, unreadable log), a failing removal of a `.tmp`,
  failures while the log is being cut at Open: `Open` either does all of its
  work or, with a crash in it, can be done again. An fsync that fails and still
  loses data that a later fsync reports as written. The no-op `syncDir` of
  Windows. The checks of key and record sizes at the head of Set and Delete;
  Stats. A Snapshot whose `RemoveAll` fails.
* **Files on disk.** The bytes of encodings; that CRC32C tells a whole record
  from another is assumed. A table file is read as it was written; one
  that was damaged or cut afterwards is not modelled.
* **Lock.** `lock_other.go` locks nothing; `LockFileEx` is taken to be `flock`.
  In `DirLock` a `.tmp` is created and filled in one step, and an open file can
  be removed, which Windows refuses.
* **Collections.** Writes to `_coll:` keys through the raw key-value routes, and
  the collections that services create for themselves at start. Formats of
  dates and JSON are values of three kinds. Ids are taken never to repeat.
* **Accounts.** Hashing, the checks of addresses and passwords, the time a
  comparison takes. A `.secret` of zeros after a power failure, or an older one
  that somebody puts back. Expiry of a token on an open event stream is not looked at
  by the code, and not modelled.
* **API.** CORS and preflight requests, decoding of bodies, a server without an
  auth service. Handlers of kv, files, accounts and stats are one act.
* **Streams.** The paused log view, and an `EventSource` that reconnects; the
  publisher of the user interface.
* **Gate and hardware monitor.** A comparison of sensor readings with
  thresholds; Compact asks before it starts and returns when refused, so a
  refusal is a Compact that was not called.
* **Bridge, command line client, JavaScript SDK, other views.** They forward
  calls and keep no protocol state. Build, installer and icon generator are not
  part of the running program.

## Plan

What is left, the most valuable first:

1. An `Open` that fails half-way and calls on a closed handle, as actions of
   `Engine`; `DataInv` then has to hold without the premise that Open is whole.
2. `Collections` composed with `Realtime`, so that the order in which a client
   sees the events of one record can be stated, and `Streams` over it.
3. The hazards no property covers to the end (in `PROJECT.json`, those with a note). In
   each the code does what it should not, and a module states what it should do
   and TLC refutes; what is left to state and prove is how far the damage goes.
4. The premises of the theorems that are not needed: what holds of the files
   with `LateErrors`, of the accounts after a missed read, of two handles after
   two merges have chosen one name.
