------------------------------- MODULE Engine -------------------------------
(***************************************************************************)
(* internal/engine/db.go: one data directory and the handle that has it    *)
(* open.  A Set or Delete (the writer) holds db.mu from its first step to  *)
(* its last; a Compact (the compactor) holds only compactMu and takes      *)
(* db.mu for moments; Gets (the readers) take db.mu for reading twice and  *)
(* search the tables without it.  Close, the death of the process and the  *)
(* failure of the power may come between any two steps.                    *)
(*                                                                         *)
(* A step is the code between two points where another goroutine, a crash  *)
(* or a failing system call can be noticed.                                *)
(***************************************************************************)
EXTENDS LSM

CONSTANTS
    NoKey,            \* the key of an idle process
    Reader,           \* goroutines calling Get
    FlushThreshold,   \* Options.FlushThresholdBytes
    MaxClockStep,     \* how far the clock can be ahead of the last table
    MaxWrites,        \* bound: Set and Delete calls
    MaxCompactions,   \* bound: Compact calls that find two tables or more
    MaxCrashes,       \* bound: kills of the process and power failures
    MaxFaults,        \* bound: system calls that fail, other than reads
    MaxReadFaults     \* bound: table reads that fail

ASSUME BoundsAssumption ==
    /\ FlushThreshold \in Nat /\ MaxClockStep \in Nat \ {0}
    /\ MaxWrites \in Nat /\ MaxCompactions \in Nat /\ MaxCrashes \in Nat
    /\ MaxFaults \in Nat /\ MaxReadFaults \in Nat

ASSUME NoKeyAssumption == NoKey \notin Key

VARIABLES
    \* The disk.  The WAL and the directory are as the running system sees
    \* them; walDisk, unsynced and unlinked say what a power failure may undo.
    wal,          \* the records replayWAL would read from wal.bin
    walDisk,      \* the records in it that were fsynced last
    torn,         \* wal.bin ends in an incomplete record
    files,        \* the .sst files
    unsynced,     \* those whose rename has not been fsynced
    unlinked,     \* removed files whose removal has not been fsynced
    tmps,         \* names of the .sst.tmp files
    \* The handle, lost when the process ends.
    up,           \* "down", "open", "closing" or "closed"
    memtable,
    memBytes,
    sstables,     \* oldest to newest
    lastSeq,
    walBroken,    \* the bufio.Writer keeps the error of a failed write
    opened,       \* the tables whose file is open
    \* The calls in progress.
    writer,
    comp,
    reader,
    \* History and counters.
    acked,        \* id of the last write to each key that returned nil
    writes,
    compactions,
    crashes,
    faults,
    readFaults

disk == <<wal, walDisk, torn, files, unsynced, unlinked, tmps>>
log == <<wal, walDisk, torn>>
dir == <<files, unsynced, unlinked, tmps>>
handle == <<up, memtable, memBytes, sstables, lastSeq, walBroken, opened>>
counters == <<writes, compactions, crashes, faults, readFaults>>
vars == <<disk, handle, writer, comp, reader, acked, counters>>

IdleWriter == [pc |-> "idle", key |-> NoKey, entry |-> NoEntry, table |-> NoTable]

IdleComp == [pc |-> "idle", inputs |-> <<>>, table |-> NoTable]

IdleReader ==
    [pc |-> "idle", key |-> NoKey, tables |-> <<>>, floor |-> 0, result |-> NoEntry]

Init ==
    /\ wal = <<>> /\ walDisk = <<>> /\ torn = FALSE
    /\ files = {} /\ unsynced = {} /\ unlinked = {} /\ tmps = {}
    /\ up = "down"
    /\ memtable = Empty /\ memBytes = 0 /\ sstables = <<>> /\ lastSeq = 0
    /\ walBroken = FALSE /\ opened = {}
    /\ writer = IdleWriter /\ comp = IdleComp
    /\ reader = [r \in Reader |-> IdleReader]
    /\ acked = [k \in Key |-> 0]
    /\ writes = 0 /\ compactions = 0 /\ crashes = 0 /\ faults = 0 /\ readFaults = 0

----------------------------------------------------------------------------
(* Definitions named X_Y are variants of X with the mistake Y, which the   *)
(* properties are there to notice; no other definition uses them.          *)

MuFree_KeptByClose == up = "open" /\ writer.pc = "idle"

\* db.mu is not held for writing, so it can be taken.
MuFree == up \in {"open", "closed"} /\ writer.pc = "idle"

Names(S) == {Name(t) : t \in S}

\* What a Get that starts now must see.
Visible(k) == IF Present(memtable[k]) THEN memtable[k] ELSE Newest(sstables, k)

\* A system call fails: by itself, which the bound counts, or because of c.
Fails(c) ==
    /\ c \/ faults < MaxFaults
    /\ faults' = IF c THEN faults ELSE faults + 1
    /\ UNCHANGED <<writes, compactions, crashes, readFaults>>

Held_ByMergesOnly(t) == comp.pc = "merge" /\ t \in Range(comp.inputs)

Held_NotReleasedByMerge(t) ==
    \/ \E r \in Reader : reader[r].pc = "read" /\ t \in Range(reader[r].tables)
    \/ comp.pc # "idle" /\ t \in Range(comp.inputs)

\* A table is in use by a search or a merge that holds a reference to it.
Held(t) ==
    \/ \E r \in Reader : reader[r].pc = "read" /\ t \in Range(reader[r].tables)
    \/ comp.pc = "merge" /\ t \in Range(comp.inputs)

----------------------------------------------------------------------------
(* Set and Delete.  The caller holds db.mu until writer is idle again.     *)

WriterAt(pc) == up = "open" /\ writer.pc = pc

\* Every early return gives an error to the caller: nothing is acknowledged.
GiveUp == writer' = IdleWriter /\ UNCHANGED acked

Return ==
    /\ writer' = IdleWriter
    /\ acked' = [acked EXCEPT ![writer.key] = writer.entry.id]

\* Set(k, v) or Delete(k) passes checkRecordSize and locks db.mu.
BeginWrite(k, del) ==
    /\ up = "open" /\ MuFree
    /\ writes < MaxWrites
    /\ writes' = writes + 1
    /\ writer' = [IdleWriter EXCEPT
          !.pc = "append", !.key = k, !.entry = [id |-> writes + 1, del |-> del]]
    /\ UNCHANGED <<disk, handle, comp, reader, acked, compactions,
                   crashes, faults, readFaults>>

\* appendWAL, up to the Flush of the buffered writer.  (A record behind an
\* incomplete one would never be read: replay stops there.)
AppendWAL ==
    /\ WriterAt("append")
    /\ ~walBroken
    /\ wal' = IF torn THEN wal
              ELSE Append(wal, [key |-> writer.key, entry |-> writer.entry])
    /\ writer' = [writer EXCEPT !.pc = "sync"]
    /\ UNCHANGED <<walDisk, torn, dir, handle, comp, reader, acked, counters>>

\* The write fails, perhaps after part of the record, and from then on the
\* buffered writer refuses every call with the same error.
AppendWALFails ==
    /\ WriterAt("append")
    /\ Fails(walBroken)
    /\ torn' \in (IF walBroken THEN {torn} ELSE BOOLEAN)
    /\ walBroken' = TRUE
    /\ GiveUp
    /\ UNCHANGED <<wal, walDisk, dir, up, memtable, memBytes, sstables, lastSeq,
                   opened, comp, reader>>

SyncWAL_Skipped == UNCHANGED walDisk

\* wal.bin is fsynced.
SyncWAL == walDisk' = wal

\* The Sync of appendWAL, then the memtable and its size; the call returns
\* unless the memtable has grown to the threshold.
ApplyWrite ==
    /\ WriterAt("sync")
    /\ SyncWAL
    /\ memtable' = [memtable EXCEPT ![writer.key] = writer.entry]
    /\ memBytes' = memBytes + Growth(memtable[writer.key], writer.entry)
    /\ IF memBytes' >= FlushThreshold
       THEN writer' = [writer EXCEPT !.pc = "flush"] /\ UNCHANGED acked
       ELSE Return
    /\ UNCHANGED <<wal, torn, dir, up, sstables, lastSeq, walBroken, opened,
                   comp, reader, counters>>

\* The record stays in the file although the caller is told the call failed.
SyncWALFails ==
    /\ WriterAt("sync")
    /\ Fails(FALSE)
    /\ GiveUp
    /\ UNCHANGED <<disk, handle, comp, reader>>

----------------------------------------------------------------------------
(* flushMemtableToSSTableLocked, at the end of a Set or Delete.            *)

FlushSeqs_NotPastLast == lastSeq .. lastSeq + MaxClockStep

\* nextFlushSeqLocked: the clock, or one more than the last number given out.
FlushSeqs == lastSeq + 1 .. lastSeq + MaxClockStep

\* createSSTable, up to the complete and fsynced .tmp file.
FlushWriteTmp ==
    /\ WriterAt("flush")
    /\ \E seq \in FlushSeqs :
        LET t == [seq |-> seq, compacted |-> FALSE, recs |-> memtable]
        IN  /\ lastSeq' = seq
            /\ Name(t) \notin Names(files) \cup tmps
            /\ tmps' = tmps \cup {Name(t)}
            /\ writer' = [writer EXCEPT !.pc = "rename", !.table = t]
    /\ UNCHANGED <<log, files, unsynced, unlinked, up, memtable, memBytes, sstables,
                   walBroken, opened, comp, reader, acked, counters>>

\* The number is used up all the same.
FlushWriteTmpFails ==
    /\ WriterAt("flush")
    /\ lastSeq' \in FlushSeqs
    /\ Fails(<<lastSeq', FALSE>> \in Names(files) \cup tmps)
    /\ GiveUp
    /\ UNCHANGED <<disk, up, memtable, memBytes, sstables, walBroken, opened, comp, reader>>

FlushRename ==
    /\ WriterAt("rename")
    /\ files' = files \cup {writer.table}
    /\ unsynced' = unsynced \cup {writer.table}
    /\ tmps' = tmps \ {Name(writer.table)}
    /\ writer' = [writer EXCEPT !.pc = "syncdir"]
    /\ UNCHANGED <<log, unlinked, handle, comp, reader, acked, counters>>

FlushRenameFails ==
    /\ WriterAt("rename")
    /\ Fails(FALSE)
    /\ tmps' = tmps \ {Name(writer.table)}
    /\ GiveUp
    /\ UNCHANGED <<log, files, unsynced, unlinked, handle, comp, reader>>

SyncDir_Skipped == UNCHANGED <<unsynced, unlinked>>

\* syncDir: everything that was done to the directory is durable.
SyncDir == unsynced' = {} /\ unlinked' = {}

FlushSyncDir ==
    /\ WriterAt("syncdir")
    /\ SyncDir
    /\ writer' = [writer EXCEPT !.pc = "install"]
    /\ UNCHANGED <<log, files, tmps, handle, comp, reader, acked, counters>>

\* syncDir or openSSTable fails: the file stays, but is in no list.
FlushOrphan ==
    /\ WriterAt("syncdir") \/ WriterAt("install")
    /\ Fails(FALSE)
    /\ GiveUp
    /\ UNCHANGED <<disk, handle, comp, reader>>

\* openSSTable, append to the list, empty the memtable.
FlushInstall ==
    /\ WriterAt("install")
    /\ opened' = opened \cup {writer.table}
    /\ sstables' = Append(sstables, writer.table)
    /\ memtable' = Empty
    /\ memBytes' = 0
    /\ writer' = [writer EXCEPT !.pc = "truncate", !.table = NoTable]
    /\ UNCHANGED <<disk, up, lastSeq, walBroken, comp, reader, acked, counters>>

TruncateWAL_TakesCompactMu ==
    /\ WriterAt("truncate")
    /\ comp.pc = "idle"
    /\ wal' = <<>> /\ torn' = FALSE
    /\ writer' = [writer EXCEPT !.pc = "resetsync"]
    /\ UNCHANGED <<walDisk, dir, handle, comp, reader, acked, counters>>

\* resetWALLocked, up to its Sync.
TruncateWAL ==
    /\ WriterAt("truncate")
    /\ wal' = <<>> /\ torn' = FALSE
    /\ writer' = [writer EXCEPT !.pc = "resetsync"]
    /\ UNCHANGED <<walDisk, dir, handle, comp, reader, acked, counters>>

SyncReset ==
    /\ WriterAt("resetsync")
    /\ SyncWAL
    /\ Return
    /\ UNCHANGED <<wal, torn, dir, handle, comp, reader, counters>>

ResetWALFails ==
    /\ WriterAt("truncate") \/ WriterAt("resetsync")
    /\ Fails(FALSE)
    /\ GiveUp
    /\ UNCHANGED <<disk, handle, comp, reader>>

Write ==
    \/ \E k \in Key, del \in BOOLEAN : BeginWrite(k, del)
    \/ AppendWAL \/ AppendWALFails \/ ApplyWrite \/ SyncWALFails
    \/ FlushWriteTmp \/ FlushWriteTmpFails \/ FlushRename \/ FlushRenameFails
    \/ FlushSyncDir \/ FlushOrphan \/ FlushInstall
    \/ TruncateWAL \/ SyncReset \/ ResetWALFails

----------------------------------------------------------------------------
(* Compact.  The caller holds compactMu until comp is idle again, so there *)
(* is one at a time; a Set, a Get or a Close may come between its steps.   *)

CompAt(pc) == comp.pc = pc

CompGoto(pc) == comp' = [comp EXCEPT !.pc = pc]

EndCompact == comp' = IdleComp

\* The inputs are the tables of now; the gate (which may also refuse, and
\* then nothing happens) is asked after db.mu is released.
CompactBegin ==
    /\ MuFree /\ CompAt("idle")
    /\ Len(sstables) > 1
    /\ compactions < MaxCompactions
    /\ compactions' = compactions + 1
    /\ comp' = [IdleComp EXCEPT !.pc = "acquire", !.inputs = sstables]
    /\ UNCHANGED <<disk, handle, writer, reader, acked, writes, crashes, faults,
                   readFaults>>

\* mergeTables takes references under db.mu, or finds the list changed.
CompactAcquire ==
    /\ MuFree /\ CompAt("acquire")
    /\ IF IsPrefixOf(comp.inputs, sstables) THEN CompGoto("merge") ELSE EndCompact
    /\ UNCHANGED <<disk, handle, writer, reader, acked, counters>>

Compacted_NumberedLikeFlush(inputs) ==
    [seq |-> lastSeq + 1, compacted |-> TRUE, recs |-> Merge(inputs)]

\* The name of the result sorts directly after its newest input.
Compacted(inputs) ==
    [seq |-> inputs[Len(inputs)].seq + 1, compacted |-> TRUE, recs |-> Merge(inputs)]

\* All inputs are read, and the references given back.
CompactMerge ==
    /\ CompAt("merge")
    /\ Range(comp.inputs) \subseteq opened
    /\ comp' = [comp EXCEPT !.pc = "create", !.table = Compacted(comp.inputs)]
    /\ UNCHANGED <<disk, handle, writer, reader, acked, counters>>

CompactMergeFails ==
    /\ CompAt("merge")
    /\ Fails(~(Range(comp.inputs) \subseteq opened))
    /\ EndCompact
    /\ UNCHANGED <<disk, handle, writer, reader, acked>>

CompactWriteTmp ==
    /\ CompAt("create")
    /\ Name(comp.table) \notin Names(files) \cup tmps
    /\ tmps' = tmps \cup {Name(comp.table)}
    /\ CompGoto("rename")
    /\ UNCHANGED <<log, files, unsynced, unlinked, handle, writer, reader, acked, counters>>

\* In particular when an earlier Compact left a file of that name behind.
CompactWriteTmpFails ==
    /\ CompAt("create")
    /\ Fails(Name(comp.table) \in Names(files) \cup tmps)
    /\ EndCompact
    /\ UNCHANGED <<disk, handle, writer, reader, acked>>

CompactRename ==
    /\ CompAt("rename")
    /\ files' = files \cup {comp.table}
    /\ unsynced' = unsynced \cup {comp.table}
    /\ tmps' = tmps \ {Name(comp.table)}
    /\ CompGoto("syncdir")
    /\ UNCHANGED <<log, unlinked, handle, writer, reader, acked, counters>>

CompactRenameFails ==
    /\ CompAt("rename")
    /\ Fails(FALSE)
    /\ tmps' = tmps \ {Name(comp.table)}
    /\ EndCompact
    /\ UNCHANGED <<log, files, unsynced, unlinked, handle, writer, reader, acked>>

CompactSyncDir ==
    /\ CompAt("syncdir")
    /\ SyncDir
    /\ CompGoto("open")
    /\ UNCHANGED <<log, files, tmps, handle, writer, reader, acked, counters>>

\* syncDir or openSSTable fails: the merged file stays, but is in no list.
CompactOrphan ==
    /\ CompAt("syncdir") \/ CompAt("open")
    /\ Fails(FALSE)
    /\ EndCompact
    /\ UNCHANGED <<disk, handle, writer, reader, acked>>

CompactOpen ==
    /\ CompAt("open")
    /\ opened' = opened \cup {comp.table}
    /\ CompGoto("swap")
    /\ UNCHANGED <<disk, up, memtable, memBytes, sstables, lastSeq, walBroken,
                   writer, reader, acked, counters>>

\* Under db.mu, when the inputs still start the list.
CompactSwap ==
    /\ MuFree /\ CompAt("swap")
    /\ IsPrefixOf(comp.inputs, sstables)
    /\ sstables' = SwapIn(comp.table, Len(comp.inputs), sstables)
    /\ lastSeq' = Max({lastSeq, comp.table.seq})
    /\ CompGoto("cleanup")
    /\ UNCHANGED <<disk, up, memtable, memBytes, walBroken, opened, writer, reader,
                   acked, counters>>

\* A Close was faster: the merged file is closed and removed again, if the
\* system lets it be removed.
CompactRaced ==
    /\ MuFree /\ CompAt("swap")
    /\ ~IsPrefixOf(comp.inputs, sstables)
    /\ opened' = opened \ {comp.table}
    /\ \/ /\ files' = files \ {comp.table}
          /\ unlinked' = unlinked \cup {comp.table}
          /\ UNCHANGED counters
       \/ /\ Fails(FALSE)
          /\ UNCHANGED <<files, unlinked>>
    /\ EndCompact
    /\ UNCHANGED <<log, unsynced, tmps, up, memtable, memBytes, sstables, lastSeq,
                   walBroken, writer, reader, acked>>

\* The next input is closed once no reader holds it, and its file removed, if
\* the system lets it be removed.
CompactCleanup ==
    LET t == Head(comp.inputs)
        rest == Tail(comp.inputs)
    IN  /\ CompAt("cleanup")
        /\ ~Held(t)
        /\ opened' = opened \ {t}
        /\ \/ /\ files' = files \ {t}
              /\ unlinked' = unlinked \cup {t}
              /\ UNCHANGED counters
           \/ /\ Fails(FALSE)
              /\ UNCHANGED <<files, unlinked>>
        /\ IF rest = <<>> THEN EndCompact ELSE comp' = [comp EXCEPT !.inputs = rest]
        /\ UNCHANGED <<log, unsynced, tmps, up, memtable, memBytes, sstables, lastSeq,
                       walBroken, writer, reader, acked>>

Compact ==
    \/ CompactBegin \/ CompactAcquire \/ CompactMerge \/ CompactMergeFails
    \/ CompactWriteTmp \/ CompactWriteTmpFails \/ CompactRename \/ CompactRenameFails
    \/ CompactSyncDir \/ CompactOrphan \/ CompactOpen
    \/ CompactSwap \/ CompactRaced \/ CompactCleanup

----------------------------------------------------------------------------
(* Get.                                                                    *)

\* The first read lock: the memtable answers, for a tombstone too.
GetMemtable(r, k) ==
    /\ up = "open" /\ MuFree /\ reader[r].pc = "idle"
    /\ reader' = [reader EXCEPT ![r] =
          [IdleReader EXCEPT !.key = k, !.floor = Visible(k).id,
              !.pc = IF Present(memtable[k]) THEN "done" ELSE "tables",
              !.result = memtable[k]]]
    /\ UNCHANGED <<disk, handle, writer, comp, acked, counters>>

\* getFromSSTables, the second read lock: a reference on every table of now.
\* If the database was closed in the meantime the list is empty, and nothing
\* can be asked of the answer.
GetTables(r) ==
    /\ MuFree /\ reader[r].pc = "tables"
    /\ reader' = [reader EXCEPT ![r].pc = "read", ![r].tables = sstables,
                                ![r].floor = IF up = "open" THEN @ ELSE 0]
    /\ UNCHANGED <<disk, handle, writer, comp, acked, counters>>

\* The search of getFromSSTables, from the newest table to the oldest,
\* passing over those in skipped.
Search(r, skipped) ==
    LET tables == reader[r].tables
    IN  NewestAmong(tables, DOMAIN tables \ skipped, reader[r].key)

\* A table whose file has been closed gives an error, and an error is treated
\* as if the table did not have the key.  References are given back.
GetRead(r) ==
    LET tables == reader[r].tables
        closed == {i \in DOMAIN tables : tables[i] \notin opened}
    IN  /\ reader[r].pc = "read"
        /\ reader' = [reader EXCEPT ![r].pc = "done", ![r].tables = <<>>,
                                    ![r].result = Search(r, closed)]
        /\ UNCHANGED <<disk, handle, writer, comp, acked, counters>>

\* The same, when reading one of the tables fails.
GetReadFails(r) ==
    /\ reader[r].pc = "read"
    /\ readFaults < MaxReadFaults
    /\ readFaults' = readFaults + 1
    /\ \E i \in DOMAIN reader[r].tables :
          reader' = [reader EXCEPT ![r].pc = "done", ![r].tables = <<>>,
                                   ![r].result = Search(r, {i})]
    /\ UNCHANGED <<disk, handle, writer, comp, acked, writes, compactions,
                   crashes, faults>>

GetReturn(r) ==
    /\ reader[r].pc = "done"
    /\ reader' = [reader EXCEPT ![r] = IdleReader]
    /\ UNCHANGED <<disk, handle, writer, comp, acked, counters>>

Get(r) ==
    \/ \E k \in Key : GetMemtable(r, k)
    \/ GetTables(r) \/ GetRead(r) \/ GetReadFails(r) \/ GetReturn(r)

----------------------------------------------------------------------------
(* Open and Close, and the two ways to lose the handle without Close.      *)

LoadSSTables_LeavesTmps ==
    /\ sstables' \in LoadOrders(files)
    /\ opened' = files
    /\ lastSeq' = Max({0} \cup {t.seq : t \in files})
    /\ UNCHANGED <<files, unsynced, unlinked, tmps>>

\* loadSSTables: .tmp files are removed, the tables are opened and sorted.
LoadSSTables ==
    /\ tmps' = {}
    /\ sstables' \in LoadOrders(files)
    /\ opened' = files
    /\ lastSeq' = Max({0} \cup {t.seq : t \in files})
    /\ UNCHANGED <<files, unsynced, unlinked>>

ReplayWAL_LeavesTornTail ==
    /\ memtable' = Replay(wal)
    /\ UNCHANGED log

\* replayWAL: the complete records become the memtable, and an incomplete
\* tail is cut off, which syncs the file.
ReplayWAL ==
    /\ memtable' = Replay(wal)
    /\ torn' = FALSE
    /\ walDisk' = IF torn THEN wal ELSE walDisk
    /\ UNCHANGED wal

Open ==
    /\ up = "down"
    /\ up' = "open"
    /\ LoadSSTables
    /\ ReplayWAL
    /\ memBytes' = MemSize(Replay(wal))
    /\ UNCHANGED <<walBroken, writer, comp, reader, acked, counters>>

\* Close takes db.mu.  Its Flush has nothing to write: every append has
\* flushed the buffer, or left it refusing to.
CloseBegin ==
    /\ up = "open" /\ MuFree
    /\ up' = "closing"
    /\ UNCHANGED <<disk, memtable, memBytes, sstables, lastSeq, walBroken, opened,
                   writer, comp, reader, acked, counters>>

CloseTables_WaitsForCalls ==
    /\ up = "closing"
    /\ \A r \in Reader : reader[r].pc = "idle"
    /\ up' = "closed"
    /\ opened' = opened \ Range(sstables)
    /\ sstables' = <<>>
    /\ UNCHANGED <<disk, memtable, memBytes, lastSeq, walBroken, writer, comp, reader,
                   acked, counters>>

\* Once nobody holds a table of the list, its files are closed.
CloseTables ==
    /\ up = "closing"
    /\ \A t \in Range(sstables) : ~Held(t)
    /\ up' = "closed"
    /\ opened' = opened \ Range(sstables)
    /\ sstables' = <<>>
    /\ UNCHANGED <<disk, memtable, memBytes, lastSeq, walBroken, writer, comp, reader,
                   acked, counters>>

LoseHandle ==
    /\ up' = "down"
    /\ memtable' = Empty /\ memBytes' = 0 /\ sstables' = <<>> /\ lastSeq' = 0
    /\ walBroken' = FALSE /\ opened' = {}
    /\ writer' = IdleWriter /\ comp' = IdleComp
    /\ reader' = [r \in Reader |-> IdleReader]
    /\ UNCHANGED acked

\* The process ends after Close; a Compact or a Get it still runs ends too.
Exit ==
    /\ up = "closed"
    /\ LoseHandle
    /\ UNCHANGED <<disk, counters>>

\* A record is on its way into the file.
Appending == writer.pc = "append" /\ ~walBroken

\* The process is killed: the system keeps what it was given, part of the
\* record being written included.
Kill ==
    /\ up \in {"open", "closing"}
    /\ crashes < MaxCrashes
    /\ crashes' = crashes + 1
    /\ torn' \in (IF Appending THEN BOOLEAN ELSE {torn})
    /\ LoseHandle
    /\ UNCHANGED <<wal, walDisk, dir, writes, compactions, faults, readFaults>>

\* What wal.bin can hold after a power failure: at least what was fsynced,
\* and any number of the records appended since.  While a truncation has not
\* been fsynced the file is either still what it was or truncated.
WALImages ==
    LET cut(n) == SubSeq(wal, 1, n)
    IN  IF IsPrefixOf(walDisk, wal)
        THEN {cut(n) : n \in Len(walDisk) .. Len(wal)}
        ELSE {walDisk} \cup {cut(n) : n \in 0 .. Len(wal)}

\* What the directory can hold: renames that were not fsynced may be undone,
\* and files whose removal was not fsynced may be back.
DirImages ==
    {S \in {(files \ lost) \cup back : lost \in SUBSET unsynced, back \in SUBSET unlinked} :
        Cardinality(Names(S)) = Cardinality(S)}

PowerLoss ==
    /\ crashes < MaxCrashes
    /\ crashes' = crashes + 1
    /\ wal' \in WALImages
    /\ walDisk' = wal'
    /\ torn' \in (IF Appending \/ torn \/ wal # walDisk THEN BOOLEAN ELSE {FALSE})
    /\ files' \in DirImages
    /\ tmps' = tmps \cup Names(files \ files')
    /\ unsynced' = {} /\ unlinked' = {}
    /\ LoseHandle
    /\ UNCHANGED <<writes, compactions, faults, readFaults>>

Next ==
    \/ Write
    \/ Compact
    \/ \E r \in Reader : Get(r)
    \/ Open \/ CloseBegin \/ CloseTables \/ Exit \/ Kill \/ PowerLoss

Spec == Init /\ [][Next]_vars

\* Every goroutine that can run does, and a mutex or reference that becomes
\* available again and again is obtained in the end: a sync.RWMutex admits no
\* new readers once a writer waits, and hands over to a waiter that starves.
\* Nobody is obliged to call anything, and nothing has to fail.
Fairness ==
    /\ WF_vars(\/ AppendWAL \/ (AppendWALFails /\ walBroken) \/ ApplyWrite
               \/ FlushWriteTmp \/ (FlushWriteTmpFails /\ faults' = faults)
               \/ FlushRename \/ FlushSyncDir \/ FlushInstall
               \/ TruncateWAL \/ SyncReset)
    /\ SF_vars(CompactAcquire) /\ SF_vars(CompactSwap) /\ SF_vars(CompactRaced)
    /\ WF_vars(CompactMerge) /\ WF_vars(CompactWriteTmp)
    /\ WF_vars(CompactWriteTmpFails /\ faults' = faults)
    /\ WF_vars(CompactRename) /\ WF_vars(CompactSyncDir) /\ WF_vars(CompactOpen)
    /\ SF_vars(CompactCleanup)
    /\ \A r \in Reader : SF_vars(GetTables(r)) /\ WF_vars(GetRead(r) \/ GetReturn(r))
    /\ WF_vars(CloseTables)

FairSpec == Spec /\ Fairness

----------------------------------------------------------------------------
(* Properties                                                              *)

WriterPCs == {"idle", "append", "sync", "flush", "rename", "syncdir", "install",
              "truncate", "resetsync"}

CompPCs == {"idle", "acquire", "merge", "create", "rename", "syncdir", "open", "swap",
            "cleanup"}

ReaderPCs == {"idle", "tables", "read", "done"}

DiskTypeOK ==
    /\ wal \in Seq(Record) /\ walDisk \in Seq(Record) /\ torn \in BOOLEAN
    /\ files \in SUBSET Table /\ unsynced \in SUBSET files /\ unlinked \in SUBSET Table
    /\ tmps \in SUBSET (Nat \X BOOLEAN)

HandleTypeOK ==
    /\ up \in {"down", "open", "closing", "closed"}
    /\ memtable \in Contents /\ memBytes \in Int /\ sstables \in Seq(Table)
    /\ lastSeq \in Nat /\ walBroken \in BOOLEAN /\ opened \in SUBSET Table

WriterType == [pc : WriterPCs, key : Key \cup {NoKey}, entry : Entry, table : Table]

CompType == [pc : CompPCs, inputs : Seq(Table), table : Table]

ReaderType == [pc : ReaderPCs, key : Key \cup {NoKey}, tables : Seq(Table), floor : Nat,
               result : Entry]

CallTypeOK ==
    /\ writer \in WriterType /\ comp \in CompType /\ reader \in [Reader -> ReaderType]
    /\ writer.pc # "idle" => writer.key \in Key
    /\ \A r \in Reader : reader[r].pc # "idle" => reader[r].key \in Key

HistoryTypeOK ==
    /\ acked \in [Key -> Nat]
    /\ writes \in Nat /\ compactions \in Nat /\ crashes \in Nat
    /\ faults \in Nat /\ readFaults \in Nat

\* The type of every variable; no file that was removed is still waiting for
\* its rename to be fsynced.
TypeOK == DiskTypeOK /\ HandleTypeOK /\ CallTypeOK /\ HistoryTypeOK

\* Get answers with the last acknowledged write of its key, or a newer one.
NoLostWrite == up = "open" => \A k \in Key : Visible(k).id >= acked[k]

\* What a directory holding S and a log holding image open to.
Loaded(S, image, k) ==
    LET hits == {t \in S : Present(t.recs[k])}
    IN  IF Present(Replay(image)[k]) THEN Replay(image)[k]
        ELSE IF hits = {} THEN NoEntry
        ELSE (CHOOSE t \in hits : \A u \in hits \ {t} : Older(u, t)).recs[k]

\* At every moment, also in the middle of a flush or a compaction, and
\* whichever of the unsynced changes a power failure undoes, the next Open
\* finds every acknowledged write, not shadowed by an older version.
AckedSurvives ==
    \A S \in DirImages, image \in WALImages, k \in Key :
        Loaded(S, image, k).id >= acked[k]

\* The table list in memory and the files agree: opening the files as they
\* are now would show nothing older than what Get shows now.  This is where
\* the order of names given by flush and compaction has to be right.
ReloadLosesNothing ==
    up = "open" => \A k \in Key : Loaded(files, wal, k).id >= Visible(k).id

\* A .tmp file found while the engine is open is one being written now:
\* those of a crash are gone.
NoStrayTmp ==
    up = "open" => tmps \subseteq
        ({Name(writer.table) : x \in {writer.pc} \cap {"rename"}} \cup
         {Name(comp.table) : x \in {comp.pc} \cap {"rename"}})

\* A running engine removes a table only when other files, durably in the
\* directory, hold versions of its keys at least as new.
RemovedIsCovered ==
    [][up' # "down" =>
        \A t \in files \ files', k \in Key :
            Present(t.recs[k]) =>
                \E u \in files' \ unsynced' : u.recs[k].id >= t.recs[k].id]_vars

\* The reference counts do their work: no file is closed while a search or a
\* merge is using it, and the tables of the list are open.
HeldTablesOpen ==
    /\ \A r \in Reader : reader[r].pc = "read" => Range(reader[r].tables) \subseteq opened
    /\ comp.pc = "merge" => Range(comp.inputs) \subseteq opened
    /\ up = "open" => Range(sstables) \subseteq opened

\* Get returns nothing older than what was visible when it was called, though
\* it takes its lock twice and searches without it, while flushes, compactions
\* and deletions of files go on.
GetIsFresh ==
    \A r \in Reader : reader[r].pc = "done" => reader[r].result.id >= reader[r].floor

\* The running total that triggers flushes is the size of the memtable.
MemBytesExact == up = "open" => memBytes = MemSize(memtable)

\* While the engine is open its contents change only by Set and Delete:
\* flush and compaction are invisible; a restart restores at least what was
\* acknowledged.
Abstract == INSTANCE KVStore WITH
    Missing <- NoEntry,
    open <- (up = "open"),
    store <- [k \in Key |-> IF up = "open" THEN Visible(k) ELSE NoEntry]

Implements == Abstract!Spec

\* Calls return: none waits for ever for a lock, for a reference to be given
\* back, or for another call that waits for it.
WriteReturns == writer.pc # "idle" ~> writer.pc = "idle"

CompactReturns == comp.pc # "idle" ~> comp.pc = "idle"

GetReturns == \A r \in Reader : reader[r].pc # "idle" ~> reader[r].pc = "idle"

CloseReturns == up = "closing" ~> up # "closing"

\* docs/engine.md says that a key in two tables resolves to the newer one: a
\* Get that finds the key at all does not answer with an older version.
NewerTableAnswers ==
    \A r \in Reader : reader[r].pc = "done" /\ Present(reader[r].result) =>
        reader[r].result.id >= reader[r].floor

\* docs/engine.md says of a clean shutdown that the WAL is flushed and
\* fsynced: every record in it survives a power failure.
CleanCloseIsDurable == up = "closed" => walDisk = wal
=============================================================================
