----------------------------- MODULE EngineInv -----------------------------
(***************************************************************************)
(* Why the engine is correct: three inductive invariants, as named parts.  *)
(* ListInv is about the table list, the open files and the directory,      *)
(* DataInv about what the log, the memtable and the tables hold of a key,  *)
(* ReaderFresh about a Get between its steps.  TLC checks the first two on *)
(* a small instance; EngineProofs, DurabilityProofs and ContentsProofs     *)
(* prove the three for all.                                                *)
(***************************************************************************)
EXTENDS Engine

\* The directory is finite.
FiniteDisk == IsFiniteSet(files) /\ IsFiniteSet(unlinked)

\* Only an open handle has a write in progress, and none has anything when
\* the process is down.
Modes ==
    /\ writer.pc # "idle" => up = "open"
    /\ up = "closed" => sstables = <<>>
    /\ up = "down" => /\ sstables = <<>> /\ opened = {}
                      /\ comp.pc = "idle"
                      /\ \A r \in Reader : reader[r].pc = "idle"

\* The list is in the order in which loadSSTables would put it, and every
\* number in it has been given out.
ListOrder ==
    /\ Ascending(sstables)
    /\ \A i \in DOMAIN sstables : sstables[i].seq <= lastSeq

Flushing == writer.pc \in {"rename", "syncdir", "install"}

\* A table being flushed sorts after the list it will be appended to, and is
\* not one that a compaction is deleting.
FlushFresh ==
    Flushing =>
        /\ ~writer.table.compacted
        /\ writer.table.seq <= lastSeq
        /\ \A i \in DOMAIN sstables : sstables[i].seq < writer.table.seq
        /\ comp.pc = "cleanup" => \A t \in Range(comp.inputs) : t.seq < writer.table.seq
        /\ writer.pc # "rename" => writer.table \in files

Merging == comp.pc \in {"acquire", "merge", "create", "rename", "syncdir", "open", "swap"}

LastInput == comp.inputs[Len(comp.inputs)]

\* Until the swap, the inputs of a compaction start the list unless Close has
\* emptied it, and everything behind them was flushed later.
InputsLive ==
    Merging =>
        /\ comp.inputs # <<>>
        /\ up # "closed" =>
              /\ IsPrefixOf(comp.inputs, sstables)
              /\ \A i \in DOMAIN sstables :
                    i > Len(comp.inputs) =>
                        ~sstables[i].compacted /\ sstables[i].seq > LastInput.seq

Merged == comp.pc \in {"create", "rename", "syncdir", "open", "swap"}

\* The merged table has the number after its newest input; between its rename
\* and its opening it is a file nobody has open, and until the swap no search
\* has it.
MergedNext ==
    /\ Merged => comp.table.compacted /\ comp.table.seq = LastInput.seq + 1
    /\ comp.pc \in {"rename", "syncdir", "open"} => comp.table \notin opened
    /\ comp.pc \in {"syncdir", "open"} => comp.table \in files
    /\ comp.pc = "swap" =>
          /\ comp.table \in opened
          /\ \A r \in Reader :
                reader[r].pc = "read" => comp.table \notin Range(reader[r].tables)

\* After the swap, the inputs that are left are in the list no more.
CleanupApart ==
    comp.pc = "cleanup" =>
        /\ comp.inputs # <<>>
        /\ Range(comp.inputs) \cap Range(sstables) = {}
        /\ \A t \in Range(comp.inputs) : t.seq <= lastSeq

\* What may be removed from the directory has been fsynced in it.
InputsDurable ==
    /\ comp.pc \in {"open", "swap"} => comp.table \notin unsynced
    /\ comp.pc \in {"open", "swap", "cleanup"} => Range(comp.inputs) \cap unsynced = {}

\* Open files are files, and the list and everybody who holds tables have
\* them open.
FilesOpen ==
    /\ opened \subseteq files
    /\ Range(sstables) \subseteq opened
    /\ \A r \in Reader : reader[r].pc = "read" => Range(reader[r].tables) \subseteq opened
    /\ comp.pc = "merge" => Range(comp.inputs) \subseteq opened

\* The inductive invariant of the table list, the open files and the directory.
ListInv ==
    /\ TypeOK /\ FiniteDisk /\ Modes /\ ListOrder /\ FlushFresh /\ InputsLive
    /\ MergedNext /\ CleanupApart /\ InputsDurable /\ FilesOpen

----------------------------------------------------------------------------
(* Why nothing acknowledged is lost: what the log, the memtable and the    *)
(* tables hold of each key, and in what order a restart would read them.   *)

\* The tables the directory can show, now or after a power failure.
OnDisk == files \cup unlinked

Durable == files \ unsynced

\* The lock is held by one call at a time, so the last number given out is the
\* one of the write in progress; it reaches the log, then the memtable.
IdsGiven ==
    /\ writer.pc # "idle" => writer.entry.id = writes /\ writes > 0
    /\ \A s \in {wal, walDisk} : \A i \in DOMAIN s :
          /\ 0 < s[i].entry.id /\ s[i].entry.id <= writes
          /\ writer.pc = "append" => s[i].entry.id < writes
    /\ \A k \in Key :
          /\ acked[k] <= writes /\ memtable[k].id <= writes
          /\ writer.pc \in {"append", "sync"} => memtable[k].id < writes
          /\ \A t \in OnDisk :
                /\ t.recs[k].id <= writes
                /\ writer.pc \in {"append", "sync"} => t.recs[k].id < writes

\* Where a write in progress can be found.
WriteTrail ==
    /\ up = "open" /\ torn => walBroken
    /\ writer.pc = "sync" =>
          wal # <<>> /\ wal[Len(wal)] = [key |-> writer.key, entry |-> writer.entry]
    /\ writer.pc \in {"flush", "rename", "syncdir", "install", "truncate"} => walDisk = wal
    /\ writer.pc = "resetsync" => wal = <<>>
    /\ writer.pc \in {"flush", "rename", "syncdir", "install"} =>
          memtable[writer.key] = writer.entry
    /\ writer.pc \in {"truncate", "resetsync"} =>
          /\ memtable = Empty
          /\ Newest(sstables, writer.key) = writer.entry
          /\ \E u \in Durable : u.recs[writer.key].id >= writer.entry.id

\* What a flush and a merge write, and where the flushed table is.
TableContents ==
    /\ Flushing => writer.table.recs = memtable
    /\ writer.pc = "rename" => \A t \in OnDisk : Older(t, writer.table)
    /\ writer.pc = "install" => writer.table \in Durable
    /\ Merged => comp.table.recs = Merge(comp.inputs)
    /\ comp.pc = "rename" => Name(comp.table) \notin Names(files)

\* The numbers in use; those that come back with a removed file too.
NumbersGiven ==
    /\ up # "down" => \A t \in OnDisk : t.seq <= lastSeq + (IF t.compacted THEN 1 ELSE 0)
    /\ Merging => \A t \in Range(comp.inputs) : t.seq <= lastSeq
    /\ \A t \in unlinked : \E u \in files : t.seq <= u.seq + (IF t.compacted THEN 1 ELSE 0)

\* The inputs of a compaction are files until it removes them, one by one.
InputsOnDisk ==
    comp.pc # "idle" => Ascending(comp.inputs) /\ Range(comp.inputs) \subseteq files

UniqueNames == \A t, u \in files : Name(t) = Name(u) => t = u

\* Of two tables the one with the newer name has the newer version of a key.
VersionsOrdered ==
    \A t, u \in OnDisk, k \in Key :
        Older(t, u) /\ Present(u.recs[k]) => t.recs[k].id <= u.recs[k].id

\* No file holds a version newer than the one Get shows.
ShownIsNewest ==
    up = "open" => \A t \in OnDisk, k \in Key : t.recs[k].id <= Visible(k).id

\* The list shows everything that is in files not newer than its end, and so
\* do the inputs of a compaction.  (A list that is one merged table may stand
\* beside an abandoned flush of the same number, which is newer.)
ListCovers ==
    LET end == sstables[Len(sstables)]
    IN  sstables # <<>> =>
        \A t \in OnDisk, k \in Key :
            t.seq <= end.seq /\ (Len(sstables) > 1 \/ ~Older(end, t)) =>
                t.recs[k].id <= Newest(sstables, k).id

InputsCover ==
    Merging =>
        \A t \in OnDisk, k \in Key :
            t.seq <= LastInput.seq => t.recs[k].id <= Merge(comp.inputs)[k].id

\* What is removed is held by a file that stays.
RemovalsCovered ==
    /\ comp.pc \in {"open", "swap"} => unlinked = {}
    /\ comp.pc = "cleanup" =>
          /\ comp.table \in Durable
          /\ \A t \in Range(comp.inputs) :
                /\ t.seq < comp.table.seq
                /\ \A k \in Key : t.recs[k].id <= comp.table.recs[k].id
    /\ \A t \in unlinked, k \in Key : \E u \in files : t.recs[k].id <= u.recs[k].id

\* Whatever is left of the log, a version in it is the newest of its key: it
\* may be applied over all tables.
LogIsNewest ==
    /\ up = "open" => \A k \in Key : memtable[k].id <= Replay(wal)[k].id
    /\ \A image \in WALImages, k \in Key :
          Present(Replay(image)[k]) =>
              /\ acked[k] <= Replay(image)[k].id
              /\ \A t \in OnDisk : t.recs[k].id <= Replay(image)[k].id

\* An acknowledged write is in a durable file or in every image of the log.
AckedIsHeld ==
    \A k \in Key :
        \/ acked[k] = 0
        \/ \E u \in Durable : acked[k] <= u.recs[k].id
        \/ /\ up = "open" => acked[k] <= memtable[k].id
           /\ \A image \in WALImages : Present(Replay(image)[k])

\* The inductive invariant of the contents; ListInv is used to show it.
DataInv ==
    /\ IdsGiven /\ WriteTrail /\ TableContents /\ NumbersGiven /\ InputsOnDisk
    /\ UniqueNames /\ VersionsOrdered /\ ShownIsNewest /\ ListCovers /\ InputsCover
    /\ RemovalsCovered /\ LogIsNewest /\ AckedIsHeld /\ NoLostWrite

\* The table list, the directory and what they hold of every key agree, in
\* every state of the engine: what its safety rests on.
EngineInvariant == ListInv /\ DataInv

\* What a Get goes by between its two locks and after them is not older than
\* what was visible when it was called, unless reading a table has failed.
ReaderFresh ==
    \A r \in Reader :
        LET g == reader[r]
        IN  /\ g.pc = "tables" /\ up = "open" => g.floor <= Newest(sstables, g.key).id
            /\ g.pc = "read" => g.floor <= Newest(g.tables, g.key).id
            /\ g.pc = "done" /\ readFaults = 0 => g.floor <= g.result.id
=============================================================================
