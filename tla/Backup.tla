------------------------------- MODULE Backup -------------------------------
(***************************************************************************)
(* internal/engine/db.go, Snapshot and ListSnapshots: the copy of a data   *)
(* directory that is made under db.mu while the engine of module Engine    *)
(* runs.  Steps of Engine that do not need db.mu go on meanwhile: searches *)
(* that hold their tables, and most of a compaction, which writes and      *)
(* removes files of the directory that is being copied.                    *)
(***************************************************************************)
EXTENDS Engine

CONSTANTS
    MaxSnapshots,   \* bound: calls of Snapshot
    CalledClosed    \* whether Snapshot may be called on a closed handle

ASSUME BackupAssumption == MaxSnapshots \in Nat /\ CalledClosed \in BOOLEAN

VARIABLES
    snap,           \* the Snapshot in progress: pc, directory and tables to copy
    backups,        \* the directories in snapshots/
    snapshots,      \* number of Snapshot calls
    cut             \* history: directories a crash left as they were

allVars == <<vars, snap, backups, snapshots, cut>>

IdleSnap == [pc |-> "idle", name |-> 0, todo |-> <<>>]

BackupInit == Init /\ snap = IdleSnap /\ backups = {} /\ snapshots = 0 /\ cut = {}

----------------------------------------------------------------------------
(* Definitions named X_Y are variants of X with the mistake Y, which the   *)
(* properties are there to notice; no other definition uses them.          *)

\* A new directory, with what the database shows and has been told so far.
NewBackup(n) ==
    [name |-> n, log |-> <<>>, tables |-> {},
     shown |-> [k \in Key |-> IF up = "open" THEN Visible(k).id ELSE Loaded(files, wal, k).id],
     asOf |-> writes]

Replaced(b, c) == (backups \ {b}) \cup {c}

Current(b) == b \in backups /\ b.name = snap.name

\* Flush and Sync of the WAL, then Mkdir.  On a closed handle there is no
\* WAL to flush, and nobody notices.
SnapshotBegin ==
    /\ MuFree /\ snap.pc = "idle" /\ snapshots < MaxSnapshots
    /\ (up = "open" /\ ~walBroken) \/ (up = "closed" /\ CalledClosed)
    /\ IF up = "open" THEN SyncWAL ELSE UNCHANGED walDisk
    /\ snapshots' = snapshots + 1
    /\ backups' = backups \cup {NewBackup(snapshots + 1)}
    /\ snap' = [pc |-> "wal", name |-> snapshots + 1, todo |-> <<>>]
    /\ UNCHANGED <<wal, torn, dir, handle, writer, comp, reader, acked, counters, cut>>

\* copyFile of wal.bin.
CopyWAL ==
    /\ snap.pc = "wal"
    /\ \E b \in backups : Current(b) /\ backups' = Replaced(b, [b EXCEPT !.log = wal])
    /\ snap' = [snap EXCEPT !.pc = "tables", !.todo = sstables]
    /\ UNCHANGED <<vars, snapshots, cut>>

\* copyFile of the next table of the list.
CopyTable ==
    /\ snap.pc = "tables" /\ snap.todo # <<>>
    /\ Head(snap.todo) \in files
    /\ \E b \in backups :
          Current(b) /\ backups' = Replaced(b, [b EXCEPT !.tables = @ \cup {Head(snap.todo)}])
    /\ snap' = [snap EXCEPT !.todo = Tail(@)]
    /\ UNCHANGED <<vars, snapshots, cut>>

SnapshotReturn ==
    /\ snap.pc = "tables" /\ snap.todo = <<>>
    /\ snap' = IdleSnap
    /\ UNCHANGED <<vars, backups, snapshots, cut>>

Missing == snap.pc = "tables" /\ snap.todo # <<>> /\ Head(snap.todo) \notin files

CopyFails_KeepsDirectory ==
    /\ snap.pc # "idle" /\ Fails(Missing)
    /\ snap' = IdleSnap
    /\ UNCHANGED <<disk, handle, writer, comp, reader, acked, backups, snapshots, cut>>

\* A copy fails: the deferred RemoveAll takes the directory away.
CopyFails ==
    /\ snap.pc # "idle" /\ Fails(Missing)
    /\ backups' = {b \in backups : ~Current(b)}
    /\ snap' = IdleSnap
    /\ UNCHANGED <<disk, handle, writer, comp, reader, acked, snapshots, cut>>

Snapshot == SnapshotBegin \/ CopyWAL \/ CopyTable \/ SnapshotReturn \/ CopyFails

----------------------------------------------------------------------------
(* The engine meanwhile.                                                   *)

\* What runs while Snapshot holds db.mu.
WithoutMu ==
    \/ CompactMerge \/ CompactMergeFails \/ CompactWriteTmp \/ CompactWriteTmpFails
    \/ CompactRename \/ CompactRenameFails \/ CompactSyncDir \/ CompactOrphan \/ CompactOpen
    \/ CompactCleanup
    \/ \E r \in Reader : GetRead(r) \/ GetReadFails(r) \/ GetReturn(r)

WithMu ==
    \/ Write \/ Compact \/ \E r \in Reader : Get(r)
    \/ Open \/ CloseBegin \/ CloseTables \/ Exit

EngineStep ==
    /\ IF snap.pc = "idle" THEN WithMu ELSE WithoutMu
    /\ UNCHANGED <<snap, backups, snapshots, cut>>

\* The process is killed: a copy stays as far as it got.
CutShort ==
    /\ Kill
    /\ snap' = IdleSnap
    /\ cut' = cut \cup ({snap.name} \ {0})
    /\ UNCHANGED <<backups, snapshots>>

\* copyFile fsyncs the copies, nobody the directories they are in: any of
\* the copies may be gone.
PowerCutsShort ==
    /\ PowerLoss
    /\ snap' = IdleSnap
    /\ \E lost \in SUBSET backups :
          /\ backups' = (backups \ lost) \cup {[b EXCEPT !.tables = {}] : b \in lost}
          /\ cut' = cut \cup ({snap.name} \ {0}) \cup {b.name : b \in lost}
    /\ UNCHANGED snapshots

BackupNext == Snapshot \/ EngineStep \/ CutShort \/ PowerCutsShort

BackupSpec == BackupInit /\ [][BackupNext]_allVars

----------------------------------------------------------------------------
(* Properties.                                                             *)

\* What opening the copy shows is what the database showed when Snapshot took
\* its lock, and nothing written later.
Whole(b) == \A k \in Key : Loaded(b.tables, b.log, k).id \in b.shown[k] .. b.asOf

Finished(b) == ~(snap.pc # "idle" /\ Current(b))

\* A directory that ListSnapshots shows, once its Snapshot has returned, is a
\* consistent copy, unless a crash came in between; it does not matter what
\* a compaction did to the directory meanwhile, nor which copies failed.
ListedIsConsistent == \A b \in backups : Finished(b) /\ b.name \notin cut => Whole(b)

\* No compaction takes a table away before it was copied: Snapshot fails only
\* when the system fails it (Compact removes its inputs after the swap, which
\* needs db.mu).
NothingGoesMissing == snap.pc = "tables" => Range(snap.todo) \subseteq files

\* Both: what Snapshot reads is there, and what it leaves is a whole copy.
SnapshotsAreSound == NothingGoesMissing /\ ListedIsConsistent

----------------------------------------------------------------------------
(* What a document or a comment says and the code does not do: TLC refutes *)
(* each of these statements.                                               *)

\* The comment of Snapshot: a half-copied snapshot would still be listed and
\* look like a usable backup, so it is removed.
HalfCopiesAreRemoved == \A b \in backups : Finished(b) => Whole(b)
=============================================================================
