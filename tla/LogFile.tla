------------------------------ MODULE LogFile ------------------------------
(***************************************************************************)
(* internal/engine/db.go: the bytes of wal.bin, which appendWAL writes and *)
(* replayWAL reads after a crash.  Module Engine has of them only the      *)
(* records and whether the last one is incomplete; this is why it may.     *)
(*                                                                         *)
(* A record is a header, with its length and checksum, and a body; both    *)
(* are cells, and the checksum is what was written itself, so that no      *)
(* other body has it.  A cell that never reached the disk reads as zero.   *)
(***************************************************************************)
EXTENDS Naturals, Sequences, FiniteSets, SequencesExt

CONSTANTS
    MaxBody,        \* bound: length of a record's body
    MaxRecords,     \* bound: appends
    MaxCrashes      \* bound: kills and power failures

LogFileAssumption == MaxBody \in Nat \ {0} /\ MaxRecords \in Nat /\ MaxCrashes \in Nat

VARIABLES
    file,           \* what the system would read from wal.bin
    durable,        \* the cells in it that were fsynced
    handle,         \* "down", "open", "writing" (a record), "broken"
    position,       \* cells before the file offset of the handle
    memtable,       \* ids of the records that were applied
    acked,          \* history: records whose append returned nil
    inflight,       \* the record being appended; 0 is none
    records, crashes

vars == <<file, durable, handle, position, memtable, acked, inflight, records, crashes>>

Zero == [is |-> "zero"]

Cells(id, n) ==
    <<[is |-> "head", id |-> id, len |-> n]>> \o [i \in 1 .. n |-> [is |-> "body", id |-> id]]

Init ==
    /\ file = <<>> /\ durable = <<>>
    /\ handle = "down" /\ position = 0
    /\ memtable = <<>> /\ acked = <<>> /\ inflight = 0
    /\ records = 0 /\ crashes = 0

----------------------------------------------------------------------------
(* Definitions named X_Y are variants of X with the mistake Y, which the   *)
(* properties are there to notice; no other definition uses them.          *)

\* A complete record starts at this cell: its header is not zero, its body
\* is there, and the checksum is right.
Whole(f, at) ==
    /\ f[at].is = "head" /\ at + f[at].len <= Len(f)
    /\ \A i \in 1 .. f[at].len : f[at + i] = [is |-> "body", id |-> f[at].id]

\* The loop of replayWAL: the records from a cell on, up to the first that is
\* not whole, and the offset behind the last good one.
Replay(f) ==
    LET from[at \in 1 .. Len(f) + 1] ==
            IF at > Len(f) THEN [ids |-> <<>>, good |-> at - 1]
            ELSE IF ~Whole(f, at) THEN [ids |-> <<>>, good |-> at - 1]
            ELSE LET rest == from[at + f[at].len + 1]
                 IN  [rest EXCEPT !.ids = <<f[at].id>> \o @]
    IN  from[1]

DropTail_Kept(good) == file' = file /\ UNCHANGED durable /\ position' = Len(file)

\* A torn tail is truncated and the file fsynced; appends go on from there.
DropTail(good) ==
    /\ file' = SubSeq(file, 1, good)
    /\ durable' = IF good < Len(file) THEN file' ELSE durable
    /\ position' = good

Open ==
    /\ handle = "down" /\ handle' = "open"
    /\ memtable' = Replay(file).ids
    /\ DropTail(Replay(file).good)
    /\ UNCHANGED <<acked, inflight, records, crashes>>

\* appendWAL has given the record to the system.
appendWAL(n) ==
    /\ handle = "open" /\ records < MaxRecords
    /\ records' = records + 1 /\ inflight' = records + 1
    /\ file' = SubSeq(file, 1, position) \o Cells(records + 1, n)
    /\ handle' = "writing"
    /\ UNCHANGED <<durable, position, memtable, acked, crashes>>

\* It could not be written to the end: from now on the buffered writer
\* refuses every call.
appendWALFails(n) ==
    /\ handle = "open" /\ records < MaxRecords
    /\ records' = records + 1
    /\ \E m \in 0 .. n : file' = SubSeq(file, 1, position) \o SubSeq(Cells(records + 1, n), 1, m)
    /\ handle' = "broken"
    /\ UNCHANGED <<durable, position, memtable, acked, inflight, crashes>>

\* Sync, the memtable, and the return.
Sync ==
    /\ handle = "writing" /\ handle' = "open"
    /\ durable' = file /\ position' = Len(file)
    /\ memtable' = memtable \o <<inflight>> /\ acked' = acked \o <<inflight>>
    /\ inflight' = 0
    /\ UNCHANGED <<file, records, crashes>>

\* The record stays in the file, unknown to the memtable.
SyncFails ==
    /\ handle = "writing" /\ handle' = "open"
    /\ position' = Len(file) /\ inflight' = 0
    /\ UNCHANGED <<file, durable, memtable, acked, records, crashes>>

Down ==
    /\ handle # "down" /\ crashes < MaxCrashes
    /\ crashes' = crashes + 1
    /\ handle' = "down" /\ position' = 0 /\ memtable' = <<>> /\ inflight' = 0
    /\ UNCHANGED <<acked, records>>

\* A kill leaves a part of the record that was being written.
Kill ==
    /\ Down
    /\ IF handle = "writing"
       THEN \E m \in position .. Len(file) : file' = SubSeq(file, 1, m)
       ELSE UNCHANGED file
    /\ UNCHANGED durable

\* A power failure leaves what was fsynced; of what came after it, any length
\* and any of the cells.
PowerLoss ==
    /\ Down
    /\ \E m \in Len(durable) .. Len(file), kept \in SUBSET (Len(durable) + 1 .. Len(file)) :
          file' = [i \in 1 .. m |-> IF i <= Len(durable) \/ i \in kept THEN file[i] ELSE Zero]
    /\ durable' = file'

Next ==
    \/ Open \/ \E n \in 1 .. MaxBody : appendWAL(n) \/ appendWALFails(n)
    \/ Sync \/ SyncFails \/ Kill \/ PowerLoss

Spec == Init /\ [][Next]_vars

----------------------------------------------------------------------------
(* Properties.                                                             *)

\* Every record whose append succeeded is replayed, in order, after any
\* number of crashes, each of which may leave half a record or a file that
\* was extended with zeros; new records are never lost behind such a tail.
AckedAreReplayed ==
    handle # "down" =>
        \E at \in [DOMAIN acked -> DOMAIN memtable] :
            /\ \A i \in DOMAIN acked : memtable[at[i]] = acked[i]
            /\ \A i, j \in DOMAIN acked : i < j => at[i] < at[j]

\* A record with parts missing is never applied: what is replayed was
\* appended, and no record twice.
OnlyWholeRecords ==
    \A i, j \in DOMAIN memtable :
        /\ i < j => memtable[i] < memtable[j]
        /\ handle = "open" /\ memtable[i] \notin ToSet(acked) =>
            \E at \in DOMAIN file, n \in 1 .. MaxBody :
                /\ at + n <= Len(file)
                /\ SubSeq(file, at, at + n) = Cells(memtable[i], n)

\* Both: all that was promised is replayed, and nothing that is not whole.
ReplayIsExact == AckedAreReplayed /\ OnlyWholeRecords
=============================================================================
