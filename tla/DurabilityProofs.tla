-------------------------- MODULE DurabilityProofs --------------------------
(***************************************************************************)
(* Proofs about Engine: what was acknowledged is not lost.  The invariant  *)
(* DataInv of EngineInv is shown to be inductive part by part, on top of   *)
(* ListInv; the theorems about the contents follow from it.                *)
(***************************************************************************)
EXTENDS EngineProofs

----------------------------------------------------------------------------
(* What the steps do to the pieces the invariant speaks of.                *)

LEMMA StateTypes ==
    ASSUME ListInv
    PROVE  /\ wal \in Seq(Record) /\ walDisk \in Seq(Record)
           /\ OnDisk \subseteq Table /\ files \subseteq Table /\ Durable \subseteq files
           /\ files \subseteq OnDisk /\ unlinked \subseteq OnDisk
           /\ sstables \in Seq(Table) /\ lastSeq \in Nat /\ memtable \in Contents
           /\ comp \in CompType /\ comp.inputs \in Seq(Table) /\ comp.table \in Table
           /\ writer \in WriterType /\ writer.table \in Table /\ writer.entry \in Entry
           /\ writer.pc # "idle" => writer.key \in Key
           /\ acked \in [Key -> Nat] /\ writes \in Nat
           /\ Range(sstables) \subseteq files
           /\ writer.pc # "idle" => up = "open"
    BY DEF ListInv, TypeOK, DiskTypeOK, HandleTypeOK, CallTypeOK, HistoryTypeOK, OnDisk,
           Durable, CompType, WriterType, FilesOpen, Modes

\* The versions in the memtable, in tables and in what Get shows are versions.
LEMMA StateVersions ==
    ASSUME ListInv, NEW k \in Key
    PROVE  /\ memtable[k] \in Entry /\ memtable[k].id \in Nat
           /\ \A t \in OnDisk : t.recs[k] \in Entry /\ t.recs[k].id \in Nat
           /\ Newest(sstables, k) \in Entry /\ Newest(sstables, k).id \in Nat
           /\ Visible(k) \in Entry /\ Visible(k).id \in Nat
           /\ acked[k] \in Nat /\ writer.entry.id \in Nat
<1>1. /\ memtable[k] \in Entry /\ memtable[k].id \in Nat
      /\ \A t \in OnDisk : t.recs[k] \in Entry /\ t.recs[k].id \in Nat
      /\ Newest(sstables, k) \in Entry /\ Newest(sstables, k).id \in Nat
    BY StateTypes, VersionTypes
<1>2. acked[k] \in Nat /\ writer.entry.id \in Nat
    BY StateTypes DEF Entry
<1> QED
    BY <1>1, <1>2 DEF Visible

\* What a call of Set or Delete does next.
LEMMA WriterSteps ==
    ASSUME ListInv, [Next]_vars
    PROVE  \/ \E k \in Key, del \in BOOLEAN : BeginWrite(k, del)
           \/ writer' = IdleWriter /\ UNCHANGED writes
           \/ UNCHANGED <<writer, writes>>
           \/ /\ UNCHANGED writes /\ writer.pc # "idle" /\ writer'.pc \notin {"idle", "append"}
              /\ writer'.entry = writer.entry /\ writer'.key = writer.key
              /\ \/ AppendWAL /\ writer'.pc = "sync"
                 \/ ApplyWrite /\ writer'.pc = "flush"
                 \/ FlushWriteTmp /\ writer'.pc = "rename"
                 \/ FlushRename /\ writer'.pc = "syncdir" /\ writer'.table = writer.table
                 \/ FlushSyncDir /\ writer'.pc = "install" /\ writer'.table = writer.table
                 \/ FlushInstall /\ writer'.pc = "truncate"
                 \/ TruncateWAL /\ writer'.pc = "resetsync"
<1>t. writer \in WriterType
    BY StateTypes
<1>1. CASE AppendWAL \/ ApplyWrite \/ FlushWriteTmp
  <2>1. UNCHANGED writes /\ writer.pc # "idle"
      BY <1>1 DEF AppendWAL, ApplyWrite, FlushWriteTmp, WriterAt, counters
  <2>2. \/ writer' = IdleWriter
        \/ AppendWAL /\ writer' = [writer EXCEPT !.pc = "sync"]
        \/ ApplyWrite /\ writer' = [writer EXCEPT !.pc = "flush"]
        \/ FlushWriteTmp /\ \E t : writer' = [writer EXCEPT !.pc = "rename", !.table = t]
      BY <1>1 DEF AppendWAL, ApplyWrite, FlushWriteTmp, Return
  <2> QED
      BY <1>t, <2>1, <2>2 DEF WriterType
<1>2. CASE FlushRename \/ FlushSyncDir \/ FlushInstall \/ TruncateWAL
  <2>1. UNCHANGED writes /\ writer.pc # "idle"
      BY <1>2 DEF FlushRename, FlushSyncDir, FlushInstall, TruncateWAL, WriterAt, counters
  <2>2. \/ FlushRename /\ writer' = [writer EXCEPT !.pc = "syncdir"]
        \/ FlushSyncDir /\ writer' = [writer EXCEPT !.pc = "install"]
        \/ FlushInstall /\ writer' = [writer EXCEPT !.pc = "truncate", !.table = NoTable]
        \/ TruncateWAL /\ writer' = [writer EXCEPT !.pc = "resetsync"]
      BY <1>2 DEF FlushRename, FlushSyncDir, FlushInstall, TruncateWAL
  <2> QED
      BY <1>t, <2>1, <2>2 DEF WriterType
<1>3. CASE \/ AppendWALFails \/ SyncWALFails \/ FlushWriteTmpFails \/ FlushRenameFails
           \/ FlushOrphan \/ SyncReset \/ ResetWALFails
    BY <1>3 DEF AppendWALFails, SyncWALFails, FlushWriteTmpFails, FlushRenameFails,
                FlushOrphan, SyncReset, ResetWALFails, GiveUp, Return, Fails, counters
<1>4. CASE Compact
    BY <1>4 DEF Compact, CompactBegin, CompactAcquire, CompactMerge, CompactMergeFails,
           CompactWriteTmp, CompactWriteTmpFails, CompactRename, CompactRenameFails,
           CompactSyncDir, CompactOrphan, CompactOpen, CompactSwap, CompactRaced,
           CompactCleanup, Fails, counters
<1>5. CASE \E r \in Reader : Get(r)
    BY <1>5 DEF Get, GetMemtable, GetTables, GetRead, GetReadFails, GetReturn, counters
<1>6. CASE Open \/ CloseBegin \/ CloseTables
    BY <1>6 DEF Open, CloseBegin, CloseTables, counters
<1>7. CASE Exit \/ Kill \/ PowerLoss
    BY <1>7 DEF Exit, Kill, PowerLoss, LoseHandle, counters
<1>8. CASE UNCHANGED vars
    BY <1>8 DEF vars, counters
<1> QED
    BY <1>1, <1>2, <1>3, <1>4, <1>5, <1>6, <1>7, <1>8 DEF Next, Write

\* The directory shows a new table only after a rename.
LEMMA OnDiskStep ==
    ASSUME ListInv, InputsOnDisk, [Next]_vars, NEW t \in OnDisk'
    PROVE  t \in OnDisk \/ (FlushRename /\ t = writer.table)
           \/ (CompactRename /\ t = comp.table)
<1>1. CASE \/ AppendWAL \/ AppendWALFails \/ ApplyWrite \/ TruncateWAL \/ SyncReset
           \/ FlushWriteTmp \/ FlushRenameFails \/ CompactWriteTmp \/ CompactRenameFails
           \/ Kill \/ UNCHANGED disk
    BY <1>1 DEF AppendWAL, AppendWALFails, ApplyWrite, TruncateWAL, SyncReset,
           FlushWriteTmp, FlushRenameFails, CompactWriteTmp, CompactRenameFails, Kill, disk,
           dir, OnDisk
<1>2. CASE FlushRename \/ CompactRename
    BY <1>2 DEF FlushRename, CompactRename, OnDisk
<1>3. CASE FlushSyncDir \/ CompactSyncDir \/ Open
    BY <1>3 DEF FlushSyncDir, CompactSyncDir, SyncDir, Open, LoadSSTables, OnDisk
<1>4. CASE CompactRaced
  <2>1. comp.table \in files
      BY <1>4 DEF CompactRaced, CompAt, ListInv, MergedNext, FilesOpen
  <2> QED
      BY <1>4, <2>1 DEF CompactRaced, counters, OnDisk
<1>5. CASE CompactCleanup
  <2>1. Head(comp.inputs) \in files
      BY <1>5, CleanupFacts DEF CompactCleanup, CompAt, InputsOnDisk
  <2> QED
      BY <1>5, <2>1 DEF CompactCleanup, counters, OnDisk
<1>6. CASE PowerLoss
    BY <1>6 DEF PowerLoss, DirImages, OnDisk
<1> QED
    BY <1>1, <1>2, <1>3, <1>4, <1>5, <1>6, DiskFrame

LEMMA FilesGrow ==
    [Next]_vars => CompactRaced \/ CompactCleanup \/ PowerLoss \/ files \subseteq files'
<1>1. CASE \/ AppendWAL \/ AppendWALFails \/ ApplyWrite \/ TruncateWAL \/ SyncReset
           \/ FlushWriteTmp \/ FlushRename \/ FlushRenameFails \/ FlushSyncDir
           \/ CompactWriteTmp \/ CompactRename \/ CompactRenameFails \/ CompactSyncDir
    BY <1>1 DEF AppendWAL, AppendWALFails, ApplyWrite, TruncateWAL, SyncReset,
           FlushWriteTmp, FlushRename, FlushRenameFails, FlushSyncDir, CompactWriteTmp,
           CompactRename, CompactRenameFails, CompactSyncDir, dir
<1>2. CASE Open \/ Kill \/ UNCHANGED disk
    BY <1>2 DEF Open, LoadSSTables, Kill, disk, dir
<1> QED
    BY <1>1, <1>2, DiskFrame

LEMMA LoseHandleEnds == LoseHandle => up' = "down" /\ comp'.pc = "idle" /\ writer'.pc = "idle"
    BY DEF LoseHandle, IdleComp, IdleWriter

LEMMA EndCompactEnds == EndCompact => comp'.pc = "idle"
    BY DEF EndCompact, IdleComp

\* What a Compact does next.
LEMMA CompSteps ==
    ASSUME ListInv, [Next]_vars
    PROVE  \/ CompactBegin \/ CompactSwap \/ CompactCleanup
           \/ comp'.pc = "idle"
           \/ UNCHANGED comp
           \/ /\ Merging /\ comp'.inputs = comp.inputs
              /\ \/ CompactAcquire /\ comp'.pc = "merge"
                 \/ CompactMerge /\ comp'.pc = "create" /\ comp'.table = Compacted(comp.inputs)
                 \/ CompactWriteTmp /\ comp'.pc = "rename" /\ comp'.table = comp.table
                 \/ CompactRename /\ comp'.pc = "syncdir" /\ comp'.table = comp.table
                 \/ CompactSyncDir /\ comp'.pc = "open" /\ comp'.table = comp.table
                 \/ CompactOpen /\ comp'.pc = "swap" /\ comp'.table = comp.table
<1>t. comp \in CompType
    BY StateTypes
<1>1. CASE \/ CompactAcquire \/ CompactMerge \/ CompactWriteTmp \/ CompactRename
           \/ CompactSyncDir \/ CompactOpen
  <2>1. Merging
      BY <1>1 DEF CompactAcquire, CompactMerge, CompactWriteTmp, CompactRename,
             CompactSyncDir, CompactOpen, CompAt, Merging
  <2>2. \/ comp' = IdleComp
        \/ CompactAcquire /\ comp' = [comp EXCEPT !.pc = "merge"]
        \/ CompactMerge /\ comp' = [comp EXCEPT !.pc = "create",
                                                !.table = Compacted(comp.inputs)]
        \/ CompactWriteTmp /\ comp' = [comp EXCEPT !.pc = "rename"]
        \/ CompactRename /\ comp' = [comp EXCEPT !.pc = "syncdir"]
        \/ CompactSyncDir /\ comp' = [comp EXCEPT !.pc = "open"]
        \/ CompactOpen /\ comp' = [comp EXCEPT !.pc = "swap"]
      BY <1>1 DEF CompactAcquire, CompactMerge, CompactWriteTmp, CompactRename,
             CompactSyncDir, CompactOpen, CompGoto, EndCompact
  <2>3. \A pc \in {"merge", "rename", "syncdir", "open", "swap"} : comp' = [comp EXCEPT !.pc = pc] =>
            comp'.pc = pc /\ comp'.inputs = comp.inputs /\ comp'.table = comp.table
      BY <1>t DEF CompType
  <2>4. comp' = [comp EXCEPT !.pc = "create", !.table = Compacted(comp.inputs)] =>
            comp'.pc = "create" /\ comp'.inputs = comp.inputs
            /\ comp'.table = Compacted(comp.inputs)
      BY <1>t DEF CompType
  <2>5. comp' = IdleComp => comp'.pc = "idle"
      BY DEF IdleComp
  <2> QED
      BY <2>1, <2>2, <2>3, <2>4, <2>5
<1>2. CASE \/ CompactMergeFails \/ CompactWriteTmpFails \/ CompactRenameFails
           \/ CompactOrphan \/ CompactRaced
  <2>1. EndCompact
      BY <1>2 DEF CompactMergeFails, CompactWriteTmpFails, CompactRenameFails,
             CompactOrphan, CompactRaced
  <2> QED
      BY <2>1, EndCompactEnds
<1>3. CASE Write
    BY <1>3, WriteKeeps
<1>4. CASE \E r \in Reader : Get(r)
    BY <1>4, GetKeeps
<1>5. CASE Open \/ CloseBegin \/ CloseTables \/ UNCHANGED vars
    BY <1>5 DEF Open, CloseBegin, CloseTables, vars
<1>6. CASE Exit \/ Kill \/ PowerLoss
    BY <1>6, LoseHandleEnds DEF Exit, Kill, PowerLoss
<1> QED
    BY <1>1, <1>2, <1>3, <1>4, <1>5, <1>6 DEF Next, Compact

LEMMA PowerLossEnds == PowerLoss => comp'.pc = "idle" /\ writer'.pc = "idle" /\ up' = "down"
    BY LoseHandleEnds DEF PowerLoss

LEMMA InputsOnDiskStep ==
    ASSUME ListInv, InputsOnDisk, [Next]_vars
    PROVE  InputsOnDisk'
<1>1. CASE CompactBegin
  <2>1. comp'.inputs = sstables /\ UNCHANGED <<files, sstables>>
      BY <1>1 DEF CompactBegin, IdleComp, disk, dir, handle
  <2>2. Ascending(sstables) /\ Range(sstables) \subseteq files
      BY StateTypes DEF ListInv, ListOrder
  <2> QED
      BY <2>1, <2>2 DEF InputsOnDisk, Ascending, Older, Range
<1>2. CASE CompactCleanup
  <2> DEFINE list == comp.inputs
  <2>1. list \in Seq(Table) /\ list # <<>> /\ Ascending(list) /\ Range(list) \subseteq files
      BY <1>2, StateTypes DEF CompactCleanup, CompAt, ListInv, CleanupApart, InputsOnDisk
  <2>2. CASE Tail(list) = <<>>
      BY <1>2, <2>2 DEF CompactCleanup, EndCompact, IdleComp, InputsOnDisk
  <2>3. CASE Tail(list) # <<>>
    <3>1. comp'.inputs = Tail(list)
        BY <1>2, <2>3, StateTypes DEF CompactCleanup, CompType
    <3>2. /\ Len(list) \in Nat /\ DOMAIN list = 1 .. Len(list)
          /\ DOMAIN Tail(list) = 1 .. Len(list) - 1
          /\ \A i \in 1 .. Len(list) - 1 : i + 1 \in 1 .. Len(list) /\ Tail(list)[i] = list[i + 1]
        BY <2>1, HeadTailProperties
    <3>3. files \ {list[1]} \subseteq files'
        BY <1>2, <2>1, CleanupFacts
    <3>4. ASSUME NEW i \in 1 .. Len(list) - 1 PROVE Tail(list)[i] \in files'
      <4>1. 1 \in DOMAIN list /\ i + 1 \in DOMAIN list /\ 1 < i + 1
          BY <3>2
      <4>2. Older(list[1], list[i + 1]) /\ list[1] \in Table /\ list[i + 1] \in Table
          BY <2>1, <4>1 DEF Ascending
      <4>3. list[i + 1] # list[1] /\ list[i + 1] \in files
        <5>1. list[i + 1] \in Range(list)
            BY <4>1 DEF Range
        <5> QED
            BY <2>1, <4>2, <5>1, OlderIsOrder
      <4> QED
          BY <3>2, <3>3, <4>3
    <3>5. Range(Tail(list)) \subseteq files'
        BY <3>2, <3>4 DEF Range
    <3>6. Ascending(Tail(list))
      <4> SUFFICES ASSUME NEW i \in 1 .. Len(list) - 1, NEW j \in 1 .. Len(list) - 1, i < j
                   PROVE  Older(Tail(list)[i], Tail(list)[j])
          BY <3>2 DEF Ascending
      <4>1. i + 1 \in DOMAIN list /\ j + 1 \in DOMAIN list /\ i + 1 < j + 1
          BY <3>2
      <4> QED
          BY <2>1, <3>2, <4>1 DEF Ascending
    <3> QED
        BY <3>1, <3>5, <3>6 DEF InputsOnDisk, Ascending, Older
  <2> QED
      BY <2>2, <2>3
<1>3. ASSUME comp.pc # "idle", comp'.inputs = comp.inputs, ~CompactCleanup
      PROVE  InputsOnDisk'
  <2>1. CASE files \subseteq files'
      BY <1>3, <2>1 DEF InputsOnDisk, Ascending, Older
  <2>2. CASE CompactRaced \/ PowerLoss
    <3>1. comp'.pc = "idle"
        BY <2>2, PowerLossEnds, EndCompactEnds DEF CompactRaced
    <3> QED
        BY <3>1 DEF InputsOnDisk
  <2> QED
      BY <1>3, <2>1, <2>2, FilesGrow
<1>4. CASE CompactSwap
    BY <1>3, <1>4, StateTypes DEF CompactSwap, CompAt, CompGoto, CompactCleanup, CompType
<1>5. CASE comp'.pc = "idle"
    BY <1>5 DEF InputsOnDisk
<1> QED
    BY <1>1, <1>2, <1>3, <1>4, <1>5, CompSteps DEF Merging

----------------------------------------------------------------------------
(* The images of the log that a power failure can leave.                   *)

\* WALImages of a log that was d when it was last fsynced and is w now.
Images(d, w) ==
    IF IsPrefixOf(d, w)
    THEN {SubSeq(w, 1, n) : n \in Len(d) .. Len(w)}
    ELSE {d} \cup {SubSeq(w, 1, n) : n \in 0 .. Len(w)}

LEMMA ImagesAre == WALImages = Images(walDisk, wal) /\ WALImages' = Images(walDisk', wal')
    BY DEF WALImages, Images

LEMMA ImagesHold ==
    ASSUME NEW d \in Seq(Record), NEW w \in Seq(Record)
    PROVE  w \in Images(d, w) /\ d \in Images(d, w)
<1>1. SubSeq(w, 1, Len(w)) = w /\ Len(w) \in Nat /\ Len(d) \in Nat
    BY SubSeqFull
<1>2. CASE IsPrefixOf(d, w)
  <2>1. Len(d) <= Len(w) /\ \A i \in 1 .. Len(d) : d[i] = w[i]
      BY <1>2 DEF IsPrefixOf
  <2>2. Len(w) \in Len(d) .. Len(w) /\ Len(d) \in Len(d) .. Len(w)
      BY <1>1, <2>1
  <2>3. \A i \in 1 .. Len(d) : w[i] \in Record
      BY <1>1, <2>1
  <2>4. /\ SubSeq(w, 1, Len(d)) \in Seq(Record) /\ Len(SubSeq(w, 1, Len(d))) = Len(d)
        /\ \A i \in 1 .. Len(d) : SubSeq(w, 1, Len(d))[i] = w[i]
      BY <1>1, <2>3, SubSeqProperties
  <2>5. SubSeq(w, 1, Len(d)) = d
      BY <2>1, <2>4, SeqEqual
  <2> QED
      BY <1>1, <1>2, <2>2, <2>5 DEF Images
<1>3. CASE ~IsPrefixOf(d, w)
  <2>1. Len(w) \in 0 .. Len(w)
      BY <1>1
  <2> QED
      BY <1>1, <1>3, <2>1 DEF Images
<1> QED
    BY <1>2, <1>3

LEMMA ImagesOfSynced ==
    ASSUME NEW w \in Seq(Record)
    PROVE  Images(w, w) = {w}
<1>1. SubSeq(w, 1, Len(w)) = w /\ Len(w) \in Nat
    BY SubSeqFull
<1>2. IsPrefixOf(w, w)
    BY <1>1 DEF IsPrefixOf
<1>3. Len(w) .. Len(w) = {Len(w)}
    BY <1>1
<1> QED
    BY <1>1, <1>2, <1>3 DEF Images

LEMMA ImagesOfEmpty ==
    ASSUME NEW d \in Seq(Record)
    PROVE  Images(d, <<>>) \subseteq {d, <<>>}
<1>1. Len(d) \in Nat /\ Len(<<>>) = 0
    OBVIOUS
<1>2. \A n \in Len(d) .. 0 : n = 0
    BY <1>1
<1>3. \A n \in 0 .. 0 : n = 0
    OBVIOUS
<1>4. SubSeq(<<>>, 1, 0) = <<>>
    BY SubSeqEmpty
<1> QED
    BY <1>1, <1>2, <1>3, <1>4 DEF Images

LEMMA ImagesOfAppend ==
    ASSUME NEW d \in Seq(Record), NEW w \in Seq(Record), NEW r \in Record
    PROVE  Images(d, Append(w, r)) \subseteq Images(d, w) \cup {Append(w, r)}
<1> DEFINE a == Append(w, r)
           len == Len(w)
<1>1. /\ a \in Seq(Record) /\ Len(a) = len + 1 /\ len \in Nat /\ Len(d) \in Nat
      /\ \A i \in 1 .. len : a[i] = w[i]
    BY AppendProperties
<1> HIDE DEF a
<1>2. ASSUME NEW n \in 0 .. len PROVE SubSeq(a, 1, n) = SubSeq(w, 1, n)
  <2>1. \A i \in 1 .. n : w[i] \in Record /\ a[i] \in Record /\ a[i] = w[i]
      BY <1>1
  <2>2. /\ SubSeq(w, 1, n) \in Seq(Record) /\ Len(SubSeq(w, 1, n)) = n
        /\ \A i \in 1 .. n : SubSeq(w, 1, n)[i] = w[i]
      BY <2>1, SubSeqProperties
  <2>3. /\ SubSeq(a, 1, n) \in Seq(Record) /\ Len(SubSeq(a, 1, n)) = n
        /\ \A i \in 1 .. n : SubSeq(a, 1, n)[i] = a[i]
      BY <2>1, SubSeqProperties
  <2> QED
      BY <2>1, <2>2, <2>3, SeqEqual
<1>3. SubSeq(a, 1, len + 1) = a
    BY <1>1, SubSeqFull
<1>4. CASE IsPrefixOf(d, w)
  <2>1. \A n \in Len(d) .. len + 1 : (n \in Len(d) .. len /\ n \in 0 .. len) \/ n = len + 1
      BY <1>1
  <2>2. IsPrefixOf(d, a)
      BY <1>1, <1>4 DEF IsPrefixOf
  <2> QED
      BY <1>1, <1>2, <1>3, <1>4, <2>1, <2>2 DEF Images, a
<1>5. CASE ~IsPrefixOf(d, w) /\ IsPrefixOf(d, a)
  <2>1. Len(d) = len + 1
    <3>1. Len(d) <= len + 1 /\ \A i \in 1 .. Len(d) : d[i] = a[i]
        BY <1>1, <1>5 DEF IsPrefixOf
    <3>2. CASE Len(d) <= len
      <4>1. \A i \in 1 .. Len(d) : d[i] = w[i]
          BY <1>1, <3>1, <3>2
      <4> QED
          BY <1>5, <3>2, <4>1 DEF IsPrefixOf
    <3> QED
        BY <1>1, <3>1, <3>2
  <2>2. \A n \in Len(d) .. len + 1 : n = len + 1
      BY <1>1, <2>1
  <2> QED
      BY <1>1, <1>3, <1>5, <2>2 DEF Images, a
<1>6. CASE ~IsPrefixOf(d, w) /\ ~IsPrefixOf(d, a)
  <2>1. \A n \in 0 .. len + 1 : n \in 0 .. len \/ n = len + 1
      BY <1>1
  <2> QED
      BY <1>1, <1>2, <1>3, <1>6, <2>1 DEF Images, a
<1> QED
    BY <1>4, <1>5, <1>6

\* The record that the write in progress appends.
Logging == [key |-> writer.key, entry |-> writer.entry]

\* No step makes an older image of the log possible: what a power failure can
\* leave is what it could leave before, with the record being written, or
\* nothing once the log is truncated.
LEMMA ImagesStep ==
    ASSUME ListInv, WriteTrail, [Next]_vars, NEW image \in WALImages'
    PROVE  \/ image \in WALImages
           \/ AppendWAL /\ Logging \in Record /\ image = Append(wal, Logging)
           \/ TruncateWAL /\ image = <<>>
<1>0. wal \in Seq(Record) /\ walDisk \in Seq(Record)
    BY StateTypes
<1>1. CASE AppendWAL
  <2>1. Logging \in Record
      BY <1>1, StateTypes DEF AppendWAL, WriterAt, Logging, Record
  <2>2. wal' = wal \/ wal' = Append(wal, Logging)
      BY <1>1 DEF AppendWAL, Logging
  <2>3. walDisk' = walDisk
      BY <1>1 DEF AppendWAL
  <2>4. CASE wal' = wal
      BY <2>3, <2>4, ImagesAre
  <2>5. CASE wal' = Append(wal, Logging)
    <3>1. image \in Images(walDisk, Append(wal, Logging))
        BY <2>3, <2>5, ImagesAre
    <3>2. image \in Images(walDisk, wal) \cup {Append(wal, Logging)}
        BY <1>0, <2>1, <3>1, ImagesOfAppend
    <3> QED
        BY <1>1, <2>1, <3>2, ImagesAre
  <2> QED
      BY <2>2, <2>4, <2>5
<1>2. CASE TruncateWAL
  <2>1. walDisk' = walDisk /\ wal' = <<>>
      BY <1>2 DEF TruncateWAL
  <2> QED
      BY <1>0, <1>2, <2>1, ImagesAre, ImagesOfEmpty, ImagesHold
<1>3. CASE wal' = wal /\ walDisk' = wal
    BY <1>0, <1>3, ImagesAre, ImagesOfSynced, ImagesHold
<1>4. CASE UNCHANGED <<wal, walDisk>>
    BY <1>4, ImagesAre
<1>5. CASE PowerLoss
  <2>1. wal' \in WALImages /\ walDisk' = wal'
      BY <1>5 DEF PowerLoss
  <2>2. wal' \in Seq(Record)
      BY <2>1, WALImagesType DEF ListInv, TypeOK
  <2>3. image = wal'
      BY <2>1, <2>2, ImagesAre, ImagesOfSynced
  <2> QED
      BY <2>1, <2>3
<1>6. CASE ApplyWrite \/ SyncReset
    BY <1>3, <1>6 DEF ApplyWrite, SyncReset, SyncWAL
<1>7. CASE Open
    BY <1>3, <1>4, <1>7 DEF Open, ReplayWAL
<1>8. CASE \/ AppendWALFails \/ FlushWriteTmp \/ FlushRename \/ FlushRenameFails
           \/ FlushSyncDir \/ CompactWriteTmp \/ CompactRename \/ CompactRenameFails
           \/ CompactSyncDir \/ CompactRaced \/ CompactCleanup \/ Kill \/ UNCHANGED disk
  <2>1. UNCHANGED <<wal, walDisk>>
      BY <1>8 DEF AppendWALFails, FlushWriteTmp, FlushRename, FlushRenameFails,
           FlushSyncDir, CompactWriteTmp, CompactRename, CompactRenameFails,
           CompactSyncDir, CompactRaced, CompactCleanup, Kill, disk, log
  <2> QED
      BY <1>4, <2>1
<1> QED
    BY <1>1, <1>2, <1>5, <1>6, <1>7, <1>8, DiskFrame

LEMMA WALImagesTypeNext ==
    ASSUME ListInv, WriteTrail, [Next]_vars
    PROVE  WALImages' \subseteq Seq(Record)
<1>1. wal \in Seq(Record)
    BY StateTypes
<1>2. WALImages \subseteq Seq(Record)
    BY WALImagesType DEF ListInv, TypeOK
<1>3. <<>> \in Seq(Record)
    OBVIOUS
<1>4. Logging \in Record => Append(wal, Logging) \in Seq(Record)
    BY <1>1, AppendProperties
<1> QED
    BY <1>2, <1>3, <1>4, ImagesStep

\* The records of the logs are those there were, and the one being written.
LEMMA RecordsStep ==
    ASSUME ListInv, [Next]_vars, NEW s \in {wal', walDisk'}, NEW i \in DOMAIN s
    PROVE  \/ \E q \in {wal, walDisk} : \E j \in DOMAIN q : s[i] = q[j]
           \/ AppendWAL /\ s[i] = Logging
<1>0. wal \in Seq(Record) /\ walDisk \in Seq(Record)
    BY StateTypes
<1>1. CASE s \in {wal, walDisk}
    BY <1>1
<1>2. CASE AppendWAL
  <2>1. Logging \in Record
      BY <1>2, StateTypes DEF AppendWAL, WriterAt, Logging, Record
  <2>2. s \in {wal, walDisk} \/ s = Append(wal, Logging)
      BY <1>2 DEF AppendWAL, Logging
  <2>3. CASE s = Append(wal, Logging)
    <3>1. i \in 1 .. Len(wal) + 1 /\ Len(wal) \in Nat
        BY <1>0, <2>1, <2>3, AppendProperties
    <3>2. CASE i = Len(wal) + 1
        BY <1>0, <1>2, <2>1, <2>3, <3>2, AppendProperties
    <3>3. CASE i \in 1 .. Len(wal)
      <4>1. s[i] = wal[i] /\ i \in DOMAIN wal
          BY <1>0, <2>1, <2>3, <3>3, AppendProperties
      <4> QED
          BY <4>1
    <3> QED
        BY <3>1, <3>2, <3>3
  <2> QED
      BY <1>1, <2>2, <2>3
<1>3. CASE PowerLoss
  <2>1. s \in WALImages
      BY <1>3 DEF PowerLoss
  <2>2. s = walDisk \/ \E n \in 0 .. Len(wal) : s = SubSeq(wal, 1, n)
    <3>1. Len(walDisk) \in Nat /\ Len(wal) \in Nat
        BY <1>0
    <3>2. \A n \in Len(walDisk) .. Len(wal) : n \in 0 .. Len(wal)
        BY <3>1
    <3> QED
        BY <2>1, <3>2 DEF WALImages
  <2>3. ASSUME NEW n \in 0 .. Len(wal), s = SubSeq(wal, 1, n)
        PROVE  i \in DOMAIN wal /\ s[i] = wal[i]
    <3>1. \A j \in 1 .. n : wal[j] \in Record
        BY <1>0
    <3>2. Len(s) = n /\ s \in Seq(Record) /\ \A j \in 1 .. n : s[j] = wal[j]
        BY <2>3, <3>1, SubSeqProperties
    <3>3. i \in 1 .. n
        BY <3>2
    <3> QED
        BY <1>0, <3>2, <3>3
  <2> QED
      BY <1>1, <2>2, <2>3
<1>4. CASE TruncateWAL
  <2>1. s = <<>> \/ s = walDisk
      BY <1>4 DEF TruncateWAL
  <2> QED
      BY <1>1, <2>1
<1>5. CASE ApplyWrite \/ SyncReset \/ Open
    BY <1>1, <1>5 DEF ApplyWrite, SyncReset, SyncWAL, Open, ReplayWAL
<1>6. CASE \/ AppendWALFails \/ FlushWriteTmp \/ FlushRename \/ FlushRenameFails
           \/ FlushSyncDir \/ CompactWriteTmp \/ CompactRename \/ CompactRenameFails
           \/ CompactSyncDir \/ CompactRaced \/ CompactCleanup \/ Kill \/ UNCHANGED disk
  <2>1. UNCHANGED <<wal, walDisk>>
      BY <1>6 DEF AppendWALFails, FlushWriteTmp, FlushRename, FlushRenameFails,
           FlushSyncDir, CompactWriteTmp, CompactRename, CompactRenameFails,
           CompactSyncDir, CompactRaced, CompactCleanup, Kill, disk, log
  <2> QED
      BY <1>1, <2>1
<1> QED
    BY <1>2, <1>3, <1>4, <1>5, <1>6, DiskFrame

----------------------------------------------------------------------------
(* More of what the steps do to the pieces of the state.                   *)

LEMMA NextTypes ==
    ASSUME ListInv, [Next]_vars
    PROVE  /\ ListInv'
           /\ wal' \in Seq(Record) /\ walDisk' \in Seq(Record)
           /\ OnDisk' \subseteq Table /\ files' \subseteq Table /\ Durable' \subseteq files'
           /\ files' \subseteq OnDisk' /\ unlinked' \subseteq OnDisk'
           /\ sstables' \in Seq(Table) /\ lastSeq' \in Nat /\ memtable' \in Contents
           /\ comp' \in CompType /\ comp'.inputs \in Seq(Table) /\ comp'.table \in Table
           /\ writer' \in WriterType /\ writer'.table \in Table /\ writer'.entry \in Entry
           /\ writer'.pc # "idle" => writer'.key \in Key
           /\ acked' \in [Key -> Nat] /\ writes' \in Nat
           /\ Range(sstables)' \subseteq files'
           /\ writer'.pc # "idle" => up' = "open"
<1>1. ListInv'
    BY ListInvStep
<1> QED
    BY <1>1 DEF ListInv, TypeOK, DiskTypeOK, HandleTypeOK, CallTypeOK, HistoryTypeOK, OnDisk,
           Durable, CompType, WriterType, FilesOpen, Modes

LEMMA NextVersions ==
    ASSUME ListInv, [Next]_vars, NEW k \in Key
    PROVE  /\ memtable'[k] \in Entry /\ memtable'[k].id \in Nat
           /\ \A t \in OnDisk' : t.recs[k] \in Entry /\ t.recs[k].id \in Nat
           /\ Newest(sstables', k) \in Entry /\ Newest(sstables', k).id \in Nat
           /\ Visible(k)' \in Entry /\ Visible(k)'.id \in Nat
           /\ acked'[k] \in Nat /\ writer'.entry.id \in Nat
<1>1. /\ memtable'[k] \in Entry /\ memtable'[k].id \in Nat
      /\ \A t \in OnDisk' : t.recs[k] \in Entry /\ t.recs[k].id \in Nat
      /\ Newest(sstables', k) \in Entry /\ Newest(sstables', k).id \in Nat
    BY NextTypes, VersionTypes
<1>2. acked'[k] \in Nat /\ writer'.entry.id \in Nat
    BY NextTypes DEF Entry
<1>3. Visible(k)' = IF Present(memtable'[k]) THEN memtable'[k] ELSE Newest(sstables', k)
    BY DEF Visible
<1> QED
    BY <1>1, <1>2, <1>3

\* A new file is one that was renamed, except after a power failure.
LEMMA FilesStep ==
    ASSUME [Next]_vars, NEW t \in files'
    PROVE  \/ t \in files \/ PowerLoss
           \/ FlushRename /\ t = writer.table
           \/ CompactRename /\ t = comp.table
<1>1. CASE \/ AppendWAL \/ AppendWALFails \/ ApplyWrite \/ TruncateWAL \/ SyncReset
           \/ FlushWriteTmp \/ FlushRename \/ FlushRenameFails \/ FlushSyncDir
           \/ CompactWriteTmp \/ CompactRename \/ CompactRenameFails \/ CompactSyncDir
    BY <1>1 DEF AppendWAL, AppendWALFails, ApplyWrite, TruncateWAL, SyncReset,
           FlushWriteTmp, FlushRename, FlushRenameFails, FlushSyncDir, CompactWriteTmp,
           CompactRename, CompactRenameFails, CompactSyncDir, dir
<1>2. CASE CompactRaced \/ CompactCleanup \/ Open \/ Kill \/ UNCHANGED disk
    BY <1>2 DEF CompactRaced, CompactCleanup, Open, LoadSSTables, Kill, disk, dir
<1> QED
    BY <1>1, <1>2, DiskFrame

\* So is a file whose rename has to be fsynced.
LEMMA UnsyncedStep ==
    ASSUME [Next]_vars, NEW t \in unsynced'
    PROVE  \/ t \in unsynced
           \/ FlushRename /\ t = writer.table
           \/ CompactRename /\ t = comp.table
<1>1. CASE \/ AppendWAL \/ AppendWALFails \/ ApplyWrite \/ TruncateWAL \/ SyncReset
           \/ FlushWriteTmp \/ FlushRename \/ FlushRenameFails \/ FlushSyncDir
           \/ CompactWriteTmp \/ CompactRename \/ CompactRenameFails \/ CompactSyncDir
    BY <1>1 DEF AppendWAL, AppendWALFails, ApplyWrite, TruncateWAL, SyncReset,
           FlushWriteTmp, FlushRename, FlushRenameFails, FlushSyncDir, CompactWriteTmp,
           CompactRename, CompactRenameFails, CompactSyncDir, dir, SyncDir
<1>2. CASE \/ CompactRaced \/ CompactCleanup \/ Open \/ Kill \/ PowerLoss
           \/ UNCHANGED disk
    BY <1>2 DEF CompactRaced, CompactCleanup, Open, LoadSSTables, Kill, PowerLoss, disk, dir
<1> QED
    BY <1>1, <1>2, DiskFrame

\* Only the removal of a file by a compaction makes one that may come back.
LEMMA UnlinkedStep ==
    [Next]_vars => CompactRaced \/ CompactCleanup \/ unlinked' \subseteq unlinked
<1>1. CASE \/ AppendWAL \/ AppendWALFails \/ ApplyWrite \/ TruncateWAL \/ SyncReset
           \/ FlushWriteTmp \/ FlushRename \/ FlushRenameFails \/ FlushSyncDir
           \/ CompactWriteTmp \/ CompactRename \/ CompactRenameFails \/ CompactSyncDir
    BY <1>1 DEF AppendWAL, AppendWALFails, ApplyWrite, TruncateWAL, SyncReset,
           FlushWriteTmp, FlushRename, FlushRenameFails, FlushSyncDir, CompactWriteTmp,
           CompactRename, CompactRenameFails, CompactSyncDir, dir, SyncDir
<1>2. CASE Open \/ Kill \/ PowerLoss \/ UNCHANGED disk
    BY <1>2 DEF Open, LoadSSTables, Kill, PowerLoss, disk, dir
<1> QED
    BY <1>1, <1>2, DiskFrame

LEMMA MemtableStep ==
    [Next]_vars =>
        \/ ApplyWrite \/ FlushInstall \/ Open
        \/ memtable' = Empty /\ up' = "down" /\ writer'.pc = "idle"
        \/ UNCHANGED memtable
<1>1. LoseHandle => memtable' = Empty /\ up' = "down" /\ writer'.pc = "idle"
    BY LoseHandleEnds DEF LoseHandle
<1>2. ASSUME \/ AppendWALFails \/ FlushWriteTmp \/ FlushWriteTmpFails
             \/ CompactOpen \/ CompactSwap \/ CompactRaced \/ CompactCleanup
             \/ CloseBegin \/ CloseTables
      PROVE  UNCHANGED memtable
    BY <1>2 DEF AppendWALFails, FlushWriteTmp, FlushWriteTmpFails, CompactOpen, CompactSwap,
           CompactRaced, CompactCleanup, CloseBegin, CloseTables
<1>3. UNCHANGED handle => UNCHANGED memtable
    BY DEF handle
<1> QED
    BY <1>1, <1>2, <1>3, HandleFrame

\* Only the calls that return no error acknowledge.
LEMMA AckedStep ==
    ASSUME ListInv, [Next]_vars, NEW k \in Key
    PROVE  \/ acked'[k] = acked[k]
           \/ (ApplyWrite \/ SyncReset) /\ k = writer.key /\ acked'[k] = writer.entry.id
<1>0. acked \in [Key -> Nat]
    BY StateTypes
<1>1. CASE ApplyWrite \/ SyncReset
  <2>1. acked' = acked \/ acked' = [acked EXCEPT ![writer.key] = writer.entry.id]
      BY <1>1 DEF ApplyWrite, SyncReset, Return
  <2> QED
      BY <1>0, <1>1, <2>1
<1>2. CASE Write /\ ~ApplyWrite /\ ~SyncReset
    BY <1>2 DEF Write, BeginWrite, AppendWAL, AppendWALFails, SyncWALFails,
           FlushWriteTmp, FlushWriteTmpFails, FlushRename, FlushRenameFails,
           FlushSyncDir, FlushOrphan, FlushInstall, TruncateWAL, ResetWALFails, GiveUp
<1>3. CASE Compact
    BY <1>3 DEF Compact, CompactBegin, CompactAcquire, CompactMerge, CompactMergeFails,
           CompactWriteTmp, CompactWriteTmpFails, CompactRename, CompactRenameFails,
           CompactSyncDir, CompactOrphan, CompactOpen, CompactSwap, CompactRaced,
           CompactCleanup
<1>4. CASE \E r \in Reader : Get(r)
    BY <1>4 DEF Get, GetMemtable, GetTables, GetRead, GetReadFails, GetReturn
<1>5. CASE Open \/ CloseBegin \/ CloseTables \/ Exit \/ Kill \/ PowerLoss \/ UNCHANGED vars
    BY <1>5 DEF Open, CloseBegin, CloseTables, Exit, Kill, PowerLoss, LoseHandle, vars
<1> QED
    BY <1>1, <1>2, <1>3, <1>4, <1>5 DEF Next

\* A running engine never gives out a smaller number.
LEMMA LastSeqGrows ==
    ASSUME ListInv, [Next]_vars, up # "down", up' # "down"
    PROVE  lastSeq <= lastSeq'
<1>0. lastSeq \in Nat /\ lastSeq' \in Nat /\ MaxClockStep \in Nat
    BY StateTypes, NextTypes, BoundsAssumption
<1>1. CASE FlushWriteTmp \/ FlushWriteTmpFails
  <2>1. lastSeq' \in FlushSeqs
      BY <1>1 DEF FlushWriteTmp, FlushWriteTmpFails
  <2> QED
      BY <1>0, <2>1 DEF FlushSeqs
<1>2. CASE CompactSwap
  <2>1. comp.table.seq \in Nat
      BY StateTypes DEF Table
  <2> QED
      BY <1>0, <1>2, <2>1, MaxOfTwo DEF CompactSwap
<1>3. CASE \/ AppendWALFails \/ ApplyWrite \/ FlushInstall \/ CompactOpen \/ CompactRaced
           \/ CompactCleanup \/ CloseBegin \/ CloseTables \/ UNCHANGED handle
  <2>1. lastSeq' = lastSeq
      BY <1>3 DEF AppendWALFails, ApplyWrite, FlushInstall, CompactOpen, CompactRaced,
             CompactCleanup, CloseBegin, CloseTables, handle
  <2> QED
      BY <1>0, <2>1
<1>4. ~Open /\ ~LoseHandle
    BY DEF Open, LoseHandle
<1> QED
    BY <1>1, <1>2, <1>3, <1>4, HandleFrame

----------------------------------------------------------------------------
(* Versions: what a merge has, what a list shows, and what a step can do   *)
(* to them.                                                                *)

\* A merged table has of every key what one of its inputs has, or nothing.
LEMMA MergedFromInputs ==
    ASSUME ListInv, TableContents, InputsOnDisk, Merged, NEW k \in Key
    PROVE  /\ comp.table.recs[k] = Merge(comp.inputs)[k]
           /\ comp.table.recs[k].id # 0 =>
                 \E t \in Range(comp.inputs) : t \in files /\ t.recs[k] = comp.table.recs[k]
<1>1. comp.table.recs[k] = Newest(comp.inputs, k)
    BY MergeIsNewest DEF TableContents
<1>2. ASSUME comp.table.recs[k].id # 0
      PROVE  \E t \in Range(comp.inputs) : t \in files /\ t.recs[k] = comp.table.recs[k]
  <2>1. \E i \in DOMAIN comp.inputs : comp.inputs[i].recs[k] = Newest(comp.inputs, k)
      BY <1>1, <1>2, StateTypes, NewestIsHeld DEF Present
  <2>2. Range(comp.inputs) \subseteq files
      BY DEF InputsOnDisk, Merged
  <2> QED
      BY <1>1, <2>1, <2>2 DEF Range
<1> QED
    BY <1>2 DEF TableContents

LEMMA LastInputIs ==
    ASSUME ListInv, Merging
    PROVE  /\ comp.inputs \in Seq(Table) /\ comp.inputs # <<>>
           /\ LastInput \in Range(comp.inputs) /\ LastInput \in Table /\ LastInput.seq \in Nat
<1>1. comp.inputs \in Seq(Table) /\ comp.inputs # <<>>
    BY StateTypes DEF ListInv, InputsLive
<1>2. Len(comp.inputs) \in DOMAIN comp.inputs
    BY <1>1
<1>3. LastInput \in Table
    BY <1>1, <1>2 DEF LastInput
<1> QED
    BY <1>1, <1>2, <1>3 DEF LastInput, Range, Table

\* The numbers of a merged table and of its inputs.
LEMMA MergedAfterInputs ==
    ASSUME ListInv, InputsOnDisk, Merging, NEW t \in Range(comp.inputs)
    PROVE  /\ LastInput \in Range(comp.inputs) /\ LastInput \in files
           /\ t \in files /\ t.seq \in Nat /\ LastInput.seq \in Nat /\ t.seq <= LastInput.seq
           /\ Merged => /\ comp.table.seq = LastInput.seq + 1 /\ comp.table.compacted
                        /\ t.seq < comp.table.seq /\ t # comp.table
                        /\ Older(t, comp.table)
<1>1. comp.inputs \in Seq(Table) /\ comp.inputs # <<>> /\ Ascending(comp.inputs)
      /\ Range(comp.inputs) \subseteq files
    BY StateTypes DEF ListInv, InputsLive, InputsOnDisk, Merging
<1>2. /\ Len(comp.inputs) \in DOMAIN comp.inputs /\ DOMAIN comp.inputs = 1 .. Len(comp.inputs)
      /\ Len(comp.inputs) \in Nat
    BY <1>1
<1>3. PICK i \in DOMAIN comp.inputs : t = comp.inputs[i]
    BY DEF Range
<1>4. t \in Table /\ LastInput \in Table /\ t.seq \in Nat /\ LastInput.seq \in Nat
    BY <1>1, <1>2, <1>3, ListFacts DEF LastInput
<1>5. t.seq <= LastInput.seq
  <2>1. CASE i = Len(comp.inputs)
      BY <1>3, <1>4, <2>1 DEF LastInput
  <2>2. CASE i < Len(comp.inputs)
    <3>1. Older(t, LastInput)
        BY <1>1, <1>2, <1>3, <2>2 DEF Ascending, LastInput
    <3> QED
        BY <1>4, <3>1, OlderIsOrder
  <2> QED
      BY <1>2, <2>1, <2>2
<1>6. LastInput \in Range(comp.inputs)
    BY <1>2 DEF Range, LastInput
<1>7. ASSUME Merged
      PROVE  /\ comp.table.seq = LastInput.seq + 1 /\ comp.table.compacted
             /\ t.seq < comp.table.seq /\ t # comp.table /\ Older(t, comp.table)
  <2>1. comp.table.seq = LastInput.seq + 1 /\ comp.table.compacted
      BY <1>7 DEF ListInv, MergedNext
  <2>2. t.seq < comp.table.seq
      BY <1>4, <1>5, <2>1
  <2> QED
      BY <1>4, <2>1, <2>2 DEF Older
<1> QED
    BY <1>1, <1>4, <1>5, <1>6, <1>7

\* Every table of a sorted list is covered by what a search of the list finds.
LEMMA ListedIsShown ==
    ASSUME NEW s \in Seq(Table), NEW D, Ascending(s), Range(s) \subseteq D, NEW k \in Key,
           \A t, u \in D : Older(t, u) /\ Present(u.recs[k]) => t.recs[k].id <= u.recs[k].id,
           NEW t \in Range(s)
    PROVE  t.recs[k].id <= Newest(s, k).id
<1>1. PICK i \in DOMAIN s : t = s[i]
    BY DEF Range
<1>2. ASSUME NEW a \in DOMAIN s, NEW b \in DOMAIN s, a < b, Present(s[b].recs[k])
      PROVE  s[a].recs[k].id <= s[b].recs[k].id
  <2>1. Older(s[a], s[b])
      BY <1>2 DEF Ascending
  <2>2. s[a] \in D /\ s[b] \in D
      BY DEF Range
  <2> QED
      BY <1>2, <2>1, <2>2
<1> QED
    BY <1>1, <1>2, NewestCovers

\* What a restart finds of each key covers all files, and those that can come
\* back.
LEMMA LoadCovers ==
    ASSUME ListInv, VersionsOrdered, RemovalsCovered, NEW s \in LoadOrders(files),
           NEW t \in OnDisk, NEW k \in Key
    PROVE  t.recs[k].id <= Newest(s, k).id
<1>1. files \in SUBSET Table /\ IsFiniteSet(files) /\ files \subseteq OnDisk
    BY StateTypes DEF ListInv, FiniteDisk
<1>2. s \in Seq(Table) /\ Ascending(s) /\ Range(s) = files
    BY <1>1, LoadOrdersFacts
<1>3. \A u \in files : u.recs[k].id <= Newest(s, k).id
    BY <1>1, <1>2, ListedIsShown DEF VersionsOrdered
<1>4. PICK u \in files : t.recs[k].id <= u.recs[k].id
  <2>1. CASE t \in files
      BY <2>1, StateVersions
  <2>2. CASE t \in unlinked
      BY <2>2 DEF RemovalsCovered
  <2> QED
      BY <2>1, <2>2 DEF OnDisk
<1>5. u.recs[k].id \in Nat /\ t.recs[k].id \in Nat /\ Newest(s, k).id \in Nat
    BY <1>1, <1>2, StateVersions, VersionTypes
<1> QED
    BY <1>3, <1>4, <1>5

\* While the engine is open only a write changes what Get shows.
LEMMA VisibleStep ==
    ASSUME ListInv, DataInv, [Next]_vars, up = "open", up' = "open", NEW k \in Key
    PROVE  \/ Visible(k)' = Visible(k)
           \/ ApplyWrite /\ k = writer.key /\ Visible(k)' = writer.entry
<1>0. Visible(k)' = IF Present(memtable'[k]) THEN memtable'[k] ELSE Newest(sstables', k)
    BY DEF Visible
<1>1. CASE ApplyWrite
  <2>1. memtable' = [memtable EXCEPT ![writer.key] = writer.entry] /\ sstables' = sstables
      BY <1>1 DEF ApplyWrite
  <2>2. CASE k = writer.key
    <3>1. memtable'[k] = writer.entry
        BY <2>1, <2>2, StateTypes DEF Contents
    <3>2. Present(writer.entry)
        BY <1>1 DEF DataInv, IdsGiven, ApplyWrite, WriterAt, Present
    <3> QED
        BY <1>0, <1>1, <2>2, <3>1, <3>2
  <2>3. CASE k # writer.key
    <3>1. memtable'[k] = memtable[k]
        BY <2>1, <2>3, StateTypes DEF Contents
    <3> QED
        BY <1>0, <2>1, <3>1 DEF Visible
  <2> QED
      BY <2>2, <2>3
<1>2. CASE FlushInstall
  <2>1. sstables' = Append(sstables, writer.table) /\ memtable' = Empty
      BY <1>2 DEF FlushInstall
  <2>2. writer.table.recs = memtable
      BY <1>2 DEF DataInv, TableContents, FlushInstall, WriterAt, Flushing
  <2>3. Newest(sstables', k) =
            IF Present(memtable[k]) THEN memtable[k] ELSE Newest(sstables, k)
      BY <2>1, <2>2, StateTypes, NewestAppend
  <2>4. ~Present(memtable'[k])
      BY <2>1 DEF Empty, NoEntry, Present
  <2> QED
      BY <1>0, <2>3, <2>4 DEF Visible
<1>3. CASE CompactSwap
  <2> DEFINE n == Len(comp.inputs)
  <2>1. /\ sstables' = SwapIn(comp.table, n, sstables) /\ memtable' = memtable
        /\ IsPrefixOf(comp.inputs, sstables) /\ comp.pc = "swap"
      BY <1>3 DEF CompactSwap, CompAt
  <2>2. comp.table.recs = Merge(comp.inputs) /\ comp.inputs # <<>>
      BY <2>1 DEF DataInv, TableContents, Merged, ListInv, InputsLive, Merging
  <2>3. n \in 1 .. Len(sstables) /\ \A i \in 1 .. n : comp.inputs[i] = sstables[i]
      BY <2>1, <2>2, StateTypes DEF IsPrefixOf
  <2>4. Newest(sstables', k) = Newest(sstables, k)
      BY <2>1, <2>2, <2>3, StateTypes, NewestSwapIn
  <2> QED
      BY <1>0, <2>1, <2>4 DEF Visible
<1>4. CASE \/ AppendWALFails \/ FlushWriteTmp \/ FlushWriteTmpFails \/ CompactOpen
           \/ CompactRaced \/ CompactCleanup \/ CloseBegin \/ UNCHANGED handle
  <2>1. UNCHANGED <<memtable, sstables>>
      BY <1>4 DEF AppendWALFails, FlushWriteTmp, FlushWriteTmpFails, CompactOpen,
             CompactRaced, CompactCleanup, CloseBegin, handle
  <2> QED
      BY <1>0, <2>1 DEF Visible
<1>5. ~Open /\ ~CloseTables /\ ~LoseHandle
    BY DEF Open, CloseTables, LoseHandle
<1> QED
    BY <1>1, <1>2, <1>3, <1>4, <1>5, HandleFrame

\* No step, a power failure included, leaves a key without a durable file that
\* is as new as the one there was.
LEMMA DurableStep ==
    ASSUME ListInv, DataInv, [Next]_vars, NEW u \in Durable, NEW k \in Key
    PROVE  \E v \in Durable' : u.recs[k].id <= v.recs[k].id
<1>t. u \in files /\ u \notin unsynced /\ u \in OnDisk /\ u \in Table
    BY StateTypes DEF Durable
<1>n. u.recs[k].id \in Nat
    BY <1>t, StateVersions
<1>1. u \notin unsynced'
  <2>1. CASE FlushRename
    <3>1. Older(u, writer.table)
        BY <1>t, <2>1 DEF FlushRename, WriterAt, DataInv, TableContents
    <3>2. u # writer.table
        BY <1>t, <3>1, OlderIsOrder
    <3> QED
        BY <1>t, <2>1, <3>2 DEF FlushRename
  <2>2. CASE CompactRename
    <3>1. Name(comp.table) \notin Names(files)
        BY <2>2 DEF CompactRename, CompAt, DataInv, TableContents
    <3> QED
        BY <1>t, <2>2, <3>1 DEF CompactRename, Names
  <2> QED
      BY <1>t, <2>1, <2>2, UnsyncedStep
<1>2. CASE u \in files'
    BY <1>n, <1>1, <1>2 DEF Durable
<1>3. CASE CompactRaced
  <2>1. comp.pc = "swap" /\ Merged /\ Merging /\ files \ {comp.table} \subseteq files'
        /\ UNCHANGED unsynced
      BY <1>3 DEF CompactRaced, CompAt, Merged, Merging
  <2>2. ListInv /\ TableContents /\ InputsOnDisk
      BY DEF DataInv
  <2>3. PICK t \in Range(comp.inputs) :
            comp.table.recs[k].id = 0 \/ t.recs[k] = comp.table.recs[k]
    <3>1. LastInput \in Range(comp.inputs)
        BY <2>1, LastInputIs
    <3> QED
        BY <2>1, <2>2, <3>1, MergedFromInputs
  <2>4. t \in files /\ t # comp.table
      BY <2>1, <2>2, MergedAfterInputs
  <2>5. t \in Durable'
      BY <2>1, <2>4 DEF Durable, ListInv, InputsDurable
  <2>6. t.recs[k].id \in Nat
      BY <2>4, StateTypes, StateVersions
  <2>7. CASE u = comp.table
      BY <1>n, <2>3, <2>5, <2>6, <2>7
  <2>8. CASE u # comp.table
      BY <1>t, <1>2, <2>1, <2>8
  <2> QED
      BY <2>7, <2>8
<1>4. CASE CompactCleanup
  <2>1. comp.pc = "cleanup" /\ files \ {Head(comp.inputs)} \subseteq files' /\ UNCHANGED unsynced
        /\ Head(comp.inputs) \in Range(comp.inputs)
      BY <1>4, CleanupFacts DEF CompactCleanup, CompAt
  <2>2. comp.table \in Durable /\ Head(comp.inputs).seq < comp.table.seq
        /\ Head(comp.inputs).recs[k].id <= comp.table.recs[k].id
      BY <2>1 DEF DataInv, RemovalsCovered
  <2>3. comp.table \in Durable'
    <3>1. comp.table # Head(comp.inputs)
        BY <2>2, StateTypes DEF Table
    <3> QED
        BY <2>1, <2>2, <3>1 DEF Durable
  <2>4. CASE u = Head(comp.inputs)
      BY <2>2, <2>3, <2>4
  <2>5. CASE u # Head(comp.inputs)
      BY <1>t, <1>2, <2>1, <2>5
  <2> QED
      BY <2>4, <2>5
<1>5. CASE PowerLoss
  <2>1. files' \in DirImages
      BY <1>5 DEF PowerLoss
  <2>2. u \in files'
      BY <1>t, <2>1 DEF DirImages
  <2> QED
      BY <1>2, <2>2
<1> QED
    BY <1>t, <1>2, <1>3, <1>4, <1>5, FilesGrow

----------------------------------------------------------------------------
(* The parts of DataInv, one by one: the order of versions.                *)

\* The table that a flush puts in the directory.
LEMMA FlushedTable ==
    ASSUME ListInv, DataInv, FlushRename
    PROVE  /\ up = "open" /\ writer.pc = "rename" /\ Flushing
           /\ writer.table \in Table /\ writer.table.recs = memtable
           /\ ~writer.table.compacted /\ writer.table.seq <= lastSeq
           /\ \A t \in OnDisk : Older(t, writer.table) /\ t # writer.table
           /\ \A k \in Key : /\ writer.table.recs[k].id \in Nat
                             /\ writer.table.recs[k].id <= Visible(k).id
<1>1. up = "open" /\ writer.pc = "rename" /\ Flushing
    BY DEF FlushRename, WriterAt, Flushing
<1>2. /\ writer.table \in Table /\ writer.table.recs = memtable
      /\ ~writer.table.compacted /\ writer.table.seq <= lastSeq
    BY <1>1, StateTypes DEF DataInv, TableContents, ListInv, FlushFresh
<1>3. ASSUME NEW t \in OnDisk PROVE Older(t, writer.table) /\ t # writer.table
  <2>1. Older(t, writer.table) /\ t \in Table
      BY <1>1, StateTypes DEF DataInv, TableContents
  <2> QED
      BY <1>2, <2>1, OlderIsOrder
<1>4. ASSUME NEW k \in Key
      PROVE  memtable[k].id \in Nat /\ memtable[k].id <= Visible(k).id
  <2>1. memtable[k].id \in Nat /\ Visible(k).id \in Nat
      BY StateVersions
  <2> QED
      BY <2>1 DEF Visible, Present
<1> QED
    BY <1>1, <1>2, <1>3, <1>4

\* The table that a compaction puts in the directory.
LEMMA RenamedMerge ==
    ASSUME ListInv, DataInv, CompactRename
    PROVE  /\ comp.pc = "rename" /\ Merged /\ Merging /\ comp'.pc = "syncdir"
           /\ comp.table \in Table /\ comp'.inputs = comp.inputs
           /\ UNCHANGED <<handle, writer, acked, writes, log, unlinked>>
           /\ \A k \in Key :
                 /\ comp.table.recs[k] = Merge(comp.inputs)[k]
                 /\ comp.table.recs[k].id \in Nat
                 /\ comp.table.recs[k].id # 0 =>
                       \E t \in Range(comp.inputs) :
                          t \in files /\ t \in OnDisk /\ t.recs[k] = comp.table.recs[k]
<1>1. comp.pc = "rename" /\ Merged /\ Merging
    BY DEF CompactRename, CompAt, Merged, Merging
<1>2. comp'.pc = "syncdir" /\ comp'.inputs = comp.inputs
    BY StateTypes DEF CompactRename, CompGoto, CompType
<1>3. UNCHANGED <<handle, writer, acked, writes, log, unlinked>>
    BY DEF CompactRename, counters
<1>4. ListInv /\ TableContents /\ InputsOnDisk
    BY DEF DataInv
<1> QED
    BY <1>1, <1>2, <1>3, <1>4, StateTypes, MergedFromInputs, VersionTypes

LEMMA UniqueNamesStep ==
    ASSUME ListInv, DataInv, [Next]_vars
    PROVE  UniqueNames'
<1>0. files \subseteq Table /\ files' \subseteq Table /\ files \subseteq OnDisk /\ UniqueNames
    BY StateTypes, NextTypes DEF DataInv
<1>1. CASE FlushRename
  <2>1. files' = files \cup {writer.table}
      BY <1>1 DEF FlushRename
  <2>2. \A t \in files : Name(t) # Name(writer.table)
    <3> SUFFICES ASSUME NEW t \in files PROVE Name(t) # Name(writer.table)
        OBVIOUS
    <3>1. Older(t, writer.table) /\ writer.table \in Table /\ t \in Table
        BY <1>0, <1>1, FlushedTable
    <3> QED
        BY <3>1, OlderIsOrder
  <2> QED
      BY <1>0, <2>1, <2>2 DEF UniqueNames
<1>2. CASE CompactRename
  <2>1. files' = files \cup {comp.table}
      BY <1>2 DEF CompactRename
  <2>2. \A t \in files : Name(t) # Name(comp.table)
      BY <1>2 DEF CompactRename, CompAt, DataInv, TableContents, Names
  <2> QED
      BY <1>0, <2>1, <2>2 DEF UniqueNames
<1>3. CASE PowerLoss
  <2>1. Cardinality({Name(t) : t \in files'}) = Cardinality(files')
      BY <1>3 DEF PowerLoss, DirImages, Names
  <2>2. IsFiniteSet(files')
      BY NextTypes DEF ListInv, FiniteDisk
  <2> QED
      BY <2>1, <2>2, DistinctNames DEF UniqueNames
<1>4. CASE ~FlushRename /\ ~CompactRename /\ ~PowerLoss
  <2>1. files' \subseteq files
      BY <1>4, FilesStep
  <2> QED
      BY <1>0, <2>1 DEF UniqueNames
<1> QED
    BY <1>1, <1>2, <1>3, <1>4

LEMMA VersionsOrderedStep ==
    ASSUME ListInv, DataInv, [Next]_vars
    PROVE  VersionsOrdered'
<1>0. /\ OnDisk \subseteq Table /\ OnDisk' \subseteq Table /\ files \subseteq OnDisk
      /\ VersionsOrdered /\ InputsOnDisk
    BY StateTypes, NextTypes DEF DataInv
<1> SUFFICES ASSUME NEW t \in OnDisk', NEW u \in OnDisk', NEW k \in Key,
                    Older(t, u), Present(u.recs[k])
             PROVE  t.recs[k].id <= u.recs[k].id
    BY DEF VersionsOrdered, Older, Present
<1>n. t \in Table /\ u \in Table /\ t.recs[k].id \in Nat /\ u.recs[k].id \in Nat
    BY <1>0, VersionTypes
<1>1. CASE t \in OnDisk /\ u \in OnDisk
    BY <1>0, <1>1 DEF VersionsOrdered
<1>2. CASE FlushRename
  <2>1. (t \in OnDisk \/ t = writer.table) /\ (u \in OnDisk \/ u = writer.table)
      BY <1>0, <1>2, OnDiskStep DEF FlushRename, CompactRename, OnDisk
  <2>2. CASE t = writer.table /\ u = writer.table
      BY <1>n, <2>2, OlderIsOrder
  <2>3. CASE t = writer.table /\ u \in OnDisk
      BY <1>2, <1>n, <2>3, FlushedTable, OlderIsOrder
  <2>4. CASE t \in OnDisk /\ u = writer.table
    <3>1. Present(memtable[k]) /\ u.recs[k] = memtable[k] /\ up = "open"
        BY <1>2, <2>4, FlushedTable
    <3>2. t.recs[k].id <= Visible(k).id
        BY <2>4, <3>1 DEF DataInv, ShownIsNewest
    <3> QED
        BY <3>1, <3>2 DEF Visible
  <2> QED
      BY <1>1, <2>1, <2>2, <2>3, <2>4
<1>3. CASE CompactRename
  <2>0. Merged /\ Merging /\ comp.table \in Table /\ comp.table.recs[k] = Merge(comp.inputs)[k]
      BY <1>3, RenamedMerge
  <2>1. (t \in OnDisk \/ t = comp.table) /\ (u \in OnDisk \/ u = comp.table)
      BY <1>3 DEF CompactRename, OnDisk
  <2>2. CASE t = comp.table /\ u = comp.table
      BY <1>n, <2>2, OlderIsOrder
  <2>3. CASE t \in OnDisk /\ u = comp.table
    <3>1. PICK i \in Range(comp.inputs) : u.recs[k].id # 0
        BY <1>3, <2>3, RenamedMerge DEF Present
    <3>2. comp.table.seq = LastInput.seq + 1 /\ comp.table.compacted /\ LastInput.seq \in Nat
        BY <1>0, <2>0, <3>1, MergedAfterInputs
    <3>3. t.seq <= LastInput.seq
        BY <1>n, <2>3, <3>2 DEF Older, Table
    <3> QED
        BY <2>0, <2>3, <3>3 DEF DataInv, InputsCover
  <2>4. CASE t = comp.table /\ u \in OnDisk
    <3>1. CASE t.recs[k].id = 0
        BY <1>n, <3>1
    <3>2. CASE t.recs[k].id # 0
      <4>1. PICK i \in Range(comp.inputs) : i \in OnDisk /\ i.recs[k] = t.recs[k]
          BY <1>3, <2>4, <3>2, RenamedMerge
      <4>2. Older(i, comp.table) /\ i \in Table
          BY <1>0, <2>0, <4>1, MergedAfterInputs
      <4>3. Older(i, u)
          BY <1>n, <2>4, <4>2, OlderTransitive
      <4> QED
          BY <1>0, <2>4, <4>1, <4>3 DEF VersionsOrdered
    <3> QED
        BY <3>1, <3>2
  <2> QED
      BY <1>1, <2>1, <2>2, <2>3, <2>4
<1> QED
    BY <1>0, <1>1, <1>2, <1>3, OnDiskStep

\* Until the swap, the inputs of a compaction are in the list before any table
\* that is being flushed.
LEMMA FlushedAfterInputs ==
    ASSUME ListInv, InputsOnDisk, Merging, Flushing, up = "open"
    PROVE  LastInput.seq < writer.table.seq
<1>1. /\ comp.inputs \in Seq(Table) /\ comp.inputs # <<>>
      /\ IsPrefixOf(comp.inputs, sstables) /\ sstables \in Seq(Table)
    BY StateTypes DEF ListInv, InputsLive
<1>2. Len(comp.inputs) \in DOMAIN comp.inputs /\ Len(comp.inputs) \in DOMAIN sstables
    BY <1>1 DEF IsPrefixOf
<1>3. LastInput = sstables[Len(comp.inputs)]
    BY <1>1, <1>2 DEF IsPrefixOf, LastInput
<1> QED
    BY <1>2, <1>3 DEF ListInv, FlushFresh

LEMMA InputsCoverStep ==
    ASSUME ListInv, DataInv, [Next]_vars
    PROVE  InputsCover'
<1>0. /\ InputsOnDisk /\ InputsCover /\ OnDisk \subseteq Table /\ OnDisk' \subseteq Table
    BY StateTypes, NextTypes DEF DataInv
<1>1. CASE CompactBegin
  <2>1. comp'.inputs = sstables /\ OnDisk' = OnDisk /\ Len(sstables) > 1
      BY <1>1 DEF CompactBegin, IdleComp, disk, dir, OnDisk
  <2>2. sstables # <<>>
      BY <2>1, StateTypes
  <2>3. \A t \in OnDisk, k \in Key :
            t.seq <= sstables[Len(sstables)].seq => t.recs[k].id <= Newest(sstables, k).id
      BY <2>1, <2>2 DEF DataInv, ListCovers
  <2>4. \A k \in Key : Merge(sstables)[k] = Newest(sstables, k)
      BY MergeIsNewest
  <2> QED
      BY <2>1, <2>3, <2>4 DEF InputsCover, LastInput
<1>2. ASSUME Merging, comp'.inputs = comp.inputs
      PROVE  InputsCover'
  <2> SUFFICES ASSUME NEW t \in OnDisk', NEW k \in Key, t.seq <= LastInput.seq
               PROVE  t.recs[k].id <= Merge(comp.inputs)[k].id
      BY <1>2 DEF InputsCover, LastInput
  <2>1. CASE t \in OnDisk
      BY <1>0, <1>2, <2>1 DEF InputsCover
  <2>2. LastInput.seq \in Nat /\ t.seq \in Nat
      BY <1>0, <1>2, LastInputIs DEF Table
  <2>3. CASE FlushRename /\ t = writer.table
      BY <1>0, <1>2, <2>2, <2>3, FlushedTable, FlushedAfterInputs
  <2>4. CASE CompactRename /\ t = comp.table
    <3>1. comp.table.seq = LastInput.seq + 1
        BY <2>4, RenamedMerge DEF ListInv, MergedNext
    <3> QED
        BY <2>2, <2>4, <3>1
  <2> QED
      BY <1>0, <2>1, <2>3, <2>4, OnDiskStep
<1>3. CASE CompactSwap \/ CompactCleanup \/ comp'.pc = "idle"
  <2>1. comp'.pc \in {"idle", "cleanup"}
      BY <1>3, StateTypes, CleanupFacts DEF CompactSwap, CompGoto, CompType
  <2> QED
      BY <2>1 DEF InputsCover, Merging
<1>4. CASE UNCHANGED comp
    BY <1>2, <1>4 DEF InputsCover, Merging
<1> QED
    BY <1>1, <1>2, <1>3, <1>4, CompSteps

LEMMA ShownIsNewestStep ==
    ASSUME ListInv, DataInv, [Next]_vars
    PROVE  ShownIsNewest'
<1> SUFFICES ASSUME up' = "open", NEW t \in OnDisk', NEW k \in Key
             PROVE  t.recs[k].id <= Visible(k)'.id
    BY DEF ShownIsNewest
<1>0. OnDisk \subseteq Table /\ files \subseteq OnDisk
    BY StateTypes
<1>1. CASE Open
  <2>1. /\ OnDisk' = OnDisk /\ sstables' \in LoadOrders(files) /\ memtable' = Replay(wal)
      BY <1>1 DEF Open, LoadSSTables, ReplayWAL, OnDisk
  <2>2. t.recs[k].id <= Newest(sstables', k).id
      BY <2>1, LoadCovers DEF DataInv
  <2>3. wal \in WALImages
      BY StateTypes, ImagesAre, ImagesHold
  <2>4. Present(Replay(wal)[k]) => t.recs[k].id <= Replay(wal)[k].id
      BY <2>1, <2>3 DEF DataInv, LogIsNewest
  <2> QED
      BY <2>1, <2>2, <2>4 DEF Visible
<1>2. CASE up = "open"
  <2>1. t \in OnDisk => t.recs[k].id <= Visible(k).id
      BY <1>2 DEF DataInv, ShownIsNewest
  <2>2. t.recs[k].id <= Visible(k).id
    <3>1. CASE FlushRename /\ t = writer.table
        BY <3>1, FlushedTable
    <3>2. CASE CompactRename /\ t = comp.table
      <4>1. CASE t.recs[k].id = 0
          BY <4>1, StateVersions
      <4>2. CASE t.recs[k].id # 0
        <5>1. PICK i \in Range(comp.inputs) : i \in OnDisk /\ i.recs[k] = t.recs[k]
            BY <3>2, <4>2, RenamedMerge
        <5> QED
            BY <1>2, <5>1 DEF DataInv, ShownIsNewest
      <4> QED
          BY <4>1, <4>2
    <3> QED
        BY <2>1, <3>1, <3>2, OnDiskStep DEF DataInv
  <2>3. CASE Visible(k)' = Visible(k)
      BY <2>2, <2>3
  <2>4. CASE ApplyWrite /\ k = writer.key /\ Visible(k)' = writer.entry
    <3>1. OnDisk' = OnDisk /\ writer.pc = "sync"
        BY <2>4 DEF ApplyWrite, WriterAt, dir, OnDisk
    <3>2. t.recs[k].id <= writes /\ writer.entry.id = writes
        BY <3>1 DEF DataInv, IdsGiven
    <3> QED
        BY <2>4, <3>2
  <2> QED
      BY <1>2, <2>3, <2>4, VisibleStep
<1>3. Open \/ up = "open"
    BY HandleFrame DEF AppendWALFails, ApplyWrite, FlushWriteTmp, FlushWriteTmpFails,
       FlushInstall, CompactOpen, CompactSwap, CompactRaced, CompactCleanup, CloseBegin,
       CloseTables, LoseHandle, handle
<1> QED
    BY <1>1, <1>2, <1>3

LEMMA ListCoversStep ==
    ASSUME ListInv, DataInv, [Next]_vars
    PROVE  ListCovers'
<1> DEFINE end(s) == s[Len(s)]
<1> SUFFICES ASSUME sstables' # <<>>, NEW t \in OnDisk', NEW k \in Key,
                    t.seq <= end(sstables').seq,
                    Len(sstables') > 1 \/ ~Older(end(sstables'), t)
             PROVE  t.recs[k].id <= Newest(sstables', k).id
    BY DEF ListCovers, Older
<1>0. /\ OnDisk \subseteq Table /\ OnDisk' \subseteq Table /\ files \subseteq OnDisk
      /\ sstables \in Seq(Table) /\ Range(sstables) \subseteq files
      /\ sstables' \in Seq(Table) /\ InputsOnDisk
    BY StateTypes, NextTypes DEF DataInv
<1>l. /\ Len(sstables) \in Nat /\ DOMAIN sstables = 1 .. Len(sstables)
      /\ \A i \in 1 .. Len(sstables) : sstables[i] \in Table /\ sstables[i].seq \in Nat
    BY <1>0, ListFacts
<1>n. /\ t \in Table /\ t.seq \in Nat /\ t.recs[k].id \in Nat
      /\ Newest(sstables', k).id \in Nat
    BY <1>0, VersionTypes DEF Table
<1>1. ASSUME UNCHANGED sstables
      PROVE  t.recs[k].id <= Newest(sstables', k).id
  <2>1. CASE t \in OnDisk
      BY <1>1, <2>1 DEF DataInv, ListCovers
  <2>2. CASE FlushRename /\ t = writer.table
    <3>1. end(sstables) \in Table /\ end(sstables).seq < t.seq
      <4>1. Len(sstables) \in DOMAIN sstables
          BY <1>0, <1>1
      <4> QED
          BY <1>l, <2>2, <4>1, FlushedTable DEF ListInv, FlushFresh
    <3> QED
        BY <1>1, <1>n, <3>1 DEF Table
  <2>3. CASE CompactRename /\ t = comp.table
    <3>1. CASE t.recs[k].id = 0
        BY <1>n, <3>1
    <3>2. CASE t.recs[k].id # 0
      <4>1. Merging /\ comp.inputs \in Seq(Table) /\ up # "closed"
          BY <1>1, <2>3, RenamedMerge, StateTypes DEF ListInv, Modes
      <4>2. PICK i \in Range(comp.inputs) : i.recs[k] = t.recs[k]
          BY <2>3, <3>2, RenamedMerge
      <4>3. i \in Range(sstables)
          BY <1>0, <4>1, <4>2 DEF ListInv, InputsLive, IsPrefixOf, Range
      <4>4. i.recs[k].id <= Newest(sstables, k).id
          BY <1>0, <4>3, ListedIsShown DEF DataInv, VersionsOrdered, ListInv, ListOrder
      <4> QED
          BY <1>1, <4>2, <4>4
    <3> QED
        BY <3>1, <3>2
  <2> QED
      BY <1>0, <2>1, <2>2, <2>3, OnDiskStep
<1>2. CASE FlushInstall
  <2>1. t \in OnDisk /\ up = "open"
      BY <1>2 DEF FlushInstall, WriterAt, disk, dir, OnDisk
  <2>2. t.recs[k].id <= Visible(k).id
      BY <2>1 DEF DataInv, ShownIsNewest
  <2>3. up' = "open" /\ ~ApplyWrite
      BY <1>2, <2>1 DEF FlushInstall, ApplyWrite, WriterAt
  <2>4. Visible(k)' = Visible(k)
      BY <2>1, <2>3, VisibleStep
  <2>5. ~Present(memtable'[k])
      BY <1>2 DEF FlushInstall, Empty, NoEntry, Present
  <2>6. Visible(k)' = Newest(sstables', k)
      BY <2>5 DEF Visible
  <2> QED
      BY <2>2, <2>4, <2>6
<1>3. CASE CompactSwap
  <2> DEFINE n == Len(comp.inputs)
             len == Len(sstables)
  <2>1. /\ comp.pc = "swap" /\ Merging /\ Merged /\ IsPrefixOf(comp.inputs, sstables)
        /\ sstables' = SwapIn(comp.table, n, sstables) /\ OnDisk' = OnDisk
        /\ memtable' = memtable
      BY <1>3 DEF CompactSwap, CompAt, Merging, Merged, disk, dir, OnDisk
  <2>2. comp.inputs \in Seq(Table) /\ comp.inputs # <<>> /\ comp.table \in Table
        /\ comp.table.recs = Merge(comp.inputs)
      BY <2>1, StateTypes DEF ListInv, InputsLive, DataInv, TableContents
  <2>3. n \in 1 .. len /\ \A i \in 1 .. n : comp.inputs[i] = sstables[i]
      BY <1>0, <2>1, <2>2 DEF IsPrefixOf
  <2>4. Newest(sstables', k) = Newest(sstables, k)
      BY <1>0, <2>1, <2>2, <2>3, NewestSwapIn
  <2>5. /\ Len(sstables') = 1 + len - n /\ sstables'[1] = comp.table
        /\ \A i \in 2 .. 1 + len - n : sstables'[i] = sstables[n + i - 1]
    <3>1. n \in 0 .. Len(sstables)
        BY <1>l, <2>3
    <3> DEFINE new == SwapIn(comp.table, n, sstables)
    <3>2. /\ Len(new) = 1 + Len(sstables) - n /\ new[1] = comp.table
          /\ \A i \in 2 .. 1 + Len(sstables) - n : new[i] = sstables[n + i - 1]
        BY <1>0, <2>2, <3>1, SwapInFacts
    <3> QED
        BY <2>1, <3>2
  <2>6. CASE n < len
    <3>1. 1 + len - n \in 2 .. 1 + len - n /\ n + (1 + len - n) - 1 = len /\ len > 1
        BY <1>l, <2>3, <2>6
    <3>2. end(sstables') = sstables[len] /\ sstables # <<>>
      <4>1. sstables'[1 + len - n] = sstables[n + (1 + len - n) - 1]
          BY <2>5, <3>1
      <4> QED
          BY <1>0, <2>5, <3>1, <4>1
    <3>3. t.seq <= sstables[Len(sstables)].seq
        BY <3>2
    <3> QED
        BY <2>1, <2>4, <3>1, <3>2, <3>3 DEF DataInv, ListCovers
  <2>7. CASE n = len
    <3>1. end(sstables') = comp.table /\ Len(sstables') = 1
        BY <1>l, <2>3, <2>5, <2>7
    <3>2. comp.table.seq = LastInput.seq + 1 /\ LastInput.seq \in Nat /\ comp.table.compacted
        BY <1>0, <2>1, LastInputIs, MergedAfterInputs
    <3>3. CASE t.seq <= LastInput.seq
      <4>1. t.recs[k].id <= comp.table.recs[k].id
          BY <2>1, <2>2, <3>3 DEF DataInv, InputsCover
      <4>2. comp.table \in Range(sstables')
          BY <2>5, <3>1 DEF Range
      <4>3. Ascending(sstables') /\ Range(sstables') \subseteq OnDisk'
          BY NextTypes DEF ListInv, ListOrder, Ascending, Older, Range
      <4>4. comp.table.recs[k].id <= Newest(sstables', k).id
        <5>1. \A a, b \in OnDisk' :
                  Older(a, b) /\ Present(b.recs[k]) => a.recs[k].id <= b.recs[k].id
            BY <2>1 DEF DataInv, VersionsOrdered
        <5> QED
            BY <1>0, <4>2, <4>3, <5>1, ListedIsShown
      <4> QED
          BY <1>n, <2>2, <4>1, <4>4, VersionTypes
    <3>4. CASE t.seq = LastInput.seq + 1
      <4>1. Name(t) = Name(comp.table)
        <5>1. ~Older(comp.table, t)
            BY <3>1
        <5>2. t.seq = comp.table.seq /\ t.compacted = TRUE /\ comp.table.compacted = TRUE
            BY <1>n, <3>2, <3>4, <5>1 DEF Older, Table
        <5> QED
            BY <5>2 DEF Name
      <4>2. t \in files /\ comp.table \in files
          BY <2>1 DEF DataInv, RemovalsCovered, OnDisk, ListInv, MergedNext, FilesOpen
      <4>3. t = comp.table
          BY <4>1, <4>2 DEF DataInv, UniqueNames
      <4>4. comp.table.recs[k] = Newest(sstables', k)
        <5>1. \A i \in DOMAIN comp.inputs : comp.inputs[i] = sstables[i]
            BY <2>2, <2>3
        <5>2. comp.inputs = sstables
            BY <1>0, <2>2, <2>7, <5>1, SeqEqual
        <5> QED
            BY <2>2, <2>4, <5>2, MergeIsNewest
      <4> QED
          BY <1>n, <4>3, <4>4
    <3> QED
        BY <1>n, <3>1, <3>2, <3>3, <3>4
  <2> QED
      BY <1>l, <2>3, <2>6, <2>7
<1>4. CASE Open
  <2>1. OnDisk' = OnDisk /\ sstables' \in LoadOrders(files)
      BY <1>4 DEF Open, LoadSSTables, OnDisk
  <2> QED
      BY <2>1, LoadCovers DEF DataInv
<1>5. CASE \/ AppendWALFails \/ ApplyWrite \/ FlushWriteTmp \/ FlushWriteTmpFails \/ CompactOpen
           \/ CompactRaced \/ CompactCleanup \/ CloseBegin \/ UNCHANGED handle
  <2>1. UNCHANGED sstables
      BY <1>5 DEF AppendWALFails, ApplyWrite, FlushWriteTmp, FlushWriteTmpFails,
             CompactOpen, CompactRaced, CompactCleanup, CloseBegin, handle
  <2> QED
      BY <1>1, <2>1
<1>6. ~CloseTables /\ ~LoseHandle
    BY DEF CloseTables, LoseHandle
<1> QED
    BY <1>1, <1>2, <1>3, <1>4, <1>5, <1>6, HandleFrame

----------------------------------------------------------------------------
(* The numbers, the new tables and the removals.                           *)

LEMMA BeginWriteIs ==
    ASSUME NEW k \in Key, NEW del \in BOOLEAN, BeginWrite(k, del)
    PROVE  /\ writer'.pc = "append" /\ writer'.key = k
           /\ writer'.entry = [id |-> writes + 1, del |-> del]
           /\ writes' = writes + 1 /\ UNCHANGED <<disk, handle, acked>> /\ up = "open"
    BY DEF BeginWrite, IdleWriter

\* As long as a write is in progress the engine is open, and its memtable and
\* its log change only when the write does.
LEMMA WriterHolds ==
    ASSUME ListInv, [Next]_vars, UNCHANGED writer, writer.pc # "idle"
    PROVE  /\ up = "open" /\ up' = "open" /\ UNCHANGED <<memtable, wal>>
           /\ writer.pc # "append" => UNCHANGED walDisk
           /\ ~PowerLoss /\ ~Open /\ ~LoseHandle
<1>1. up = "open" /\ up' = "open"
    BY StateTypes, NextTypes
<1>2. ~PowerLoss /\ ~Open /\ ~LoseHandle
    BY <1>1 DEF PowerLoss, Open, LoseHandle
<1>3. ~AppendWAL /\ ~ApplyWrite /\ ~FlushInstall /\ ~TruncateWAL /\ ~SyncReset
  <2>1. writer \in WriterType
      BY StateTypes
  <2>2. AppendWAL => writer'.pc = "sync" /\ writer.pc = "append"
      BY <2>1 DEF AppendWAL, WriterAt, WriterType
  <2>3. ApplyWrite => writer'.pc \in {"flush", "idle"} /\ writer.pc = "sync"
      BY <2>1 DEF ApplyWrite, WriterAt, WriterType, Return, IdleWriter
  <2>4. FlushInstall => writer'.pc = "truncate" /\ writer.pc = "install"
      BY <2>1 DEF FlushInstall, WriterAt, WriterType
  <2>5. TruncateWAL => writer'.pc = "resetsync" /\ writer.pc = "truncate"
      BY <2>1 DEF TruncateWAL, WriterAt, WriterType
  <2>6. SyncReset => writer'.pc = "idle" /\ writer.pc = "resetsync"
      BY <2>1 DEF SyncReset, WriterAt, Return, IdleWriter
  <2> QED
      BY <2>2, <2>3, <2>4, <2>5, <2>6
<1>4. UNCHANGED memtable
    BY <1>1, <1>2, <1>3, MemtableStep
<1>5. UNCHANGED <<wal, walDisk>>
  <2>1. CASE \/ AppendWALFails \/ FlushWriteTmp \/ FlushRename \/ FlushRenameFails
             \/ FlushSyncDir \/ CompactWriteTmp \/ CompactRename \/ CompactRenameFails
             \/ CompactSyncDir \/ CompactRaced \/ CompactCleanup \/ Kill \/ UNCHANGED disk
      BY <2>1 DEF AppendWALFails, FlushWriteTmp, FlushRename, FlushRenameFails,
             FlushSyncDir, CompactWriteTmp, CompactRename, CompactRenameFails,
             CompactSyncDir, CompactRaced, CompactCleanup, Kill, disk, log
  <2> QED
      BY <1>2, <1>3, <2>1, DiskFrame
<1> QED
    BY <1>1, <1>2, <1>4, <1>5

LEMMA NumbersGivenStep ==
    ASSUME ListInv, DataInv, [Next]_vars
    PROVE  NumbersGiven'
<1>0. /\ OnDisk \subseteq Table /\ OnDisk' \subseteq Table /\ files \subseteq OnDisk
      /\ unlinked \subseteq OnDisk /\ files' \subseteq OnDisk'
      /\ InputsOnDisk /\ lastSeq \in Nat /\ lastSeq' \in Nat
      /\ \A t \in OnDisk \cup OnDisk' : t.seq \in Nat /\ t.compacted \in BOOLEAN
    BY StateTypes, NextTypes DEF DataInv, Table
<1> DEFINE slack(t) == IF t.compacted THEN 1 ELSE 0
<1>s. \A t : slack(t) \in {0, 1}
    OBVIOUS
<1> HIDE DEF slack
<1>1. ASSUME NEW t \in unlinked' PROVE \E u \in files' : t.seq <= u.seq + slack(t)
  <2>1. CASE unlinked' \subseteq unlinked /\ files \subseteq files'
      BY <2>1 DEF DataInv, NumbersGiven, slack
  <2>2. CASE PowerLoss
      BY <2>2 DEF PowerLoss
  <2>3. CASE CompactRaced
    <3>1. /\ comp.pc = "swap" /\ Merging /\ Merged
          /\ unlinked' \subseteq unlinked \cup {comp.table}
          /\ files \ {comp.table} \subseteq files'
        BY <2>3 DEF CompactRaced, CompAt, Merging, Merged
    <3>2. t = comp.table
        BY <3>1 DEF DataInv, RemovalsCovered
    <3>3. LastInput \in files /\ LastInput # comp.table /\ t.compacted
          /\ t.seq = LastInput.seq + 1
        BY <1>0, <3>1, <3>2, LastInputIs, MergedAfterInputs
    <3>4. LastInput \in files' /\ slack(t) = 1
        BY <3>1, <3>3 DEF slack
    <3>5. t.seq <= LastInput.seq + slack(t)
        BY <1>0, <3>1, <3>3, <3>4, LastInputIs
    <3> QED
        BY <3>4, <3>5
  <2>4. CASE CompactCleanup
    <3> DEFINE h == Head(comp.inputs)
    <3>1. /\ comp.pc = "cleanup" /\ unlinked' \subseteq unlinked \cup {h}
          /\ h \in Range(comp.inputs) /\ files \ {h} \subseteq files'
        BY <2>4, CleanupFacts DEF CompactCleanup, CompAt
    <3>2. comp.table \in files /\ h.seq < comp.table.seq /\ h \in files
        BY <1>0, <3>1, StateTypes DEF DataInv, RemovalsCovered, InputsOnDisk
    <3> HIDE DEF h
    <3>3. comp.table \in files' /\ h.seq \in Nat /\ comp.table.seq \in Nat /\ t.seq \in Nat
        BY <1>0, <3>1, <3>2
    <3>4. CASE t = h
        BY <1>s, <3>2, <3>3, <3>4
    <3>5. CASE t \in unlinked
      <4>1. PICK u \in files : t.seq <= u.seq + slack(t)
          BY <3>5 DEF DataInv, NumbersGiven, slack
      <4>2. CASE u = h
        <5>1. t.seq <= comp.table.seq + slack(t)
            BY <1>s, <3>2, <3>3, <4>1, <4>2
        <5> QED
            BY <3>3, <5>1
      <4>3. CASE u # h
          BY <3>1, <4>1, <4>3
      <4> QED
          BY <4>2, <4>3
    <3> QED
        BY <3>1, <3>4, <3>5
  <2> QED
      BY <2>1, <2>2, <2>3, <2>4, FilesGrow, UnlinkedStep
<1>2. ASSUME Merging', NEW t \in Range(comp'.inputs) PROVE t.seq <= lastSeq'
  <2>1. CASE CompactBegin
    <3>1. comp'.inputs = sstables /\ lastSeq' = lastSeq
        BY <2>1 DEF CompactBegin, IdleComp, handle
    <3> QED
        BY <1>2, <3>1 DEF Range, ListInv, ListOrder
  <2>2. CASE Merging /\ comp'.inputs = comp.inputs
    <3>1. t.seq <= lastSeq /\ t \in files
        BY <1>0, <1>2, <2>2, MergedAfterInputs DEF DataInv, NumbersGiven
    <3>2. up # "down" /\ up' # "down"
        BY <1>2, <2>2, NextTypes DEF ListInv, Modes, Merging
    <3> QED
        BY <1>0, <3>1, <3>2, LastSeqGrows
  <2>3. CASE CompactSwap \/ CompactCleanup \/ comp'.pc = "idle"
    <3>1. comp'.pc \in {"idle", "cleanup"}
        BY <2>3, StateTypes, CleanupFacts DEF CompactSwap, CompGoto, CompType
    <3> QED
        BY <1>2, <3>1 DEF Merging
  <2>4. CASE UNCHANGED comp
      BY <1>2, <2>2, <2>4 DEF Merging
  <2> QED
      BY <2>1, <2>2, <2>3, <2>4, CompSteps
<1>3. ASSUME up' # "down", NEW t \in OnDisk' PROVE t.seq <= lastSeq' + slack(t)
  <2>0. t.seq \in Nat /\ slack(t) \in {0, 1}
      BY <1>0, <1>s
  <2>1. CASE Open
    <3>1. OnDisk' = OnDisk /\ files' = files /\ unlinked' = unlinked
          /\ sstables' \in LoadOrders(files)
          /\ lastSeq' = Max({0} \cup {u.seq : u \in files})
        BY <2>1 DEF Open, LoadSSTables, OnDisk
    <3>2. \A u \in files : u.seq <= lastSeq'
      <4>1. files \in SUBSET Table /\ IsFiniteSet(files)
          BY StateTypes DEF ListInv, FiniteDisk
      <4> QED
          BY <3>1, <4>1, LoadOrdersFacts
    <3>3. CASE t \in files
        BY <1>0, <2>0, <3>2, <3>3
    <3>4. CASE t \in unlinked
      <4>1. PICK u \in files : t.seq <= u.seq + slack(t)
          BY <3>4 DEF DataInv, NumbersGiven, slack
      <4>2. u.seq \in Nat /\ u.seq <= lastSeq'
          BY <1>0, <3>2
      <4> QED
          BY <1>0, <2>0, <4>1, <4>2
    <3> QED
        BY <3>1, <3>3, <3>4 DEF OnDisk
  <2>2. CASE up # "down"
    <3>1. lastSeq <= lastSeq'
        BY <1>3, <2>2, LastSeqGrows
    <3>2. CASE t \in OnDisk
      <4>1. t.seq <= lastSeq + slack(t)
          BY <2>2, <3>2 DEF DataInv, NumbersGiven, slack
      <4> QED
          BY <1>0, <2>0, <3>1, <4>1
    <3>3. CASE FlushRename /\ t = writer.table
      <4>1. t.seq <= lastSeq
          BY <3>3, FlushedTable
      <4> QED
          BY <1>0, <2>0, <3>1, <4>1
    <3>4. CASE CompactRename /\ t = comp.table
      <4>1. Merging /\ Merged
          BY <3>4, RenamedMerge
      <4>2. /\ LastInput \in Range(comp.inputs) /\ t.seq = LastInput.seq + 1 /\ t.compacted
            /\ LastInput.seq \in Nat
          BY <1>0, <3>4, <4>1, LastInputIs, MergedAfterInputs
      <4>3. LastInput.seq <= lastSeq /\ slack(t) = 1
          BY <4>1, <4>2 DEF DataInv, NumbersGiven, slack
      <4> QED
          BY <1>0, <3>1, <4>2, <4>3
    <3> QED
        BY <1>0, <3>2, <3>3, <3>4, OnDiskStep
  <2>3. Open \/ up # "down"
      BY <1>3, HandleFrame DEF AppendWALFails, ApplyWrite, FlushWriteTmp, FlushWriteTmpFails,
         FlushInstall, CompactOpen, CompactSwap, CompactRaced, CompactCleanup, CloseBegin,
         CloseTables, LoseHandle, handle
  <2> QED
      BY <2>1, <2>2, <2>3
<1> QED
    BY <1>1, <1>2, <1>3 DEF NumbersGiven, slack

LEMMA RemovalsCoveredStep ==
    ASSUME ListInv, DataInv, [Next]_vars
    PROVE  RemovalsCovered'
<1>0. /\ OnDisk \subseteq Table /\ OnDisk' \subseteq Table /\ files \subseteq OnDisk
      /\ unlinked \subseteq OnDisk /\ files' \subseteq OnDisk'
      /\ InputsOnDisk /\ RemovalsCovered /\ Durable \subseteq files
      /\ \A t \in Table, k \in Key : t.recs[k].id \in Nat
    BY StateTypes, NextTypes, VersionTypes DEF DataInv
<1>1. comp'.pc \in {"open", "swap"} => unlinked' = {}
  <2>1. CASE CompactSyncDir
      BY <2>1 DEF CompactSyncDir, SyncDir
  <2>2. CASE comp.pc \in {"open", "swap"} /\ ~CompactRaced /\ ~CompactCleanup
      BY <2>2, <1>0, UnlinkedStep DEF RemovalsCovered
  <2>3. CASE CompactRaced \/ CompactCleanup
      BY <2>3, CleanupFacts, EndCompactEnds DEF CompactRaced
  <2>4. CASE CompactBegin \/ CompactSwap
      BY <2>4, StateTypes DEF CompactBegin, CompactSwap, CompGoto, CompType, IdleComp
  <2> QED
      BY <2>1, <2>2, <2>3, <2>4, CompSteps DEF CompactOpen, CompAt
<1>2. ASSUME comp'.pc = "cleanup"
      PROVE  /\ comp'.table \in Durable'
             /\ \A t \in Range(comp'.inputs) :
                   /\ t.seq < comp'.table.seq
                   /\ \A k \in Key : t.recs[k].id <= comp'.table.recs[k].id
  <2>1. CASE CompactSwap
    <3>1. /\ comp.pc = "swap" /\ Merging /\ Merged /\ UNCHANGED <<files, unsynced>>
          /\ comp'.inputs = comp.inputs /\ comp'.table = comp.table
        BY <2>1, StateTypes DEF CompactSwap, CompAt, CompGoto, CompType, Merging, Merged,
           disk, dir
    <3>2. comp.table \in Durable'
        BY <3>1 DEF ListInv, MergedNext, FilesOpen, InputsDurable, Durable
    <3>3. ASSUME NEW t \in Range(comp.inputs), NEW k \in Key
          PROVE  t.seq < comp.table.seq /\ t.recs[k].id <= comp.table.recs[k].id
      <4>1. t.seq < comp.table.seq /\ t \in OnDisk /\ t.seq <= LastInput.seq
          BY <1>0, <3>1, MergedAfterInputs
      <4>2. comp.table.recs[k] = Merge(comp.inputs)[k]
          BY <3>1 DEF DataInv, TableContents
      <4> QED
          BY <3>1, <4>1, <4>2 DEF DataInv, InputsCover
    <3>4. \A t \in Range(comp.inputs) : t.seq < comp.table.seq
        BY <1>0, <3>1, MergedAfterInputs
    <3> QED
        BY <3>1, <3>2, <3>3, <3>4
  <2>2. CASE CompactCleanup
    <3> DEFINE h == Head(comp.inputs)
    <3>1. /\ comp.pc = "cleanup" /\ h \in Range(comp.inputs) /\ files \ {h} \subseteq files'
          /\ Range(comp'.inputs) \subseteq Range(comp.inputs) /\ UNCHANGED unsynced
        BY <1>2, <2>2, CleanupFacts DEF CompactCleanup, CompAt
    <3>2. comp'.table = comp.table
        BY <1>2, <2>2, StateTypes DEF CompactCleanup, CompType, EndCompact, IdleComp
    <3>3. comp.table \in Durable /\ comp.table # h
      <4>1. comp.table \in Durable /\ h.seq < comp.table.seq /\ comp.table.seq \in Nat
          BY <1>0, <3>1, StateTypes DEF RemovalsCovered, Table
      <4> QED
          BY <4>1
    <3> QED
        BY <1>0, <3>1, <3>2, <3>3 DEF RemovalsCovered, Durable
  <2>3. CASE UNCHANGED comp
    <3>1. comp.pc = "cleanup" /\ comp.table \in files /\ comp.table \notin unsynced
        BY <1>0, <1>2, <2>3 DEF RemovalsCovered, Durable
    <3>2. ~CompactRaced /\ ~CompactCleanup /\ ~PowerLoss /\ ~CompactRename
      <4>1. ~CompactRaced /\ ~CompactRename
          BY <3>1 DEF CompactRaced, CompactRename, CompAt
      <4>2. ~PowerLoss
          BY <1>2, PowerLossEnds
      <4>3. ~CompactCleanup
        <5> SUFFICES ASSUME CompactCleanup PROVE FALSE
            OBVIOUS
        <5>1. comp.inputs \in Seq(Table) /\ comp.inputs # <<>>
            BY <3>1, StateTypes DEF ListInv, CleanupApart
        <5>2. Tail(comp.inputs) # comp.inputs
          <6>1. Len(Tail(comp.inputs)) = Len(comp.inputs) - 1 /\ Len(comp.inputs) \in Nat
              BY <5>1, HeadTailProperties
          <6>2. Len(Tail(comp.inputs)) # Len(comp.inputs)
              BY <6>1
          <6> QED
              BY <6>2
        <5>3. comp' = [comp EXCEPT !.inputs = Tail(comp.inputs)] \/ comp' = IdleComp
            BY DEF CompactCleanup, EndCompact
        <5> QED
            BY <1>2, <2>3, <5>2, <5>3, StateTypes DEF CompType, IdleComp
      <4> QED
          BY <4>1, <4>2, <4>3
    <3>3. comp.table \in files'
        BY <3>1, <3>2, FilesGrow
    <3>4. comp.table \notin unsynced'
      <4>1. FlushRename => comp.table # writer.table
          BY <1>0, <3>1, FlushedTable
      <4> QED
          BY <3>1, <3>2, <4>1, UnsyncedStep
    <3> QED
        BY <1>0, <2>3, <3>1, <3>3, <3>4 DEF RemovalsCovered, Durable
  <2>4. CASE CompactBegin
      BY <1>2, <2>4 DEF CompactBegin, IdleComp
  <2> QED
      BY <1>2, <2>1, <2>2, <2>3, <2>4, CompSteps
<1>3. ASSUME NEW t \in unlinked', NEW k \in Key
      PROVE  \E u \in files' : t.recs[k].id <= u.recs[k].id
  <2>1. CASE unlinked' \subseteq unlinked /\ files \subseteq files'
      BY <1>0, <2>1 DEF RemovalsCovered
  <2>2. CASE PowerLoss
      BY <2>2 DEF PowerLoss
  <2>3. CASE CompactRaced
    <3>1. /\ comp.pc = "swap" /\ Merging /\ Merged
          /\ unlinked' \subseteq unlinked \cup {comp.table}
          /\ files \ {comp.table} \subseteq files'
        BY <2>3 DEF CompactRaced, CompAt, Merging, Merged
    <3>2. t = comp.table /\ t.recs[k].id \in Nat
        BY <1>0, <3>1, StateTypes DEF RemovalsCovered
    <3>3. ListInv /\ TableContents /\ InputsOnDisk
        BY DEF DataInv
    <3>4. PICK i \in Range(comp.inputs) :
              comp.table.recs[k].id = 0 \/ i.recs[k] = comp.table.recs[k]
      <4>1. LastInput \in Range(comp.inputs)
          BY <3>1, LastInputIs
      <4> QED
          BY <3>1, <3>3, <4>1, MergedFromInputs
    <3>5. i \in files' /\ i.recs[k].id \in Nat
      <4>1. i \in files /\ i # comp.table
          BY <3>1, <3>3, MergedAfterInputs
      <4> QED
          BY <1>0, <3>1, <4>1
    <3> QED
        BY <3>2, <3>4, <3>5
  <2>4. CASE CompactCleanup
    <3> DEFINE h == Head(comp.inputs)
    <3>1. /\ comp.pc = "cleanup" /\ unlinked' \subseteq unlinked \cup {h}
          /\ h \in Range(comp.inputs) /\ files \ {h} \subseteq files'
        BY <2>4, CleanupFacts DEF CompactCleanup, CompAt
    <3>2. /\ comp.table \in files /\ h.seq < comp.table.seq /\ h \in files
          /\ h.recs[k].id <= comp.table.recs[k].id
        BY <1>0, <3>1 DEF RemovalsCovered, InputsOnDisk
    <3> HIDE DEF h
    <3>3. /\ comp.table \in files' /\ h.recs[k].id \in Nat /\ comp.table.recs[k].id \in Nat
          /\ t.recs[k].id \in Nat
      <4>1. comp.table # h
          BY <1>0, <3>2 DEF Table
      <4>2. t \in OnDisk
          BY <1>0, <3>1, <3>2
      <4> QED
          BY <1>0, <3>1, <3>2, <4>1, <4>2
    <3>4. CASE t = h
        BY <3>2, <3>3, <3>4
    <3>5. CASE t \in unlinked
      <4>1. PICK u \in files : t.recs[k].id <= u.recs[k].id
          BY <1>0, <3>5 DEF RemovalsCovered
      <4>2. CASE u = h
          BY <3>2, <3>3, <4>1, <4>2
      <4>3. CASE u # h
          BY <3>1, <4>1, <4>3
      <4> QED
          BY <4>2, <4>3
    <3> QED
        BY <3>1, <3>4, <3>5
  <2> QED
      BY <2>1, <2>2, <2>3, <2>4, FilesGrow, UnlinkedStep
<1> QED
    BY <1>1, <1>2, <1>3 DEF RemovalsCovered, Range

LEMMA TableContentsStep ==
    ASSUME ListInv, DataInv, [Next]_vars
    PROVE  TableContents'
<1>0. /\ OnDisk \subseteq Table /\ OnDisk' \subseteq Table /\ files \subseteq OnDisk
      /\ InputsOnDisk /\ TableContents /\ writer \in WriterType
    BY StateTypes, NextTypes DEF DataInv
<1>a. ASSUME writer'.pc \in {"rename", "syncdir", "install"}
      PROVE  \/ UNCHANGED writer /\ writer.pc # "idle"
             \/ FlushWriteTmp /\ writer'.pc = "rename"
             \/ FlushRename /\ writer'.pc = "syncdir" /\ writer'.table = writer.table
             \/ FlushSyncDir /\ writer'.pc = "install" /\ writer'.table = writer.table
  <2>1. ASSUME NEW k \in Key, NEW del \in BOOLEAN, BeginWrite(k, del) PROVE FALSE
      BY <1>a, <2>1, BeginWriteIs
  <2>2. writer' # IdleWriter
      BY <1>a DEF IdleWriter
  <2>3. UNCHANGED writer => writer.pc # "idle"
      BY <1>a
  <2> QED
      BY <1>a, <2>1, <2>2, <2>3, WriterSteps
<1>b. ASSUME FlushWriteTmp
      PROVE  \E seq \in FlushSeqs :
                /\ writer'.table = [seq |-> seq, compacted |-> FALSE, recs |-> memtable]
                /\ UNCHANGED <<memtable, files, unlinked>> /\ up = "open"
    BY <1>0, <1>b DEF FlushWriteTmp, WriterAt, WriterType
<1>1. ASSUME writer'.pc \in {"rename", "syncdir", "install"}
      PROVE  writer'.table.recs = memtable'
  <2>1. CASE FlushWriteTmp
    <3>1. PICK seq \in FlushSeqs :
             /\ writer'.table = [seq |-> seq, compacted |-> FALSE, recs |-> memtable]
             /\ UNCHANGED <<memtable, files, unlinked>> /\ up = "open"
        BY <1>b, <2>1
    <3> QED
        BY <3>1
  <2>2. CASE (FlushRename \/ FlushSyncDir) /\ writer'.table = writer.table
    <3>1. writer.table.recs = memtable /\ memtable' = memtable
        BY <1>0, <2>2 DEF FlushRename, FlushSyncDir, WriterAt, TableContents, Flushing, handle
    <3> QED
        BY <2>2, <3>1
  <2>3. CASE UNCHANGED writer
      BY <1>0, <1>1, <2>3, WriterHolds DEF TableContents, Flushing
  <2> QED
      BY <1>1, <1>a, <2>1, <2>2, <2>3
<1>2. ASSUME writer'.pc = "rename", NEW t \in OnDisk'
      PROVE  Older(t, writer'.table)
  <2>1. CASE FlushWriteTmp
    <3>1. PICK seq \in FlushSeqs :
             /\ writer'.table = [seq |-> seq, compacted |-> FALSE, recs |-> memtable]
             /\ UNCHANGED <<memtable, files, unlinked>> /\ up = "open"
        BY <1>b, <2>1
    <3>2. t \in OnDisk
        BY <3>1 DEF OnDisk
    <3>3. t.seq <= lastSeq + (IF t.compacted THEN 1 ELSE 0)
        BY <3>1, <3>2 DEF DataInv, NumbersGiven
    <3>4. seq \in Nat /\ lastSeq \in Nat /\ lastSeq + 1 <= seq /\ t.seq \in Nat
          /\ t.compacted \in BOOLEAN
        BY <1>0, <3>2, StateTypes, BoundsAssumption DEF FlushSeqs, Table
    <3> QED
        BY <3>1, <3>3, <3>4 DEF Older
  <2>2. CASE UNCHANGED writer
    <3>1. CASE t \in OnDisk
        BY <1>0, <1>2, <2>2, <3>1 DEF TableContents
    <3>2. CASE CompactRename /\ t = comp.table
      <4>1. Merging /\ Merged /\ Flushing /\ up = "open"
          BY <1>2, <2>2, <3>2, RenamedMerge, WriterHolds DEF Flushing
      <4>2. LastInput.seq < writer.table.seq /\ LastInput.seq \in Nat /\ writer.table.seq \in Nat
          BY <1>0, <4>1, FlushedAfterInputs, LastInputIs, StateTypes DEF Table
      <4>3. /\ comp.table.seq = LastInput.seq + 1 /\ comp.table.compacted
            /\ ~writer.table.compacted
          BY <4>1 DEF ListInv, MergedNext, FlushFresh
      <4> QED
          BY <2>2, <3>2, <4>2, <4>3 DEF Older
    <3>3. ~FlushRename
        BY <1>0, <1>2, <2>2 DEF FlushRename, WriterAt, WriterType
    <3> QED
        BY <1>0, <3>1, <3>2, <3>3, OnDiskStep
  <2> QED
      BY <1>2, <1>a, <2>1, <2>2
<1>3. ASSUME writer'.pc = "install" PROVE writer'.table \in Durable'
  <2>1. writer'.table \in files'
      BY <1>3, NextTypes DEF ListInv, FlushFresh, Flushing
  <2>2. writer'.table \notin unsynced'
    <3>1. CASE FlushSyncDir
        BY <3>1 DEF FlushSyncDir, SyncDir
    <3>2. CASE UNCHANGED writer
      <4>1. writer.table \notin unsynced /\ ~writer.table.compacted
          BY <1>0, <1>3, <3>2 DEF TableContents, Durable, ListInv, FlushFresh, Flushing
      <4>2. ~FlushRename
          BY <1>3, <3>2 DEF FlushRename, WriterAt
      <4>3. CompactRename => comp.table.compacted
          BY RenamedMerge DEF ListInv, MergedNext
      <4> QED
          BY <3>2, <4>1, <4>2, <4>3, UnsyncedStep
    <3> QED
        BY <1>3, <1>a, <3>1, <3>2
  <2> QED
      BY <2>1, <2>2 DEF Durable
<1>4. Merged' => comp'.table.recs = Merge(comp'.inputs)
  <2> SUFFICES ASSUME Merged' PROVE comp'.table.recs = Merge(comp'.inputs)
      OBVIOUS
  <2>1. CASE CompactMerge /\ comp'.table = Compacted(comp.inputs) /\ comp'.inputs = comp.inputs
      BY <2>1 DEF Compacted
  <2>2. CASE Merged /\ comp'.table = comp.table /\ comp'.inputs = comp.inputs
      BY <1>0, <2>2 DEF TableContents
  <2>3. CASE comp'.pc \in {"idle", "acquire", "merge", "cleanup"}
      BY <2>3 DEF Merged
  <2>4. CompactBegin => comp'.pc = "acquire"
      BY DEF CompactBegin, IdleComp
  <2>5. CompactSwap \/ CompactCleanup => comp'.pc \in {"idle", "cleanup"}
      BY StateTypes, CleanupFacts DEF CompactSwap, CompGoto, CompType
  <2>6. CompactWriteTmp \/ CompactRename \/ CompactSyncDir \/ CompactOpen => Merged
      BY DEF CompactWriteTmp, CompactRename, CompactSyncDir, CompactOpen, CompAt, Merged
  <2>7. UNCHANGED comp => Merged /\ comp'.table = comp.table /\ comp'.inputs = comp.inputs
      BY DEF Merged
  <2> QED
      BY <2>1, <2>2, <2>3, <2>4, <2>5, <2>6, <2>7, CompSteps
<1>5. ASSUME comp'.pc = "rename" PROVE Name(comp'.table) \notin Names(files')
  <2>1. CASE CompactWriteTmp /\ comp'.table = comp.table
      BY <2>1 DEF CompactWriteTmp
  <2>2. CASE UNCHANGED comp
    <3>1. comp.pc = "rename" /\ Name(comp.table) \notin Names(files) /\ comp.table.compacted
        BY <1>0, <1>5, <2>2 DEF TableContents, ListInv, MergedNext, Merged
    <3>2. ~CompactRename /\ ~PowerLoss
        BY <1>5, <2>2, RenamedMerge, PowerLossEnds
    <3>3. FlushRename => Name(writer.table) # Name(comp.table)
        BY <3>1, FlushedTable DEF Name
    <3> QED
        BY <2>2, <3>1, <3>2, <3>3, FilesStep DEF Names
  <2>3. CompactBegin => comp'.pc = "acquire"
      BY DEF CompactBegin, IdleComp
  <2>4. CompactSwap \/ CompactCleanup => comp'.pc \in {"idle", "cleanup"}
      BY StateTypes, CleanupFacts DEF CompactSwap, CompGoto, CompType
  <2> QED
      BY <1>5, <2>1, <2>2, <2>3, <2>4, CompSteps
<1> QED
    BY <1>1, <1>2, <1>3, <1>4, <1>5 DEF TableContents, Flushing, Older

----------------------------------------------------------------------------
(* The write in progress, the log and the acknowledged writes.             *)

LEMMA IdsGivenStep ==
    ASSUME ListInv, DataInv, [Next]_vars
    PROVE  IdsGiven'
<1>0. /\ IdsGiven /\ InputsOnDisk /\ writes \in Nat /\ writes' \in Nat
      /\ writer \in WriterType /\ wal \in Seq(Record) /\ walDisk \in Seq(Record)
      /\ wal' \in Seq(Record) /\ walDisk' \in Seq(Record)
      /\ OnDisk \subseteq Table /\ files \subseteq OnDisk
    BY StateTypes, NextTypes DEF DataInv
<1>b. ASSUME NEW k \in Key, NEW del \in BOOLEAN, BeginWrite(k, del)
      PROVE  /\ writer'.pc = "append" /\ writer'.entry.id = writes'
             /\ writes' = writes + 1 /\ UNCHANGED <<disk, handle, acked>>
  <2>1. /\ writer'.pc = "append" /\ writer'.entry = [id |-> writes + 1, del |-> del]
        /\ writes' = writes + 1 /\ UNCHANGED <<disk, handle, acked>>
      BY <1>b, BeginWriteIs
  <2>2. writer'.entry.id = writes + 1
      BY <2>1
  <2> QED
      BY <2>1, <2>2
<1>w. \/ UNCHANGED writes
      \/ writes' = writes + 1 /\ writer'.pc = "append" /\ UNCHANGED <<disk, handle, acked>>
    BY <1>b, WriterSteps
<1>c. writes <= writes'
    BY <1>0, <1>w
<1>1. writer'.pc # "idle" => writer'.entry.id = writes' /\ writes' > 0
  <2>1. CASE UNCHANGED writes /\ (UNCHANGED writer \/ (writer.pc # "idle" /\ writer'.entry = writer.entry))
      BY <1>0, <2>1 DEF IdsGiven
  <2>2. CASE writer' = IdleWriter
      BY <2>2 DEF IdleWriter
  <2>3. CASE \E k \in Key, del \in BOOLEAN : BeginWrite(k, del)
      BY <1>0, <1>b, <2>3
  <2> QED
      BY <2>1, <2>2, <2>3, WriterSteps
\* A write whose number is in nothing but the log yet.
<1>2. ASSUME writer'.pc \in {"append", "sync"}
      PROVE  \/ writes' = writes + 1 /\ UNCHANGED <<disk, handle, acked>>
             \/ /\ writes' = writes /\ writer.pc \in {"append", "sync"}
                /\ writer'.pc = "append" => writer.pc = "append" /\ UNCHANGED writer
  <2>1. CASE \E k \in Key, del \in BOOLEAN : BeginWrite(k, del)
      BY <1>b, <2>1
  <2>2. CASE UNCHANGED <<writer, writes>>
      BY <1>2, <2>2
  <2>3. writer' # IdleWriter
      BY <1>2 DEF IdleWriter
  <2>4. AppendWAL => writer.pc = "append"
      BY DEF AppendWAL, WriterAt
  <2> QED
      BY <1>2, <2>1, <2>2, <2>3, <2>4, WriterSteps
<1>3. ASSUME NEW s \in {wal', walDisk'}, NEW i \in DOMAIN s
      PROVE  /\ 0 < s[i].entry.id /\ s[i].entry.id <= writes'
             /\ writer'.pc = "append" => s[i].entry.id < writes'
  <2>1. CASE \E q \in {wal, walDisk} : \E j \in DOMAIN q : s[i] = q[j]
    <3>1. PICK q \in {wal, walDisk} : \E j \in DOMAIN q : s[i] = q[j]
        BY <2>1
    <3>2. /\ 0 < s[i].entry.id /\ s[i].entry.id <= writes
          /\ writer.pc = "append" => s[i].entry.id < writes
        BY <1>0, <3>1 DEF IdsGiven
    <3>3. s[i].entry.id \in Nat
      <4>1. s[i] \in Record
          BY <1>0, <3>1
      <4> QED
          BY <4>1 DEF Record, Entry
    <3> QED
        BY <1>0, <1>2, <1>c, <3>2, <3>3
  <2>2. CASE AppendWAL /\ s[i] = Logging
    <3>1. writer.pc = "append" /\ writer'.pc = "sync" /\ writes' = writes
        BY <1>0, <2>2 DEF AppendWAL, WriterAt, WriterType, counters
    <3>2. writer.entry.id = writes /\ writes > 0 /\ s[i].entry = writer.entry
        BY <1>0, <2>2, <3>1 DEF IdsGiven, Logging
    <3> QED
        BY <1>0, <3>1, <3>2
  <2> QED
      BY <2>1, <2>2, RecordsStep
<1>4. ASSUME NEW k \in Key
      PROVE  acked'[k] <= writes'
  <2>1. acked[k] <= writes /\ acked[k] \in Nat
      BY <1>0, StateVersions DEF IdsGiven
  <2>2. (ApplyWrite \/ SyncReset) => writer.entry.id = writes
      BY <1>0 DEF IdsGiven, ApplyWrite, SyncReset, WriterAt
  <2> QED
      BY <1>0, <1>c, <2>1, <2>2, AckedStep
<1>5. ASSUME NEW k \in Key
      PROVE  /\ memtable'[k].id <= writes'
             /\ writer'.pc \in {"append", "sync"} => memtable'[k].id < writes'
  <2>1. /\ memtable[k].id <= writes /\ memtable[k].id \in Nat
        /\ writer.pc \in {"append", "sync"} => memtable[k].id < writes
      BY <1>0, StateVersions DEF IdsGiven
  <2>2. CASE UNCHANGED memtable
      BY <1>0, <1>2, <1>c, <2>1, <2>2
  <2>3. CASE ApplyWrite
    <3>1. /\ writer.pc = "sync" /\ writer'.pc \notin {"append", "sync"} /\ writes' = writes
          /\ memtable' = [memtable EXCEPT ![writer.key] = writer.entry]
        BY <1>0, <2>3 DEF ApplyWrite, WriterAt, WriterType, Return, IdleWriter, counters
    <3>2. memtable'[k] = memtable[k] \/ memtable'[k] = writer.entry
        BY <3>1, StateTypes DEF Contents
    <3>3. writer.entry.id = writes
        BY <1>0, <3>1 DEF IdsGiven
    <3> QED
        BY <1>0, <2>1, <3>1, <3>2, <3>3
  <2>4. ASSUME memtable' = Empty, writer'.pc \notin {"append", "sync"}
        PROVE  /\ memtable'[k].id <= writes'
               /\ writer'.pc \in {"append", "sync"} => memtable'[k].id < writes'
      BY <1>0, <2>4 DEF Empty, NoEntry
  <2>5. FlushInstall => memtable' = Empty /\ writer'.pc = "truncate"
      BY <1>0 DEF FlushInstall, WriterType
  <2>6. CASE Open
    <3>1. memtable' = Replay(wal) /\ UNCHANGED <<writer, writes>> /\ writer.pc = "idle"
        BY <2>6, StateTypes DEF Open, ReplayWAL, counters
    <3>2. CASE Present(Replay(wal)[k])
      <4>1. PICK i \in DOMAIN wal : wal[i].entry = Replay(wal)[k]
          BY <1>0, <3>2, ReplayIsLogged
      <4>2. wal[i].entry.id <= writes
          BY <1>0 DEF IdsGiven
      <4> QED
          BY <3>1, <4>1, <4>2
    <3>3. CASE ~Present(Replay(wal)[k])
        BY <1>0, <3>1, <3>3 DEF Present
    <3> QED
        BY <3>2, <3>3
  <2> QED
      BY <2>2, <2>3, <2>4, <2>5, <2>6, MemtableStep
<1>6. ASSUME NEW k \in Key, NEW t \in OnDisk'
      PROVE  /\ t.recs[k].id <= writes'
             /\ writer'.pc \in {"append", "sync"} => t.recs[k].id < writes'
  <2>1. ASSUME NEW u \in OnDisk, u.recs[k] = t.recs[k]
        PROVE  /\ t.recs[k].id <= writes'
               /\ writer'.pc \in {"append", "sync"} => t.recs[k].id < writes'
    <3>1. /\ u.recs[k].id <= writes /\ u.recs[k].id \in Nat
          /\ writer.pc \in {"append", "sync"} => u.recs[k].id < writes
        BY <1>0, StateVersions DEF IdsGiven
    <3> QED
        BY <1>0, <1>2, <1>c, <2>1, <3>1
  <2>2. CASE FlushRename /\ t = writer.table
    <3>1. t.recs = memtable /\ writer'.pc = "syncdir" /\ memtable' = memtable
        BY <1>0, <2>2, FlushedTable DEF FlushRename, WriterType, handle
    <3> QED
        BY <1>5, <3>1
  <2>3. CASE CompactRename /\ t = comp.table
    <3>1. CASE t.recs[k].id # 0
      <4>1. PICK u \in Range(comp.inputs) : u \in OnDisk /\ u.recs[k] = t.recs[k]
          BY <2>3, <3>1, RenamedMerge
      <4> QED
          BY <2>1, <4>1
    <3>2. CASE t.recs[k].id = 0
      <4>1. writer' = writer /\ writes' = writes
          BY <2>3, RenamedMerge
      <4> QED
          BY <1>0, <3>2, <4>1 DEF IdsGiven
    <3> QED
        BY <3>1, <3>2
  <2> QED
      BY <1>0, <2>1, <2>2, <2>3, OnDiskStep
<1> QED
    BY <1>1, <1>3, <1>4, <1>5, <1>6 DEF IdsGiven

LEMMA WriteTrailStep ==
    ASSUME ListInv, DataInv, [Next]_vars
    PROVE  WriteTrail'
<1>0. /\ IdsGiven /\ WriteTrail /\ TableContents /\ writer \in WriterType
      /\ wal \in Seq(Record) /\ memtable \in Contents
      /\ writer.pc # "idle" => writer.key \in Key /\ Present(writer.entry)
    BY StateTypes DEF DataInv, IdsGiven, Present
<1>b. ASSUME writer'.pc \notin {"idle", "append"}
      PROVE  \/ UNCHANGED writer
             \/ /\ writer.pc # "idle" /\ writer'.entry = writer.entry /\ writer'.key = writer.key
                /\ \/ AppendWAL /\ writer'.pc = "sync"
                   \/ ApplyWrite /\ writer'.pc = "flush"
                   \/ FlushWriteTmp /\ writer'.pc = "rename"
                   \/ FlushRename /\ writer'.pc = "syncdir"
                   \/ FlushSyncDir /\ writer'.pc = "install"
                   \/ FlushInstall /\ writer'.pc = "truncate"
                   \/ TruncateWAL /\ writer'.pc = "resetsync"
  <2>1. ASSUME NEW k \in Key, NEW del \in BOOLEAN, BeginWrite(k, del) PROVE FALSE
      BY <1>b, <2>1, BeginWriteIs
  <2>2. writer' # IdleWriter
      BY <1>b DEF IdleWriter
  <2> QED
      BY <2>1, <2>2, WriterSteps
<1>1. up' = "open" /\ torn' => walBroken'
  <2> SUFFICES ASSUME up' = "open" PROVE ~torn' \/ walBroken'
      OBVIOUS
  <2>1. CASE AppendWALFails \/ TruncateWAL \/ Open
      BY <2>1 DEF AppendWALFails, TruncateWAL, Open, ReplayWAL
  <2>2. ~LoseHandle /\ ~Kill /\ ~PowerLoss
      BY DEF LoseHandle, Kill, PowerLoss
  <2>3. ASSUME ~AppendWALFails, ~TruncateWAL, ~Open
        PROVE  UNCHANGED <<torn, walBroken>> /\ up = "open"
    <3>1. UNCHANGED torn
        BY <2>2, <2>3, DiskFrame DEF AppendWAL, ApplyWrite, SyncReset, FlushWriteTmp,
           FlushRename, FlushRenameFails, FlushSyncDir, CompactWriteTmp, CompactRename,
           CompactRenameFails, CompactSyncDir, CompactRaced, CompactCleanup, disk, log
    <3>2. UNCHANGED walBroken /\ up = "open"
        BY <2>2, <2>3, HandleFrame DEF ApplyWrite, FlushWriteTmp, FlushWriteTmpFails,
           FlushInstall, CompactOpen, CompactSwap, CompactRaced, CompactCleanup, CloseBegin,
           CloseTables, handle
    <3> QED
        BY <3>1, <3>2
  <2> QED
      BY <1>0, <2>1, <2>3 DEF WriteTrail
<1>2. ASSUME writer'.pc = "sync"
      PROVE  wal' # <<>> /\ wal'[Len(wal')] = [key |-> writer'.key, entry |-> writer'.entry]
  <2>1. CASE UNCHANGED writer
      BY <1>0, <1>2, <2>1, WriterHolds DEF WriteTrail
  <2>2. CASE AppendWAL /\ writer'.entry = writer.entry /\ writer'.key = writer.key
    <3>1. up = "open" /\ ~walBroken /\ Logging \in Record
        BY <1>0, <2>2, StateTypes DEF AppendWAL, WriterAt, Logging, Record
    <3>2. wal' = Append(wal, Logging)
        BY <1>0, <2>2, <3>1 DEF AppendWAL, WriteTrail, Logging
    <3>3. Len(wal') = Len(wal) + 1 /\ wal'[Len(wal) + 1] = Logging
        BY <1>0, <3>1, <3>2, AppendProperties
    <3>4. wal' # <<>>
      <4>1. Len(wal) \in Nat
          BY <1>0
      <4>2. Len(wal') # 0
          BY <3>3, <4>1
      <4> QED
          BY <4>2
    <3> QED
        BY <2>2, <3>3, <3>4 DEF Logging
  <2> QED
      BY <1>2, <1>b, <2>1, <2>2
<1>3. ASSUME writer'.pc \in {"flush", "rename", "syncdir", "install", "truncate"}
      PROVE  walDisk' = wal'
  <2>1. CASE UNCHANGED writer
      BY <1>0, <1>3, <2>1, WriterHolds DEF WriteTrail
  <2>2. CASE ApplyWrite
      BY <2>2 DEF ApplyWrite, SyncWAL
  <2>3. CASE FlushWriteTmp \/ FlushRename \/ FlushSyncDir \/ FlushInstall
      BY <1>0, <2>3 DEF FlushWriteTmp, FlushRename, FlushSyncDir, FlushInstall, WriterAt, log,
         disk, WriteTrail
  <2> QED
      BY <1>3, <1>b, <2>1, <2>2, <2>3
<1>4. ASSUME writer'.pc = "resetsync" PROVE wal' = <<>>
  <2>1. CASE UNCHANGED writer
      BY <1>0, <1>4, <2>1, WriterHolds DEF WriteTrail
  <2>2. CASE TruncateWAL
      BY <2>2 DEF TruncateWAL
  <2> QED
      BY <1>4, <1>b, <2>1, <2>2
<1>5. ASSUME writer'.pc \in {"flush", "rename", "syncdir", "install"}
      PROVE  memtable'[writer'.key] = writer'.entry
  <2>1. CASE UNCHANGED writer
      BY <1>0, <1>5, <2>1, WriterHolds DEF WriteTrail
  <2>2. CASE ApplyWrite /\ writer'.entry = writer.entry /\ writer'.key = writer.key
    <3>1. memtable' = [memtable EXCEPT ![writer.key] = writer.entry] /\ writer.key \in Key
        BY <1>0, <2>2 DEF ApplyWrite, WriterAt
    <3> QED
        BY <1>0, <2>2, <3>1 DEF Contents
  <2>3. CASE (FlushWriteTmp \/ FlushRename \/ FlushSyncDir)
             /\ writer'.entry = writer.entry /\ writer'.key = writer.key
      BY <1>0, <2>3 DEF FlushWriteTmp, FlushRename, FlushSyncDir, WriterAt, handle, WriteTrail
  <2> QED
      BY <1>5, <1>b, <2>1, <2>2, <2>3
<1>6. ASSUME writer'.pc \in {"truncate", "resetsync"}
      PROVE  /\ memtable' = Empty
             /\ Newest(sstables', writer'.key) = writer'.entry
             /\ \E u \in Durable' : u.recs[writer'.key].id >= writer'.entry.id
  <2>1. CASE FlushInstall /\ writer'.entry = writer.entry /\ writer'.key = writer.key
    <3>1. /\ up = "open" /\ up' = "open" /\ writer.pc = "install" /\ memtable' = Empty
          /\ Durable' = Durable /\ ~ApplyWrite
        BY <2>1 DEF FlushInstall, ApplyWrite, WriterAt, disk, dir, Durable
    <3>2. memtable[writer.key] = writer.entry /\ writer.key \in Key /\ Present(writer.entry)
        BY <1>0, <3>1 DEF WriteTrail
    <3>3. writer.table.recs = memtable /\ writer.table \in Durable
        BY <1>0, <3>1 DEF TableContents, Flushing
    <3>4. Newest(sstables', writer.key) = writer.entry
      <4>1. sstables' = Append(sstables, writer.table)
          BY <2>1 DEF FlushInstall
      <4> QED
          BY <3>2, <3>3, <4>1, NewestAppend, StateTypes
    <3>5. writer.table.recs[writer.key].id >= writer.entry.id
        BY <3>2, <3>3, StateVersions
    <3> QED
        BY <2>1, <3>1, <3>3, <3>4, <3>5
  <2>2. CASE /\ writer.pc \in {"truncate", "resetsync"} /\ UNCHANGED memtable
             /\ up = "open" /\ up' = "open"
             /\ writer'.entry = writer.entry /\ writer'.key = writer.key
    <3>0. PICK k \in Key : k = writer.key
        BY <1>0, <2>2
    <3>1. /\ memtable = Empty /\ Newest(sstables, k) = writer.entry /\ writer.entry.id \in Nat
        BY <1>0, <2>2, <3>0, StateVersions DEF WriteTrail
    <3>2. PICK u \in Durable : u.recs[k].id >= writer.entry.id
        BY <1>0, <2>2, <3>0 DEF WriteTrail
    <3>3. PICK v \in Durable' : u.recs[k].id <= v.recs[k].id
        BY DurableStep
    <3>4. v.recs[k].id >= writer.entry.id
      <4>1. u.recs[k].id \in Nat /\ v.recs[k].id \in Nat
          BY StateTypes, NextTypes, VersionTypes
      <4> QED
          BY <3>1, <3>2, <3>3, <4>1
    <3>5. Newest(sstables', k) = writer.entry
      <4>1. ~Present(memtable[k]) /\ ~Present(memtable'[k])
          BY <2>2, <3>1 DEF Empty, NoEntry, Present
      <4>2. Visible(k) = writer.entry /\ Visible(k)' = Newest(sstables', k)
          BY <3>1, <4>1 DEF Visible
      <4>3. ~ApplyWrite
          BY <2>2 DEF ApplyWrite, WriterAt
      <4> QED
          BY <2>2, <4>2, <4>3, VisibleStep
    <3> QED
        BY <2>2, <3>0, <3>1, <3>3, <3>4, <3>5
  <2>3. TruncateWAL => /\ writer.pc = "truncate" /\ UNCHANGED memtable
                       /\ up = "open" /\ up' = "open"
      BY DEF TruncateWAL, WriterAt, handle
  <2>4. CASE UNCHANGED writer
      BY <1>6, <2>2, <2>4, WriterHolds
  <2> QED
      BY <1>6, <1>b, <2>1, <2>2, <2>3, <2>4
<1> QED
    BY <1>1, <1>2, <1>3, <1>4, <1>5, <1>6 DEF WriteTrail

\* What a log that ends with the write in progress holds of its key, and what
\* an fsync makes of the images.
LEMMA AppliedIsLogged ==
    ASSUME ListInv, DataInv, ApplyWrite
    PROVE  /\ writer.pc = "sync" /\ writer.key \in Key /\ writer.entry.id = writes /\ writes > 0
           /\ wal' = wal /\ Replay(wal)[writer.key] = writer.entry
           /\ \A image \in WALImages' : image = wal
           /\ memtable' = [memtable EXCEPT ![writer.key] = writer.entry]
           /\ OnDisk' = OnDisk /\ Durable' = Durable /\ writes' = writes
           /\ up = "open" /\ up' = "open"
<1>1. /\ writer.pc = "sync" /\ UNCHANGED <<wal, files, unsynced, unlinked, writes>>
      /\ walDisk' = wal /\ up = "open" /\ up' = "open"
      /\ memtable' = [memtable EXCEPT ![writer.key] = writer.entry]
    BY DEF ApplyWrite, SyncWAL, WriterAt, dir, counters
<1>2. writer.key \in Key /\ writer.entry.id = writes /\ writes > 0 /\ wal \in Seq(Record)
    BY <1>1, StateTypes DEF DataInv, IdsGiven
<1>3. wal # <<>> /\ wal[Len(wal)] = [key |-> writer.key, entry |-> writer.entry]
    BY <1>1 DEF DataInv, WriteTrail
<1>4. Len(wal) \in DOMAIN wal /\ \A j \in DOMAIN wal : ~(j > Len(wal))
    BY <1>2, <1>3
<1>5. Replay(wal)[wal[Len(wal)].key] = wal[Len(wal)].entry
    BY <1>2, <1>4, ReplayIs
<1>6. \A image \in WALImages' : image = wal
    BY <1>1, <1>2, ImagesAre, ImagesOfSynced
<1> QED
    BY <1>1, <1>2, <1>3, <1>5, <1>6 DEF OnDisk, Durable

\* The version an image of the log has of each key after a step.
LEMMA ImageVersions ==
    ASSUME ListInv, DataInv, [Next]_vars, NEW image \in WALImages', NEW k \in Key
    PROVE  \/ image \in WALImages
           \/ /\ AppendWAL /\ k = writer.key /\ Replay(image)[k] = writer.entry
              /\ image = Append(wal, Logging)
           \/ \E old \in WALImages : AppendWAL /\ Replay(image)[k] = Replay(old)[k]
           \/ TruncateWAL /\ image = <<>> /\ ~Present(Replay(image)[k])
<1>0. wal \in Seq(Record) /\ wal \in WALImages /\ WriteTrail
    BY StateTypes, ImagesAre, ImagesHold DEF DataInv
<1>1. CASE AppendWAL /\ Logging \in Record /\ image = Append(wal, Logging)
  <2>1. Replay(image)[k] = IF Logging.key = k THEN Logging.entry ELSE Replay(wal)[k]
      BY <1>0, <1>1, ReplayAppend
  <2> QED
      BY <1>0, <1>1, <2>1 DEF Logging
<1>2. CASE TruncateWAL /\ image = <<>>
    BY <1>2, ReplayOfEmpty DEF Empty, NoEntry, Present
<1> QED
    BY <1>0, <1>1, <1>2, ImagesStep

LEMMA LogIsNewestStep ==
    ASSUME ListInv, DataInv, [Next]_vars
    PROVE  LogIsNewest'
<1>0. /\ LogIsNewest /\ IdsGiven /\ WriteTrail /\ InputsOnDisk /\ writer \in WriterType
      /\ wal \in Seq(Record) /\ wal \in WALImages /\ memtable \in Contents
      /\ \A k \in Key : memtable[k].id \in Nat
      /\ writer.entry.id \in Nat /\ writes \in Nat
    BY StateTypes, StateVersions, ImagesAre, ImagesHold, KeyAssumption DEF DataInv, Entry
<1>1. ASSUME up' = "open", NEW k \in Key
      PROVE  memtable'[k].id <= Replay(wal')[k].id
  <2>0. \A s \in Seq(Record) : Replay(s)[k].id \in Nat
      BY ReplayType, VersionTypes
  <2>1. CASE ApplyWrite
    <3>1. /\ memtable' = [memtable EXCEPT ![writer.key] = writer.entry] /\ wal' = wal
          /\ Replay(wal)[writer.key] = writer.entry /\ up = "open"
        BY <2>1, AppliedIsLogged
    <3>2. CASE k = writer.key
      <4>1. memtable'[k] = writer.entry
          BY <1>0, <3>1, <3>2 DEF Contents
      <4> QED
          BY <1>0, <3>1, <3>2, <4>1
    <3>3. CASE k # writer.key
      <4>1. memtable'[k] = memtable[k]
          BY <1>0, <3>1, <3>3 DEF Contents
      <4> QED
          BY <1>0, <3>1, <4>1 DEF LogIsNewest
    <3> QED
        BY <3>2, <3>3
  <2>2. CASE Open
    <3>1. memtable' = Replay(wal) /\ wal' = wal
        BY <2>2 DEF Open, ReplayWAL
    <3> QED
        BY <1>0, <2>0, <3>1
  <2>3. CASE memtable' = Empty
      BY <2>0, <2>3, NextTypes DEF Empty, NoEntry
  <2>4. CASE UNCHANGED memtable /\ up = "open"
    <3>0. memtable[k].id <= Replay(wal)[k].id
        BY <1>0, <2>4 DEF LogIsNewest
    <3>1. CASE wal' = wal
        BY <2>4, <3>0, <3>1
    <3>2. CASE AppendWAL
      <4>1. Logging \in Record /\ writer.pc = "append"
          BY <3>2, StateTypes DEF AppendWAL, WriterAt, Logging, Record
      <4>2. wal' = wal \/ wal' = Append(wal, Logging)
          BY <3>2 DEF AppendWAL, Logging
      <4>3. CASE wal' = Append(wal, Logging)
        <5>1. Replay(wal')[k] = IF Logging.key = k THEN Logging.entry ELSE Replay(wal)[k]
            BY <1>0, <4>1, <4>3, ReplayAppend
        <5>2. memtable[k].id <= writes /\ Logging.entry.id = writes
            BY <1>0, <4>1 DEF IdsGiven, Logging
        <5> QED
            BY <2>4, <3>0, <5>1, <5>2
      <4> QED
          BY <3>1, <4>2, <4>3
    <3>3. CASE TruncateWAL
      <4>1. memtable = Empty
          BY <1>0, <3>3 DEF TruncateWAL, WriterAt, WriteTrail
      <4> QED
          BY <2>3, <2>4, <4>1
    <3>4. wal' = wal \/ AppendWAL \/ TruncateWAL
      <4>1. ~Kill /\ ~PowerLoss
          BY <1>1 DEF Kill, PowerLoss, LoseHandle
      <4> QED
          BY <4>1, DiskFrame DEF AppendWALFails, ApplyWrite, SyncReset, FlushWriteTmp,
             FlushRename, FlushRenameFails, FlushSyncDir, CompactWriteTmp, CompactRename,
             CompactRenameFails, CompactSyncDir, CompactRaced, CompactCleanup, Open,
             ReplayWAL, disk, log
    <3> QED
        BY <3>1, <3>2, <3>3, <3>4
  <2>5. FlushInstall => memtable' = Empty
      BY DEF FlushInstall
  <2>6. Open \/ up = "open"
      BY <1>1, HandleFrame DEF AppendWALFails, ApplyWrite, FlushWriteTmp, FlushWriteTmpFails,
         FlushInstall, CompactOpen, CompactSwap, CompactRaced, CompactCleanup, CloseBegin,
         CloseTables, LoseHandle, handle
  <2> QED
      BY <2>1, <2>2, <2>3, <2>4, <2>5, <2>6, MemtableStep
\* Of the tables and acknowledgements of before, an image knows no less.
<1>2. ASSUME NEW image \in WALImages', NEW k \in Key, Present(Replay(image)[k])
      PROVE  /\ acked[k] <= Replay(image)[k].id
             /\ \A t \in OnDisk : t.recs[k].id <= Replay(image)[k].id
  <2>1. CASE image \in WALImages
      BY <1>0, <1>2, <2>1 DEF LogIsNewest
  <2>2. CASE AppendWAL /\ k = writer.key /\ Replay(image)[k] = writer.entry
    <3>1. writer.pc = "append" /\ writer.entry.id = writes
        BY <1>0, <2>2 DEF AppendWAL, WriterAt, IdsGiven
    <3>2. \A t \in OnDisk : t.recs[k].id <= writes
        BY <1>0 DEF IdsGiven
    <3>3. acked[k] <= writes
        BY <1>0 DEF IdsGiven
    <3> QED
        BY <2>2, <3>1, <3>2, <3>3
  <2>3. CASE \E old \in WALImages : Replay(image)[k] = Replay(old)[k]
      BY <1>0, <1>2, <2>3 DEF LogIsNewest
  <2> QED
      BY <1>2, <2>1, <2>2, <2>3, ImageVersions
<1>3. ASSUME NEW image \in WALImages', NEW k \in Key, Present(Replay(image)[k])
      PROVE  acked'[k] <= Replay(image)[k].id
  <2>1. CASE acked'[k] = acked[k]
      BY <1>2, <1>3, <2>1
  <2>2. CASE ApplyWrite /\ k = writer.key /\ acked'[k] = writer.entry.id
    <3>1. image = wal /\ Replay(wal)[k] = writer.entry
        BY <2>2, AppliedIsLogged
    <3> QED
        BY <1>0, <2>2, <3>1
  <2>3. CASE SyncReset
    <3>1. wal = <<>> /\ wal' = wal /\ walDisk' = wal
        BY <1>0, <2>3 DEF SyncReset, SyncWAL, WriterAt, WriteTrail
    <3>2. image = <<>>
        BY <1>0, <3>1, ImagesAre, ImagesOfSynced
    <3> QED
        BY <1>3, <3>2, ReplayOfEmpty DEF Empty, NoEntry, Present
  <2> QED
      BY <2>1, <2>2, <2>3, AckedStep
<1>4. ASSUME NEW image \in WALImages', NEW k \in Key, Present(Replay(image)[k]),
             NEW t \in OnDisk'
      PROVE  t.recs[k].id <= Replay(image)[k].id
  <2>1. CASE t \in OnDisk
      BY <1>2, <1>4, <2>1
  <2>2. CASE FlushRename /\ t = writer.table
    <3>1. writer.pc = "rename" /\ up = "open" /\ t.recs = memtable
        BY <2>2, FlushedTable
    <3>2. UNCHANGED <<wal, walDisk>> /\ walDisk = wal
        BY <1>0, <2>2, <3>1 DEF FlushRename, log, WriteTrail
    <3>3. image = wal
        BY <1>0, <3>2, ImagesAre, ImagesOfSynced
    <3> QED
        BY <1>0, <3>1, <3>3 DEF LogIsNewest
  <2>3. CASE CompactRename /\ t = comp.table
    <3>1. CASE t.recs[k].id # 0
      <4>1. PICK u \in Range(comp.inputs) : u \in OnDisk /\ u.recs[k] = t.recs[k]
          BY <2>3, <3>1, RenamedMerge
      <4>2. u.recs[k].id <= Replay(image)[k].id
          BY <1>2, <1>4, <4>1
      <4> QED
          BY <4>1, <4>2
    <3>2. CASE t.recs[k].id = 0
      <4>1. image \in Seq(Record)
          BY <1>0, WALImagesTypeNext
      <4> QED
          BY <3>2, <4>1, ReplayType, VersionTypes
    <3> QED
        BY <3>1, <3>2
  <2> QED
      BY <1>0, <2>1, <2>2, <2>3, OnDiskStep
<1> QED
    BY <1>1, <1>3, <1>4 DEF LogIsNewest

LEMMA AckedIsHeldStep ==
    ASSUME ListInv, DataInv, [Next]_vars
    PROVE  AckedIsHeld'
<1> SUFFICES ASSUME NEW k \in Key
             PROVE  \/ acked'[k] = 0
                    \/ \E u \in Durable' : acked'[k] <= u.recs[k].id
                    \/ /\ up' = "open" => acked'[k] <= memtable'[k].id
                       /\ \A image \in WALImages' : Present(Replay(image)[k])
    BY DEF AckedIsHeld
<1>0. /\ AckedIsHeld /\ LogIsNewest /\ IdsGiven /\ WriteTrail /\ writer \in WriterType
      /\ wal \in Seq(Record) /\ wal \in WALImages /\ memtable \in Contents
      /\ memtable[k].id \in Nat /\ writer.entry.id \in Nat /\ acked[k] \in Nat
    BY StateTypes, StateVersions, ImagesAre, ImagesHold DEF DataInv, Entry
<1>1. CASE ApplyWrite /\ k = writer.key
  <2>1. /\ memtable' = [memtable EXCEPT ![k] = writer.entry]
        /\ Replay(wal)[k] = writer.entry /\ writer.entry.id # 0
        /\ \A image \in WALImages' : image = wal
        /\ acked[k] <= writer.entry.id
      BY <1>0, <1>1, AppliedIsLogged DEF IdsGiven
  <2>2. memtable'[k] = writer.entry
      BY <1>0, <2>1 DEF Contents
  <2>3. acked'[k] <= writer.entry.id
      BY <1>0, <1>1, <2>1, AckedStep
  <2> QED
      BY <2>1, <2>2, <2>3 DEF Present
<1>2. CASE SyncReset /\ k = writer.key /\ acked'[k] = writer.entry.id
  <2>1. Durable' = Durable /\ writer.pc = "resetsync"
      BY <1>2 DEF SyncReset, WriterAt, dir, Durable
  <2>2. PICK u \in Durable : u.recs[k].id >= writer.entry.id
      BY <1>0, <1>2, <2>1 DEF WriteTrail
  <2>3. u.recs[k].id \in Nat
      BY StateTypes, VersionTypes
  <2> QED
      BY <1>0, <1>2, <2>1, <2>2, <2>3
<1>3. ASSUME acked'[k] = acked[k], \A image \in WALImages : Present(Replay(image)[k]),
             ~TruncateWAL, NEW image \in WALImages'
      PROVE  Present(Replay(image)[k])
  <2>1. AppendWAL => Present(writer.entry)
      BY <1>0 DEF AppendWAL, WriterAt, IdsGiven, Present
  <2> QED
      BY <1>3, <2>1, ImageVersions
<1>4. CASE acked'[k] = acked[k] /\ ~(ApplyWrite /\ k = writer.key)
  <2>1. CASE acked[k] = 0
      BY <1>4, <2>1
  <2>2. CASE \E u \in Durable : acked[k] <= u.recs[k].id
    <3>1. PICK u \in Durable : acked[k] <= u.recs[k].id
        BY <2>2
    <3>2. PICK v \in Durable' : u.recs[k].id <= v.recs[k].id
        BY DurableStep
    <3>3. u.recs[k].id \in Nat /\ v.recs[k].id \in Nat
        BY StateTypes, NextTypes, VersionTypes
    <3> QED
        BY <1>0, <1>4, <3>1, <3>2, <3>3
  <2>3. CASE /\ up = "open" => acked[k] <= memtable[k].id
             /\ \A image \in WALImages : Present(Replay(image)[k])
    <3>1. CASE TruncateWAL
      <4>1. memtable = Empty /\ up = "open"
          BY <1>0, <3>1 DEF TruncateWAL, WriterAt, WriteTrail
      <4>2. acked[k] = 0
          BY <1>0, <2>3, <4>1 DEF Empty, NoEntry
      <4> QED
          BY <1>4, <4>2
    <3>2. CASE FlushInstall
      <4>1. writer.table.recs = memtable /\ writer.table \in Durable /\ up = "open"
            /\ Durable' = Durable
          BY <3>2 DEF FlushInstall, WriterAt, DataInv, TableContents, Flushing, disk, dir, Durable
      <4> QED
          BY <1>4, <2>3, <4>1
    <3>3. CASE ~TruncateWAL /\ (up' = "open" => acked[k] <= memtable'[k].id)
        BY <1>3, <1>4, <2>3, <3>3
    <3>4. CASE ApplyWrite
      <4>1. memtable' = [memtable EXCEPT ![writer.key] = writer.entry] /\ up = "open"
            /\ ~TruncateWAL
          BY <3>4 DEF ApplyWrite, TruncateWAL, WriterAt
      <4>2. memtable'[k] = memtable[k]
          BY <1>0, <1>4, <3>4, <4>1 DEF Contents
      <4> QED
          BY <2>3, <3>3, <4>1, <4>2
    <3>5. CASE Open
      <4>1. memtable' = Replay(wal) /\ ~TruncateWAL
          BY <3>5 DEF Open, ReplayWAL, TruncateWAL, WriterAt
      <4>2. acked[k] <= Replay(wal)[k].id
          BY <1>0, <2>3 DEF LogIsNewest
      <4> QED
          BY <3>3, <4>1, <4>2
    <3>6. CASE memtable' = memtable
      <4>1. up' = "open" => up = "open" \/ Open
          BY HandleFrame DEF AppendWALFails, ApplyWrite, FlushWriteTmp, FlushWriteTmpFails,
             FlushInstall, CompactOpen, CompactSwap, CompactRaced, CompactCleanup, CloseBegin,
             CloseTables, LoseHandle, handle
      <4> QED
          BY <2>3, <3>1, <3>3, <3>5, <3>6, <4>1
    <3>7. CASE up' = "down"
      <4>1. ~TruncateWAL
          BY <3>7 DEF TruncateWAL, WriterAt, handle
      <4> QED
          BY <3>3, <3>7, <4>1
    <3> QED
        BY <3>2, <3>4, <3>5, <3>6, <3>7, MemtableStep
  <2> QED
      BY <1>0, <2>1, <2>2, <2>3 DEF AckedIsHeld
<1> QED
    BY <1>1, <1>2, <1>4, AckedStep

LEMMA NoLostWriteStep ==
    ASSUME ListInv, DataInv, [Next]_vars
    PROVE  NoLostWrite'
<1> SUFFICES ASSUME up' = "open", NEW k \in Key
             PROVE  Visible(k)'.id >= acked'[k]
    BY DEF NoLostWrite
<1>0. /\ IdsGiven /\ WriteTrail /\ LogIsNewest /\ AckedIsHeld /\ NoLostWrite
      /\ writer.entry.id \in Nat /\ acked[k] \in Nat /\ acked'[k] \in Nat
      /\ Visible(k).id \in Nat /\ Visible(k)'.id \in Nat
      /\ wal \in Seq(Record) /\ wal \in WALImages
    BY StateTypes, StateVersions, NextVersions, ImagesAre, ImagesHold DEF DataInv
<1>1. CASE Open
  <2>1. /\ OnDisk' = OnDisk /\ memtable' = Replay(wal) /\ acked' = acked
      BY <1>1 DEF Open, LoadSSTables, ReplayWAL, OnDisk
  <2>2. CASE acked[k] = 0
      BY <1>0, <2>1, <2>2
  <2>3. CASE \E u \in Durable : acked[k] <= u.recs[k].id
    <3>1. PICK u \in Durable : acked[k] <= u.recs[k].id
        BY <2>3
    <3>2. u \in OnDisk' /\ u.recs[k].id \in Nat
        BY <2>1, StateTypes, StateVersions
    <3>3. u.recs[k].id <= Visible(k)'.id
        BY <3>2, ShownIsNewestStep DEF ShownIsNewest
    <3> QED
        BY <1>0, <2>1, <3>1, <3>2, <3>3
  <2>4. CASE Present(Replay(wal)[k])
    <3>1. acked[k] <= Replay(wal)[k].id /\ Visible(k)' = Replay(wal)[k]
        BY <1>0, <2>1, <2>4 DEF LogIsNewest, Visible
    <3> QED
        BY <1>0, <2>1, <3>1
  <2> QED
      BY <1>0, <2>2, <2>3, <2>4 DEF AckedIsHeld
<1>2. CASE up = "open"
  <2>0. acked[k] <= Visible(k).id
      BY <1>0, <1>2 DEF NoLostWrite
  <2>1. CASE ApplyWrite /\ k = writer.key /\ Visible(k)' = writer.entry
    <3>1. acked[k] <= writer.entry.id
        BY <1>0, <2>1, AppliedIsLogged DEF IdsGiven
    <3>2. acked'[k] = acked[k] \/ acked'[k] = writer.entry.id
        BY AckedStep
    <3> QED
        BY <1>0, <2>1, <3>1, <3>2
  <2>2. CASE Visible(k)' = Visible(k)
    <3>1. CASE acked'[k] = acked[k]
        BY <1>0, <2>0, <2>2, <3>1
    <3>2. CASE SyncReset /\ k = writer.key /\ acked'[k] = writer.entry.id
      <4>1. memtable = Empty /\ Newest(sstables, k) = writer.entry
          BY <1>0, <3>2 DEF SyncReset, WriterAt, WriteTrail
      <4>2. Visible(k) = writer.entry
          BY <4>1 DEF Visible, Empty, NoEntry, Present
      <4> QED
          BY <1>0, <2>2, <3>2, <4>2
    <3>3. CASE ApplyWrite /\ k = writer.key /\ acked'[k] = writer.entry.id
      <4>1. memtable'[k] = writer.entry /\ Present(writer.entry)
          BY <3>3, AppliedIsLogged, StateTypes DEF Contents, Present
      <4>2. Visible(k)' = writer.entry
          BY <4>1 DEF Visible
      <4> QED
          BY <1>0, <3>3, <4>2
    <3> QED
        BY <3>1, <3>2, <3>3, AckedStep
  <2> QED
      BY <1>2, <2>1, <2>2, VisibleStep
<1>3. Open \/ up = "open"
    BY HandleFrame DEF AppendWALFails, ApplyWrite, FlushWriteTmp, FlushWriteTmpFails,
       FlushInstall, CompactOpen, CompactSwap, CompactRaced, CompactCleanup, CloseBegin,
       CloseTables, LoseHandle, handle
<1> QED
    BY <1>1, <1>2, <1>3

----------------------------------------------------------------------------
LEMMA InitDataInv == Init => DataInv
<1> SUFFICES ASSUME Init PROVE DataInv
    OBVIOUS
<1> USE DEF Init
<1>1. OnDisk = {} /\ Durable = {} /\ Range(<<>>) = {} /\ Ascending(<<>>)
    BY DEF OnDisk, Durable, Range, Ascending
<1>2. IdsGiven /\ WriteTrail
    BY <1>1 DEF IdsGiven, WriteTrail, IdleWriter, Empty, NoEntry
<1>3. TableContents /\ NumbersGiven /\ InputsOnDisk /\ InputsCover /\ RemovalsCovered
    BY <1>1 DEF TableContents, Flushing, Merged, Merging, NumbersGiven, InputsOnDisk,
       InputsCover, RemovalsCovered, IdleWriter, IdleComp
<1>4. UniqueNames /\ VersionsOrdered /\ ShownIsNewest /\ ListCovers /\ NoLostWrite
    BY <1>1 DEF UniqueNames, VersionsOrdered, ShownIsNewest, ListCovers, NoLostWrite
<1>5. AckedIsHeld
    BY DEF AckedIsHeld
<1>6. LogIsNewest
  <2>1. <<>> \in Seq(Record)
      OBVIOUS
  <2>2. \A image \in WALImages : image = <<>>
      BY <2>1, ImagesAre, ImagesOfSynced
  <2>3. \A k \in Key : ~Present(Replay(<<>>)[k])
      BY ReplayOfEmpty DEF Empty, NoEntry, Present
  <2> QED
      BY <2>2, <2>3 DEF LogIsNewest
<1> QED
    BY <1>2, <1>3, <1>4, <1>5, <1>6 DEF DataInv

LEMMA DataInvStep == ListInv /\ DataInv /\ [Next]_vars => DataInv'
<1> SUFFICES ASSUME ListInv, DataInv, [Next]_vars PROVE DataInv'
    OBVIOUS
<1>1. InputsOnDisk'
    BY InputsOnDiskStep DEF DataInv
<1> QED
    BY <1>1, IdsGivenStep, WriteTrailStep, TableContentsStep, NumbersGivenStep,
       UniqueNamesStep, VersionsOrderedStep, ShownIsNewestStep, ListCoversStep,
       InputsCoverStep, RemovalsCoveredStep, LogIsNewestStep, AckedIsHeldStep,
       NoLostWriteStep DEF DataInv

\* In every reachable state, for any number of keys, readers, calls, crashes
\* and failures: the log, the memtable and the tables, in the directory and in
\* the list, hold the versions of each key that DataInv says.
THEOREM ContentsConsistent == Spec => []DataInv
<1>1. Init => ListInv /\ DataInv
    BY InitListInv, InitDataInv
<1>2. (ListInv /\ DataInv) /\ [Next]_vars => (ListInv /\ DataInv)'
    BY ListInvStep, DataInvStep
<1> QED
    BY <1>1, <1>2, PTL DEF Spec

\* Both invariants at once: in every reachable state the list, the files and
\* the calls in progress, and what each of them holds, fit together.
THEOREM EngineIsConsistent == Spec => []EngineInvariant
BY ListConsistent, ContentsConsistent, PTL DEF EngineInvariant

\* While the engine is open, Get of a key answers with the last write to it
\* that was acknowledged, or with a newer one: neither flush nor compaction
\* nor a restart after a crash lets an older version show.
THEOREM NothingAcknowledgedIsLost == Spec => []NoLostWrite
<1>1. DataInv => NoLostWrite
    BY DEF DataInv
<1> QED
    BY <1>1, ContentsConsistent, PTL
=============================================================================
