--------------------------- MODULE ContentsProofs ---------------------------
(***************************************************************************)
(* Proofs about Engine: what follows from DataInv for the callers.  A      *)
(* restart finds everything, a removed table is covered by others, the     *)
(* engine implements KVStore, and a Get is not older than its call.  Then  *)
(* the accounting of the memtable and the temporary files, and last the    *)
(* copies that Backup makes.                                               *)
(***************************************************************************)
EXTENDS DurabilityProofs, Backup

LEMMA ContentsHold == Spec => [](ListInv /\ DataInv)
    BY ListConsistent, ContentsConsistent, PTL

----------------------------------------------------------------------------
(* What a restart finds.                                                   *)

\* The CHOOSE in Loaded has a table to choose, and it covers the others.
LEMMA LoadedCovers ==
    ASSUME ListInv, DataInv, NEW S \in SUBSET OnDisk, IsFiniteSet(S),
           \A t, u \in S : Name(t) = Name(u) => t = u,
           NEW image, NEW k \in Key, ~Present(Replay(image)[k])
    PROVE  /\ Loaded(S, image, k).id \in Nat
           /\ \A u \in S : u.recs[k].id <= Loaded(S, image, k).id
<1> DEFINE hits == {t \in S : Present(t.recs[k])}
           newest == CHOOSE t \in hits : \A u \in hits \ {t} : Older(u, t)
<1>0. \A u \in S : u \in Table /\ u \in OnDisk /\ u.recs[k].id \in Nat
    BY StateTypes, StateVersions
<1>1. CASE hits = {}
  <2>1. Loaded(S, image, k) = NoEntry
      BY <1>1 DEF Loaded
  <2>2. \A u \in S : u.recs[k].id = 0
      BY <1>1 DEF Present
  <2> QED
      BY <2>1, <2>2 DEF NoEntry
<1>2. CASE hits # {}
  <2>1. Loaded(S, image, k) = newest.recs[k]
      BY <1>2 DEF Loaded
  <2>2. hits \in SUBSET Table /\ IsFiniteSet(hits)
        /\ \A t, u \in hits : Name(t) = Name(u) => t = u
      BY <1>0, FS_Subset
  <2>3. \E t \in hits : \A u \in hits \ {t} : Older(u, t)
      BY <1>2, <2>2, NewestFile
  <2> HIDE DEF hits
  <2>4. newest \in hits /\ \A u \in hits \ {newest} : Older(u, newest)
      BY <2>3
  <2> HIDE DEF newest
  <2>5. newest \in S /\ Present(newest.recs[k])
      BY <2>4 DEF hits
  <2>6. ASSUME NEW u \in S PROVE u.recs[k].id <= newest.recs[k].id
    <3>1. CASE u = newest
        BY <1>0, <3>1
    <3>2. CASE u \notin hits
      <4>1. u.recs[k].id = 0
          BY <3>2 DEF hits, Present
      <4> QED
          BY <1>0, <2>5, <4>1
    <3>3. CASE u \in hits /\ u # newest
      <4>1. Older(u, newest)
          BY <2>4, <3>3
      <4> QED
          BY <1>0, <2>5, <4>1 DEF DataInv, VersionsOrdered
    <3> QED
        BY <3>1, <3>2, <3>3
  <2> QED
      BY <1>0, <2>1, <2>5, <2>6
<1> QED
    BY <1>1, <1>2

LEMMA DirImageIs ==
    ASSUME ListInv, NEW S \in DirImages
    PROVE  /\ S \subseteq OnDisk /\ Durable \subseteq S /\ IsFiniteSet(S)
           /\ \A t, u \in S : Name(t) = Name(u) => t = u
<1>1. S \subseteq OnDisk /\ Durable \subseteq S
    BY DEF DirImages, OnDisk, Durable
<1>2. IsFiniteSet(OnDisk)
    BY FS_Union DEF ListInv, FiniteDisk, OnDisk
<1>3. IsFiniteSet(S)
    BY <1>1, <1>2, FS_Subset
<1>4. Cardinality({Name(t) : t \in S}) = Cardinality(S)
    BY DEF DirImages, Names
<1> QED
    BY <1>1, <1>3, <1>4, DistinctNames

\* Whatever a kill or a power failure leaves of the directory and of the log,
\* loadSSTables and replayWAL find every acknowledged write, or a newer one.
THEOREM CrashesLoseNothing == Spec => []AckedSurvives
<1>1. ASSUME ListInv, DataInv PROVE AckedSurvives
  <2> SUFFICES ASSUME NEW S \in DirImages, NEW image \in WALImages, NEW k \in Key
               PROVE  Loaded(S, image, k).id >= acked[k]
      BY DEF AckedSurvives
  <2>0. /\ S \subseteq OnDisk /\ Durable \subseteq S /\ IsFiniteSet(S)
        /\ \A t, u \in S : Name(t) = Name(u) => t = u
        /\ acked[k] \in Nat /\ image \in Seq(Record)
      BY <1>1, DirImageIs, StateVersions, WALImagesType DEF ListInv, TypeOK
  <2>1. CASE Present(Replay(image)[k])
    <3>1. acked[k] <= Replay(image)[k].id /\ Loaded(S, image, k) = Replay(image)[k]
        BY <1>1, <2>1 DEF DataInv, LogIsNewest, Loaded
    <3>2. Replay(image)[k].id \in Nat
        BY <2>0, ReplayType, VersionTypes
    <3> QED
        BY <2>0, <3>1, <3>2
  <2>2. CASE ~Present(Replay(image)[k])
    <3>1. /\ Loaded(S, image, k).id \in Nat
          /\ \A u \in S : u.recs[k].id <= Loaded(S, image, k).id
        BY <1>1, <2>0, <2>2, LoadedCovers
    <3>2. acked[k] = 0 \/ \E u \in Durable : acked[k] <= u.recs[k].id
        BY <1>1, <2>2 DEF DataInv, AckedIsHeld
    <3>3. \A u \in S : u.recs[k].id \in Nat
        BY <1>1, <2>0, StateVersions
    <3> QED
        BY <2>0, <3>1, <3>2, <3>3
  <2> QED
      BY <2>1, <2>2
<1> QED
    BY <1>1, ContentsHold, PTL

\* The log, and any files among which are the tables of the list, show nothing
\* older than the running engine does.
LEMMA FilesShowTheList ==
    ASSUME ListInv, DataInv, up = "open", NEW k \in Key,
           NEW S, Range(sstables) \subseteq S, S \subseteq files
    PROVE  Loaded(S, wal, k).id >= Visible(k).id
<1>0. /\ wal \in Seq(Record) /\ wal \in WALImages /\ S \subseteq OnDisk
      /\ IsFiniteSet(S) /\ sstables \in Seq(Table) /\ Range(sstables) \subseteq S
      /\ Visible(k).id \in Nat /\ memtable[k].id \in Nat
      /\ \A t \in OnDisk : t.recs[k].id \in Nat
    BY StateTypes, StateVersions, ImagesAre, ImagesHold, FS_Subset DEF ListInv, FiniteDisk
<1>1. Replay(wal)[k].id \in Nat /\ memtable[k].id <= Replay(wal)[k].id
    BY <1>0, ReplayType, VersionTypes DEF DataInv, LogIsNewest
<1>2. ASSUME Visible(k).id # 0, ~Present(memtable[k])
      PROVE  \E t \in S : t.recs[k].id = Visible(k).id
  <2>1. Present(Newest(sstables, k)) /\ Visible(k) = Newest(sstables, k)
      BY <1>2 DEF Visible, Present
  <2>2. PICK i \in DOMAIN sstables : sstables[i].recs[k] = Newest(sstables, k)
      BY <1>0, <2>1, NewestIsHeld
  <2>3. sstables[i] \in S
      BY <1>0 DEF Range
  <2> QED
      BY <2>1, <2>2, <2>3
<1>3. CASE Present(Replay(wal)[k])
  <2>1. Loaded(S, wal, k) = Replay(wal)[k]
      BY <1>3 DEF Loaded
  <2>2. CASE Present(memtable[k])
      BY <1>0, <1>1, <2>1, <2>2 DEF Visible
  <2>3. CASE ~Present(memtable[k]) /\ Visible(k).id # 0
    <3>1. PICK t \in S : t.recs[k].id = Visible(k).id
        BY <1>2, <2>3
    <3>2. t.recs[k].id <= Replay(wal)[k].id
        BY <1>0, <1>3, <3>1 DEF DataInv, LogIsNewest
    <3> QED
        BY <1>0, <1>1, <2>1, <3>1, <3>2
  <2>4. CASE Visible(k).id = 0
      BY <1>1, <2>1, <2>4
  <2> QED
      BY <2>2, <2>3, <2>4
<1>4. CASE ~Present(Replay(wal)[k])
  <2>1. ~Present(memtable[k])
      BY <1>0, <1>1, <1>4 DEF Present
  <2>2. /\ Loaded(S, wal, k).id \in Nat
        /\ \A u \in S : u.recs[k].id <= Loaded(S, wal, k).id
      BY <1>0, <1>4, LoadedCovers DEF DataInv, UniqueNames
  <2>3. CASE Visible(k).id # 0
      BY <1>0, <1>2, <2>1, <2>2, <2>3
  <2>4. CASE Visible(k).id = 0
      BY <2>2, <2>4
  <2> QED
      BY <2>3, <2>4
<1> QED
    BY <1>3, <1>4

\* Opening the files as they are now would answer with nothing older than the
\* running engine does: memory and directory agree at every moment.
THEOREM MemoryAndFilesAgree == Spec => []ReloadLosesNothing
<1>1. ASSUME ListInv, DataInv PROVE ReloadLosesNothing
  <2> SUFFICES ASSUME up = "open", NEW k \in Key
               PROVE  Loaded(files, wal, k).id >= Visible(k).id
      BY DEF ReloadLosesNothing
  <2> QED
      BY <1>1, StateTypes, FilesShowTheList
<1> QED
    BY <1>1, ContentsHold, PTL

----------------------------------------------------------------------------
(* What a running engine removes.                                          *)

\* Compact removes a table, one of its inputs or its own result, only while
\* other files that a power failure cannot take back have versions of all its
\* keys that are at least as new.
THEOREM RemovalsAreCovered == Spec => RemovedIsCovered
<1> DEFINE A == up' # "down" =>
                   \A t \in files \ files', k \in Key :
                      Present(t.recs[k]) =>
                         \E u \in files' \ unsynced' : u.recs[k].id >= t.recs[k].id
<1>1. ASSUME ListInv, DataInv, [Next]_vars PROVE A
  <2> SUFFICES ASSUME up' # "down", NEW t \in files \ files', NEW k \in Key
               PROVE  \E u \in files' \ unsynced' : u.recs[k].id >= t.recs[k].id
      OBVIOUS
  <2>1. CompactRaced \/ CompactCleanup
      BY <1>1, FilesGrow, PowerLossEnds
  <2>2. t \notin unsynced
    <3>1. CASE CompactRaced
      <4>1. t = comp.table /\ comp.pc = "swap"
          BY <3>1 DEF CompactRaced, CompAt
      <4> QED
          BY <1>1, <4>1 DEF ListInv, InputsDurable
    <3>2. CASE CompactCleanup
      <4>1. t = Head(comp.inputs) /\ comp.pc = "cleanup" /\ t \in Range(comp.inputs)
          BY <1>1, <3>2, CleanupFacts DEF CompactCleanup, CompAt
      <4> QED
          BY <1>1, <4>1 DEF ListInv, InputsDurable
    <3> QED
        BY <2>1, <3>1, <3>2
  <2>3. t \in Durable
      BY <2>2 DEF Durable
  <2>4. PICK u \in Durable' : t.recs[k].id <= u.recs[k].id
      BY <1>1, <2>3, DurableStep
  <2>5. t.recs[k].id \in Nat /\ u.recs[k].id \in Nat
      BY <1>1, StateTypes, NextTypes, VersionTypes
  <2> QED
      BY <2>4, <2>5 DEF Durable
<1>2. (ListInv /\ DataInv) /\ [Next]_vars => [A]_vars
    BY <1>1
<1> QED
    BY <1>2, ContentsHold, PTL DEF Spec, RemovedIsCovered

----------------------------------------------------------------------------
(* The engine implements KVStore.                                          *)

LEMMA StoreStep ==
    ASSUME ListInv, DataInv, [Next]_vars
    PROVE  \/ \E k \in Key : Abstract!Commit(k) \/ Abstract!Ack(k)
           \/ Abstract!Stop \/ Abstract!Recover
           \/ UNCHANGED Abstract!vars
<1> DEFINE store == [k \in Key |-> IF up = "open" THEN Visible(k) ELSE NoEntry]
<1>0. acked \in [Key -> Nat] /\ acked' \in [Key -> Nat]
    BY StateTypes, NextTypes
<1>s. /\ store = [k \in Key |-> store[k]] /\ store' = [k \in Key |-> store'[k]]
      /\ \A k \in Key : store[k] = IF up = "open" THEN Visible(k) ELSE NoEntry
      /\ \A k \in Key : store'[k] = IF up' = "open" THEN Visible(k)' ELSE NoEntry
    OBVIOUS
<1> HIDE DEF store
<1>1. CASE ApplyWrite
  <2>1. PICK k \in Key : k = writer.key
      BY <1>1, AppliedIsLogged
  <2>2. /\ up = "open" /\ up' = "open" /\ writer.pc = "sync"
        /\ memtable' = [memtable EXCEPT ![k] = writer.entry] /\ Present(writer.entry)
        /\ writer.entry.id = writes
      BY <1>1, <2>1, AppliedIsLogged DEF Present
  <2>3. store'[k] = writer.entry /\ writer.entry \in Entry
    <3>1. memtable'[k] = writer.entry
        BY <2>2, StateTypes DEF Contents
    <3> QED
        BY <1>s, <2>2, <3>1, StateTypes DEF Visible
  <2>4. \A j \in Key : j # k => store'[j] = store[j]
      BY <1>s, <2>1, <2>2, VisibleStep
  <2>5. writer.entry.id > store[k].id
    <3>1. memtable[k].id < writes /\ \A t \in OnDisk : t.recs[k].id < writes
        BY <2>2 DEF DataInv, IdsGiven
    <3>2. writes > 0 /\ writes \in Nat
        BY <1>1, AppliedIsLogged, StateTypes
    <3>3. Newest(sstables, k).id < writes
      <4>1. CASE Present(Newest(sstables, k))
        <5>1. PICK i \in DOMAIN sstables : sstables[i].recs[k] = Newest(sstables, k)
            BY <4>1, NewestIsHeld, StateTypes
        <5>2. sstables[i] \in OnDisk
            BY StateTypes DEF Range
        <5> QED
            BY <3>1, <5>1, <5>2
      <4>2. CASE ~Present(Newest(sstables, k))
          BY <3>2, <4>2 DEF Present
      <4> QED
          BY <4>1, <4>2
    <3>4. store[k].id \in Nat /\ store[k].id < writes
        BY <1>s, <2>2, <3>1, <3>3, StateVersions DEF Visible
    <3> QED
        BY <2>2, <3>2, <3>4
  <2>6. store' = [store EXCEPT ![k] = store'[k]]
    <3>1. \A j \in Key : store'[j] = IF j = k THEN store'[k] ELSE store[j]
        BY <2>4
    <3> QED
        BY <1>s, <3>1
  <2>7. acked' \in {acked, [acked EXCEPT ![k] = store'[k].id]}
      BY <1>1, <2>1, <2>3 DEF ApplyWrite, Return
  <2>8. Abstract!Commit(k)
      BY <2>2, <2>3, <2>5, <2>6, <2>7 DEF Abstract!Commit, Abstract!Version, Entry, store
  <2> QED
      BY <2>8
<1>2. CASE SyncReset
  <2>1. PICK k \in Key : k = writer.key
      BY <1>2, StateTypes DEF SyncReset, WriterAt
  <2>2. /\ up = "open" /\ up' = "open" /\ writer.pc = "resetsync" /\ UNCHANGED handle
        /\ acked' = [acked EXCEPT ![k] = writer.entry.id]
      BY <1>2, <2>1 DEF SyncReset, WriterAt, Return, handle
  <2>3. store[k] = writer.entry
    <3>1. memtable = Empty /\ Newest(sstables, k) = writer.entry
        BY <2>1, <2>2 DEF DataInv, WriteTrail
    <3> QED
        BY <1>s, <2>2, <3>1 DEF Visible, Empty, NoEntry, Present
  <2>4. store' = store
    <3>1. \A j \in Key : Visible(j)' = Visible(j)
        BY <2>2 DEF handle, Visible
    <3> QED
        BY <1>s, <2>2, <3>1
  <2>5. Abstract!Ack(k)
      BY <2>2, <2>3, <2>4 DEF Abstract!Ack, store
  <2> QED
      BY <2>5
<1>3. CASE ~ApplyWrite /\ ~SyncReset
  <2>1. acked' = acked
    <3>1. \A k \in Key : acked'[k] = acked[k]
        BY <1>3, AckedStep
    <3> QED
        BY <1>0, <3>1
  <2>2. CASE up = "open" /\ up' = "open"
    <3>1. \A k \in Key : store'[k] = store[k]
        BY <1>3, <1>s, <2>2, VisibleStep
    <3>2. store' = store
        BY <1>s, <3>1
    <3>3. UNCHANGED Abstract!vars
        BY <2>1, <2>2, <3>2 DEF Abstract!vars, store
    <3> QED
        BY <3>3
  <2>3. CASE up = "open" /\ up' # "open"
    <3>1. store' = [k \in Key |-> NoEntry]
        BY <1>s, <2>3
    <3>2. Abstract!Stop
        BY <2>1, <2>3, <3>1 DEF Abstract!Stop, Abstract!Nothing, store
    <3> QED
        BY <3>2
  <2>4. CASE up # "open" /\ up' = "open"
    <3>1. NoLostWrite'
        BY NoLostWriteStep
    <3>2. \A k \in Key : store'[k] \in Entry /\ store'[k].id >= acked[k]
        BY <1>s, <2>1, <2>4, <3>1, NextVersions DEF NoLostWrite
    <3>3. store' \in [Key -> Entry]
        BY <1>s, <3>2
    <3>4. Abstract!Recover
        BY <2>1, <2>4, <3>2, <3>3 DEF Abstract!Recover, Abstract!Version, Entry, store
    <3> QED
        BY <3>4
  <2>5. CASE up # "open" /\ up' # "open"
    <3>1. store' = store
        BY <1>s, <2>5
    <3>2. UNCHANGED Abstract!vars
        BY <2>1, <2>5, <3>1 DEF Abstract!vars, store
    <3> QED
        BY <3>2
  <2> QED
      BY <2>2, <2>3, <2>4, <2>5
<1> QED
    BY <1>1, <1>2, <1>3

\* To its callers the engine is the store of KVStore: while it is open, only a
\* Set or Delete changes what a key answers, to a newer version; flush and
\* compaction change nothing, and a restart brings back at least what was
\* acknowledged.
THEOREM EngineImplementsKVStore == Spec => Implements
<1>1. Init => Abstract!Init
  <2> SUFFICES ASSUME Init PROVE Abstract!Init
      OBVIOUS
  <2> QED
      BY DEF Init, Abstract!Init, Abstract!Nothing
<1>2. (ListInv /\ DataInv) /\ [Next]_vars => [Abstract!Next]_(Abstract!vars)
    BY StoreStep DEF Abstract!Next
<1> QED
    BY <1>1, <1>2, ContentsHold, PTL DEF Spec, Implements, Abstract!Spec

----------------------------------------------------------------------------
(* A Get is not older than its call.                                       *)

\* The tables alone show versions that only become newer.
LEMMA NewestGrows ==
    ASSUME ListInv, DataInv, [Next]_vars, up = "open", up' = "open", NEW k \in Key
    PROVE  Newest(sstables, k).id <= Newest(sstables', k).id
<1>0. Newest(sstables, k).id \in Nat /\ memtable[k].id \in Nat
    BY StateVersions
<1>1. CASE FlushInstall
  <2>1. sstables' = Append(sstables, writer.table) /\ writer.table.recs = memtable
      BY <1>1 DEF FlushInstall, DataInv, TableContents, WriterAt, Flushing
  <2>2. Newest(sstables', k) =
            IF Present(memtable[k]) THEN memtable[k] ELSE Newest(sstables, k)
      BY <2>1, StateTypes, NewestAppend
  <2>3. ASSUME Present(memtable[k]), Present(Newest(sstables, k))
        PROVE  Newest(sstables, k).id <= memtable[k].id
    <3>1. PICK i \in DOMAIN sstables : sstables[i].recs[k] = Newest(sstables, k)
        BY <2>3, NewestIsHeld, StateTypes
    <3>2. sstables[i] \in OnDisk
        BY StateTypes DEF Range
    <3>3. Visible(k) = memtable[k]
        BY <2>3 DEF Visible
    <3> QED
        BY <3>1, <3>2, <3>3 DEF DataInv, ShownIsNewest
  <2> QED
      BY <1>0, <2>2, <2>3 DEF Present
<1>2. CASE CompactSwap
  <2> DEFINE n == Len(comp.inputs)
  <2>1. /\ sstables' = SwapIn(comp.table, n, sstables)
        /\ IsPrefixOf(comp.inputs, sstables) /\ comp.pc = "swap"
      BY <1>2 DEF CompactSwap, CompAt
  <2>2. comp.table.recs = Merge(comp.inputs) /\ comp.inputs # <<>>
      BY <2>1 DEF DataInv, TableContents, Merged, ListInv, InputsLive, Merging
  <2>3. n \in 1 .. Len(sstables) /\ \A i \in 1 .. n : comp.inputs[i] = sstables[i]
      BY <2>1, <2>2, StateTypes DEF IsPrefixOf
  <2>4. Newest(sstables', k) = Newest(sstables, k)
      BY <2>1, <2>2, <2>3, StateTypes, NewestSwapIn
  <2> QED
      BY <1>0, <2>4
<1>3. CASE UNCHANGED sstables
    BY <1>0, <1>3
<1>4. CASE \/ AppendWALFails \/ ApplyWrite \/ FlushWriteTmp \/ FlushWriteTmpFails
           \/ CompactOpen \/ CompactRaced \/ CompactCleanup \/ CloseBegin \/ UNCHANGED handle
  <2>1. UNCHANGED sstables
      BY <1>4 DEF AppendWALFails, ApplyWrite, FlushWriteTmp, FlushWriteTmpFails, CompactOpen,
             CompactRaced, CompactCleanup, CloseBegin, handle
  <2> QED
      BY <1>3, <2>1
<1>5. ~Open /\ ~CloseTables /\ ~LoseHandle
    BY DEF Open, CloseTables, LoseHandle
<1> QED
    BY <1>1, <1>2, <1>4, <1>5, HandleFrame

LEMMA ReadFaultsStep ==
    [Next]_vars =>
        \/ \E r \in Reader : GetReadFails(r)
        \/ UNCHANGED readFaults
<1>1. Write => UNCHANGED readFaults
    BY DEF Write, BeginWrite, AppendWAL, AppendWALFails, ApplyWrite, SyncWALFails,
           FlushWriteTmp, FlushWriteTmpFails, FlushRename, FlushRenameFails,
           FlushSyncDir, FlushOrphan, FlushInstall, TruncateWAL, SyncReset, ResetWALFails,
           Fails, counters
<1>2. Compact => UNCHANGED readFaults
    BY DEF Compact, CompactBegin, CompactAcquire, CompactMerge, CompactMergeFails,
           CompactWriteTmp, CompactWriteTmpFails, CompactRename, CompactRenameFails,
           CompactSyncDir, CompactOrphan, CompactOpen, CompactSwap, CompactRaced,
           CompactCleanup, Fails, counters
<1>3. ASSUME NEW r \in Reader, Get(r) PROVE GetReadFails(r) \/ UNCHANGED readFaults
    BY <1>3 DEF Get, GetMemtable, GetTables, GetRead, GetReturn, counters
<1>4. Open \/ CloseBegin \/ CloseTables \/ Exit \/ Kill \/ PowerLoss \/ UNCHANGED vars
         => UNCHANGED readFaults
    BY DEF Open, CloseBegin, CloseTables, Exit, Kill, PowerLoss, vars, counters
<1> QED
    BY <1>1, <1>2, <1>3, <1>4 DEF Next

\* One reader between its steps.
Fresh(g, list, open, fails) ==
    /\ g.pc = "tables" /\ open => g.floor <= Newest(list, g.key).id
    /\ g.pc = "read" => g.floor <= Newest(g.tables, g.key).id
    /\ g.pc = "done" /\ fails = 0 => g.floor <= g.result.id

\* The steps of a Get: the memtable's answer is the newest, the list is taken
\* whole, and since all its tables are open the search passes over none.
LEMMA GetStepsFresh ==
    ASSUME ListInv, DataInv, NEW r \in Reader, Get(r),
           Fresh(reader[r], sstables, up = "open", readFaults)
    PROVE  Fresh(reader'[r], sstables', up' = "open", readFaults')
<1>0. /\ reader \in [Reader -> ReaderType] /\ reader[r] \in ReaderType
      /\ reader[r].pc # "idle" => reader[r].key \in Key
      /\ readFaults \in Nat /\ sstables \in Seq(Table)
    BY DEF ListInv, TypeOK, CallTypeOK, HistoryTypeOK, HandleTypeOK
<1>k. UNCHANGED <<sstables, up>>
    BY GetKeeps DEF handle
<1>1. ASSUME NEW k \in Key, GetMemtable(r, k)
      PROVE  Fresh(reader'[r], sstables', up' = "open", readFaults')
  <2> DEFINE g == reader'[r]
  <2>1. g = [IdleReader EXCEPT !.key = k, !.floor = Visible(k).id,
                 !.pc = IF Present(memtable[k]) THEN "done" ELSE "tables",
                 !.result = memtable[k]]
      BY <1>0, <1>1 DEF GetMemtable
  <2>2. /\ g.key = k /\ g.floor = Visible(k).id /\ g.result = memtable[k]
        /\ g.pc = IF Present(memtable[k]) THEN "done" ELSE "tables"
      BY <2>1 DEF IdleReader
  <2> HIDE DEF g
  <2>3. Visible(k).id \in Nat
      BY StateVersions
  <2>4. Visible(k) = IF g.pc = "done" THEN memtable[k] ELSE Newest(sstables, k)
      BY <2>2 DEF Visible
  <2>5. Fresh(g, sstables, up = "open", readFaults')
      BY <2>2, <2>3, <2>4 DEF Fresh
  <2> QED
      BY <1>k, <2>5 DEF g
<1>2. ASSUME GetTables(r)
      PROVE  Fresh(reader'[r], sstables', up' = "open", readFaults')
  <2> DEFINE g == reader'[r]
  <2>1. /\ g.pc = "read" /\ g.tables = sstables /\ g.key = reader[r].key
        /\ g.floor = IF up = "open" THEN reader[r].floor ELSE 0
      BY <1>0, <1>2 DEF GetTables, ReaderType
  <2>2. reader[r].pc = "tables" /\ g.key \in Key
      BY <1>0, <1>2, <2>1 DEF GetTables
  <2>3. Newest(sstables, g.key).id \in Nat
      BY <1>0, <2>2, VersionTypes
  <2> HIDE DEF g
  <2>4. Fresh(g, sstables', up' = "open", readFaults')
      BY <2>1, <2>2, <2>3 DEF Fresh
  <2> QED
      BY <2>4 DEF g
<1>3. ASSUME GetRead(r)
      PROVE  Fresh(reader'[r], sstables', up' = "open", readFaults')
  <2> DEFINE g == reader'[r]
             tables == reader[r].tables
             closed == {i \in DOMAIN tables : tables[i] \notin opened}
  <2>1. reader[r].pc = "read" /\ reader[r].key \in Key /\ tables \in Seq(Table)
      BY <1>0, <1>3 DEF GetRead, ReaderType
  <2>2. /\ g.pc = "done" /\ g.floor = reader[r].floor
        /\ g.result = Search(r, closed)
      BY <1>0, <1>3 DEF GetRead, ReaderType
  <2>3. \A i \in DOMAIN tables : tables[i] \in opened
      BY <2>1 DEF ListInv, FilesOpen, Range
  <2>4. DOMAIN tables \ closed = DOMAIN tables
      BY <2>3
  <2>5. Search(r, closed) = Newest(tables, reader[r].key)
      BY <2>4 DEF Search, Newest
  <2>6. reader[r].floor <= Newest(tables, reader[r].key).id
      BY <2>1 DEF Fresh
  <2> HIDE DEF g, tables, closed
  <2>7. Fresh(g, sstables', up' = "open", readFaults')
      BY <2>2, <2>5, <2>6 DEF Fresh
  <2> QED
      BY <2>7 DEF g
<1>4. ASSUME GetReadFails(r)
      PROVE  Fresh(reader'[r], sstables', up' = "open", readFaults')
  <2>1. readFaults' # 0
      BY <1>0, <1>4 DEF GetReadFails
  <2>2. PICK P : reader' = [reader EXCEPT ![r].pc = "done", ![r].tables = <<>>,
                                          ![r].result = Search(r, P)]
      BY <1>4 DEF GetReadFails
  <2>3. reader'[r].pc = "done"
      BY <1>0, <2>2 DEF ReaderType
  <2> QED
      BY <2>1, <2>3 DEF Fresh
<1>5. ASSUME GetReturn(r)
      PROVE  Fresh(reader'[r], sstables', up' = "open", readFaults')
  <2>1. reader'[r].pc = "idle"
      BY <1>0, <1>5 DEF GetReturn, IdleReader
  <2> QED
      BY <2>1 DEF Fresh
<1> QED
    BY <1>1, <1>2, <1>3, <1>4, <1>5 DEF Get

\* Only Open opens.
LEMMA UpStep ==
    ASSUME [Next]_vars, up' = "open"
    PROVE  up = "open" \/ Open
<1>1. ~CloseBegin /\ ~CloseTables /\ ~LoseHandle
    BY DEF CloseBegin, CloseTables, LoseHandle
<1>2. CASE \/ AppendWALFails \/ ApplyWrite \/ FlushWriteTmp \/ FlushWriteTmpFails
           \/ FlushInstall \/ CompactOpen \/ CompactSwap \/ CompactRaced \/ CompactCleanup
           \/ UNCHANGED handle
  <2>1. UNCHANGED up
      BY <1>2 DEF AppendWALFails, ApplyWrite, FlushWriteTmp, FlushWriteTmpFails, FlushInstall,
             CompactOpen, CompactSwap, CompactRaced, CompactCleanup, handle
  <2> QED
      BY <2>1
<1> QED
    BY <1>1, <1>2, HandleFrame

LEMMA ReaderFreshStep ==
    ASSUME ListInv, DataInv, ReaderFresh, [Next]_vars
    PROVE  ReaderFresh'
<1>0. /\ reader \in [Reader -> ReaderType] /\ readFaults \in Nat
      /\ \A r \in Reader : reader[r].pc # "idle" => reader[r].key \in Key
    BY DEF ListInv, TypeOK, CallTypeOK, HistoryTypeOK
<1>f. \A r \in Reader : Fresh(reader[r], sstables, up = "open", readFaults)
    BY DEF ReaderFresh, Fresh
<1> SUFFICES ASSUME NEW r \in Reader
             PROVE  Fresh(reader'[r], sstables', up' = "open", readFaults')
    BY DEF ReaderFresh, Fresh
<1>1. CASE Get(r)
    BY <1>1, <1>f, GetStepsFresh
<1>2. CASE reader' = [x \in Reader |-> IdleReader]
    BY <1>2 DEF Fresh, IdleReader
<1>3. CASE ~Get(r) /\ reader' # [x \in Reader |-> IdleReader]
  <2>1. (\E x \in Reader : x # r /\ Get(x)) \/ UNCHANGED reader
      BY <1>3, ReaderFrame
  <2>2. reader'[r] = reader[r]
    <3>1. ASSUME NEW x \in Reader, x # r, Get(x) PROVE reader'[r] = reader[r]
        BY <1>0, <3>1 DEF Get, GetMemtable, GetTables, GetRead, GetReadFails, GetReturn
    <3> QED
        BY <2>1, <3>1
  <2>3. readFaults' = 0 => readFaults = 0
    <3>1. ASSUME NEW x \in Reader, GetReadFails(x) PROVE readFaults' # 0
        BY <1>0, <3>1 DEF GetReadFails
    <3> QED
        BY <3>1, ReadFaultsStep
  <2>4. ASSUME reader[r].pc = "tables", up' = "open"
        PROVE  reader[r].floor <= Newest(sstables', reader[r].key).id
    <3>1. up # "down"
        BY <2>4 DEF ListInv, Modes
    <3>2. up = "open"
        BY <2>4, <3>1, UpStep DEF Open
    <3>3. reader[r].key \in Key /\ reader[r].floor \in Nat
        BY <1>0, <2>4 DEF ReaderType
    <3>4. reader[r].floor <= Newest(sstables, reader[r].key).id
        BY <1>f, <2>4, <3>2 DEF Fresh
    <3>5. Newest(sstables, reader[r].key).id <= Newest(sstables', reader[r].key).id
        BY <2>4, <3>2, <3>3, NewestGrows
    <3>6. /\ Newest(sstables, reader[r].key).id \in Nat
          /\ Newest(sstables', reader[r].key).id \in Nat
        BY <3>3, StateTypes, NextTypes, VersionTypes
    <3> QED
        BY <3>3, <3>4, <3>5, <3>6
  <2>5. Fresh(reader[r], sstables', up' = "open", readFaults')
      BY <1>f, <2>3, <2>4 DEF Fresh
  <2> QED
      BY <2>2, <2>5
<1> QED
    BY <1>1, <1>2, <1>3

LEMMA FreshReaders == Spec => []ReaderFresh
<1>1. Init => ReaderFresh
    BY DEF Init, ReaderFresh, IdleReader
<1>2. ListInv /\ DataInv /\ ReaderFresh /\ [Next]_vars => ReaderFresh'
    BY ReaderFreshStep
<1> QED
    BY <1>1, <1>2, ContentsHold, PTL DEF Spec

\* A Get answers with nothing older than what its key showed when it was
\* called, whatever is flushed, merged, removed or closed in the meantime, as
\* long as no table read has failed.  (An engine that is closed under the Get
\* promises nothing, for its list is empty.)
THEOREM GetsAreFresh == Spec => [](readFaults = 0 => GetIsFresh)
<1>1. ASSUME ListInv, ReaderFresh, readFaults = 0 PROVE GetIsFresh
  <2> SUFFICES ASSUME NEW r \in Reader, reader[r].pc = "done"
               PROVE  reader[r].result.id >= reader[r].floor
      BY DEF GetIsFresh
  <2>1. reader[r].floor <= reader[r].result.id
      BY <1>1 DEF ReaderFresh
  <2>2. reader[r].floor \in Nat /\ reader[r].result.id \in Nat
      BY <1>1 DEF ListInv, TypeOK, CallTypeOK, ReaderType, Entry
  <2> QED
      BY <2>1, <2>2
<1> QED
    BY <1>1, ContentsHold, FreshReaders, PTL

----------------------------------------------------------------------------
(* The size of the memtable, and the temporary files.                      *)

LEMMA MemBytesStep ==
    ASSUME ListInv, DataInv, MemBytesExact, [Next]_vars
    PROVE  MemBytesExact'
<1> SUFFICES ASSUME up' = "open" PROVE memBytes' = MemSize(memtable')
    BY DEF MemBytesExact
<1>1. CASE ApplyWrite
  <2>1. PICK k \in Key : k = writer.key
      BY <1>1, AppliedIsLogged
  <2>2. /\ up = "open" /\ Present(writer.entry) /\ writer.entry \in Entry
        /\ memtable \in Contents /\ memtable' = [memtable EXCEPT ![k] = writer.entry]
        /\ memBytes' = memBytes + Growth(memtable[k], writer.entry)
      BY <1>1, <2>1, AppliedIsLogged, StateTypes DEF ApplyWrite, Present
  <2>3. MemSize([memtable EXCEPT ![k] = writer.entry])
            = MemSize(memtable) + Growth(memtable[k], writer.entry)
      BY <2>2, MemSizeGrows
  <2> QED
      BY <2>2, <2>3 DEF MemBytesExact
<1>2. CASE FlushInstall
    BY <1>2, MemSizeOfEmpty DEF FlushInstall
<1>3. CASE Open
    BY <1>3 DEF Open, ReplayWAL
<1>4. CASE \/ AppendWALFails \/ FlushWriteTmp \/ FlushWriteTmpFails \/ CompactOpen
           \/ CompactSwap \/ CompactRaced \/ CompactCleanup \/ UNCHANGED handle
  <2>1. UNCHANGED <<up, memtable, memBytes>>
      BY <1>4 DEF AppendWALFails, FlushWriteTmp, FlushWriteTmpFails, CompactOpen,
             CompactSwap, CompactRaced, CompactCleanup, handle
  <2> QED
      BY <2>1 DEF MemBytesExact
<1>5. ~CloseBegin /\ ~CloseTables /\ ~LoseHandle
    BY DEF CloseBegin, CloseTables, LoseHandle
<1> QED
    BY <1>1, <1>2, <1>3, <1>4, <1>5, HandleFrame

\* The total that Set and Delete keep by adding and subtracting, and compare
\* with the flush threshold, is at every moment the size of the memtable.
THEOREM FlushTotalIsExact == Spec => []MemBytesExact
<1>1. Init => MemBytesExact
    BY DEF Init, MemBytesExact
<1>2. ListInv /\ DataInv /\ MemBytesExact /\ [Next]_vars => MemBytesExact'
    BY MemBytesStep
<1> QED
    BY <1>1, <1>2, ContentsHold, PTL DEF Spec

LEMMA TmpsStep ==
    ASSUME ListInv, [Next]_vars, up' = "open", NEW n \in tmps'
    PROVE  \/ n \in tmps /\ up = "open"
           \/ writer'.pc = "rename" /\ n = Name(writer'.table)
           \/ comp'.pc = "rename" /\ n = Name(comp'.table)
<1>1. CASE FlushWriteTmp
  <2>1. PICK t : /\ tmps' = tmps \cup {Name(t)} /\ up = "open"
                 /\ writer' = [writer EXCEPT !.pc = "rename", !.table = t]
      BY <1>1 DEF FlushWriteTmp, WriterAt
  <2>2. writer'.pc = "rename" /\ writer'.table = t
      BY <2>1, StateTypes DEF WriterType
  <2> QED
      BY <2>1, <2>2
<1>2. CASE CompactWriteTmp
  <2>1. /\ tmps' = tmps \cup {Name(comp.table)} /\ up' = up
        /\ comp' = [comp EXCEPT !.pc = "rename"]
      BY <1>2 DEF CompactWriteTmp, CompGoto, handle
  <2>2. comp'.pc = "rename" /\ comp'.table = comp.table
      BY <2>1, StateTypes DEF CompType
  <2> QED
      BY <2>1, <2>2
<1>3. CASE Open
    BY <1>3 DEF Open, LoadSSTables
<1>4. ~PowerLoss /\ ~Kill
    BY DEF PowerLoss, Kill, LoseHandle
<1>5. CASE ~FlushWriteTmp /\ ~CompactWriteTmp /\ ~Open
  <2>1. tmps' \subseteq tmps
    <3>1. CASE \/ AppendWAL \/ AppendWALFails \/ ApplyWrite \/ TruncateWAL \/ SyncReset
               \/ FlushRename \/ FlushRenameFails \/ FlushSyncDir
        BY <3>1 DEF AppendWAL, AppendWALFails, ApplyWrite, TruncateWAL, SyncReset,
               FlushRename, FlushRenameFails, FlushSyncDir, dir
    <3>2. CASE \/ CompactRename \/ CompactRenameFails \/ CompactSyncDir
               \/ CompactRaced \/ CompactCleanup \/ UNCHANGED disk
        BY <3>2 DEF CompactRename, CompactRenameFails, CompactSyncDir,
               CompactRaced, CompactCleanup, disk
    <3> QED
        BY <1>4, <1>5, <3>1, <3>2, DiskFrame
  <2> QED
      BY <1>5, <2>1, UpStep
<1> QED
    BY <1>1, <1>2, <1>3, <1>5

LEMMA RenameSteps ==
    ASSUME [Next]_vars, up' = "open"
    PROVE  /\ writer.pc = "rename" => FlushRename \/ FlushRenameFails \/ UNCHANGED writer
           /\ comp.pc = "rename" => CompactRename \/ CompactRenameFails \/ UNCHANGED comp
<1>1. ASSUME writer.pc = "rename", Write
      PROVE  FlushRename \/ FlushRenameFails
    BY <1>1 DEF Write, BeginWrite, MuFree, AppendWAL, AppendWALFails, ApplyWrite,
           SyncWALFails, FlushWriteTmp, FlushWriteTmpFails, FlushSyncDir, FlushOrphan,
           FlushInstall, TruncateWAL, SyncReset, ResetWALFails, WriterAt
<1>2. ASSUME comp.pc = "rename", Compact
      PROVE  CompactRename \/ CompactRenameFails
    BY <1>2 DEF Compact, CompactBegin, CompactAcquire, CompactMerge, CompactMergeFails,
           CompactWriteTmp, CompactWriteTmpFails, CompactSyncDir, CompactOrphan,
           CompactOpen, CompactSwap, CompactRaced, CompactCleanup, CompAt
<1>3. CASE Write
    BY <1>1, <1>3, WriteKeeps
<1>4. CASE Compact
    BY <1>2, <1>4, CompactKeeps
<1>5. CASE \E r \in Reader : Get(r)
    BY <1>5, GetKeeps
<1>6. CASE Open \/ CloseBegin \/ CloseTables \/ UNCHANGED vars
    BY <1>6 DEF Open, CloseBegin, CloseTables, vars
<1>7. ~Exit /\ ~Kill /\ ~PowerLoss
    BY DEF Exit, Kill, PowerLoss, LoseHandle
<1> QED
    BY <1>3, <1>4, <1>5, <1>6, <1>7 DEF Next

LEMMA NoStrayTmpStep ==
    ASSUME ListInv, NoStrayTmp, [Next]_vars
    PROVE  NoStrayTmp'
<1> SUFFICES ASSUME up' = "open", NEW n \in tmps'
             PROVE  \/ writer'.pc = "rename" /\ n = Name(writer'.table)
                    \/ comp'.pc = "rename" /\ n = Name(comp'.table)
    BY DEF NoStrayTmp
<1> SUFFICES ASSUME n \in tmps, up = "open"
             PROVE  \/ writer'.pc = "rename" /\ n = Name(writer'.table)
                    \/ comp'.pc = "rename" /\ n = Name(comp'.table)
    BY TmpsStep
<1>1. CASE writer.pc = "rename" /\ n = Name(writer.table)
  <2>1. ~FlushRename /\ ~FlushRenameFails
      BY <1>1 DEF FlushRename, FlushRenameFails
  <2> QED
      BY <1>1, <2>1, RenameSteps
<1>2. CASE comp.pc = "rename" /\ n = Name(comp.table)
  <2>1. ~CompactRename /\ ~CompactRenameFails
      BY <1>2 DEF CompactRename, CompactRenameFails
  <2> QED
      BY <1>2, <2>1, RenameSteps
<1> QED
    BY <1>1, <1>2 DEF NoStrayTmp

\* While the engine is open, a .tmp file belongs to the flush or the merge
\* that is writing it: failures remove theirs, and Open those of a crash.
THEOREM TmpFilesAreInUse == Spec => []NoStrayTmp
<1>1. Init => NoStrayTmp
    BY DEF Init, NoStrayTmp
<1>2. ListInv /\ NoStrayTmp /\ [Next]_vars => NoStrayTmp'
    BY NoStrayTmpStep
<1> QED
    BY <1>1, <1>2, ListConsistent, PTL DEF Spec

----------------------------------------------------------------------------
(* The copies that Snapshot makes while the engine goes on.                *)

BackupType ==
    [name : Nat, log : Seq(Record), tables : SUBSET Table, shown : [Key -> Nat], asOf : Nat]

\* What is known of the copy in progress: nothing that Open would read has
\* changed since db.mu was taken.
Copying(b) ==
    /\ b.asOf = writes
    /\ \A k \in Key : b.shown[k] = Visible(k).id
    /\ snap.pc = "wal" => b.tables = {}
    /\ snap.pc = "tables" => b.log = wal /\ b.tables \cup Range(snap.todo) = Range(sstables)

SnapTypeOK ==
    /\ snap \in [pc : {"idle", "wal", "tables"}, name : Nat, todo : Seq(Table)]
    /\ snapshots \in Nat
    /\ backups \in SUBSET BackupType
    /\ \A b \in backups : b.name \in 1 .. snapshots

OneCopyAName == \A b, c \in backups : b.name = c.name => b = c

SnapHasMu ==
    snap.pc # "idle" => up = "open" /\ writer.pc = "idle" /\ snap.name \in 1 .. snapshots

SnapHasCopy == snap.pc # "idle" => \E b \in backups : Current(b)

CopiesAreTrue == \A b \in backups : ~Finished(b) => Copying(b)

SnapInv ==
    SnapTypeOK /\ OneCopyAName /\ SnapHasMu /\ SnapHasCopy /\ CopiesAreTrue /\ ListedIsConsistent


\* The whole copy of the log and of the tables of the list opens to what was
\* visible, and to nothing that was written later.
LEMMA FullCopyIsWhole ==
    ASSUME ListInv, DataInv, up = "open", NEW k \in Key
    PROVE  Loaded(Range(sstables), wal, k).id \in Visible(k).id .. writes
<1> DEFINE S == Range(sstables)
           found == Loaded(S, wal, k)
<1>0. /\ wal \in Seq(Record) /\ S \subseteq files /\ S \subseteq OnDisk /\ IsFiniteSet(S)
      /\ Visible(k).id \in Nat /\ writes \in Nat
      /\ \A t \in OnDisk : t.recs[k].id \in Nat /\ t.recs[k].id <= writes
  BY StateTypes, StateVersions, FS_Subset DEF ListInv, FiniteDisk, DataInv, IdsGiven
<1>1. found.id >= Visible(k).id
  BY <1>0, FilesShowTheList
<1>2. Replay(wal)[k].id \in Nat /\ Replay(wal)[k].id <= writes
  <2>1. Replay(wal)[k].id \in Nat
    BY <1>0, ReplayType, VersionTypes
  <2>2. CASE Replay(wal)[k] = NoEntry
    BY <1>0, <2>2 DEF NoEntry
  <2>3. CASE \E m \in DOMAIN wal : Replay(wal)[k] = wal[m].entry
    BY <2>1, <2>3 DEF DataInv, IdsGiven
  <2> QED BY <1>0, <2>1, <2>2, <2>3, ReplayCases
<1>3. found.id \in Nat /\ found.id <= writes
  <2>1. CASE Present(Replay(wal)[k])
    BY <1>2, <2>1 DEF Loaded
  <2>2. CASE ~Present(Replay(wal)[k])
    <3> DEFINE hits == {t \in S : Present(t.recs[k])}
               newest == CHOOSE t \in hits : \A u \in hits \ {t} : Older(u, t)
    <3>1. \A t, u \in S : Name(t) = Name(u) => t = u
      BY <1>0 DEF DataInv, UniqueNames
    <3>2. CASE hits = {}
      <4>1. found = NoEntry
        BY <2>2, <3>2 DEF Loaded
      <4> QED BY <1>0, <4>1 DEF NoEntry
    <3>3. CASE hits # {}
      <4>1. found = newest.recs[k]
        BY <2>2, <3>3 DEF Loaded
      <4>2. hits \in SUBSET Table /\ IsFiniteSet(hits)
            /\ \A t, u \in hits : Name(t) = Name(u) => t = u
        BY <1>0, <3>1, FS_Subset, StateTypes
      <4>3. \E t \in hits : \A u \in hits \ {t} : Older(u, t)
        BY <3>3, <4>2, NewestFile
      <4> HIDE DEF hits
      <4>4. newest \in hits
        BY <4>3
      <4> HIDE DEF newest
      <4>5. newest \in OnDisk
        BY <1>0, <4>4 DEF hits
      <4> QED BY <1>0, <4>1, <4>5
    <3> QED BY <3>2, <3>3
  <2> QED BY <2>1, <2>2
<1> HIDE DEF found
<1>4. found.id \in Visible(k).id .. writes
  BY <1>0, <1>1, <1>3
<1> QED BY <1>4 DEF found

----------------------------------------------------------------------------
(* The engine's invariants under the steps of Snapshot.                    *)

LEMMA EngineStepsAre == EngineStep => [Next]_vars
BY DEF EngineStep, WithMu, WithoutMu, Next, Compact, Get

\* Snapshot leaves the engine as it is, but for an fsync of wal.bin, which
\* leaves fewer images of it.
LEMMA SyncKeeps ==
    ASSUME ListInv, DataInv, writer.pc = "idle",
           walDisk' \in {wal, walDisk}, faults' \in Nat,
           UNCHANGED <<wal, torn, dir, handle, writer, comp, reader, acked>>,
           UNCHANGED <<writes, compactions, crashes, readFaults>>
    PROVE  ListInv' /\ DataInv'
<1>0. wal \in Seq(Record) /\ walDisk \in Seq(Record)
  BY StateTypes
<1>2. UNCHANGED <<wal, torn, files, unsynced, unlinked, tmps, up, memtable, memBytes, sstables,
                  lastSeq, walBroken, opened, writer, comp, reader, acked, writes,
                  compactions, crashes, readFaults>>
  BY DEF dir, handle
<1>1. \A image \in WALImages' : image \in WALImages
  <2>1. CASE walDisk' = wal
    BY <1>0, <1>2, <2>1, ImagesAre, ImagesHold, ImagesOfSynced
  <2>2. CASE walDisk' = walDisk
    BY <1>2, <2>2, ImagesAre
  <2> QED BY <2>1, <2>2
<1>3. UNCHANGED <<OnDisk, Durable>>
  BY <1>2 DEF OnDisk, Durable
<1>4. ListInv'
  BY <1>0, <1>2 DEF ListInv, TypeOK, DiskTypeOK, HandleTypeOK, CallTypeOK, HistoryTypeOK,
     FiniteDisk, Modes, ListOrder, FlushFresh, Flushing, InputsLive, Merging, LastInput,
     MergedNext, Merged, CleanupApart, InputsDurable, FilesOpen
<1>5. IdsGiven' /\ WriteTrail'
  <2>1. IdsGiven'
    BY <1>0, <1>2, <1>3 DEF DataInv, IdsGiven
  <2>2. WriteTrail'
    BY <1>0, <1>2, <1>3 DEF DataInv, WriteTrail
  <2> QED BY <2>1, <2>2
<1>6. TableContents' /\ NumbersGiven' /\ InputsOnDisk' /\ UniqueNames' /\ VersionsOrdered'
  BY <1>2, <1>3 DEF DataInv, TableContents, Flushing, Merged, NumbersGiven, Merging,
     InputsOnDisk, UniqueNames, VersionsOrdered
<1>7. ShownIsNewest' /\ ListCovers' /\ InputsCover' /\ RemovalsCovered' /\ NoLostWrite'
  BY <1>2, <1>3 DEF DataInv, ShownIsNewest, Visible, ListCovers, InputsCover, Merging,
     LastInput, RemovalsCovered, NoLostWrite
<1>8. LogIsNewest'
  BY <1>1, <1>2, <1>3 DEF DataInv, LogIsNewest
<1>9. AckedIsHeld'
  <2> SUFFICES ASSUME NEW k \in Key
               PROVE  \/ acked'[k] = 0
                      \/ \E u \in Durable' : acked'[k] <= u.recs[k].id
                      \/ /\ up' = "open" => acked'[k] <= memtable'[k].id
                         /\ \A image \in WALImages' : Present(Replay(image)[k])
    BY DEF AckedIsHeld
  <2> QED BY <1>1, <1>2, <1>3 DEF DataInv, AckedIsHeld
<1> QED BY <1>4, <1>5, <1>6, <1>7, <1>8, <1>9 DEF DataInv

LEMMA EngineMeanwhile ==
    ASSUME ListInv, DataInv, SnapHasMu, ~CalledClosed, [BackupNext]_allVars
    PROVE  ListInv' /\ DataInv'
<1>1. CASE [Next]_vars
  BY <1>1, ListInvStep, DataInvStep
<1>2. CASE SnapshotBegin
  <2>1. /\ writer.pc = "idle" /\ walDisk' \in {wal, walDisk}
        /\ UNCHANGED <<wal, torn, dir, handle, writer, comp, reader, acked, counters>>
    BY <1>2 DEF SnapshotBegin, MuFree, SyncWAL
  <2>2. faults' \in Nat /\ UNCHANGED <<writes, compactions, crashes, readFaults>>
    BY <2>1 DEF counters, ListInv, TypeOK, HistoryTypeOK
  <2> QED BY <2>1, <2>2, SyncKeeps
<1>3. CASE CopyWAL \/ CopyTable \/ SnapshotReturn
  BY <1>3, <1>1 DEF CopyWAL, CopyTable, SnapshotReturn
<1>4. CASE CopyFails
  <2>1. UNCHANGED <<disk, handle, writer, comp, reader, acked>>
        /\ UNCHANGED <<writes, compactions, crashes, readFaults>> /\ faults' \in Nat
    BY <1>4 DEF CopyFails, Fails, ListInv, TypeOK, HistoryTypeOK
  <2>2. writer.pc = "idle"
    BY <1>4 DEF CopyFails, SnapHasMu
  <2> QED BY <2>1, <2>2, SyncKeeps DEF disk, dir
<1>5. CASE EngineStep \/ CutShort \/ PowerCutsShort
  BY <1>1, <1>5, EngineStepsAre DEF CutShort, PowerCutsShort, Next
<1> QED BY <1>1, <1>2, <1>3, <1>4, <1>5 DEF BackupNext, Snapshot, allVars

----------------------------------------------------------------------------
(* The copies.                                                             *)

LEMMA InitSnapInv == BackupInit => SnapInv
<1> SUFFICES ASSUME BackupInit PROVE SnapInv
  OBVIOUS
<1>1. <<>> \in Seq(Table)
  OBVIOUS
<1> QED BY <1>1 DEF BackupInit, SnapInv, SnapTypeOK, OneCopyAName, SnapHasMu, SnapHasCopy,
           CopiesAreTrue, ListedIsConsistent, IdleSnap

LEMMA BeginStep ==
    ASSUME ListInv, SnapInv, ~CalledClosed, SnapshotBegin
    PROVE  SnapInv'
<1> DEFINE n == snapshots + 1
<1>c. PICK c : c = NewBackup(n)
  OBVIOUS
<1>1. /\ up = "open" /\ writer.pc = "idle" /\ snap.pc = "idle"
      /\ snapshots' = n /\ backups' = backups \cup {c}
      /\ snap' = [pc |-> "wal", name |-> n, todo |-> <<>>]
      /\ UNCHANGED <<wal, up, memtable, sstables, writer, writes, cut>>
  BY <1>c DEF SnapshotBegin, MuFree, handle, counters
<1>2. /\ n \in Nat /\ 1 .. snapshots \subseteq 1 .. n /\ n \in 1 .. n /\ n \notin 1 .. snapshots
  BY DEF SnapInv, SnapTypeOK
<1>3. /\ c \in BackupType /\ c.name = n /\ c.tables = {} /\ c.asOf = writes
      /\ \A k \in Key : c.shown[k] = Visible(k).id
  <2>1. /\ \A k \in Key : Visible(k).id \in Nat
        /\ <<>> \in Seq(Record) /\ writes \in Nat
    BY StateVersions, StateTypes
  <2>2. [k \in Key |-> IF up = "open" THEN Visible(k).id ELSE Loaded(files, wal, k).id]
          = [k \in Key |-> Visible(k).id]
    BY <1>1
  <2>3. c = [name |-> n, log |-> <<>>, tables |-> {},
             shown |-> [k \in Key |-> Visible(k).id], asOf |-> writes]
    BY <1>c, <2>2 DEF NewBackup
  <2>4. [k \in Key |-> Visible(k).id] \in [Key -> Nat]
    BY <2>1
  <2> HIDE DEF n
  <2> QED BY <1>2, <2>1, <2>3, <2>4 DEF BackupType
<1> HIDE DEF n
<1>4. SnapTypeOK'
  <2>1. <<>> \in Seq(Table)
    OBVIOUS
  <2> QED BY <1>1, <1>2, <1>3, <2>1 DEF SnapInv, SnapTypeOK
<1>5. \A b \in backups : b.name # n
  BY <1>2 DEF SnapInv, SnapTypeOK
<1>6. OneCopyAName'
  BY <1>1, <1>3, <1>5 DEF SnapInv, OneCopyAName
<1>7. SnapHasMu'
  BY <1>1, <1>2 DEF SnapHasMu
<1>8. CopiesAreTrue'
  <2>1. \A b \in backups' : ~Finished(b)' => b = c
    BY <1>1, <1>5 DEF Finished, Current
  <2>2. Copying(c)'
    BY <1>1, <1>3 DEF Copying, Visible
  <2> QED BY <2>1, <2>2 DEF CopiesAreTrue
<1>9. ListedIsConsistent'
  <2>1. \A b \in backups : Finished(b)
    BY <1>1 DEF Finished
  <2>2. ~Finished(c)'
    BY <1>1, <1>3 DEF Finished, Current
  <2> QED BY <1>1, <2>1, <2>2 DEF SnapInv, ListedIsConsistent, Whole
<1>10. SnapHasCopy'
  BY <1>1, <1>3 DEF SnapHasCopy, Current
<1> QED BY <1>4, <1>6, <1>7, <1>8, <1>9, <1>10 DEF SnapInv

LEMMA CopyWALStep == ASSUME ListInv, SnapInv, CopyWAL PROVE SnapInv'
<1>1. /\ snap.pc = "wal"
      /\ snap' = [snap EXCEPT !.pc = "tables", !.todo = sstables]
      /\ UNCHANGED <<vars, snapshots, cut>>
  BY DEF CopyWAL
<1>2. PICK b \in backups : Current(b) /\ backups' = Replaced(b, [b EXCEPT !.log = wal])
  BY DEF CopyWAL
<1>c. PICK c : c = [b EXCEPT !.log = wal]
  OBVIOUS
<1>3. /\ b \in BackupType /\ b.name = snap.name /\ Copying(b) /\ wal \in Seq(Record)
      /\ sstables \in Seq(Table)
  BY <1>1, <1>2, StateTypes DEF SnapInv, SnapTypeOK, Current, CopiesAreTrue, Finished
<1>4. /\ c \in BackupType /\ c.name = b.name /\ c.log = wal /\ c.tables = b.tables
      /\ c.shown = b.shown /\ c.asOf = b.asOf
  BY <1>3, <1>c DEF BackupType
<1>5. /\ snap'.pc = "tables" /\ snap'.name = snap.name /\ snap'.todo = sstables
      /\ snap' \in [pc : {"idle", "wal", "tables"}, name : Nat, todo : Seq(Table)]
  <2>1. PICK s \in [pc : {"idle", "wal", "tables"}, name : Nat, todo : Seq(Table)] : s = snap
    BY DEF SnapInv, SnapTypeOK
  <2> QED BY <1>1, <1>3, <2>1
<1>6. backups' = (backups \ {b}) \cup {c}
  BY <1>2, <1>c DEF Replaced
<1>7. SnapTypeOK'
  BY <1>1, <1>4, <1>5, <1>6 DEF SnapInv, SnapTypeOK
<1>8. OneCopyAName'
  BY <1>4, <1>6 DEF SnapInv, OneCopyAName
<1>9. SnapHasMu'
  BY <1>1, <1>5 DEF SnapInv, SnapHasMu, vars, handle
<1>10. \A x \in backups \ {b} : Finished(x) /\ Finished(x)'
  BY <1>2, <1>3, <1>5 DEF SnapInv, OneCopyAName, Finished, Current
<1>11. UNCHANGED <<wal, memtable, sstables, writes>>
  BY <1>1 DEF vars, disk, handle, counters
<1>12. Copying(c)' /\ ~Finished(c)'
  <2>1. Range(sstables) = {} \cup Range(sstables)
    OBVIOUS
  <2>2. Copying(c)'
    BY <1>1, <1>3, <1>4, <1>5, <1>11, <2>1 DEF Copying, Visible
  <2> QED BY <1>3, <1>4, <1>5, <1>6, <2>2 DEF Finished, Current
<1>13. CopiesAreTrue'
  BY <1>6, <1>10, <1>12 DEF CopiesAreTrue
<1>14. ListedIsConsistent'
  BY <1>1, <1>6, <1>10, <1>12 DEF SnapInv, ListedIsConsistent, Whole
<1>15. SnapHasCopy'
  BY <1>3, <1>4, <1>5, <1>6 DEF SnapHasCopy, Current
<1> QED BY <1>7, <1>8, <1>9, <1>13, <1>14, <1>15 DEF SnapInv

LEMMA CopyTableStep == ASSUME ListInv, SnapInv, CopyTable PROVE SnapInv'
<1> DEFINE t == Head(snap.todo)
<1>1. /\ snap.pc = "tables" /\ snap.todo # <<>>
      /\ snap' = [snap EXCEPT !.todo = Tail(@)]
      /\ UNCHANGED <<vars, snapshots, cut>>
  BY DEF CopyTable
<1>2. PICK b \in backups : Current(b) /\ backups' = Replaced(b, [b EXCEPT !.tables = @ \cup {t}])
  BY DEF CopyTable
<1>c. PICK c : c = [b EXCEPT !.tables = @ \cup {t}]
  OBVIOUS
<1>3. b \in BackupType /\ b.name = snap.name /\ Copying(b)
  BY <1>1, <1>2 DEF SnapInv, SnapTypeOK, Current, CopiesAreTrue, Finished
<1>4. PICK s \in [pc : {"idle", "wal", "tables"}, name : Nat, todo : Seq(Table)] : s = snap
  BY DEF SnapInv, SnapTypeOK
<1>5. /\ t \in Table /\ Tail(s.todo) \in Seq(Table)
      /\ Range(s.todo) = {t} \cup Range(Tail(s.todo))
  <2>1. s.todo \in Seq(Table) /\ s.todo # <<>> /\ t = Head(s.todo)
    BY <1>1, <1>4
  <2> HIDE DEF t
  <2>2. PICK q \in Seq(Table) : q = s.todo
    BY <2>1
  <2>3. /\ Head(q) \in Table /\ Tail(q) \in Seq(Table) /\ Len(q) \in Nat /\ Len(q) > 0
        /\ Len(Tail(q)) = Len(q) - 1 /\ Head(q) = q[1] /\ DOMAIN q = 1 .. Len(q)
        /\ DOMAIN Tail(q) = 1 .. Len(q) - 1
        /\ \A i \in 1 .. Len(q) - 1 : Tail(q)[i] = q[i + 1]
    BY <2>1, <2>2
  <2>4. \A i \in 2 .. Len(q) : q[i] = Tail(q)[i - 1] /\ i - 1 \in DOMAIN Tail(q)
    BY <2>3
  <2>5. \A i \in DOMAIN q : i = 1 \/ i \in 2 .. Len(q)
    BY <2>3
  <2>6. \A i \in DOMAIN Tail(q) : i + 1 \in DOMAIN q
    BY <2>3
  <2>7. 1 \in DOMAIN q
    BY <2>3
  <2>8. Range(q) \subseteq {Head(q)} \cup Range(Tail(q))
    <3> SUFFICES ASSUME NEW i \in DOMAIN q PROVE q[i] \in {Head(q)} \cup Range(Tail(q))
      BY DEF Range
    <3>1. CASE i = 1
      BY <2>3, <3>1
    <3>2. CASE i \in 2 .. Len(q)
      BY <2>4, <3>2 DEF Range
    <3> QED BY <2>5, <3>1, <3>2
  <2>9. {Head(q)} \cup Range(Tail(q)) \subseteq Range(q)
    BY <2>3, <2>6, <2>7 DEF Range
  <2> QED BY <2>1, <2>2, <2>3, <2>8, <2>9
<1> HIDE DEF t
<1>6. /\ c \in BackupType /\ c.name = b.name /\ c.log = b.log /\ c.tables = b.tables \cup {t}
      /\ c.shown = b.shown /\ c.asOf = b.asOf
  BY <1>3, <1>5, <1>c DEF BackupType
<1>7. /\ snap'.pc = "tables" /\ snap'.name = snap.name /\ snap'.todo = Tail(snap.todo)
      /\ snap' \in [pc : {"idle", "wal", "tables"}, name : Nat, todo : Seq(Table)]
  BY <1>1, <1>4, <1>5
<1>8. backups' = (backups \ {b}) \cup {c}
  BY <1>2, <1>c DEF Replaced
<1>9. SnapTypeOK'
  BY <1>1, <1>6, <1>7, <1>8 DEF SnapInv, SnapTypeOK
<1>10. OneCopyAName'
  BY <1>6, <1>8 DEF SnapInv, OneCopyAName
<1>11. SnapHasMu'
  BY <1>1, <1>7 DEF SnapInv, SnapHasMu, vars, handle
<1>12. \A x \in backups \ {b} : Finished(x) /\ Finished(x)'
  BY <1>2, <1>3, <1>7 DEF SnapInv, OneCopyAName, Finished, Current
<1>13. UNCHANGED <<wal, memtable, sstables, writes>>
  BY <1>1 DEF vars, disk, handle, counters
<1>14. Copying(c)' /\ ~Finished(c)'
  <2>1. b.tables \cup Range(snap.todo) = Range(sstables) /\ b.log = wal
    BY <1>1, <1>3 DEF Copying
  <2>2. c.tables \cup Range(snap'.todo) = Range(sstables)
    BY <1>4, <1>5, <1>6, <1>7, <2>1
  <2>3. Copying(c)'
    BY <1>3, <1>6, <1>7, <1>13, <2>1, <2>2 DEF Copying, Visible
  <2> QED BY <1>3, <1>6, <1>7, <1>8, <2>3 DEF Finished, Current
<1>15. CopiesAreTrue'
  BY <1>8, <1>12, <1>14 DEF CopiesAreTrue
<1>16. ListedIsConsistent'
  BY <1>1, <1>8, <1>12, <1>14 DEF SnapInv, ListedIsConsistent, Whole
<1>17. SnapHasCopy'
  BY <1>3, <1>6, <1>7, <1>8 DEF SnapHasCopy, Current
<1> QED BY <1>9, <1>10, <1>11, <1>15, <1>16, <1>17 DEF SnapInv

\* The copy is finished: it is whole.
LEMMA ReturnStep == ASSUME ListInv, DataInv, SnapInv, SnapshotReturn PROVE SnapInv'
<1>1. /\ snap.pc = "tables" /\ snap.todo = <<>> /\ snap' = IdleSnap
      /\ UNCHANGED <<vars, backups, snapshots, cut>>
  BY DEF SnapshotReturn
<1>2. <<>> \in Seq(Table) /\ Range(<<>>) = {}
  BY DEF Range
<1>3. SnapTypeOK' /\ OneCopyAName' /\ SnapHasMu' /\ SnapHasCopy'
  BY <1>1, <1>2 DEF SnapInv, SnapTypeOK, OneCopyAName, SnapHasMu, SnapHasCopy, IdleSnap
<1>4. \A b \in backups : Finished(b)'
  BY <1>1 DEF Finished, IdleSnap
<1>5. ASSUME NEW b \in backups, b.name \notin cut PROVE Whole(b)
  <2>1. CASE Finished(b)
    BY <1>5, <2>1 DEF SnapInv, ListedIsConsistent
  <2>2. CASE ~Finished(b)
    <3>1. Copying(b)
      BY <2>2 DEF SnapInv, CopiesAreTrue
    <3>2. b.log = wal /\ b.tables = Range(sstables) /\ b.asOf = writes
      BY <1>1, <1>2, <3>1 DEF Copying
    <3>3. up = "open"
      BY <1>1 DEF SnapInv, SnapHasMu
    <3> QED BY <3>1, <3>2, <3>3, FullCopyIsWhole DEF Copying, Whole
  <2> QED BY <2>1, <2>2
<1>6. ListedIsConsistent'
  BY <1>1, <1>5 DEF ListedIsConsistent, Whole
<1>7. CopiesAreTrue'
  BY <1>1, <1>4 DEF CopiesAreTrue
<1> QED BY <1>3, <1>6, <1>7 DEF SnapInv

\* What a step leaves that ends the Snapshot and takes copies away, or loses
\* the tables of some and says so.
LEMMA EndingStep ==
    ASSUME SnapInv, snap' = IdleSnap, UNCHANGED snapshots,
           \A b \in backups' :
              \E a \in backups : a.name = b.name /\ (b = a \/ b = [a EXCEPT !.tables = {}]),
           \A b, c \in backups' : b.name = c.name => b = c,
           \A b \in backups' : b.name \notin cut' => b \in backups /\ Finished(b) /\ b.name \notin cut
    PROVE  SnapInv'
<1>1. <<>> \in Seq(Table)
  OBVIOUS
<1>2. backups' \in SUBSET BackupType
  <2> SUFFICES ASSUME NEW b \in backups' PROVE b \in BackupType
    OBVIOUS
  <2>1. PICK a \in backups : b = a \/ b = [a EXCEPT !.tables = {}]
    OBVIOUS
  <2>2. a \in BackupType
    BY DEF SnapInv, SnapTypeOK
  <2>3. [a EXCEPT !.tables = {}] \in BackupType
    BY <2>2 DEF BackupType
  <2> QED BY <2>1, <2>2, <2>3
<1>3. SnapTypeOK'
  BY <1>1, <1>2 DEF SnapInv, SnapTypeOK, IdleSnap
<1>4. OneCopyAName' /\ SnapHasMu' /\ SnapHasCopy' /\ CopiesAreTrue'
  BY DEF OneCopyAName, SnapHasMu, SnapHasCopy, CopiesAreTrue, Finished, IdleSnap
<1>5. ListedIsConsistent'
  <2> SUFFICES ASSUME NEW b \in backups', b.name \notin cut' PROVE Whole(b)
    BY DEF ListedIsConsistent, Whole
  <2> QED BY DEF SnapInv, ListedIsConsistent
<1> QED BY <1>3, <1>4, <1>5 DEF SnapInv

LEMMA CopyFailsStep == ASSUME SnapInv, CopyFails PROVE SnapInv'
<1>1. /\ snap.pc # "idle" /\ snap' = IdleSnap
      /\ backups' = {b \in backups : ~Current(b)}
      /\ UNCHANGED <<snapshots, cut>>
  BY DEF CopyFails
<1>2. \A b \in backups' : b \in backups /\ Finished(b)
  BY <1>1 DEF Finished
<1> QED BY <1>1, <1>2, EndingStep DEF SnapInv, OneCopyAName

LEMMA CutShortStep == ASSUME SnapInv, CutShort PROVE SnapInv'
<1>1. /\ snap' = IdleSnap /\ cut' = cut \cup ({snap.name} \ {0})
      /\ UNCHANGED <<backups, snapshots>>
  BY DEF CutShort
<1>2. ASSUME NEW b \in backups, b.name \notin cut' PROVE Finished(b) /\ b.name \notin cut
  BY <1>1, <1>2 DEF SnapInv, SnapTypeOK, Finished, Current
<1> QED BY <1>1, <1>2, EndingStep DEF SnapInv, OneCopyAName

LEMMA PowerCutsShortStep == ASSUME SnapInv, PowerCutsShort PROVE SnapInv'
<1>1. snap' = IdleSnap /\ UNCHANGED snapshots
  BY DEF PowerCutsShort
<1>2. PICK lost \in SUBSET backups :
         /\ backups' = (backups \ lost) \cup {[b EXCEPT !.tables = {}] : b \in lost}
         /\ cut' = cut \cup ({snap.name} \ {0}) \cup {b.name : b \in lost}
  BY DEF PowerCutsShort
<1>3. ASSUME NEW a \in backups PROVE [a EXCEPT !.tables = {}].name = a.name
  <2>1. a \in BackupType
    BY DEF SnapInv, SnapTypeOK
  <2> QED BY <2>1 DEF BackupType
<1>4. ASSUME NEW b \in backups'
      PROVE  \/ b \in backups /\ b \notin lost
             \/ \E a \in lost : b = [a EXCEPT !.tables = {}] /\ a.name = b.name
  BY <1>2, <1>3
<1>5. \A b \in backups' :
         \E a \in backups : a.name = b.name /\ (b = a \/ b = [a EXCEPT !.tables = {}])
  BY <1>4
<1>6. ASSUME NEW b \in backups', NEW c \in backups', b.name = c.name PROVE b = c
  BY <1>4, <1>6 DEF SnapInv, OneCopyAName
<1>7. ASSUME NEW b \in backups', b.name \notin cut'
      PROVE  b \in backups /\ Finished(b) /\ b.name \notin cut
  <2>1. (b \in backups /\ b.name # snap.name) \/ b.name = 0
    BY <1>2, <1>4, <1>7
  <2>2. b.name \notin cut /\ b \in backups
    BY <1>2, <1>4, <1>7
  <2>3. b.name # 0
    BY <2>2 DEF SnapInv, SnapTypeOK
  <2> QED BY <2>1, <2>2, <2>3 DEF Finished, Current
<1> QED BY <1>1, <1>5, <1>6, <1>7, EndingStep

\* While Snapshot has db.mu nothing that Open would read of the list changes.
LEMMA MeanwhileStep ==
    ASSUME SnapInv, EngineStep \/ UNCHANGED allVars
    PROVE  SnapInv'
<1>1. UNCHANGED <<snap, backups, snapshots, cut>>
  BY DEF EngineStep, allVars
<1>2. snap.pc # "idle" => UNCHANGED <<wal, up, memtable, sstables, writer, writes>>
  <2>1. WithoutMu => UNCHANGED <<wal, up, memtable, sstables, writer, writes>>
    BY DEF WithoutMu, CompactMerge, CompactMergeFails, CompactWriteTmp, CompactWriteTmpFails,
       CompactRename, CompactRenameFails, CompactSyncDir, CompactOrphan, CompactOpen,
       CompactCleanup, GetRead, GetReadFails, GetReturn, Fails, handle, disk, log, counters
  <2> QED BY <2>1 DEF EngineStep, allVars, vars, handle, disk, counters
<1>3. SnapTypeOK' /\ OneCopyAName' /\ SnapHasCopy' /\ ListedIsConsistent'
  BY <1>1 DEF SnapInv, SnapTypeOK, OneCopyAName, SnapHasCopy, ListedIsConsistent, Whole, Finished, Current
<1>4. SnapHasMu'
  BY <1>1, <1>2 DEF SnapInv, SnapHasMu
<1>5. CopiesAreTrue'
  <2> SUFFICES ASSUME NEW b \in backups, ~Finished(b) PROVE Copying(b)'
    BY <1>1 DEF CopiesAreTrue, Finished, Current
  <2>1. Copying(b) /\ snap.pc # "idle"
    BY DEF SnapInv, CopiesAreTrue, Finished
  <2> QED BY <1>1, <1>2, <2>1 DEF Copying, Visible
<1> QED BY <1>3, <1>4, <1>5 DEF SnapInv

\* Whatever Snapshot meets, writes before and after it, a compaction that
\* removes files of the directory it copies, a failing copy, a crash: the
\* tables it has still to copy are there, and a directory in snapshots/ whose
\* Snapshot returned and that no crash cut short opens to what the database
\* showed when the copy began.  (Snapshot of a handle that is open.)
THEOREM CopiesAreConsistent == ASSUME ~CalledClosed PROVE BackupSpec => []SnapshotsAreSound
<1>1. BackupInit => ListInv /\ DataInv /\ SnapInv
  BY InitListInv, InitDataInv, InitSnapInv DEF BackupInit
<1>2. (ListInv /\ DataInv /\ SnapInv) /\ [BackupNext]_allVars => (ListInv /\ DataInv /\ SnapInv)'
  <2> SUFFICES ASSUME ListInv, DataInv, SnapInv, [BackupNext]_allVars
               PROVE  ListInv' /\ DataInv' /\ SnapInv'
    OBVIOUS
  <2>1. ListInv' /\ DataInv'
    BY EngineMeanwhile DEF SnapInv
  <2>2. SnapInv'
    BY BeginStep, CopyWALStep, CopyTableStep, ReturnStep, CopyFailsStep, CutShortStep,
       PowerCutsShortStep, MeanwhileStep DEF BackupNext, Snapshot
  <2> QED BY <2>1, <2>2
<1>3. ListInv /\ SnapInv => SnapshotsAreSound
  <2> SUFFICES ASSUME ListInv, SnapInv PROVE SnapshotsAreSound
    OBVIOUS
  <2>1. NothingGoesMissing
    <3> SUFFICES ASSUME snap.pc = "tables" PROVE Range(snap.todo) \subseteq files
      BY DEF NothingGoesMissing
    <3>1. PICK b \in backups : ~Finished(b)
      BY DEF SnapInv, SnapHasCopy, Finished
    <3>2. Range(snap.todo) \subseteq Range(sstables)
      BY <3>1 DEF SnapInv, CopiesAreTrue, Copying
    <3> QED BY <3>2, StateTypes
  <2> QED BY <2>1 DEF SnapInv, SnapshotsAreSound
<1> QED BY <1>1, <1>2, <1>3, PTL DEF BackupSpec

=============================================================================
