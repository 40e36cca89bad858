------------------------------ MODULE DirLock ------------------------------
(***************************************************************************)
(* internal/engine/db.go and lock_*.go: several handles on one data        *)
(* directory, in one process or in several, and the file LOCK that is to   *)
(* keep them apart.  Close gives it up while a Compact may be at work, so  *)
(* that a directory can be opened under a Compact of a closed handle.      *)
(* Module Engine has one handle and all the ways its steps can fail; here  *)
(* a table is the set of writes in it, a .tmp file is created and filled   *)
(* in one step, and a file that is open can be removed (not on Windows,    *)
(* where it stays).                                                        *)
(***************************************************************************)
EXTENDS Naturals, Sequences, FiniteSets, FiniteSetsExt, SequencesExt

CONSTANTS
    Handle,
    Nobody,
    MaxWrites,          \* bound: Set calls
    MaxOpens,           \* bound: Open calls that get the lock
    MaxCompactions      \* bound: Compact calls

DirLockAssumption ==
    /\ Nobody \notin Handle
    /\ MaxWrites \in Nat /\ MaxOpens \in Nat /\ MaxCompactions \in Nat

VARIABLES
    lock,           \* who holds LOCK
    files, tmps,    \* the .sst and .sst.tmp files
    wal,            \* the writes in wal.bin
    handle,         \* whether it is open, its memtable and its table list
    comp,           \* its Compact in progress
    clash,          \* history: two Compacts at work have chosen one name
    writes, opens, compactions

vars == <<lock, files, tmps, wal, handle, comp, clash, writes, opens, compactions>>

Closed == [open |-> FALSE, mem |-> {}, list |-> <<>>, last |-> 0]

IdleComp == [pc |-> "idle", inputs |-> <<>>, table |-> [name |-> <<0, FALSE>>, ids |-> {}]]

Init ==
    /\ lock = Nobody /\ files = {} /\ tmps = {} /\ wal = {}
    /\ handle = [h \in Handle |-> Closed]
    /\ comp = [h \in Handle |-> IdleComp] /\ clash = FALSE
    /\ writes = 0 /\ opens = 0 /\ compactions = 0

----------------------------------------------------------------------------
(* Definitions named X_Y are variants of X with the mistake Y, which the   *)
(* properties are there to notice; no other definition uses them.          *)

Named(S, name) == {t \in S : t.name = name}

Names(S) == {t.name : t \in S}

\* tableOlder.
Older(a, b) ==
    \/ a.name[1] < b.name[1]
    \/ a.name[1] = b.name[1] /\ a.name[2] /\ ~b.name[2]

\* The tables of a directory, sorted: each behind those older than itself.
LoadOrder(S) ==
    [i \in 1 .. Cardinality(S) |->
        CHOOSE t \in S : Cardinality({u \in S : Older(u, t)}) = i - 1]

LockFile_Shared(h) == lock' = h

\* lockFile, where the platform has a lock: an exclusive one, or an error at
\* once.
LockFile(h) == lock = Nobody /\ lock' = h

\* The tables of the directory are loaded and the WAL is replayed, also while
\* the Compact of a closed handle is at work in it.
Open(h) ==
    /\ ~handle[h].open /\ comp[h].pc = "idle" /\ opens < MaxOpens
    /\ LockFile(h)
    /\ opens' = opens + 1
    /\ tmps' = {}
    /\ handle' = [handle EXCEPT ![h] =
          [open |-> TRUE, mem |-> wal, list |-> LoadOrder(files),
           last |-> Max({0} \cup {t.name[1] : t \in files})]]
    /\ UNCHANGED <<files, wal, comp, clash, writes, compactions>>

Set(h) ==
    /\ handle[h].open /\ writes < MaxWrites
    /\ writes' = writes + 1
    /\ wal' = wal \cup {writes + 1}
    /\ handle' = [handle EXCEPT ![h].mem = @ \cup {writes + 1}]
    /\ UNCHANGED <<lock, files, tmps, comp, clash, opens, compactions>>

\* flushMemtableToSSTableLocked; refused when there is a file of that name.
Flush(h) ==
    LET t == [name |-> <<handle[h].last + 1, FALSE>>, ids |-> handle[h].mem]
    IN  /\ handle[h].open /\ handle[h].mem # {}
        /\ Named(files \cup tmps, t.name) = {}
        /\ files' = files \cup {t}
        /\ wal' = {}
        /\ handle' = [handle EXCEPT ![h].mem = {}, ![h].last = @ + 1, ![h].list = Append(@, t)]
        /\ UNCHANGED <<lock, tmps, comp, clash, writes, opens, compactions>>

\* LOCK is given up; a Compact of this handle may still be at work.
Close(h) ==
    /\ handle[h].open
    /\ handle' = [handle EXCEPT ![h] = Closed]
    /\ lock' = Nobody
    /\ UNCHANGED <<files, tmps, wal, comp, clash, writes, opens, compactions>>

\* The process ends, and with it its Compact; the system releases LOCK.
Exit(h) ==
    /\ handle[h].open \/ comp[h].pc # "idle"
    /\ handle' = [handle EXCEPT ![h] = Closed]
    /\ comp' = [comp EXCEPT ![h] = IdleComp]
    /\ lock' = IF handle[h].open THEN Nobody ELSE lock
    /\ UNCHANGED <<files, tmps, wal, clash, writes, opens, compactions>>

----------------------------------------------------------------------------
(* Compact.                                                                *)

CompAt(h, pc) == comp[h].pc = pc

CompGoto(h, pc) == comp' = [comp EXCEPT ![h].pc = pc]

EndCompact(h) == comp' = [comp EXCEPT ![h] = IdleComp]

\* The merged table is on its way into the list.
AtWork(h) == comp[h].pc \in {"stat", "write", "rename", "swap"}

\* The tables of now are read and merged.  The name of the merged table comes
\* from the handle's own list, and a Compact of a closed handle may have chosen
\* the same.
Merge(h) ==
    LET inputs == handle[h].list
        name == <<Last(inputs).name[1] + 1, TRUE>>
    IN  /\ handle[h].open /\ CompAt(h, "idle") /\ Len(inputs) > 1
        /\ compactions < MaxCompactions /\ compactions' = compactions + 1
        /\ comp' = [comp EXCEPT ![h] =
              [pc |-> "stat", inputs |-> inputs,
               table |-> [name |-> name, ids |-> UNION {inputs[i].ids : i \in DOMAIN inputs}]]]
        /\ clash' = (clash \/ \E g \in Handle : AtWork(g) /\ comp[g].table.name = name)
        /\ UNCHANGED <<lock, files, tmps, wal, handle, writes, opens>>

\* createSSTable looks whether there is a table of that name.
Stat(h) ==
    /\ CompAt(h, "stat")
    /\ IF comp[h].table.name \in Names(files) THEN EndCompact(h) ELSE CompGoto(h, "write")
    /\ UNCHANGED <<lock, files, tmps, wal, handle, clash, writes, opens, compactions>>

\* The .tmp file is created, or is there already; then it is removed, whoever
\* made it.
WriteTmp(h) ==
    LET t == comp[h].table
    IN  /\ CompAt(h, "write")
        /\ IF t.name \in Names(tmps)
           THEN tmps' = tmps \ Named(tmps, t.name) /\ EndCompact(h)
           ELSE tmps' = tmps \cup {t} /\ CompGoto(h, "rename")
        /\ UNCHANGED <<lock, files, wal, handle, clash, writes, opens, compactions>>

\* Rename replaces a file of that name, and the table is opened; it fails when the
\* .tmp file is gone.
Rename(h) ==
    LET name == comp[h].table.name
    IN  /\ CompAt(h, "rename")
        /\ IF name \in Names(tmps)
           THEN /\ files' = (files \ Named(files, name)) \cup Named(tmps, name)
                /\ CompGoto(h, "swap")
           ELSE EndCompact(h) /\ UNCHANGED files
        /\ tmps' = tmps \ Named(tmps, name)
        /\ UNCHANGED <<lock, wal, handle, clash, writes, opens, compactions>>

\* The inputs still start the list.
Swap(h) ==
    LET n == Len(comp[h].inputs)
        t == comp[h].table
    IN  /\ CompAt(h, "swap") /\ IsPrefix(comp[h].inputs, handle[h].list)
        /\ handle' = [handle EXCEPT
              ![h].list = <<t>> \o SubSeq(@, n + 1, Len(@)),
              ![h].last = Max({@, t.name[1]})]
        /\ CompGoto(h, "cleanup")
        /\ UNCHANGED <<lock, files, tmps, wal, clash, writes, opens, compactions>>

Raced_GoesOn(h) ==
    /\ CompAt(h, "swap") /\ ~IsPrefix(comp[h].inputs, handle[h].list)
    /\ files' = files \ Named(files, comp[h].table.name)
    /\ CompGoto(h, "cleanup")
    /\ UNCHANGED <<lock, tmps, wal, handle, clash, writes, opens, compactions>>

\* The handle was closed meanwhile: the merged file is removed again.
Raced(h) ==
    /\ CompAt(h, "swap") /\ ~IsPrefix(comp[h].inputs, handle[h].list)
    /\ files' = files \ Named(files, comp[h].table.name)
    /\ EndCompact(h)
    /\ UNCHANGED <<lock, tmps, wal, handle, clash, writes, opens, compactions>>

\* The inputs are removed, one after the other.
Cleanup(h) ==
    LET inputs == comp[h].inputs
    IN  /\ CompAt(h, "cleanup")
        /\ files' = files \ Named(files, Head(inputs).name)
        /\ IF Len(inputs) > 1 THEN comp' = [comp EXCEPT ![h].inputs = Tail(@)] ELSE EndCompact(h)
        /\ UNCHANGED <<lock, tmps, wal, handle, clash, writes, opens, compactions>>

Compact(h) ==
    Merge(h) \/ Stat(h) \/ WriteTmp(h) \/ Rename(h) \/ Swap(h) \/ Raced(h) \/ Cleanup(h)

Next == \E h \in Handle : Open(h) \/ Set(h) \/ Flush(h) \/ Close(h) \/ Exit(h) \/ Compact(h)

Spec == Init /\ [][Next]_vars

----------------------------------------------------------------------------
(* Properties.                                                             *)

\* What opening the directory now would show.
Stored == wal \cup UNION {t.ids : t \in files}

\* No write is lost from the directory (Open, "only one may open it"; Compact,
\* errCompactionRaced).  Refuted: a Compact of a closed handle and one of the
\* handle opened after it choose one name, the second renames its table over the
\* first one's, and the first removes it by that name (Raced) while the second
\* swaps it in and removes the inputs.
NothingLost == 1 .. writes \subseteq Stored

\* A handle sees every write, those of the handles before it included.
HandleSeesAll ==
    \A h \in Handle :
        handle[h].open =>
            1 .. writes \subseteq
                handle[h].mem \cup UNION {handle[h].list[i].ids : i \in DOMAIN handle[h].list}

\* However handles are opened, closed and killed, also under a Compact that is
\* still at work, no write is lost from the directory or hidden from a handle,
\* as long as no two Compacts at work have chosen one name for their tables.
WritesAreKept == ~clash => NothingLost /\ HandleSeesAll
=============================================================================
