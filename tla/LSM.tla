-------------------------------- MODULE LSM --------------------------------
(***************************************************************************)
(* The data the storage engine of SolderDB moves between its write-ahead   *)
(* log, its memtable and its sorted tables, and the pure functions of      *)
(* internal/engine/db.go over them.                                        *)
(*                                                                         *)
(* A value is represented by the number of the write call that supplied    *)
(* it: calls are numbered 1, 2, ... in the order in which they take the    *)
(* engine's lock, so a larger number is a newer version.  Number 0 means   *)
(* "the key is not there at all".                                          *)
(***************************************************************************)
EXTENDS Naturals, Sequences, FiniteSets, FiniteSetsExt

CONSTANT Key        \* the keys clients use

ASSUME KeyAssumption == Key # {} /\ IsFiniteSet(Key)

\* One version of a key: which write call made it, and whether that call was
\* a Delete (a tombstone) or a Set.
Entry == [id : Nat, del : BOOLEAN]

NoEntry == [id |-> 0, del |-> TRUE]

Present(e) == e.id # 0

\* What a memtable or a table holds: a partial map from keys to versions.
Contents == [Key -> Entry]

Empty == [k \in Key |-> NoEntry]

\* A sorted table.  <<seq, compacted>> is its file name and its age.
Table == [seq : Nat, compacted : BOOLEAN, recs : Contents]

NoTable == [seq |-> 0, compacted |-> FALSE, recs |-> Empty]

Name(t) == <<t.seq, t.compacted>>

\* One record of the write-ahead log.
Record == [key : Key, entry : Entry]

----------------------------------------------------------------------------
(* Definitions named X_Y are variants of X with the mistake Y, which the   *)
(* properties are there to notice; no other definition uses them.          *)

Older_ByFileName(a, b) ==
    \/ b.compacted /\ ~a.compacted
    \/ a.compacted = b.compacted /\ a.seq < b.seq

\* tableOlder: a must be consulted after b when looking for the newest version.
Older(a, b) ==
    \/ a.seq < b.seq
    \/ a.seq = b.seq /\ a.compacted /\ ~b.compacted

\* The table list is ordered oldest to newest.
Ascending(tables) ==
    \A i, j \in DOMAIN tables : i < j => Older(tables[i], tables[j])

\* The lists loadSSTables can build from a set of files: all of them, sorted.
LoadOrders(S) ==
    {s \in [1 .. Cardinality(S) -> S] :
        Ascending(s) /\ \A t \in S : \E i \in DOMAIN s : s[i] = t}

\* The newest version of k in the tables at positions P, found by looking
\* from the newest table to the oldest (getFromSSTables).
NewestAmong(tables, P, k) ==
    LET hits == {i \in P : Present(tables[i].recs[k])}
    IN  IF hits = {} THEN NoEntry ELSE tables[Max(hits)].recs[k]

Newest(tables, k) == NewestAmong(tables, DOMAIN tables, k)

Merge_DropsTombstones(tables) ==
    [k \in Key |-> LET e == Newest(tables, k) IN IF e.del THEN NoEntry ELSE e]

\* mergeTables: reading the inputs oldest first, a later record of a key
\* overwrites an earlier one; tombstones are kept.
Merge(tables) ==
    [k \in Key |->
        LET hits == {i \in DOMAIN tables : Present(tables[i].recs[k])}
        IN  IF hits = {} THEN NoEntry ELSE tables[Max(hits)].recs[k]]

SwapIn_AtTheEnd(table, n, list) == Append(SubSeq(list, n + 1, Len(list)), table)

SwapIn_ForgetsNewer(table, n, list) == <<table>>

\* The first n tables of the list give way to their merge; the tables flushed
\* since the merge began stay behind it.
SwapIn(table, n, list) == <<table>> \o SubSeq(list, n + 1, Len(list))

\* replayWAL: records are applied in log order, so the last one of a key stays.
Replay(log) ==
    [k \in Key |->
        LET at == {i \in DOMAIN log : log[i].key = k}
        IN  IF at = {} THEN NoEntry ELSE log[Max(at)].entry]

----------------------------------------------------------------------------
\* Size accounting with keys and live values of one byte: the terms that Set
\* and Delete add and subtract, and the sum that recomputeMemBytesLocked takes.
KeyBytes == 1

ValueBytes(e) == IF e.del THEN 0 ELSE 1

Growth_KeepsPrevious(prev, e) == KeyBytes + ValueBytes(e)

Growth(prev, e) ==
    KeyBytes + ValueBytes(e) - (IF Present(prev) THEN KeyBytes + ValueBytes(prev) ELSE 0)

MemSize(mem) ==
    LET keys == {k \in Key : Present(mem[k])}
    IN  Cardinality(keys) + Cardinality({k \in keys : ~mem[k].del})

----------------------------------------------------------------------------
\* isPrefix: the compaction inputs still start the live table list.
IsPrefixOf(prefix, list) ==
    /\ Len(prefix) <= Len(list)
    /\ \A i \in DOMAIN prefix : prefix[i] = list[i]
============================================================================
