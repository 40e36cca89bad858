-------------------------------- MODULE Scan --------------------------------
(***************************************************************************)
(* internal/engine/db.go, Scan and ListKeys: paging through the keys of a  *)
(* database that is written, flushed and compacted between the pages and   *)
(* between the tables a page is gathered from.                             *)
(*                                                                         *)
(* Keys are numbers in the order of the strings they stand for; the keys   *)
(* with a common prefix are an interval.  A memtable or a table says of    *)
(* each key whether it has a value, a tombstone or nothing.                *)
(***************************************************************************)
EXTENDS Integers, Sequences, FiniteSets, FiniteSetsExt, SequencesExt

CONSTANTS
    MaxKey,         \* bound: keys are 1 .. MaxKey
    Prefix,         \* the prefixes a client may ask for, as intervals
    Bound,          \* the bounds a client may ask for; 0 is none
    MaxLimit,       \* bound: ScanOptions.Limit
    MaxWrites,      \* bound: Set and Delete calls
    MaxFlushes,     \* bound: flushes
    MaxScans        \* bound: listings from the first page to the last

ASSUME ScanAssumption ==
    /\ MaxKey \in Nat \ {0} /\ MaxLimit \in Nat \ {0} /\ MaxWrites \in Nat /\ MaxFlushes \in Nat
    /\ MaxScans \in Nat /\ Bound \subseteq 0 .. MaxKey /\ \A p \in Prefix : p \subseteq 1 .. MaxKey

VARIABLES
    memtable, sstables,
    scan,           \* the Scan in progress and the client's listing
    asOf,           \* history: the live keys when the page took its lock
    ever, always,   \* history: keys live at some, at all moments of the listing
    writes, flushes, scans

db == <<memtable, sstables>>
history == <<asOf, ever, always>>
vars == <<db, scan, history, writes, flushes, scans>>

Key == 1 .. MaxKey

Nothing == [k \in Key |-> "none"]

\* start, end and after are 0 where the option is empty.
IdleScan ==
    [pc |-> "idle", prefix |-> {}, start |-> 0, end |-> 0, limit |-> 1, after |-> 0,
     tables |-> <<>>, visible |-> {}, deleted |-> {}, page |-> <<>>, listed |-> <<>>]

Init ==
    /\ memtable = Nothing /\ sstables = <<>>
    /\ scan = IdleScan
    /\ asOf = {} /\ ever = {} /\ always = {}
    /\ writes = 0 /\ flushes = 0 /\ scans = 0

----------------------------------------------------------------------------
(* The database meanwhile; each step is one moment under db.mu.            *)

Says(c, what) == {k \in Key : c[k] = what}

\* The newest that is said of k, tables being in order from old to new.
NewestOf(tables, k) ==
    LET at == {i \in DOMAIN tables : tables[i][k] # "none"}
    IN  IF at = {} THEN "none" ELSE tables[Max(at)][k]

Live(mem, tables) == {k \in Key : NewestOf(Append(tables, mem), k) = "value"}

Listing == scan.pc # "idle"

\* The history follows what is live.
Observe ==
    /\ ever' = IF Listing THEN ever \cup Live(memtable', sstables') ELSE ever
    /\ always' = IF Listing THEN always \cap Live(memtable', sstables') ELSE always
    /\ UNCHANGED asOf

Write(k, what) ==
    /\ writes < MaxWrites /\ writes' = writes + 1
    /\ memtable' = [memtable EXCEPT ![k] = what]
    /\ UNCHANGED <<sstables, scan, flushes, scans>>
    /\ Observe

Flush ==
    /\ flushes < MaxFlushes /\ memtable # Nothing
    /\ flushes' = flushes + 1
    /\ sstables' = Append(sstables, memtable)
    /\ memtable' = Nothing
    /\ UNCHANGED <<scan, writes, scans>>
    /\ Observe

\* The tables a compaction began with give way to their merge.
Compact(n) ==
    /\ n > 1
    /\ sstables' = <<[k \in Key |-> NewestOf(SubSeq(sstables, 1, n), k)]>>
                   \o SubSeq(sstables, n + 1, Len(sstables))
    /\ UNCHANGED <<memtable, scan, writes, flushes, scans>>
    /\ Observe

----------------------------------------------------------------------------
(* Definitions named X_Y are variants of X with the mistake Y, which the   *)
(* properties are there to notice; no other definition uses them.          *)

\* A client asks for a listing.
Ask(prefix, start, end, limit) ==
    /\ scan.pc = "idle" /\ scans < MaxScans
    /\ scans' = scans + 1
    /\ scan' = [IdleScan EXCEPT !.pc = "take", !.prefix = prefix, !.start = start,
                                !.end = end, !.limit = limit]
    /\ ever' = Live(memtable, sstables) /\ always' = Live(memtable, sstables)
    /\ UNCHANGED <<db, asOf, writes, flushes>>

\* ListKeys, under one read lock: a copy of the memtable, references on the
\* tables.
Take ==
    /\ scan.pc = "take"
    /\ scan' = [scan EXCEPT !.pc = "read", !.tables = sstables,
                    !.visible = Says(memtable, "value") \cap scan.prefix,
                    !.deleted = Says(memtable, "tombstone") \cap scan.prefix]
    /\ asOf' = Live(memtable, sstables)
    /\ UNCHANGED <<db, ever, always, writes, flushes, scans>>

Absorb_IgnoresTombstones(t) ==
    [scan EXCEPT !.visible = @ \cup ((Says(t, "value") \cap scan.prefix) \ scan.deleted)]

\* sstable.listKeys and what ListKeys makes of it.
Absorb(t) ==
    LET deleted == scan.deleted \cup ((Says(t, "tombstone") \cap scan.prefix) \ scan.visible)
    IN  [scan EXCEPT !.deleted = deleted,
                     !.visible = @ \cup ((Says(t, "value") \cap scan.prefix) \ deleted)]

\* The next table, from the newest to the oldest, without the lock.
ReadTable ==
    /\ scan.pc = "read" /\ scan.tables # <<>>
    /\ scan' = [Absorb(Last(scan.tables)) EXCEPT !.tables = Front(scan.tables)]
    /\ UNCHANGED <<db, history, writes, flushes, scans>>

\* Reading it fails: Scan returns the error, and the listing ends.
ReadFails ==
    /\ scan.pc = "read" /\ scan.tables # <<>>
    /\ scan' = IdleScan
    /\ UNCHANGED <<db, history, writes, flushes, scans>>

\* What the cursor leaves.
Behind(cursor, keys) == {k \in keys : k > cursor}

\* The bounds, each of which may be missing, and the cursor.
Wanted(keys) ==
    Behind(scan.after,
        {k \in keys : k >= scan.start /\ (scan.end = 0 \/ k < scan.end)})

Upto(n, s) == SubSeq(s, 1, Min({n, Len(s)}))

\* Each key behind those less than itself.
Sorted(keys) ==
    [i \in 1 .. Cardinality(keys) |->
        CHOOSE k \in keys : Cardinality({j \in keys : j < k}) = i - 1]

\* The page, and the cursor for the next one.  The client asks again until
\* there is none.  (What it has listed is recorded as far as a listing can go
\* that has no key twice, and one key more.)
Page ==
    LET found == Sorted(Wanted(scan.visible))
        page == Upto(scan.limit, found)
    IN  /\ scan.pc = "read" /\ scan.tables = <<>>
        /\ scan' = [scan EXCEPT
              !.page = page, !.listed = Upto(MaxKey + 1, @ \o page),
              !.pc = IF Len(found) > scan.limit THEN "more" ELSE "done",
              !.after = IF Len(found) > scan.limit THEN Last(page) ELSE 0]
        /\ UNCHANGED <<db, history, writes, flushes, scans>>

AskAgain ==
    /\ scan.pc = "more"
    /\ scan' = [scan EXCEPT !.pc = "take"]
    /\ UNCHANGED <<db, history, writes, flushes, scans>>

Finish ==
    /\ scan.pc = "done"
    /\ scan' = IdleScan
    /\ UNCHANGED <<db, history, writes, flushes, scans>>

ScanStep == Take \/ ReadTable \/ ReadFails \/ Page \/ AskAgain \/ Finish

Next ==
    \/ \E k \in Key, what \in {"value", "tombstone"} : Write(k, what)
    \/ Flush \/ \E n \in DOMAIN sstables : Compact(n)
    \/ \E p \in Prefix, start, end \in Bound, limit \in 1 .. MaxLimit :
          Ask(p, start, end, limit)
    \/ ScanStep

Spec == Init /\ [][Next]_vars

----------------------------------------------------------------------------
(* Properties.                                                             *)

\* A page is what was live, at the one moment of the lock, behind the cursor
\* and within the bounds, up to the limit, though the tables are read while
\* they are merged away and more is flushed.
PageIsExact ==
    scan.pc \in {"more", "done"} /\ Len(scan.listed) <= MaxKey =>
        LET before == IF Len(scan.listed) > Len(scan.page)
                      THEN scan.listed[Len(scan.listed) - Len(scan.page)] ELSE 0
            due == {k \in asOf \cap scan.prefix :
                      k > before /\ k >= scan.start /\ (scan.end = 0 \/ k < scan.end)}
        IN  /\ ToSet(scan.page) \subseteq due
            /\ \A k \in due \ ToSet(scan.page), l \in ToSet(scan.page) : k > l
            /\ Len(scan.page) = Min({scan.limit, Cardinality(due)})
            /\ scan.pc = "more" <=> Cardinality(due) > scan.limit

\* A listing over all pages has its keys in order and each once; it leaves
\* out no key that was there all the time, and shows none that never was.
ListingIsFaithful ==
    /\ \A i, j \in DOMAIN scan.listed : i < j => scan.listed[i] < scan.listed[j]
    /\ ToSet(scan.listed) \subseteq ever
    /\ scan.pc = "done" =>
        \A k \in always \cap scan.prefix :
            k >= scan.start /\ (scan.end = 0 \/ k < scan.end) => k \in ToSet(scan.listed)

\* Both: each page alone, and the listing as a whole.
ListingsAreRight == PageIsExact /\ ListingIsFaithful
=============================================================================
