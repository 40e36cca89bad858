----------------------------- MODULE TableFile -----------------------------
(***************************************************************************)
(* internal/engine/db.go: the .sst file that writeSSTable writes, and what *)
(* openSSTable, readAll and get make of it.                                *)
(*                                                                         *)
(* A file is a sequence of cells, and an offset counts cells: a fixed part *)
(* of the format is one cell, whatever its bytes, a key or value as many   *)
(* as it is long.  Offsets in the file are counted from 0.                 *)
(***************************************************************************)
EXTENDS Integers, Sequences, FiniteSets, FiniteSetsExt, SequencesExt, Functions

CONSTANTS
    MaxKey,         \* bound: keys are 1 .. MaxKey, in the order of their bytes
    MaxValue,       \* bound: length of a value
    BitsPerKey, MinBits, Hashes,    \* of the bloom filter: 10, 64, 7
    MaxBloomBits,   \* the largest filter a reader takes: 2^30 bits
    Word,           \* numbers of 32 bits are below it
    MaxHash         \* bound: values of the two hash functions

TableFileAssumption ==
    /\ MaxKey \in Nat \ {0} /\ MaxValue \in Nat /\ MaxHash \in Nat
    /\ BitsPerKey \in Nat /\ MinBits \in Nat \ {0} /\ Hashes \in Nat
    /\ Word \in Nat /\ MaxBloomBits \in Nat /\ MaxBloomBits < Word
    /\ MaxBloomBits % 8 = 0 /\ MinBits <= MaxBloomBits /\ BitsPerKey <= MaxBloomBits

VARIABLES
    recs,           \* the records to be written, in the order of their keys
    hash            \* what bloomHashes gives for each key

vars == <<recs, hash>>

Key == 1 .. MaxKey

\* Keys of different lengths, so that offsets differ.
KeyLen(k) == 1 + (k % 2)

Record == [key : Key, len : 0 .. MaxValue, deleted : BOOLEAN]

----------------------------------------------------------------------------
(* Definitions named X_Y are variants of X with the mistake Y, which the   *)
(* properties are there to notice; no other definition uses them.          *)
(*                                                                         *)
(* The bloom filter.                                                       *)

\* newBloomForN: so many bits per key, rounded up to whole bytes, in 32 bits.
BloomBits(n) ==
    LET asked == ((IF n < 1 THEN 1 ELSE n) * BitsPerKey) % Word
        bits == IF asked < MinBits THEN MinBits ELSE asked
    IN  (bits + ((8 - (bits % 8)) % 8)) % Word

\* The i-th bit for a key.
Probe(k, i, m) == (hash[k].h1 + i * hash[k].h2) % m

\* The bits a key sets.
add(k, m) == IF m = 0 THEN {} ELSE {Probe(k, i, m) : i \in 0 .. Hashes - 1}

mayContain(bloom, k) ==
    bloom.m = 0 \/ \A i \in 0 .. bloom.k - 1 : Probe(k, i, bloom.m) \in bloom.bits

----------------------------------------------------------------------------
(* writeSSTable.                                                           *)

HeaderCell(n) == [is |-> "header", count |-> n % Word]

RecordCells(r) ==
    LET vlen == IF r.deleted THEN 0 ELSE r.len
    IN  <<[is |-> "record", tomb |-> r.deleted, klen |-> KeyLen(r.key), vlen |-> vlen]>>
        \o [i \in 1 .. KeyLen(r.key) |-> [is |-> "key", of |-> r.key]]
        \o [i \in 1 .. vlen |-> [is |-> "value", of |-> r.key]]

DataCells(rs) == FlattenSeq([i \in DOMAIN rs |-> RecordCells(rs[i])])

\* The data section comes after the header.
FirstOffset == 1

Offset(i) == FirstOffset + Len(DataCells(SubSeq(recs, 1, i - 1)))

BloomCell(rs) ==
    LET m == BloomBits(Len(rs))
    IN  [is |-> "bloom", m |-> m, k |-> Hashes,
         bits |-> UNION {add(rs[i].key, m) : i \in DOMAIN rs}]

IndexCells == [i \in DOMAIN recs |-> [is |-> "index", key |-> recs[i].key, offset |-> Offset(i)]]

writeSSTable ==
    LET bloomOffset == Offset(Len(recs) + 1)
    IN  <<HeaderCell(Len(recs))>> \o DataCells(recs) \o <<BloomCell(recs)>> \o IndexCells
        \o <<[is |-> "footer", index |-> bloomOffset + 1, bloom |-> bloomOffset]>>

----------------------------------------------------------------------------
(* openSSTable, readAll and get.  Whatever is not what the reader expects, *)
(* or is not there, is an error.                                           *)

Error == [error |-> TRUE]

\* A cell at an offset, or something no reader expects.
CellAt(file, o) == IF o + 1 \in DOMAIN file THEN file[o + 1] ELSE [is |-> "end"]

\* The last bytes of the file.
Footer(file) == CellAt(file, Len(file) - 1)

openSSTable(file) ==
    LET header == CellAt(file, 0)
        footer == Footer(file)
    IN  IF header.is # "header" \/ footer.is # "footer" THEN Error
        ELSE LET bloom == CellAt(file, footer.bloom)
                 index == [i \in 1 .. header.count |-> CellAt(file, footer.index + i - 1)]
             IN  IF \/ bloom.is # "bloom"
                    \/ bloom.m = 0 \/ bloom.m > MaxBloomBits \/ bloom.m % 8 # 0
                    \/ \E i \in DOMAIN index : index[i].is # "index"
                 THEN Error
                 ELSE [error |-> FALSE, index |-> index, bloom |-> bloom]

\* The record at an offset, and whether it is there: header, key and value.
RecordAt(file, o) ==
    LET head == CellAt(file, o)
        body == IF head.is # "record" THEN <<>>
                ELSE [i \in 1 .. head.klen + head.vlen |-> CellAt(file, o + i)]
    IN  IF \/ head.is # "record"
           \/ \E i \in DOMAIN body : body[i].is # (IF i <= head.klen THEN "key" ELSE "value")
        THEN Error
        ELSE [error |-> FALSE, next |-> o + 1 + Len(body),
              rec |-> [key |-> body[1].of, len |-> head.vlen, deleted |-> head.tomb]]

DataEnd_AtIndex(footer) == footer.index

\* Where the data section ends.
DataEnd(footer) == Min({footer.index, footer.bloom})

\* readAll: record after record, up to the end of the data section.
readAll(file) ==
    LET end == DataEnd(Footer(file))
        from[o \in 0 .. Len(file)] ==
            IF o >= end THEN <<>>
            ELSE LET r == RecordAt(file, o)
                 IN  IF r.error THEN <<Error>> ELSE <<r.rec>> \o from[r.next]
    IN  from[FirstOffset]

NotFound == [error |-> FALSE, found |-> FALSE]

\* get: the bloom filter, the index, the record (readAt, which takes an offset
\* at the end of the file for a key that is not there, and compares the key it
\* finds).
get(file, k) ==
    LET table == openSSTable(file)
        at == {i \in DOMAIN table.index : table.index[i].key = k}
        offset == table.index[CHOOSE i \in at : TRUE].offset
        r == RecordAt(file, offset)
    IN  IF table.error THEN Error
        ELSE IF ~mayContain(table.bloom, k) \/ at = {} THEN NotFound
        ELSE IF offset >= Len(file) THEN NotFound
        ELSE IF r.error \/ r.rec.key # k THEN Error
        ELSE [error |-> FALSE, found |-> TRUE, deleted |-> r.rec.deleted, len |-> r.rec.len]

----------------------------------------------------------------------------
\* The records of a memtable or a merge, whose keys are added in order.
Init ==
    /\ recs = <<>>
    /\ hash \in [Key -> [h1 : 0 .. MaxHash, h2 : 0 .. MaxHash]]

Add(r) ==
    /\ \A i \in DOMAIN recs : recs[i].key < r.key
    /\ recs' = Append(recs, r)
    /\ UNCHANGED hash

Next == \E r \in Record : Add(r)

Spec == Init /\ [][Next]_vars

----------------------------------------------------------------------------
(* Properties.                                                             *)

\* What a record is once it was written: a tombstone has no value.
Stored(r) == [r EXCEPT !.len = IF r.deleted THEN 0 ELSE r.len]

\* get finds each key that was written, with what was written, and no other
\* key, whatever the hash functions are (bloom filter, index and offsets).
GetFindsWhatWasWritten ==
    \A k \in Key :
        LET at == {i \in DOMAIN recs : recs[i].key = k}
        IN  get(writeSSTable, k) =
              IF at = {} THEN NotFound
              ELSE LET r == Stored(recs[CHOOSE i \in at : TRUE])
                   IN  [error |-> FALSE, found |-> TRUE, deleted |-> r.deleted, len |-> r.len]

\* A merge reads back what a flush or an earlier merge wrote.
MergeReadsWhatWasWritten ==
    readAll(writeSSTable) = [i \in DOMAIN recs |-> Stored(recs[i])]

\* A table that flush or Compact wrote reads back as it was written, or
\* openSSTable refuses it; and it refuses none whose filter is as small as a
\* reader allows, which is up to MaxBloomBits / BitsPerKey keys
\* (newBloomForN rounds up to whole bytes, and to a multiple of 2^32).
TableReadsBack ==
    Len(recs) < Word =>
        /\ ~openSSTable(writeSSTable).error =>
              GetFindsWhatWasWritten /\ MergeReadsWhatWasWritten
        /\ Len(recs) * BitsPerKey <= MaxBloomBits => ~openSSTable(writeSSTable).error

----------------------------------------------------------------------------
(* What one would expect and the code does not do: TLC refutes this.       *)

\* flush and Compact can open what they wrote.  writeSSTable does not know the
\* limit that openSSTable puts on the filter, so a table of more keys is
\* written, and refused then and by every later Open.
EveryTableOpens == ~openSSTable(writeSSTable).error
=============================================================================
