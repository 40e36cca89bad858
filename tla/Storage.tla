------------------------------ MODULE Storage -------------------------------
(***************************************************************************)
(* What is beside and below the engine: listings, the files of tables and  *)
(* of the log, the directory lock, and the topics of subscriptions.  They  *)
(* share no state, and a step is one of a single part.                     *)
(***************************************************************************)
EXTENDS Scan

CONSTANTS
    MaxValue, BitsPerKey, MinBits, Hashes, MaxBloomBits, Word, MaxHash,
    MaxBody, MaxRecords, MaxCrashes,
    Handle, Nobody, MaxSets, MaxOpens, MaxCompactions,
    Char, MaxLen

VARIABLES
    recs, hash,
    file, durable, handle, position, replayed, acked, inflight, records, crashes,
    lock, files, tmps, wal, handles, comp, clash, sets, opens, compactions,
    sub, topic

tableVars == <<recs, hash>>
logVars == <<file, durable, handle, position, replayed, acked, inflight, records, crashes>>
lockVars == <<lock, files, tmps, wal, handles, comp, clash, sets, opens, compactions>>
topicVars == <<sub, topic>>

Table == INSTANCE TableFile

Log == INSTANCE LogFile WITH memtable <- replayed

Dir == INSTANCE DirLock WITH handle <- handles, writes <- sets, MaxWrites <- MaxSets

Topic == INSTANCE Topics

ASSUME StorageAssumption ==
    Table!TableFileAssumption /\ Log!LogFileAssumption /\ Dir!DirLockAssumption

StorageInit == Init /\ Table!Init /\ Log!Init /\ Dir!Init /\ Topic!Init

ListingStep == Next /\ UNCHANGED <<tableVars, logVars, lockVars, topicVars>>

TableStep == Table!Next /\ UNCHANGED <<vars, logVars, lockVars, topicVars>>

LogStep == Log!Next /\ UNCHANGED <<vars, tableVars, lockVars, topicVars>>

DirStep == Dir!Next /\ UNCHANGED <<vars, tableVars, logVars, topicVars>>

TopicStep == Topic!Next /\ UNCHANGED <<vars, tableVars, logVars, lockVars>>

StorageNext == ListingStep \/ TableStep \/ LogStep \/ DirStep \/ TopicStep

StorageSpec ==
    StorageInit /\ [][StorageNext]_<<vars, tableVars, logVars, lockVars, topicVars>>

\* Of DirLock: no write is lost between handles, or hidden from one, until two
\* Compacts have chosen one name.
WritesAreKept == Dir!WritesAreKept

\* Of LogFile: what a restart replays.
ReplayIsExact == Log!ReplayIsExact

\* Of TableFile: a table reads back as it was written, or is refused for its
\* size.
TableReadsBack == Table!TableReadsBack

\* Of Topics: which subscriptions a topic is for.
MatchesBySegments == Topic!MatchesBySegments
=============================================================================
