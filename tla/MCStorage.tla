----------------------------- MODULE MCStorage ------------------------------
(***************************************************************************)
(* What is beside and below the engine on small instances, for TLC.  A     *)
(* behaviour runs a single part, chosen at its start, while the others     *)
(* stay as they begin.                                                     *)
(***************************************************************************)
EXTENDS Storage

VARIABLE part

PartInit ==
    /\ part \in {"scan", "table", "log", "dir", "topic"}
    /\ StorageInit
    /\ part = "table" \/ hash = [k \in Key |-> [h1 |-> 0, h2 |-> 0]]

PartNext ==
    /\ \/ part = "scan" /\ ListingStep
       \/ part = "table" /\ TableStep
       \/ part = "log" /\ LogStep
       \/ part = "dir" /\ DirStep
       \/ part = "topic" /\ TopicStep
    /\ UNCHANGED part

PartSpec == PartInit /\ [][PartNext]_<<part, vars, tableVars, logVars, lockVars, topicVars>>
=============================================================================
