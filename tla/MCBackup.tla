------------------------------ MODULE MCBackup ------------------------------
(***************************************************************************)
(* Snapshots on small instances, for TLC.                                  *)
(***************************************************************************)
EXTENDS Backup, TLC

Symmetry == Permutations(Key)
=============================================================================
