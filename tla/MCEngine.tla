------------------------------ MODULE MCEngine ------------------------------
(***************************************************************************)
(* The engine on small instances, for TLC.                                 *)
(***************************************************************************)
EXTENDS EngineInv, TLC

KeySymmetry == Permutations(Key)

Symmetry == Permutations(Key) \cup Permutations(Reader)
=============================================================================
