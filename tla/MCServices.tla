----------------------------- MODULE MCServices -----------------------------
(***************************************************************************)
(* The services on small instances, for TLC.  Since they share no state, a *)
(* behaviour runs a single one, chosen at its start, while the others stay *)
(* as they begin; an invariant of a part is checked in all of them.        *)
(* Accounts and secrets meet in tokens only: a behaviour of many accounts  *)
(* makes one secret, and one with many secrets has one account and two     *)
(* calls.                                                                  *)
(***************************************************************************)
EXTENDS Services, Naturals, Sequences, TLC

VARIABLE part

PartInit == part \in {"files", "accounts", "secrets", "access"} /\ ServicesInit

PartNext ==
    /\ \/ part = "files" /\ FilesStep
       \/ part = "accounts" /\ AuthStep /\ secrets' <= 1
       \/ part = "secrets" /\ AuthStep /\ Len(users') <= 1 /\ calls' <= 2
       \/ part = "access" /\ AccessStep
    /\ UNCHANGED part

PartSpec == PartInit /\ [][PartNext]_<<part, vars, authVars, accessVars>>

Symmetry == Permutations(File) \cup Permutations(Proc) \cup Permutations(Email)
            \cup Permutations(Password)
=============================================================================
