------------------------------ MODULE Catalog ------------------------------
(***************************************************************************)
(* What the collections service promises about schemas, without its lock   *)
(* and its engine calls: each collection is created only when it is not    *)
(* there, changed by whole patches to what it is at that moment, and       *)
(* removed, one call at a time.                                            *)
(***************************************************************************)
EXTENDS Schema

CONSTANTS
    Coll,       \* the names of collections
    NewMeta,    \* what callers ask to create
    Patch       \* what callers ask to change

VARIABLE meta   \* the metadata of each collection

Exists(c) == meta[c] # NoMeta

Init == meta = [c \in Coll |-> NoMeta]

Create(c) ==
    /\ ~Exists(c)
    /\ \E m \in NewMeta : validateFields(m.fields) /\ meta' = [meta EXCEPT ![c] = m]

Change(c) ==
    /\ Exists(c)
    /\ \E patch \in Patch :
          LegalPatch(patch) /\ meta' = [meta EXCEPT ![c] = Patched(meta[c], patch)]

Remove(c) ==
    /\ Exists(c)
    /\ meta' = [meta EXCEPT ![c] = NoMeta]

Next == \E c \in Coll : Create(c) \/ Change(c) \/ Remove(c)

Spec == Init /\ [][Next]_meta
============================================================================
