------------------------------ MODULE KVStore ------------------------------
(***************************************************************************)
(* What the storage engine promises its callers, without log, memtable or  *)
(* tables: while it is open, the contents of the store change only through *)
(* the write calls, one at a time and each to a newer version; once a      *)
(* write call has returned success, no crash or restart may bring the key  *)
(* back to an older version.                                               *)
(***************************************************************************)
EXTENDS Naturals

CONSTANT Key, Missing

VARIABLES
    open,       \* the engine is answering calls
    store,      \* the version a Get of each key answers while open
    acked       \* id of the last write to each key that returned success

vars == <<open, store, acked>>

Version == [id : Nat, del : BOOLEAN]

Nothing == [k \in Key |-> Missing]

Init ==
    /\ open = FALSE
    /\ store = Nothing
    /\ acked = [k \in Key |-> 0]

\* A write takes effect; it may be acknowledged in the same step.
Commit(k) ==
    /\ open
    /\ store'[k] \in Version
    /\ store'[k].id > store[k].id
    /\ store' = [store EXCEPT ![k] = store'[k]]
    /\ acked' \in {acked, [acked EXCEPT ![k] = store'[k].id]}
    /\ UNCHANGED open

\* The caller of the last write to k learns that it succeeded.
Ack(k) ==
    /\ open
    /\ acked' = [acked EXCEPT ![k] = store[k].id]
    /\ UNCHANGED <<open, store>>

\* A crash, a power failure or a Close.
Stop ==
    /\ open
    /\ open' = FALSE
    /\ store' = Nothing
    /\ UNCHANGED acked

\* Reopening restores every acknowledged write, and possibly newer ones.
Recover ==
    /\ ~open
    /\ open' = TRUE
    /\ store' \in [Key -> Version]
    /\ \A k \in Key : store'[k].id >= acked[k]
    /\ UNCHANGED acked

Next ==
    \/ \E k \in Key : Commit(k) \/ Ack(k)
    \/ Stop
    \/ Recover

Spec == Init /\ [][Next]_vars
============================================================================
