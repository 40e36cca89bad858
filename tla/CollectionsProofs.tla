-------------------------- MODULE CollectionsProofs --------------------------
(***************************************************************************)
(* Theorems about Collections, for any collections, schemas, records,      *)
(* callers, page size and bounds: records fit their schemas, deletions     *)
(* leave only late writes, events tell of writes, listings are complete,   *)
(* and schema calls implement Catalog.                                     *)
(***************************************************************************)
EXTENDS Collections, FiniteSetTheorems, WellFoundedInduction, TLAPS

Ops == {"create", "update", "delete"}

CallState ==
    [pc : {"idle", "lock", "putMeta", "list", "wipe", "merge", "put", "notify"},
     op : Ops \cup {"none"}, n : Nat, c : Coll \cup {Nobody}, id : Nat,
     meta : Meta, patch : PatchType, data : Data, keys : SUBSET Id]

WalkState ==
    [pc : {"idle", "scan", "get", "done"}, c : Coll \cup {Nobody}, after : Nat, next : Nat,
     keys : SUBSET Id, seen : Seq(Id), stable : SUBSET Id]

\* What TypeOK leaves open, and that a collection that is there has fields.
Typed ==
    /\ TypeOK
    /\ DOMAIN recs = Coll
    /\ call \in [Admin \cup Client -> CallState]
    /\ walk \in [Pager -> WalkState]
    /\ recordCalls \in Nat /\ misses \in Nat
    /\ \A c \in Coll : Exists(c) => meta[c].fields # <<>>

\* What CreateCollection found to be absent is absent until it is put, and
\* what UpdateCollection read is what it changes.
PutIsRight(p) ==
    LET c == call[p].c
    IN  \/ /\ call[p].op = "create" /\ call[p].meta \in NewMeta
           /\ validateFields(call[p].meta.fields)
           /\ misses = 0 => ~Exists(c)
        \/ /\ call[p].op = "update" /\ Exists(c)
           /\ \E patch \in Patch : LegalPatch(patch) /\ call[p].meta = Patched(meta[c], patch)

\* A schema call, past its check with the mutex held.
SchemaCallOK(p) ==
    LET c == call[p].c
    IN  /\ At(p, "idle") \/ c \in Coll
        /\ At(p, "lock") =>
              /\ call[p].op = "create" => call[p].meta \in NewMeta
              /\ call[p].op = "update" => call[p].patch \in Patch
        /\ At(p, "putMeta") => PutIsRight(p)
        /\ At(p, "list") \/ At(p, "wipe") => Exists(c)
        /\ At(p, "wipe") => \A id \in Ids(c) : id \in call[p].keys \/ <<c, id>> \in late

\* A record call; what it has validated still fits unless the first schema of
\* the collection was replaced.
RecordCallOK(p) ==
    LET c == call[p].c
    IN  ~At(p, "idle") =>
          /\ c \in Coll /\ call[p].id \in used /\ call[p].op \in Ops
          /\ call[p].n <= recordCalls
          /\ At(p, "merge") /\ c \notin edited => Exists(c) /\ call[p].meta = meta[c]
          /\ At(p, "put") /\ call[p].op # "delete" /\ c \notin edited =>
                Exists(c) /\ validateRecord(meta[c].fields, call[p].data)
          /\ At(p, "notify") => Change(p) \in Range(history)
          /\ \A i \in DOMAIN events : events[i].n # call[p].n

\* Calls in progress have numbers of their own, and so have events.
Numbers ==
    /\ \A p, q \in Client :
          p # q /\ ~At(p, "idle") /\ ~At(q, "idle") => call[p].n # call[q].n
    /\ \A i \in DOMAIN events : events[i].n <= recordCalls /\ events[i] \in Range(history)
    /\ \A i, j \in DOMAIN events : i # j => events[i].n # events[j].n

Sorted(s) == \A i, j \in DOMAIN s : i < j => s[i] < s[j]

\* A listing: what it has seen is in order and before what it goes on with.
InOrder(w) ==
    LET v == walk[w]
    IN  /\ v.pc # "idle" => v.c \in Coll
        /\ Sorted(v.seen)
        /\ v.pc = "scan" => \A i \in DOMAIN v.seen : v.seen[i] <= v.after
        /\ v.pc = "get" =>
              /\ \A i \in DOMAIN v.seen : \A k \in v.keys : v.seen[i] < k
              /\ v.next # 0 => /\ \A i \in DOMAIN v.seen : v.seen[i] <= v.next
                               /\ \A k \in v.keys : k <= v.next

\* What was there from the start still is, and is seen or ahead.
Complete(w) ==
    LET v == walk[w]
        Ahead(id) == \/ v.pc = "scan" /\ id > v.after
                     \/ v.pc = "get" /\ (id \in v.keys \/ (v.next # 0 /\ id > v.next))
    IN  v.pc # "idle" =>
          /\ v.stable \subseteq Ids(v.c)
          /\ misses = 0 => \A id \in v.stable : id \in Range(v.seen) \/ Ahead(id)

WalkOK(w) == InOrder(w) /\ Complete(w)

\* The inductive invariant.
CollInv ==
    /\ Typed
    /\ \A p \in Admin : SchemaCallOK(p)
    /\ \A p \in Client : RecordCallOK(p)
    /\ Numbers
    /\ \A w \in Pager : WalkOK(w)
    /\ RecordsFitSchema /\ OrphansAreLateWrites
----------------------------------------------------------------------------
(* The operators of the model.                                             *)

LEMMA MinOfIds ==
    ASSUME NEW S, S \subseteq Nat, S # {}
    PROVE  Min(S) \in S /\ \A i \in S : Min(S) <= i
<1>1. PICK x \in S : \A y \in S : ~ (<<y, x>> \in OpToRel(<, Nat))
  BY NatLessThanWellFounded, WFMin
<1>2. \A y \in S : x <= y
  <2> SUFFICES ASSUME NEW y \in S, ~ (x <= y) PROVE FALSE
    OBVIOUS
  <2>1. x \in Nat /\ y \in Nat
    OBVIOUS
  <2>2. y < x
    BY <2>1
  <2> QED BY <2>1, <2>2, <1>1 DEF OpToRel
<1> QED BY <1>2 DEF Min

LEMMA MaxOfIds ==
    ASSUME NEW S, S \subseteq Nat, IsFiniteSet(S), S # {}
    PROVE  Max(S) \in S /\ \A i \in S : i <= Max(S)
<1> DEFINE Bigger(i) == {j \in S : j > i}
           T == {Cardinality(Bigger(i)) : i \in S}
<1>1. \A i \in S : IsFiniteSet(Bigger(i)) /\ Cardinality(Bigger(i)) \in Nat
  <2> SUFFICES ASSUME NEW i \in S PROVE IsFiniteSet(Bigger(i)) /\ Cardinality(Bigger(i)) \in Nat
    OBVIOUS
  <2>1. Bigger(i) \in SUBSET S
    OBVIOUS
  <2> QED BY <2>1, FS_Subset, FS_CardinalityType
<1>2. T \subseteq Nat /\ T # {}
  BY <1>1
<1> HIDE DEF T
<1>3. Min(T) \in T /\ \A n \in T : Min(T) <= n
  BY <1>2, MinOfIds
<1>4. PICK m \in S : Min(T) = Cardinality(Bigger(m))
  BY <1>3 DEF T
<1>5. \A i \in S : m >= i
  <2> SUFFICES ASSUME NEW i \in S, ~ (m >= i) PROVE FALSE
    OBVIOUS
  <2>0. i \in Nat /\ m \in Nat /\ \A j \in S : j \in Nat
    OBVIOUS
  <2>a. \A j \in S : j > i => j > m
    BY <2>0
  <2>b. Bigger(i) \subseteq Bigger(m)
    BY <2>a
  <2>c. i \in Bigger(m)
    BY <2>0
  <2>d. i \notin Bigger(i)
    BY <2>0
  <2>1. Bigger(i) \in SUBSET Bigger(m) /\ Bigger(m) # Bigger(i)
    BY <2>b, <2>c, <2>d
  <2> HIDE DEF Bigger
  <2>2. Cardinality(Bigger(i)) <= Cardinality(Bigger(m)) /\ Cardinality(Bigger(i)) # Cardinality(Bigger(m))
    BY <2>1, <1>1, FS_Subset
  <2>3. Cardinality(Bigger(i)) \in T
    BY DEF T
  <2>4. Cardinality(Bigger(m)) <= Cardinality(Bigger(i))
    BY <2>3, <1>3, <1>4
  <2> QED BY <2>2, <2>4, <1>1
<1> QED BY <1>5 DEF Max

\* A page is what comes first, and is not empty if there is anything.
LEMMA PageIsFirst ==
    ASSUME CollectionsAssumption, NEW S \in SUBSET Id
    PROVE  /\ FirstOf(S) \in SUBSET S /\ IsFiniteSet(FirstOf(S))
           /\ S # {} => FirstOf(S) # {}
           /\ \A i \in FirstOf(S), j \in S \ FirstOf(S) : i < j
<1> DEFINE Less(id) == {i \in S : i < id}
<1>0. S \subseteq Nat /\ PageSize \in Nat \ {0} /\ \A i \in S : i \in Nat
  BY DEF CollectionsAssumption
<1>1. IsFiniteSet(S)
  BY FS_Subset DEF CollectionsAssumption
<1>2. \A id \in S : IsFiniteSet(Less(id)) /\ Cardinality(Less(id)) \in Nat
  <2> SUFFICES ASSUME NEW id \in S PROVE IsFiniteSet(Less(id)) /\ Cardinality(Less(id)) \in Nat
    OBVIOUS
  <2>1. Less(id) \in SUBSET S
    OBVIOUS
  <2> QED BY <2>1, <1>1, FS_Subset, FS_CardinalityType
<1>3. \A id \in S : id \in FirstOf(S) <=> Cardinality(Less(id)) < PageSize
  BY DEF FirstOf
<1>4. FirstOf(S) \in SUBSET S /\ IsFiniteSet(FirstOf(S))
  <2>1. FirstOf(S) \in SUBSET S
    BY DEF FirstOf
  <2> QED BY <2>1, <1>1, FS_Subset
<1>5. ASSUME S # {} PROVE FirstOf(S) # {}
  <2>1. Min(S) \in S /\ \A i \in S : Min(S) <= i
    BY <1>0, <1>5, MinOfIds
  <2>2. PICK m \in S : \A i \in S : m <= i
    BY <2>1
  <2>a. \A i \in S : ~ (i < m)
    BY <2>2, <1>0
  <2>3. Less(m) = {}
    BY <2>a
  <2>4. Cardinality(Less(m)) = 0
    BY <2>3, FS_EmptySet
  <2> QED BY <2>4, <1>3, <1>0
<1>6. ASSUME NEW i \in FirstOf(S), NEW j \in S \ FirstOf(S) PROVE i < j
  <2>a. i \in S /\ j \in S /\ i \in Nat /\ j \in Nat
    BY <1>0, <1>4
  <2> SUFFICES ASSUME j <= i PROVE FALSE
    BY <2>a
  <2>b. \A k \in S : k < j => k < i
    BY <1>0, <2>a
  <2>c. Less(j) \subseteq Less(i)
    BY <2>b
  <2>1. i \in S /\ Less(j) \in SUBSET Less(i)
    BY <2>a, <2>c
  <2> HIDE DEF Less
  <2>2. Cardinality(Less(j)) <= Cardinality(Less(i))
    BY <2>1, <1>2, FS_Subset
  <2>3. Cardinality(Less(i)) < PageSize /\ ~ (Cardinality(Less(j)) < PageSize)
    BY <1>3, <2>1
  <2> QED BY <2>1, <2>2, <2>3, <1>2, <1>0
<1> QED BY <1>4, <1>5, <1>6

LEMMA MergedIsData ==
    ASSUME NEW d \in Data, NEW e \in Data
    PROVE  Merged(d, e) \in Data
<1>1. PICK S \in SUBSET (FieldName \cup {"9 lives"}) : d \in [S -> Value]
  BY DEF Data
<1>2. PICK T \in SUBSET (FieldName \cup {"9 lives"}) : e \in [T -> Value]
  BY DEF Data
<1>3. Merged(d, e) \in [S \cup T -> Value]
  BY <1>1, <1>2 DEF Merged
<1> QED BY <1>3 DEF Data

\* A legal patch of a record that fits gives one that fits.
LEMMA MergeFits ==
    ASSUME NEW fields, NEW held, NEW patch,
           validateRecord(fields, held), MergeCheck(fields, held, patch)
    PROVE  validateRecord(fields, Merged(held, patch))
<1>1. validateFieldValues(fields, Merged(held, patch))
  BY DEF validateRecord, MergeCheck, validateFieldValues, Merged
<1> QED BY <1>1 DEF MergeCheck, validateRecord

\* A legal patch keeps a collection in being.
LEMMA PatchedIsMeta ==
    ASSUME NEW m \in Meta, NEW patch \in PatchType
    PROVE  /\ Patched(m, patch) \in Meta
           /\ m.fields # <<>> /\ LegalPatch(patch) => Patched(m, patch).fields # <<>>
<1>1. PICK S \in SUBSET RuleName : patch.rules \in [S -> StoredRule]
  BY DEF PatchType
<1>2. \A n \in DOMAIN patch.rules : Normalize(patch.rules[n]) \in StoredRule
  BY DEF Normalize, StoredRule, Rule
<1>3. [n \in RuleName |-> IF n \in DOMAIN patch.rules THEN Normalize(patch.rules[n]) ELSE m.rules[n]]
        \in [RuleName -> StoredRule]
  BY <1>2 DEF Meta
<1>4. (IF patch.keep THEN m.fields ELSE patch.fields) \in Seq(Field)
  BY DEF Meta, PatchType
<1>5. Patched(m, patch) \in Meta
  BY <1>3, <1>4 DEF Patched, Meta
<1>6. ASSUME m.fields # <<>>, LegalPatch(patch) PROVE Patched(m, patch).fields # <<>>
  <2>1. Patched(m, patch).fields = IF patch.keep THEN m.fields ELSE patch.fields
    BY DEF Patched
  <2> QED BY <2>1, <1>6 DEF LegalPatch, validateFields
<1> QED BY <1>5, <1>6

LEMMA Defaults ==
    /\ NoMeta \in Meta /\ NoPatch \in PatchType /\ <<>> \in Data /\ NoMeta.fields = <<>>
    /\ IdleCall \in CallState /\ IdleCall.pc = "idle"
    /\ IdleWalk \in WalkState /\ IdleWalk.pc = "idle" /\ IdleWalk.seen = <<>>
<1>1. \A T : <<>> \in [{} -> T]
  OBVIOUS
<1>2. NoMeta \in Meta /\ NoMeta.fields = <<>>
  BY DEF NoMeta, Meta, StoredRule
<1>3. <<>> \in Data
  <2>1. {} \in SUBSET (FieldName \cup {"9 lives"}) /\ <<>> \in [{} -> Value]
    BY <1>1
  <2> QED BY <2>1 DEF Data
<1>4. NoPatch \in PatchType
  <2>1. {} \in SUBSET RuleName /\ <<>> \in [{} -> StoredRule]
    BY <1>1
  <2>2. <<>> \in UNION {[S -> StoredRule] : S \in SUBSET RuleName}
    BY <2>1
  <2>3. <<>> \in Seq(Field)
    OBVIOUS
  <2> QED BY <2>2, <2>3 DEF NoPatch, PatchType
<1>5. IdleCall \in CallState /\ IdleCall.pc = "idle"
  BY <1>2, <1>3, <1>4 DEF IdleCall, CallState
<1>6. IdleWalk \in WalkState /\ IdleWalk.pc = "idle" /\ IdleWalk.seen = <<>>
  BY DEF IdleWalk, WalkState
<1> QED BY <1>2, <1>3, <1>4, <1>5, <1>6
----------------------------------------------------------------------------
(* The invariant holds at first, and steps that change one call or one     *)
(* listing keep it.                                                        *)

LEMMA CollInit ==
    ASSUME CollectionsAssumption, Init
    PROVE  CollInv
<1>1. /\ \A p \in Admin \cup Client : call[p] = IdleCall /\ call[p].pc = "idle"
      /\ \A w \in Pager : walk[w] = IdleWalk /\ walk[w].pc = "idle" /\ walk[w].seen = <<>>
  BY Defaults DEF Init
<1>2. \A c \in Coll : recs[c] = <<>> /\ Ids(c) = {} /\ ~Exists(c)
  BY DEF Init, Ids, Exists
<1>3. Typed
  <2>1. TypeOK
    BY <1>1, <1>2, Defaults DEF Init, TypeOK, CollectionsAssumption, Exists
  <2> QED BY <2>1, <1>1, <1>2, Defaults DEF Init, Typed
<1>4. /\ \A p \in Admin : SchemaCallOK(p)
      /\ \A p \in Client : RecordCallOK(p)
  BY <1>1 DEF SchemaCallOK, RecordCallOK, At
<1>5. Numbers
  BY <1>1 DEF Init, Numbers, At
<1>6. \A w \in Pager : WalkOK(w)
  BY <1>1 DEF WalkOK, InOrder, Complete, Sorted
<1>7. RecordsFitSchema /\ OrphansAreLateWrites
  BY <1>2 DEF RecordsFitSchema, OrphansAreLateWrites
<1> QED BY <1>3, <1>4, <1>5, <1>6, <1>7 DEF CollInv

HeldPCs == {"putMeta", "list", "wipe"}

LEMMA Context ==
    ASSUME CollectionsAssumption, CollInv
    PROVE  /\ call \in [Admin \cup Client -> CallState]
           /\ walk \in [Pager -> WalkState]
           /\ misses \in Nat /\ recordCalls \in Nat
           /\ meta \in [Coll -> Meta] /\ DOMAIN recs = Coll
           /\ \A p \in Admin : (mu = p) <=> call[p].pc \in HeldPCs
           /\ \A p \in Admin : p # Nobody /\ p \notin Client
           /\ \A p, q \in Admin : call[p].pc \in HeldPCs /\ call[q].pc \in HeldPCs => p = q
           /\ \A c \in Coll : Ids(c) \subseteq used
           /\ used \subseteq Id
BY DEF CollInv, Typed, TypeOK, CollectionsAssumption, HeldPCs

\* A step of a schema call that leaves the engine's contents alone.
LEMMA SchemaMoves ==
    ASSUME CollectionsAssumption, CollInv, NEW p \in Admin, NEW k \in CallState,
           call' = [call EXCEPT ![p] = k],
           UNCHANGED <<store, walk, ghosts, recordCalls>>,
           misses' \in Nat, misses' = 0 => misses = 0,
           \/ k.pc \in HeldPCs /\ mu' = p /\ (mu = Nobody \/ mu = p)
           \/ k.pc \in {"idle", "lock"} /\ mu' = IF mu = p THEN Nobody ELSE mu,
           SchemaCallOK(p)'
    PROVE  CollInv'
<1>1. \A q \in Admin \cup Client : call'[q] = IF q = p THEN k ELSE call[q]
  BY Context
<1>2. call' \in [Admin \cup Client -> CallState]
  BY Context
<1>3. \A q \in Client : call'[q] = call[q]
  BY <1>1, Context
<1>4. Typed'
  <2>1. \A q \in Admin : (mu' = q) <=> call'[q].pc \in HeldPCs
    BY <1>1, Context DEF HeldPCs
  <2>2. \A q \in Admin : call'[q].pc \in {"idle", "lock", "putMeta", "list", "wipe"}
    BY <1>1 DEF HeldPCs, CollInv, Typed, TypeOK
  <2>3. TypeOK'
    BY <2>1, <2>2, <1>3 DEF CollInv, Typed, TypeOK, store, ghosts, HeldPCs, Ids
  <2> QED BY <2>3, <1>2 DEF CollInv, Typed, store, Exists
<1>5. \A q \in Admin : SchemaCallOK(q)'
  <2> SUFFICES ASSUME NEW q \in Admin, q # p PROVE SchemaCallOK(q)'
    OBVIOUS
  <2>1. call'[q] = call[q] /\ SchemaCallOK(q)
    BY <1>1 DEF CollInv
  <2> QED BY <2>1 DEF SchemaCallOK, PutIsRight, At, Exists, Ids, store, ghosts
<1>6. \A q \in Client : RecordCallOK(q)'
  <2> SUFFICES ASSUME NEW q \in Client PROVE RecordCallOK(q)'
    OBVIOUS
  <2>1. call'[q] = call[q] /\ RecordCallOK(q)
    BY <1>3 DEF CollInv
  <2> QED BY <2>1 DEF RecordCallOK, At, Exists, Change, store, ghosts
<1>7. Numbers'
  BY <1>3 DEF CollInv, Numbers, At, ghosts
<1>8. \A w \in Pager : WalkOK(w)'
  BY DEF CollInv, WalkOK, InOrder, Complete, Ids, store
<1>9. RecordsFitSchema' /\ OrphansAreLateWrites'
  BY DEF CollInv, RecordsFitSchema, OrphansAreLateWrites, Exists, Ids, store, ghosts
<1> QED BY <1>4, <1>5, <1>6, <1>7, <1>8, <1>9 DEF CollInv

\* A step of a record call that leaves the engine's contents alone.
LEMMA RecordMoves ==
    ASSUME CollectionsAssumption, CollInv, NEW p \in Client, NEW k \in CallState,
           call' = [call EXCEPT ![p] = k],
           UNCHANGED <<store, mu, walk, events, history, late, edited>>,
           used \subseteq used', used' \subseteq Id,
           recordCalls' \in Nat, recordCalls' >= recordCalls,
           misses' \in Nat, misses' = 0 => misses = 0,
           k.pc \in {"idle", "merge", "put", "notify"},
           \/ k.pc = "idle"
           \/ recordCalls' > recordCalls /\ k.n = recordCalls'
           \/ ~At(p, "idle") /\ k.n = call[p].n,
           RecordCallOK(p)'
    PROVE  CollInv'
<1>1. \A q \in Admin \cup Client : call'[q] = IF q = p THEN k ELSE call[q]
  BY Context
<1>2. call' \in [Admin \cup Client -> CallState]
  BY Context
<1>3. \A q \in Admin : call'[q] = call[q]
  BY <1>1, Context
<1>4. Typed'
  <2>1. \A q \in Admin : (mu' = q) <=> call'[q].pc \in HeldPCs
    BY <1>3, Context
  <2>2. \A q \in Client : call'[q].pc \in {"idle", "merge", "put", "notify"}
    BY <1>1 DEF CollInv, Typed, TypeOK
  <2>3. TypeOK'
    BY <2>1, <2>2, <1>3 DEF CollInv, Typed, TypeOK, store, HeldPCs, Ids
  <2> QED BY <2>3, <1>2 DEF CollInv, Typed, store, Exists
<1>5. \A q \in Admin : SchemaCallOK(q)'
  <2> SUFFICES ASSUME NEW q \in Admin PROVE SchemaCallOK(q)'
    OBVIOUS
  <2>1. call'[q] = call[q] /\ SchemaCallOK(q)
    BY <1>3 DEF CollInv
  <2> QED BY <2>1 DEF SchemaCallOK, PutIsRight, At, Exists, Ids, store
<1>6. \A q \in Client : RecordCallOK(q)'
  <2> SUFFICES ASSUME NEW q \in Client, q # p PROVE RecordCallOK(q)'
    OBVIOUS
  <2>1. call'[q] = call[q] /\ RecordCallOK(q)
    BY <1>1 DEF CollInv
  <2>2. call[q].n \in Nat
    BY Context DEF CallState
  <2>3. call[q].n <= recordCalls => call[q].n <= recordCalls'
    BY <2>2, Context
  <2>4. call[q].id \in used => call[q].id \in used'
    OBVIOUS
  <2>5. CASE call[q].pc = "idle"
    BY <2>1, <2>5 DEF RecordCallOK, At
  <2>6. CASE call[q].pc # "idle"
    <3>1. Change(q)' = Change(q) /\ Range(history') = Range(history)
      BY <2>1 DEF Change
    <3> QED BY <2>1, <2>3, <2>4, <2>6, <3>1 DEF RecordCallOK, At, Exists, store
  <2> QED BY <2>5, <2>6
<1>7. Numbers'
  <2>1. \A q \in Client : call[q].n \in Nat /\ (~At(q, "idle") => call[q].n <= recordCalls)
    BY Context DEF CallState, CollInv, RecordCallOK
  <2>2. ASSUME NEW q \in Client, q # p, call[q].pc # "idle", k.pc # "idle"
        PROVE  call[q].n # k.n
    <3>1. call[q].n \in Nat /\ call[q].n <= recordCalls
      BY <2>1, <2>2 DEF At
    <3>2. call[p].pc # "idle" => call[p].n # call[q].n
      BY <2>2 DEF CollInv, Numbers, At
    <3> QED BY <3>1, <3>2, <2>2, Context DEF At
  <2>3. \A q, r \in Client :
           q # r /\ call'[q].pc # "idle" /\ call'[r].pc # "idle" => call'[q].n # call'[r].n
    BY <1>1, <2>2 DEF CollInv, Numbers, At
  <2>4. \A i \in DOMAIN events : events[i].n <= recordCalls'
    <3> SUFFICES ASSUME NEW i \in DOMAIN events PROVE events[i].n <= recordCalls'
      OBVIOUS
    <3>1. events[i] \in Change_Type
      BY DEF CollInv, Typed, TypeOK
    <3>2. events[i].n \in Nat /\ events[i].n <= recordCalls
      BY <3>1 DEF Change_Type, CollInv, Numbers
    <3> QED BY <3>2, Context
  <2> QED BY <2>3, <2>4 DEF CollInv, Numbers, At
<1>8. \A w \in Pager : WalkOK(w)'
  BY DEF CollInv, WalkOK, InOrder, Complete, Ids, store
<1>9. RecordsFitSchema' /\ OrphansAreLateWrites'
  BY DEF CollInv, RecordsFitSchema, OrphansAreLateWrites, Exists, Ids, store
<1> QED BY <1>4, <1>5, <1>6, <1>7, <1>8, <1>9 DEF CollInv

\* A step of a listing.
LEMMA WalkMoves ==
    ASSUME CollectionsAssumption, CollInv, NEW w \in Pager, NEW v \in WalkState,
           walk' = [walk EXCEPT ![w] = v],
           UNCHANGED <<store, mu, call, ghosts, recordCalls>>,
           misses' \in Nat, misses' = 0 => misses = 0,
           WalkOK(w)'
    PROVE  CollInv'
<1>1. \A x \in Pager : walk'[x] = IF x = w THEN v ELSE walk[x]
  BY Context
<1>2. walk' \in [Pager -> WalkState]
  BY Context
<1>4. Typed'
  <2>2. \A x \in Pager : walk'[x].pc \in {"idle", "scan", "get", "done"}
    BY <1>2 DEF WalkState
  <2>3. TypeOK'
    BY <2>2 DEF CollInv, Typed, TypeOK, store, ghosts, Ids
  <2> QED BY <2>3, <1>2 DEF CollInv, Typed, store, Exists
<1>5. \A q \in Admin : SchemaCallOK(q)'
  BY DEF CollInv, SchemaCallOK, PutIsRight, At, Exists, Ids, store, ghosts
<1>6. \A q \in Client : RecordCallOK(q)'
  BY DEF CollInv, RecordCallOK, At, Exists, Change, store, ghosts
<1>7. Numbers'
  BY DEF CollInv, Numbers, At, ghosts
<1>8. \A x \in Pager : WalkOK(x)'
  <2> SUFFICES ASSUME NEW x \in Pager, x # w PROVE WalkOK(x)'
    OBVIOUS
  <2>1. walk'[x] = walk[x] /\ WalkOK(x)
    BY <1>1 DEF CollInv
  <2> QED BY <2>1 DEF WalkOK, InOrder, Complete, Ids, store
<1>9. RecordsFitSchema' /\ OrphansAreLateWrites'
  BY DEF CollInv, RecordsFitSchema, OrphansAreLateWrites, Exists, Ids, store, ghosts
<1> QED BY <1>4, <1>5, <1>6, <1>7, <1>8, <1>9 DEF CollInv
----------------------------------------------------------------------------
(* Schema calls.                                                           *)

LEMMA GetsType ==
    ASSUME misses \in Nat, NEW present \in BOOLEAN, NEW found \in BOOLEAN, Gets(present, found)
    PROVE  /\ misses' \in Nat /\ (misses' = 0 => misses = 0 /\ found = present)
           /\ found => present
BY DEF Gets

LEMMA CallSchemaStep ==
    ASSUME CollectionsAssumption, CollInv, NEW p \in Admin, NEW op \in Ops, NEW c \in Coll,
           NEW m \in Meta, NEW patch \in PatchType,
           op = "create" => m \in NewMeta, op = "update" => patch \in Patch,
           CallSchema(p, op, c, m, patch)
    PROVE  CollInv'
<1> DEFINE k == [IdleCall EXCEPT !.pc = "lock", !.op = op, !.c = c, !.meta = m, !.patch = patch]
<1>1. /\ k \in CallState /\ k.pc = "lock" /\ k.op = op /\ k.c = c
      /\ k.meta = m /\ k.patch = patch
  BY Defaults DEF IdleCall, CallState, Ops
<1>2. call' = [call EXCEPT ![p] = k] /\ call[p].pc = "idle"
  BY DEF CallSchema, At
<1> HIDE DEF k
<1>3. call'[p] = k
  BY <1>2, Context
<1>4. SchemaCallOK(p)'
  BY <1>1, <1>3 DEF SchemaCallOK, At
<1>5. mu # p
  BY <1>2, Context DEF HeldPCs
<1>6. UNCHANGED <<store, walk, ghosts, recordCalls, misses, mu>>
  BY DEF CallSchema
<1> QED BY <1>1, <1>2, <1>4, <1>5, <1>6, Context, SchemaMoves

LEMMA Returns ==
    ASSUME CollectionsAssumption, CollInv, NEW p \in Admin, Idle(p)
    PROVE  call'[p] = IdleCall /\ call'[p].pc = "idle" /\ SchemaCallOK(p)'
<1>1. call'[p] = IdleCall
  BY Context DEF Idle
<1> QED BY <1>1, Defaults DEF SchemaCallOK, At

\* A check returns, with the mutex free.
LEMMA SchemaReturns ==
    ASSUME CollectionsAssumption, CollInv, NEW p \in Admin, Idle(p), Unlock(p),
           mu = Nobody \/ mu = p,
           UNCHANGED <<store, walk, ghosts, recordCalls>>,
           misses' \in Nat, misses' = 0 => misses = 0
    PROVE  CollInv'
<1>1. mu' = IF mu = p THEN Nobody ELSE mu
  BY DEF Unlock
<1> QED BY <1>1, Returns, Defaults, SchemaMoves DEF Idle

LEMMA CreateCheckStep ==
    ASSUME CollectionsAssumption, CollInv, NEW p \in Admin, CreateCheck(p)
    PROVE  CollInv'
<1> DEFINE c == call[p].c
<1>1. PICK found \in BOOLEAN :
         /\ Gets(Exists(c), found)
         /\ IF validateFields(call[p].meta.fields) /\ ~found
            THEN mu' = p /\ call' = [call EXCEPT ![p].pc = "putMeta"]
            ELSE Unlock(p) /\ Idle(p)
  BY DEF CreateCheck
<1>2. /\ call[p].pc = "lock" /\ call[p].op = "create" /\ mu = Nobody
      /\ UNCHANGED <<store, walk, ghosts, recordCalls>>
  BY DEF CreateCheck, Lock, At
<1>3. misses' \in Nat /\ (misses' = 0 => misses = 0 /\ found = Exists(c))
  BY <1>1, Context, GetsType DEF Exists
<1>4. CASE ~(validateFields(call[p].meta.fields) /\ ~found)
  BY <1>1, <1>2, <1>3, <1>4, SchemaReturns
<1>5. CASE validateFields(call[p].meta.fields) /\ ~found
  <2> DEFINE k == [call[p] EXCEPT !.pc = "putMeta"]
  <2>1. /\ k \in CallState /\ k.pc = "putMeta" /\ k.op = "create" /\ k.c = c
        /\ k.meta = call[p].meta
    BY <1>2, Context DEF CallState
  <2>2. mu' = p /\ call' = [call EXCEPT ![p] = k]
    BY <1>1, <1>5, Context
  <2> HIDE DEF k
  <2>3. call'[p] = k
    BY <2>2, Context
  <2>4. c \in Coll /\ call[p].meta \in NewMeta
    BY <1>2 DEF CollInv, SchemaCallOK, At
  <2>6. PutIsRight(p)'
    BY <1>3, <1>5, <2>1, <2>3, <2>4, <1>2 DEF PutIsRight, Exists, store
  <2>7. SchemaCallOK(p)'
    BY <2>1, <2>3, <2>4, <2>6 DEF SchemaCallOK, At
  <2> QED BY <2>1, <2>2, <2>7, <1>2, <1>3, SchemaMoves DEF HeldPCs
<1> QED BY <1>4, <1>5

LEMMA UpdateCheckStep ==
    ASSUME CollectionsAssumption, CollInv, NEW p \in Admin, UpdateCheck(p)
    PROVE  CollInv'
<1> DEFINE c == call[p].c
           m == Patched(meta[c], call[p].patch)
<1>1. PICK found \in BOOLEAN :
         /\ Gets(Exists(c), found)
         /\ IF found /\ LegalPatch(call[p].patch)
            THEN /\ mu' = p
                 /\ call' = [call EXCEPT ![p].pc = "putMeta", ![p].meta = m]
            ELSE Unlock(p) /\ Idle(p)
  BY DEF UpdateCheck
<1>2. /\ call[p].pc = "lock" /\ call[p].op = "update" /\ mu = Nobody
      /\ UNCHANGED <<store, walk, ghosts, recordCalls>>
  BY DEF UpdateCheck, Lock, At
<1>3. /\ misses' \in Nat /\ (misses' = 0 => misses = 0)
      /\ found => Exists(c)
  BY <1>1, Context, GetsType DEF Exists
<1>4. CASE ~(found /\ LegalPatch(call[p].patch))
  BY <1>1, <1>2, <1>3, <1>4, SchemaReturns
<1>5. CASE found /\ LegalPatch(call[p].patch)
  <2>4. c \in Coll /\ call[p].patch \in Patch /\ call[p].patch \in PatchType
    BY <1>2 DEF CollInv, SchemaCallOK, At, CollectionsAssumption
  <2>5. meta[c] \in Meta /\ m \in Meta
    BY <2>4, Context, PatchedIsMeta
  <2> HIDE DEF m
  <2> DEFINE k == [call[p] EXCEPT !.pc = "putMeta", !.meta = m]
  <2>1. /\ k \in CallState /\ k.pc = "putMeta" /\ k.op = "update" /\ k.c = c
        /\ k.meta = m
    <3>1. call[p] \in CallState /\ m \in Meta
      BY <2>5, Context
    <3>2. k \in CallState
      BY <3>1 DEF CallState
    <3>3. k.pc = "putMeta" /\ k.op = call[p].op /\ k.c = c /\ k.meta = m
      BY <3>1 DEF CallState
    <3> QED BY <3>2, <3>3, <1>2
  <2>2. mu' = p /\ call' = [call EXCEPT ![p] = k]
    BY <1>1, <1>5, Context
  <2> HIDE DEF k
  <2>3. call'[p] = k
    BY <2>2, Context
  <2>6. PutIsRight(p)'
    <3>1. Exists(c) /\ meta' = meta
      BY <1>2, <1>3, <1>5 DEF Exists, store
    <3>2. \E patch \in Patch : LegalPatch(patch) /\ k.meta = Patched(meta[c], patch)
      BY <2>1, <2>4, <1>5 DEF m
    <3> QED BY <3>1, <3>2, <2>1, <2>3 DEF PutIsRight, Exists
  <2>7. SchemaCallOK(p)'
    BY <2>1, <2>3, <2>4, <2>6 DEF SchemaCallOK, At
  <2> QED BY <2>1, <2>2, <2>7, <1>2, <1>3, SchemaMoves DEF HeldPCs
<1> QED BY <1>4, <1>5

LEMMA DeleteCheckStep ==
    ASSUME CollectionsAssumption, CollInv, NEW p \in Admin, DeleteCheck(p)
    PROVE  CollInv'
<1> DEFINE c == call[p].c
<1>1. PICK found \in BOOLEAN :
         /\ Gets(Exists(c), found)
         /\ IF found THEN mu' = p /\ call' = [call EXCEPT ![p].pc = "list"]
                     ELSE Unlock(p) /\ Idle(p)
  BY DEF DeleteCheck
<1>2. /\ call[p].pc = "lock" /\ call[p].op = "delete" /\ mu = Nobody
      /\ UNCHANGED <<store, walk, ghosts, recordCalls>>
  BY DEF DeleteCheck, Lock, At
<1>3. /\ misses' \in Nat /\ (misses' = 0 => misses = 0)
      /\ found => Exists(c)
  BY <1>1, Context, GetsType DEF Exists
<1>4. CASE ~found
  BY <1>1, <1>2, <1>3, <1>4, SchemaReturns
<1>5. CASE found
  <2> DEFINE k == [call[p] EXCEPT !.pc = "list"]
  <2>1. k \in CallState /\ k.pc = "list" /\ k.c = c
    BY <1>2, Context DEF CallState
  <2>2. mu' = p /\ call' = [call EXCEPT ![p] = k]
    BY <1>1, <1>5, Context
  <2> HIDE DEF k
  <2>3. call'[p] = k
    BY <2>2, Context
  <2>4. c \in Coll
    BY <1>2 DEF CollInv, SchemaCallOK, At
  <2>7. SchemaCallOK(p)'
    BY <2>1, <2>3, <2>4, <1>2, <1>3, <1>5 DEF SchemaCallOK, At, Exists, store
  <2> QED BY <2>1, <2>2, <2>7, <1>2, <1>3, SchemaMoves DEF HeldPCs
<1> QED BY <1>4, <1>5

\* Who is past a check holds the mutex.
LEMMA Holder ==
    ASSUME CollectionsAssumption, CollInv, NEW p \in Admin, call[p].pc \in HeldPCs
    PROVE  /\ mu = p /\ call[p].c \in Coll /\ call[p] \in CallState
           /\ \A q \in Admin : q # p => call[q].pc \notin HeldPCs
BY Context DEF CollInv, SchemaCallOK, At, HeldPCs

LEMMA ListDoomedStep ==
    ASSUME CollectionsAssumption, CollInv, NEW p \in Admin, ListDoomed(p)
    PROVE  CollInv'
<1> DEFINE c == call[p].c
<1>1. /\ call[p].pc = "list"
      /\ UNCHANGED <<store, walk, ghosts, recordCalls, misses>>
  BY DEF ListDoomed, At
<1>2. mu = p /\ c \in Coll /\ call[p] \in CallState /\ Exists(c)
  BY <1>1, Holder DEF HeldPCs, CollInv, SchemaCallOK, At
<1>3. CASE Unlock(p) /\ Idle(p)
  BY <1>1, <1>2, <1>3, Context, SchemaReturns
<1>4. CASE call' = [call EXCEPT ![p].pc = "wipe", ![p].keys = Ids(c)] /\ mu' = mu
  <2> DEFINE k == [call[p] EXCEPT !.pc = "wipe", !.keys = Ids(c)]
  <2>0. Ids(c) \subseteq Id
    BY <1>2, Context
  <2>1. k \in CallState /\ k.pc = "wipe" /\ k.c = c /\ k.keys = Ids(c)
    BY <1>2, <2>0 DEF CallState
  <2>2. mu' = p /\ call' = [call EXCEPT ![p] = k]
    BY <1>4, <1>2, Context
  <2> HIDE DEF k
  <2>3. call'[p] = k
    BY <2>2, Context
  <2>7. SchemaCallOK(p)'
    BY <2>1, <2>3, <1>1, <1>2 DEF SchemaCallOK, At, Exists, Ids, store
  <2> QED BY <2>1, <2>2, <2>7, <1>1, <1>2, Context, SchemaMoves DEF HeldPCs
<1> QED BY <1>3, <1>4 DEF ListDoomed
\* PutMeta and DropMeta: the metadata changes or does not, and the call ends.
LEMMA MetaChanges ==
    ASSUME CollectionsAssumption, CollInv, NEW p \in Admin, call[p].pc \in HeldPCs,
           NEW m \in Meta, m # NoMeta => m.fields # <<>>,
           meta' = meta \/ meta' = [meta EXCEPT ![call[p].c] = m],
           m = NoMeta => \A id \in Ids(call[p].c) : <<call[p].c, id>> \in late,
           edited \subseteq edited', edited' \subseteq Coll,
           Exists(call[p].c) \/ Ids(call[p].c) # {} => call[p].c \in edited',
           Unlock(p), Idle(p),
           UNCHANGED <<recs, walk, used, events, history, late, recordCalls, misses>>
    PROVE  CollInv'
<1> DEFINE c == call[p].c
<1>1. /\ mu = p /\ c \in Coll
      /\ \A q \in Admin : q # p => call[q].pc \notin HeldPCs
  BY Holder
<1>2. /\ call' = [call EXCEPT ![p] = IdleCall] /\ mu' = Nobody
      /\ \A q \in Admin \cup Client : call'[q] = IF q = p THEN IdleCall ELSE call[q]
  BY Context DEF Idle, Unlock
<1>3. /\ \A q \in Client : call'[q] = call[q]
      /\ \A d \in Coll : d # c => meta'[d] = meta[d]
      /\ meta'[c] = meta[c] \/ meta'[c] = m
      /\ meta' \in [Coll -> Meta]
  BY <1>1, <1>2, Context
<1> HIDE DEF c
<1>4. Typed'
  <2>1. \A q \in Admin : (mu' = q) <=> call'[q].pc \in HeldPCs
    BY <1>1, <1>2, Defaults, Context DEF HeldPCs
  <2>2. \A q \in Admin : call'[q].pc \in {"idle", "lock", "putMeta", "list", "wipe"}
    BY <1>2, Defaults DEF CollInv, Typed, TypeOK
  <2>3. TypeOK'
    BY <2>1, <2>2, <1>3 DEF CollInv, Typed, TypeOK, HeldPCs, Ids
  <2>4. call' \in [Admin \cup Client -> CallState]
    BY <1>2, Context, Defaults
  <2>5. \A d \in Coll : meta'[d] # NoMeta => meta'[d].fields # <<>>
    <3>1. \A d \in Coll : meta[d] # NoMeta => meta[d].fields # <<>>
      BY DEF CollInv, Typed, Exists
    <3> QED BY <3>1, <1>3
  <2> QED BY <2>3, <2>4, <2>5 DEF CollInv, Typed, Exists
<1>5. \A q \in Admin : SchemaCallOK(q)'
  <2> SUFFICES ASSUME NEW q \in Admin PROVE SchemaCallOK(q)'
    OBVIOUS
  <2>1. CASE q = p
    BY <2>1, <1>2, Defaults DEF SchemaCallOK, At
  <2>2. CASE q # p
    <3>1. call'[q] = call[q] /\ SchemaCallOK(q) /\ call[q].pc \notin HeldPCs
      BY <1>1, <1>2, <2>2 DEF CollInv
    <3> QED BY <3>1 DEF SchemaCallOK, At, HeldPCs
  <2> QED BY <2>1, <2>2
<1>6. \A q \in Client : RecordCallOK(q)'
  <2> SUFFICES ASSUME NEW q \in Client PROVE RecordCallOK(q)'
    OBVIOUS
  <2> DEFINE d == call[q].c
  <2>1. call'[q] = call[q] /\ RecordCallOK(q)
    BY <1>3 DEF CollInv
  <2>2. Change(q)' = Change(q) /\ Range(history') = Range(history)
    BY <2>1 DEF Change
  <2>3. d \notin edited' /\ meta[d] # NoMeta => d # c /\ d \notin edited
    BY DEF Exists, c
  <2>4. d \notin edited' => d \notin edited
    OBVIOUS
  <2>5. d \in Coll /\ d # c => meta'[d] = meta[d]
    BY <1>3
  <2> QED BY <2>1, <2>2, <2>3, <2>4, <2>5 DEF RecordCallOK, At, Exists
<1>7. Numbers'
  BY <1>3 DEF CollInv, Numbers, At
<1>8. \A w \in Pager : WalkOK(w)'
  BY DEF CollInv, WalkOK, InOrder, Complete, Ids
<1>9. RecordsFitSchema'
  <2> SUFFICES ASSUME NEW d \in Coll, Exists(d)', d \notin edited', NEW id \in Ids(d)'
               PROVE  validateRecord(meta'[d].fields, recs'[d][id])
    BY DEF RecordsFitSchema
  <2>1. id \in Ids(d) /\ d # c /\ d \notin edited /\ recs' = recs
    BY DEF Ids, c
  <2>2. meta'[d] = meta[d]
    BY <2>1, <1>3
  <2> QED BY <2>1, <2>2 DEF CollInv, RecordsFitSchema, Exists
<1>10. OrphansAreLateWrites'
  BY <1>3 DEF CollInv, OrphansAreLateWrites, Exists, Ids, c
<1> QED BY <1>4, <1>5, <1>6, <1>7, <1>8, <1>9, <1>10 DEF CollInv

LEMMA PutMetaStep ==
    ASSUME CollectionsAssumption, CollInv, NEW p \in Admin, PutMeta(p)
    PROVE  CollInv'
<1> DEFINE c == call[p].c
           m == call[p].meta
<1>1. call[p].pc = "putMeta" /\ call[p].pc \in HeldPCs
  BY DEF PutMeta, At, HeldPCs
<1>2. c \in Coll /\ m \in Meta /\ PutIsRight(p)
  BY <1>1, Holder DEF CollInv, SchemaCallOK, At, CallState
<1>3. m.fields # <<>> /\ m # NoMeta
  <2>1. CASE validateFields(m.fields)
    BY <2>1, Defaults DEF validateFields
  <2>2. CASE Exists(c) /\ \E patch \in Patch : LegalPatch(patch) /\ m = Patched(meta[c], patch)
    <3>1. PICK patch \in Patch : LegalPatch(patch) /\ m = Patched(meta[c], patch)
      BY <2>2
    <3>2. patch \in PatchType /\ meta[c] \in Meta /\ meta[c].fields # <<>>
      BY <1>2, <2>2, Context DEF CollectionsAssumption, CollInv, Typed
    <3> QED BY <3>1, <3>2, PatchedIsMeta, Defaults
  <2> QED BY <2>1, <2>2, <1>2 DEF PutIsRight
<1>4. meta' = meta \/ meta' = [meta EXCEPT ![c] = m]
  BY DEF PutMeta
<1>5. /\ edited' = IF Exists(c) \/ Ids(c) # {} THEN edited \cup {c} ELSE edited
      /\ edited \subseteq Coll
  BY DEF PutMeta, CollInv, Typed, TypeOK
<1>6. /\ edited \subseteq edited' /\ edited' \subseteq Coll
      /\ Exists(c) \/ Ids(c) # {} => c \in edited'
  BY <1>2, <1>5
<1>7. /\ Unlock(p) /\ Idle(p)
      /\ UNCHANGED <<recs, walk, used, events, history, late, recordCalls, misses>>
  BY DEF PutMeta
<1> HIDE DEF m
<1> QED BY <1>1, <1>2, <1>3, <1>4, <1>6, <1>7, MetaChanges

LEMMA DropMetaStep ==
    ASSUME CollectionsAssumption, CollInv, NEW p \in Admin, DropMeta(p)
    PROVE  CollInv'
<1> DEFINE c == call[p].c
<1>1. call[p].pc = "wipe" /\ call[p].pc \in HeldPCs /\ call[p].keys = {}
  BY DEF DropMeta, At, HeldPCs
<1>2. c \in Coll /\ \A id \in Ids(c) : <<c, id>> \in late
  BY <1>1, Holder DEF CollInv, SchemaCallOK, At
<1>4. meta' = meta \/ meta' = [meta EXCEPT ![c] = NoMeta]
  BY DEF DropMeta
<1>5. edited' = edited \cup {c} /\ edited \subseteq Coll
  BY DEF DropMeta, CollInv, Typed, TypeOK
<1>7. /\ Unlock(p) /\ Idle(p)
      /\ UNCHANGED <<recs, walk, used, events, history, late, recordCalls, misses>>
  BY DEF DropMeta
<1> QED BY <1>1, <1>2, <1>4, <1>5, <1>7, Defaults, MetaChanges
\* A record is removed: what is left fits, and listings do not owe it.
LEMMA Removal ==
    ASSUME CollectionsAssumption, CollInv, NEW c \in Coll, NEW id \in Id,
           recs' = Without(c, id), Forget(c, id), UNCHANGED <<meta, late, edited, used, misses>>
    PROVE  /\ DOMAIN recs' = Coll
           /\ \A d \in Coll : /\ Ids(d)' = IF d = c THEN Ids(d) \ {id} ELSE Ids(d)
                              /\ \A i \in Ids(d)' : recs'[d][i] = recs[d][i]
           /\ walk' \in [Pager -> WalkState]
           /\ \A w \in Pager : WalkOK(w)'
           /\ RecordsFitSchema' /\ OrphansAreLateWrites'
<1>1. /\ DOMAIN recs' = Coll
      /\ \A d \in Coll : d # c => recs'[d] = recs[d]
      /\ recs'[c] = [i \in Ids(c) \ {id} |-> recs[c][i]]
  BY Context DEF Without, Ids
<1>2. \A d \in Coll : /\ Ids(d)' = IF d = c THEN Ids(d) \ {id} ELSE Ids(d)
                      /\ \A i \in Ids(d)' : recs'[d][i] = recs[d][i]
  BY <1>1 DEF Ids
<1>3. \A w \in Pager : walk[w] \in WalkState
  BY Context
<1>4. \A w \in Pager :
        walk'[w] = IF walk[w].c = c THEN [walk[w] EXCEPT !.stable = @ \ {id}] ELSE walk[w]
  BY DEF Forget
<1>5. \A w \in Pager :
        /\ walk'[w] \in WalkState
        /\ walk'[w].pc = walk[w].pc /\ walk'[w].c = walk[w].c /\ walk'[w].after = walk[w].after
        /\ walk'[w].next = walk[w].next /\ walk'[w].keys = walk[w].keys
        /\ walk'[w].seen = walk[w].seen
        /\ walk'[w].stable = IF walk[w].c = c THEN walk[w].stable \ {id} ELSE walk[w].stable
  <2> SUFFICES ASSUME NEW w \in Pager
               PROVE  /\ walk'[w] \in WalkState
                      /\ walk'[w].pc = walk[w].pc /\ walk'[w].c = walk[w].c
                      /\ walk'[w].after = walk[w].after
                      /\ walk'[w].next = walk[w].next /\ walk'[w].keys = walk[w].keys
                      /\ walk'[w].seen = walk[w].seen
                      /\ walk'[w].stable =
                            IF walk[w].c = c THEN walk[w].stable \ {id} ELSE walk[w].stable
    OBVIOUS
  <2>1. walk[w] \in WalkState
    BY <1>3
  <2>2. CASE walk[w].c = c
    <3>1. walk'[w] = [walk[w] EXCEPT !.stable = walk[w].stable \ {id}]
      BY <2>2, <1>4
    <3>2. walk'[w] \in WalkState
      BY <2>1, <3>1 DEF WalkState
    <3> QED BY <2>1, <2>2, <3>1, <3>2 DEF WalkState
  <2>3. CASE walk[w].c # c
    BY <2>1, <2>3, <1>4
  <2> QED BY <2>2, <2>3
<1>6. walk' \in [Pager -> WalkState]
  BY <1>5 DEF Forget
<1>7. \A w \in Pager : WalkOK(w)'
  <2> SUFFICES ASSUME NEW w \in Pager PROVE WalkOK(w)'
    OBVIOUS
  <2>1. InOrder(w) /\ Complete(w)
    BY DEF CollInv, WalkOK
  <2>2. InOrder(w)'
    BY <2>1, <1>5 DEF InOrder
  <2>3. Complete(w)'
    <3>1. walk[w].pc # "idle" => walk[w].c \in Coll
      BY <2>1 DEF InOrder
    <3>2. walk[w].pc # "idle" => walk'[w].stable \subseteq Ids(walk[w].c)'
      BY <3>1, <2>1, <1>2, <1>5 DEF Complete
    <3>3. walk'[w].stable \subseteq walk[w].stable
      BY <1>5
    <3>4. Range(walk'[w].seen) = Range(walk[w].seen)
      BY <1>5
    <3> QED BY <2>1, <3>2, <3>3, <3>4, <1>5 DEF Complete, Ids
  <2> QED BY <2>2, <2>3 DEF WalkOK
<1>8. RecordsFitSchema' /\ OrphansAreLateWrites'
  <2>1. \A d \in Coll : Ids(d)' \subseteq Ids(d)
    BY <1>2
  <2> QED BY <2>1, <1>2 DEF CollInv, RecordsFitSchema, OrphansAreLateWrites, Exists
<1> QED BY <1>1, <1>2, <1>6, <1>7, <1>8

LEMMA WipeRecordStep ==
    ASSUME CollectionsAssumption, CollInv, NEW p \in Admin, WipeRecord(p)
    PROVE  CollInv'
<1>0. PICK c : c = call[p].c
  OBVIOUS
<1> DEFINE id == Min(call[p].keys)
<1>1. PICK ok \in BOOLEAN, applied \in BOOLEAN :
         /\ Attempt(ok, applied)
         /\ IF applied THEN recs' = Without(c, id) /\ Forget(c, id) ELSE UNCHANGED <<recs, walk>>
         /\ IF ok THEN call' = [call EXCEPT ![p].keys = @ \ {id}] /\ UNCHANGED mu
                  ELSE Unlock(p) /\ Idle(p)
  BY <1>0 DEF WipeRecord
<1>2. /\ call[p].pc = "wipe" /\ call[p].pc \in HeldPCs /\ call[p].keys # {}
      /\ UNCHANGED <<meta, ghosts, recordCalls, misses>>
  BY DEF WipeRecord, At, HeldPCs
<1>3. /\ mu = p /\ c \in Coll /\ call[p] \in CallState /\ Exists(c)
      /\ \A q \in Admin : q # p => call[q].pc \notin HeldPCs
      /\ \A i \in Ids(c) : i \in call[p].keys \/ <<c, i>> \in late
  BY <1>0, <1>2, Holder DEF CollInv, SchemaCallOK, At
<1>4. id \in call[p].keys /\ id \in Id
  <2>1. call[p].keys \subseteq Id /\ call[p].keys \subseteq Nat
    BY <1>3 DEF CallState, CollectionsAssumption
  <2> QED BY <2>1, <1>2, MinOfIds
<1> HIDE DEF id
<1>5. CASE ~applied
  BY <1>1, <1>2, <1>3, <1>5, Context, SchemaReturns DEF Attempt, store
<1>6. CASE applied
  <2>0. UNCHANGED <<meta, late, edited, used, misses>>
    BY <1>2 DEF ghosts
  <2>1. /\ DOMAIN recs' = Coll
        /\ \A d \in Coll : /\ Ids(d)' = IF d = c THEN Ids(d) \ {id} ELSE Ids(d)
                           /\ \A i \in Ids(d)' : recs'[d][i] = recs[d][i]
        /\ walk' \in [Pager -> WalkState]
        /\ \A w \in Pager : WalkOK(w)'
        /\ RecordsFitSchema' /\ OrphansAreLateWrites'
    BY <1>1, <1>3, <1>4, <1>6, <2>0, Removal
  <2> DEFINE k == IF ok THEN [call[p] EXCEPT !.keys = @ \ {id}] ELSE IdleCall
  <2>2. /\ k \in CallState
        /\ ok => k.pc = "wipe" /\ k.c = c /\ k.keys = call[p].keys \ {id} /\ mu' = p
        /\ ~ok => k.pc = "idle" /\ mu' = Nobody
    BY <1>0, <1>1, <1>2, <1>3, Defaults DEF CallState, Unlock
  <2>a. call' = [call EXCEPT ![p] = k]
    <3>1. CASE ok
      BY <3>1, <1>1, Context
    <3>2. CASE ~ok
      BY <3>2, <1>1 DEF Idle
    <3> QED BY <3>1, <3>2
  <2> HIDE DEF k
  <2>3. \A q \in Admin \cup Client : call'[q] = IF q = p THEN k ELSE call[q]
    BY <2>a, Context
  <2>4. call' \in [Admin \cup Client -> CallState]
    BY <2>a, <2>2, Context
  <2>5. \A q \in Client : call'[q] = call[q]
    BY <2>3, Context
  <2>6. Typed'
    <3>1. \A q \in Admin : (mu' = q) <=> call'[q].pc \in HeldPCs
      BY <2>2, <2>3, <1>3, Context DEF HeldPCs
    <3>2. \A q \in Admin : call'[q].pc \in {"idle", "lock", "putMeta", "list", "wipe"}
      BY <2>2, <2>3 DEF CollInv, Typed, TypeOK
    <3>3. \A w \in Pager : walk'[w].pc \in {"idle", "scan", "get", "done"}
      BY <2>1 DEF WalkState
    <3>4. \A d \in Coll : Ids(d)' \subseteq used /\ \A i \in Ids(d)' : recs'[d][i] \in Data
      BY <2>1 DEF CollInv, Typed, TypeOK
    <3>5. TypeOK'
      BY <3>1, <3>2, <3>3, <3>4, <2>5, <1>2 DEF CollInv, Typed, TypeOK, HeldPCs, ghosts
    <3> QED BY <3>5, <2>1, <2>4, <1>2 DEF CollInv, Typed, Exists
  <2>7. \A q \in Admin : SchemaCallOK(q)'
    <3> SUFFICES ASSUME NEW q \in Admin PROVE SchemaCallOK(q)'
      OBVIOUS
    <3>1. CASE q = p
      <4>1. Ids(c)' = Ids(c) \ {id}
        BY <2>1, <1>3
      <4>2. CASE ok
        <5>1. call'[p].c = c /\ call'[p].pc = "wipe" /\ call'[p].keys = call[p].keys \ {id}
          BY <2>2, <2>3, <4>2
        <5>2. \A i \in Ids(c)' : i \in call'[p].keys \/ <<c, i>> \in late'
          BY <4>1, <5>1, <1>3, <2>0
        <5>3. meta'[c] # NoMeta
          BY <1>3, <2>0 DEF Exists
        <5> QED BY <5>1, <5>2, <5>3, <3>1, <1>3 DEF SchemaCallOK, At, Exists, Ids
      <4>3. CASE ~ok
        BY <4>3, <3>1, <2>2, <2>3 DEF SchemaCallOK, At
      <4> QED BY <4>2, <4>3
    <3>2. CASE q # p
      <4>1. call'[q] = call[q] /\ SchemaCallOK(q) /\ call[q].pc \notin HeldPCs
        BY <1>3, <2>3, <3>2 DEF CollInv
      <4> QED BY <4>1 DEF SchemaCallOK, At, HeldPCs
    <3> QED BY <3>1, <3>2
  <2>8. \A q \in Client : RecordCallOK(q)'
    <3> SUFFICES ASSUME NEW q \in Client PROVE RecordCallOK(q)'
      OBVIOUS
    <3>1. call'[q] = call[q] /\ RecordCallOK(q)
      BY <2>5 DEF CollInv
    <3> QED BY <3>1, <1>2 DEF RecordCallOK, At, Exists, Change, ghosts
  <2>9. Numbers'
    BY <2>5, <1>2 DEF CollInv, Numbers, At, ghosts
  <2> QED BY <2>1, <2>6, <2>7, <2>8, <2>9 DEF CollInv
<1> QED BY <1>5, <1>6

SchemaSteps == \E p \in Admin : SchemaStep(p)

LEMMA SchemaStepKeeps ==
    ASSUME CollectionsAssumption, CollInv, SchemaSteps
    PROVE  CollInv'
BY CreateCheckStep, UpdateCheckStep, PutMetaStep, DeleteCheckStep, ListDoomedStep,
   WipeRecordStep, DropMetaStep DEF SchemaSteps, SchemaStep
----------------------------------------------------------------------------
(* Record calls.                                                           *)

\* The number of a new call is no event's.
LEMMA NewNumber ==
    ASSUME CollectionsAssumption, CollInv, NEW p \in Client, CallRecord(p)
    PROVE  /\ recordCalls' \in Nat /\ recordCalls' > recordCalls /\ recordCalls' >= recordCalls
           /\ recordCalls' <= recordCalls'
           /\ \A i \in DOMAIN events : events[i].n # recordCalls'
           /\ call[p].pc = "idle" /\ call[p] \in CallState
<1>1. recordCalls \in Nat /\ recordCalls' = recordCalls + 1
  BY Context DEF CallRecord
<1>2. ASSUME NEW i \in DOMAIN events PROVE events[i].n # recordCalls'
  <2>1. events[i] \in Change_Type
    BY DEF CollInv, Typed, TypeOK
  <2>2. events[i].n \in Nat /\ events[i].n <= recordCalls
    BY <2>1 DEF Change_Type, CollInv, Numbers
  <2> QED BY <2>2, <1>1
<1>3. call[p].pc = "idle" /\ call[p] \in CallState
  BY Context DEF CallRecord, At
<1> QED BY <1>1, <1>2, <1>3

\* A call that returns at once.
LEMMA RecordReturns ==
    ASSUME CollectionsAssumption, CollInv, NEW p \in Client, CallRecord(p), call' = call,
           UNCHANGED <<store, mu, walk, used, events, history, late, edited>>,
           misses' \in Nat, misses' = 0 => misses = 0
    PROVE  CollInv'
<1>1. call[p].pc = "idle" /\ call[p] \in CallState /\ recordCalls' \in Nat /\ recordCalls' >= recordCalls
  BY NewNumber
<1>2. call' = [call EXCEPT ![p] = call[p]]
  BY Context
<1>3. RecordCallOK(p)'
  BY <1>1 DEF RecordCallOK, At
<1>4. used \subseteq used' /\ used' \subseteq Id
  BY Context
<1> QED BY <1>1, <1>2, <1>3, <1>4, RecordMoves

LEMMA InsertCheckStep ==
    ASSUME CollectionsAssumption, CollInv, NEW p \in Client, NEW c \in Coll, NEW data \in NewData,
           InsertCheck(p, c, data)
    PROVE  CollInv'
<1>1. PICK found \in BOOLEAN :
         /\ Gets(Exists(c), found)
         /\ IF found /\ validateRecord(meta[c].fields, data)
            THEN \E id \in Id \ used :
                    /\ used' = used \cup {id}
                    /\ call' = [call EXCEPT ![p] = [IdleCall EXCEPT
                         !.pc = "put", !.op = "create", !.n = recordCalls', !.c = c,
                         !.id = id, !.data = data]]
            ELSE UNCHANGED <<used, call>>
  BY DEF InsertCheck
<1>2. /\ CallRecord(p)
      /\ UNCHANGED <<store, mu, walk, events, history, late, edited>>
  BY DEF InsertCheck
<1>3. /\ misses' \in Nat /\ (misses' = 0 => misses = 0)
      /\ found => Exists(c)
  BY <1>1, Context, GetsType DEF Exists
<1>4. CASE ~(found /\ validateRecord(meta[c].fields, data))
  BY <1>1, <1>2, <1>3, <1>4, RecordReturns
<1>5. CASE found /\ validateRecord(meta[c].fields, data)
  <2>1. PICK id \in Id \ used :
           /\ used' = used \cup {id}
           /\ call' = [call EXCEPT ![p] = [IdleCall EXCEPT
                !.pc = "put", !.op = "create", !.n = recordCalls', !.c = c,
                !.id = id, !.data = data]]
    BY <1>1, <1>5
  <2>2. id \in Nat /\ data \in Data /\ used \subseteq used' /\ used' \subseteq Id
    BY <2>1, Context DEF CollectionsAssumption
  <2>3. /\ recordCalls' \in Nat /\ recordCalls' > recordCalls /\ recordCalls' >= recordCalls
        /\ recordCalls' <= recordCalls'
        /\ \A i \in DOMAIN events : events[i].n # recordCalls'
    BY <1>2, NewNumber
  <2> DEFINE k == [IdleCall EXCEPT !.pc = "put", !.op = "create", !.n = recordCalls', !.c = c,
                                   !.id = id, !.data = data]
  <2>4. /\ k \in CallState /\ k.pc = "put" /\ k.op = "create" /\ k.n = recordCalls' /\ k.c = c
        /\ k.id = id /\ k.data = data
    BY <2>2, <2>3, Defaults DEF IdleCall, CallState, Ops
  <2>5. call' = [call EXCEPT ![p] = k]
    BY <2>1
  <2> HIDE DEF k
  <2>6. call'[p] = k
    BY <2>5, Context
  <2>7. RecordCallOK(p)'
    <3>1. id \in used' /\ meta'[c] # NoMeta /\ validateRecord(meta'[c].fields, data)
      BY <2>1, <1>2, <1>3, <1>5 DEF Exists, store
    <3> QED BY <3>1, <2>3, <2>4, <2>6, <1>2 DEF RecordCallOK, At, Exists, Ops
  <2> QED BY <1>2, <1>3, <2>2, <2>3, <2>4, <2>5, <2>7, RecordMoves
<1> QED BY <1>4, <1>5

LEMMA UpdateReadMetaStep ==
    ASSUME CollectionsAssumption, CollInv, NEW p \in Client, NEW c \in Coll, NEW id \in used,
           NEW data \in PatchData, UpdateReadMeta(p, c, id, data)
    PROVE  CollInv'
<1>1. PICK found \in BOOLEAN :
         /\ Gets(Exists(c), found)
         /\ call' = IF found
                    THEN [call EXCEPT ![p] = [IdleCall EXCEPT
                         !.pc = "merge", !.op = "update", !.n = recordCalls', !.c = c,
                         !.id = id, !.meta = meta[c], !.data = data]]
                    ELSE call
  BY DEF UpdateReadMeta
<1>2. /\ CallRecord(p)
      /\ UNCHANGED <<store, mu, walk, used, events, history, late, edited>>
  BY DEF UpdateReadMeta, ghosts
<1>3. /\ misses' \in Nat /\ (misses' = 0 => misses = 0)
      /\ found => Exists(c)
  BY <1>1, Context, GetsType DEF Exists
<1>4. CASE ~found
  BY <1>1, <1>2, <1>3, <1>4, RecordReturns
<1>5. CASE found
  <2>2. /\ id \in Nat /\ data \in Data /\ meta[c] \in Meta
        /\ used \subseteq used' /\ used' \subseteq Id /\ id \in used'
    BY <1>2, Context DEF CollectionsAssumption
  <2>3. /\ recordCalls' \in Nat /\ recordCalls' > recordCalls /\ recordCalls' >= recordCalls
        /\ recordCalls' <= recordCalls'
        /\ \A i \in DOMAIN events : events[i].n # recordCalls'
    BY <1>2, NewNumber
  <2> DEFINE k == [IdleCall EXCEPT !.pc = "merge", !.op = "update", !.n = recordCalls', !.c = c,
                                   !.id = id, !.meta = meta[c], !.data = data]
  <2>4. /\ k \in CallState /\ k.pc = "merge" /\ k.op = "update" /\ k.n = recordCalls' /\ k.c = c
        /\ k.id = id /\ k.meta = meta[c]
    BY <2>2, <2>3, Defaults DEF IdleCall, CallState, Ops
  <2>5. call' = [call EXCEPT ![p] = k]
    BY <1>1, <1>5
  <2> HIDE DEF k
  <2>6. call'[p] = k
    BY <2>5, Context
  <2>7. RecordCallOK(p)'
    <3>1. meta'[c] # NoMeta /\ meta'[c] = meta[c]
      BY <1>2, <1>3, <1>5 DEF Exists, store
    <3> QED BY <3>1, <2>2, <2>3, <2>4, <2>6, <1>2 DEF RecordCallOK, At, Exists, Ops
  <2> QED BY <1>2, <1>3, <2>2, <2>3, <2>4, <2>5, <2>7, RecordMoves
<1> QED BY <1>4, <1>5

LEMMA DeleteFindStep ==
    ASSUME CollectionsAssumption, CollInv, NEW p \in Client, NEW c \in Coll, NEW id \in used,
           DeleteFind(p, c, id)
    PROVE  CollInv'
<1>1. PICK found \in BOOLEAN :
         /\ Gets(id \in Ids(c), found)
         /\ call' = IF found
                    THEN [call EXCEPT ![p] = [IdleCall EXCEPT
                         !.pc = "put", !.op = "delete", !.n = recordCalls', !.c = c, !.id = id]]
                    ELSE call
  BY DEF DeleteFind
<1>2. /\ CallRecord(p)
      /\ UNCHANGED <<store, mu, walk, used, events, history, late, edited>>
  BY DEF DeleteFind, ghosts
<1>3. misses' \in Nat /\ (misses' = 0 => misses = 0)
  <2>1. (id \in Ids(c)) \in BOOLEAN /\ misses \in Nat
    BY Context
  <2> QED BY <2>1, <1>1, GetsType
<1>4. CASE ~found
  BY <1>1, <1>2, <1>3, <1>4, RecordReturns
<1>5. CASE found
  <2>2. id \in Nat /\ used \subseteq used' /\ used' \subseteq Id /\ id \in used'
    BY <1>2, Context DEF CollectionsAssumption
  <2>3. /\ recordCalls' \in Nat /\ recordCalls' > recordCalls /\ recordCalls' >= recordCalls
        /\ recordCalls' <= recordCalls'
        /\ \A i \in DOMAIN events : events[i].n # recordCalls'
    BY <1>2, NewNumber
  <2> DEFINE k == [IdleCall EXCEPT !.pc = "put", !.op = "delete", !.n = recordCalls', !.c = c,
                                   !.id = id]
  <2>4. /\ k \in CallState /\ k.pc = "put" /\ k.op = "delete" /\ k.n = recordCalls' /\ k.c = c
        /\ k.id = id
    BY <2>2, <2>3, Defaults DEF IdleCall, CallState, Ops
  <2>5. call' = [call EXCEPT ![p] = k]
    BY <1>1, <1>5
  <2> HIDE DEF k
  <2>6. call'[p] = k
    BY <2>5, Context
  <2>7. RecordCallOK(p)'
    BY <2>2, <2>3, <2>4, <2>6, <1>2 DEF RecordCallOK, At, Ops
  <2> QED BY <1>2, <1>3, <2>2, <2>3, <2>4, <2>5, <2>7, RecordMoves
<1> QED BY <1>4, <1>5

\* A call that ends without a write.
LEMMA RecordEnds ==
    ASSUME CollectionsAssumption, CollInv, NEW p \in Client, Idle(p),
           UNCHANGED <<store, mu, walk, ghosts, recordCalls>>,
           misses' \in Nat, misses' = 0 => misses = 0
    PROVE  CollInv'
<1>1. call' = [call EXCEPT ![p] = IdleCall] /\ call'[p] = IdleCall
  BY Context DEF Idle
<1>2. RecordCallOK(p)'
  BY <1>1, Defaults DEF RecordCallOK, At
<1>3. /\ used \subseteq used' /\ used' \subseteq Id /\ recordCalls' \in Nat /\ recordCalls' >= recordCalls
      /\ UNCHANGED <<store, mu, walk, events, history, late, edited>>
  BY Context DEF ghosts
<1> QED BY <1>1, <1>2, <1>3, Defaults, RecordMoves

LEMMA UpdateMergeStep ==
    ASSUME CollectionsAssumption, CollInv, NEW p \in Client, UpdateMerge(p)
    PROVE  CollInv'
<1> DEFINE c == call[p].c
           id == call[p].id
           fields == call[p].meta.fields
           merged == Merged(recs[c][id], call[p].data)
<1>1. PICK found \in BOOLEAN :
         /\ Gets(id \in Ids(c), found)
         /\ IF found /\ MergeCheck(fields, recs[c][id], call[p].data)
            THEN call' = [call EXCEPT ![p].pc = "put", ![p].data = merged]
            ELSE Idle(p)
  BY DEF UpdateMerge
<1>2. /\ call[p].pc = "merge" /\ call[p] \in CallState
      /\ UNCHANGED <<store, mu, walk, ghosts, recordCalls>>
  BY Context DEF UpdateMerge, At
<1>3. /\ misses' \in Nat /\ (misses' = 0 => misses = 0)
      /\ found => id \in Ids(c)
  <2>1. (id \in Ids(c)) \in BOOLEAN /\ misses \in Nat
    BY Context
  <2> QED BY <2>1, <1>1, GetsType
<1>4. CASE ~(found /\ MergeCheck(fields, recs[c][id], call[p].data))
  BY <1>1, <1>2, <1>3, <1>4, RecordEnds
<1>5. CASE found /\ MergeCheck(fields, recs[c][id], call[p].data)
  <2>1. RecordCallOK(p) /\ c \in Coll
    BY <1>2 DEF CollInv, RecordCallOK, At
  <2>2. recs[c][id] \in Data /\ call[p].data \in Data
    BY <2>1, <1>2, <1>3, <1>5 DEF CollInv, Typed, TypeOK, CallState
  <2>3. merged \in Data
    BY <2>2, MergedIsData
  <2>4. c \notin edited => Exists(c) /\ validateRecord(meta[c].fields, merged)
    <3> SUFFICES ASSUME c \notin edited PROVE Exists(c) /\ validateRecord(meta[c].fields, merged)
      OBVIOUS
    <3>1. Exists(c) /\ call[p].meta = meta[c]
      BY <2>1, <1>2 DEF RecordCallOK, At
    <3>2. validateRecord(meta[c].fields, recs[c][id])
      BY <3>1, <2>1, <1>3, <1>5 DEF CollInv, RecordsFitSchema
    <3> QED BY <3>1, <3>2, <1>5, MergeFits
  <2> HIDE DEF merged
  <2> DEFINE k == [call[p] EXCEPT !.pc = "put", !.data = merged]
  <2>5. k \in CallState
    BY <1>2, <2>3 DEF CallState
  <2>6. /\ k.pc = "put" /\ k.op = call[p].op /\ k.n = call[p].n /\ k.c = c
        /\ k.id = id /\ k.data = merged
    BY <1>2 DEF CallState
  <2>7. call' = [call EXCEPT ![p] = k]
    BY <1>1, <1>5, Context
  <2> HIDE DEF k
  <2>8. call'[p] = k
    BY <2>7, Context
  <2>9. RecordCallOK(p)'
    <3>1. meta' = meta /\ edited' = edited /\ used' = used /\ events' = events
      BY <1>2 DEF store, ghosts
    <3>2. c \notin edited => meta[c] # NoMeta /\ validateRecord(meta[c].fields, merged)
      BY <2>4 DEF Exists
    <3> QED BY <3>1, <3>2, <2>1, <2>6, <2>8, <1>2 DEF RecordCallOK, At, Exists
  <2>10. /\ used \subseteq used' /\ used' \subseteq Id /\ recordCalls' \in Nat /\ recordCalls' >= recordCalls
         /\ UNCHANGED <<store, mu, walk, events, history, late, edited>> /\ ~At(p, "idle")
    BY <1>2, Context DEF ghosts, At
  <2> QED BY <1>3, <2>5, <2>6, <2>7, <2>9, <2>10, RecordMoves
<1> QED BY <1>4, <1>5
LEMMA RangeOfAppend ==
    ASSUME NEW T, NEW s \in Seq(T), NEW e \in T
    PROVE  /\ Append(s, e) \in Seq(T) /\ DOMAIN Append(s, e) = 1 .. Len(s) + 1
           /\ DOMAIN s = 1 .. Len(s) /\ Len(s) \in Nat
           /\ \A i \in DOMAIN s : Append(s, e)[i] = s[i]
           /\ Append(s, e)[Len(s) + 1] = e
           /\ Range(s) \subseteq Range(Append(s, e)) /\ e \in Range(Append(s, e))
           /\ Range(Append(s, e)) \subseteq Range(s) \cup {e}
<1>1. /\ Append(s, e) \in Seq(T) /\ DOMAIN Append(s, e) = 1 .. Len(s) + 1
      /\ DOMAIN s = 1 .. Len(s) /\ Len(s) \in Nat
      /\ \A i \in DOMAIN s : Append(s, e)[i] = s[i]
      /\ Append(s, e)[Len(s) + 1] = e
  OBVIOUS
<1> DEFINE a == Append(s, e)
<1> HIDE DEF a
<1>2. /\ DOMAIN a = 1 .. Len(s) + 1 /\ DOMAIN s = 1 .. Len(s) /\ Len(s) \in Nat
      /\ \A i \in DOMAIN s : a[i] = s[i]
      /\ a[Len(s) + 1] = e
  BY <1>1 DEF a
<1>3. Range(s) \subseteq Range(a)
  BY <1>2 DEF Range
<1>4. e \in Range(a)
  BY <1>2 DEF Range
<1>5. \A i \in DOMAIN a : i \in DOMAIN s \/ i = Len(s) + 1
  BY <1>2
<1>6. Range(a) \subseteq Range(s) \cup {e}
  BY <1>2, <1>5 DEF Range
<1> QED BY <1>1, <1>3, <1>4, <1>6 DEF a

\* A record is written: it fits, unless the first schema was replaced, and is
\* late if its collection is listed for deletion or gone.
LEMMA Addition ==
    ASSUME CollectionsAssumption, CollInv, NEW c \in Coll, NEW id \in used, NEW data \in Data,
           recs' = With(c, id, data), UNCHANGED <<walk, meta, edited, used, misses>>,
           late' = IF Doomed(c) THEN late \cup {<<c, id>>} ELSE late,
           c \notin edited => validateRecord(meta[c].fields, data)
    PROVE  /\ DOMAIN recs' = Coll
           /\ \A d \in Coll : /\ Ids(d)' \subseteq used
                              /\ \A i \in Ids(d)' : recs'[d][i] \in Data
           /\ \A q \in Admin, d \in Coll : At(q, "wipe") /\ call[q].c = d =>
                 \A i \in Ids(d)' : i \in call[q].keys \/ <<d, i>> \in late'
           /\ late \subseteq late' /\ late' \subseteq Coll \X Id
           /\ \A w \in Pager : WalkOK(w)'
           /\ RecordsFitSchema' /\ OrphansAreLateWrites'
<1>1. /\ DOMAIN recs' = Coll
      /\ \A d \in Coll : d # c => recs'[d] = recs[d]
      /\ recs'[c] = [i \in Ids(c) \cup {id} |-> IF i = id THEN data ELSE recs[c][i]]
  BY Context DEF With, Ids
<1>2. \A d \in Coll : /\ Ids(d)' = IF d = c THEN Ids(d) \cup {id} ELSE Ids(d)
                      /\ \A i \in Ids(d)' :
                            recs'[d][i] = IF d = c /\ i = id THEN data ELSE recs[d][i]
  <2> SUFFICES ASSUME NEW d \in Coll
               PROVE  /\ Ids(d)' = IF d = c THEN Ids(d) \cup {id} ELSE Ids(d)
                      /\ \A i \in Ids(d)' :
                            recs'[d][i] = IF d = c /\ i = id THEN data ELSE recs[d][i]
    OBVIOUS
  <2>1. CASE d = c
    BY <1>1, <2>1 DEF Ids
  <2>2. CASE d # c
    BY <1>1, <2>2 DEF Ids
  <2> QED BY <2>1, <2>2
<1>3. late \subseteq late' /\ late' \subseteq Coll \X Id
  BY Context DEF CollInv, Typed, TypeOK
<1>4. ASSUME NEW d \in Coll PROVE Ids(d)' \subseteq used /\ \A i \in Ids(d)' : recs'[d][i] \in Data
  BY <1>2, <1>4 DEF CollInv, Typed, TypeOK
<1>5. ASSUME NEW q \in Admin, NEW d \in Coll, At(q, "wipe"), call[q].c = d, NEW i \in Ids(d)'
      PROVE  i \in call[q].keys \/ <<d, i>> \in late'
  <2>1. \A j \in Ids(d) : j \in call[q].keys \/ <<d, j>> \in late
    BY <1>5 DEF CollInv, SchemaCallOK
  <2>2. CASE i \in Ids(d)
    BY <2>1, <2>2, <1>3
  <2>3. CASE i \notin Ids(d)
    <3>1. d = c /\ i = id
      BY <1>2, <2>3
    <3>2. Doomed(c)
      BY <3>1, <1>5 DEF Doomed
    <3> QED BY <3>1, <3>2
  <2> QED BY <2>2, <2>3
<1>6. \A w \in Pager : WalkOK(w)'
  <2> SUFFICES ASSUME NEW w \in Pager PROVE WalkOK(w)'
    OBVIOUS
  <2>1. InOrder(w) /\ Complete(w)
    BY DEF CollInv, WalkOK
  <2>2. InOrder(w)'
    BY <2>1 DEF InOrder
  <2>3. Complete(w)'
    <3>1. walk[w].pc # "idle" => walk[w].c \in Coll
      BY <2>1 DEF InOrder
    <3>2. walk[w].pc # "idle" => walk[w].stable \subseteq Ids(walk[w].c)'
      BY <3>1, <2>1, <1>2 DEF Complete
    <3> QED BY <2>1, <3>2 DEF Complete, Ids
  <2> QED BY <2>2, <2>3 DEF WalkOK
<1>7. RecordsFitSchema'
  <2> SUFFICES ASSUME NEW d \in Coll, Exists(d), d \notin edited, NEW i \in Ids(d)'
               PROVE  validateRecord(meta[d].fields, recs'[d][i])
    BY DEF RecordsFitSchema, Exists
  <2>1. CASE d = c /\ i = id
    BY <2>1, <1>2
  <2>2. CASE ~ (d = c /\ i = id)
    <3>1. i \in Ids(d) /\ recs'[d][i] = recs[d][i]
      BY <2>2, <1>2
    <3> QED BY <3>1 DEF CollInv, RecordsFitSchema
  <2> QED BY <2>1, <2>2
<1>8. OrphansAreLateWrites'
  <2> SUFFICES ASSUME NEW d \in Coll, ~Exists(d), NEW i \in Ids(d)' PROVE <<d, i>> \in late'
    BY DEF OrphansAreLateWrites, Exists
  <2>1. CASE i \in Ids(d)
    BY <2>1, <1>3 DEF CollInv, OrphansAreLateWrites
  <2>2. CASE i \notin Ids(d)
    <3>1. d = c /\ i = id
      BY <2>2, <1>2
    <3> QED BY <3>1 DEF Doomed
  <2> QED BY <2>1, <2>2
<1> QED BY <1>1, <1>3, <1>4, <1>5, <1>6, <1>7, <1>8

\* A write took effect: it is in the history before the call goes on.
LEMMA Written ==
    ASSUME CollectionsAssumption, CollInv, NEW p \in Client, call[p].pc = "put",
           DOMAIN recs' = Coll,
           \A d \in Coll : /\ Ids(d)' \subseteq used
                           /\ \A i \in Ids(d)' : recs'[d][i] \in Data,
           \A q \in Admin, d \in Coll : At(q, "wipe") /\ call[q].c = d =>
              \A i \in Ids(d)' : i \in call[q].keys \/ <<d, i>> \in late',
           late \subseteq late', late' \subseteq Coll \X Id,
           walk' \in [Pager -> WalkState], \A w \in Pager : WalkOK(w)',
           RecordsFitSchema', OrphansAreLateWrites',
           history' = Append(history, Change(p)),
           call' = [call EXCEPT ![p].pc = "notify"] \/ Idle(p),
           UNCHANGED <<meta, mu, used, events, edited, recordCalls, misses>>
    PROVE  CollInv'
<1>1. call[p] \in CallState /\ RecordCallOK(p) /\ ~At(p, "idle")
  BY Context DEF CollInv, At
<1>2. /\ Change(p) \in Change_Type /\ history \in Seq(Change_Type)
      /\ Change(p) = [kind |-> call[p].op, c |-> call[p].c, id |-> call[p].id, n |-> call[p].n]
  BY <1>1, Context DEF RecordCallOK, Change, Change_Type, CallState, CollInv, Typed, TypeOK, Ops
<1>3. /\ history' \in Seq(Change_Type) /\ Range(history) \subseteq Range(history')
      /\ Change(p) \in Range(history')
  BY <1>2, RangeOfAppend
<1> DEFINE n == [call[p] EXCEPT !.pc = "notify"]
<1>4. /\ n \in CallState /\ n.pc = "notify" /\ n.op = call[p].op /\ n.c = call[p].c
      /\ n.id = call[p].id /\ n.n = call[p].n
  BY <1>1 DEF CallState
<1>5. call' = [call EXCEPT ![p] = n] \/ call' = [call EXCEPT ![p] = IdleCall]
  <2>1. CASE call' = [call EXCEPT ![p].pc = "notify"]
    BY <2>1, Context
  <2>2. CASE Idle(p)
    BY <2>2 DEF Idle
  <2> QED BY <2>1, <2>2
<1> HIDE DEF n
<1> DEFINE k == call'[p]
<1>6. /\ k \in CallState /\ call' \in [Admin \cup Client -> CallState]
      /\ k = n \/ k = IdleCall
      /\ \A q \in Admin \cup Client : q # p => call'[q] = call[q]
  <2>1. CASE call' = [call EXCEPT ![p] = n]
    BY <2>1, <1>4, Context
  <2>2. CASE call' = [call EXCEPT ![p] = IdleCall]
    BY <2>2, Context, Defaults
  <2> QED BY <2>1, <2>2, <1>5
<1>7. \A q \in Admin : call'[q] = call[q]
  BY <1>6, Context
<1>8. Typed'
  <2>1. \A q \in Admin : (mu' = q) <=> call'[q].pc \in HeldPCs
    BY <1>7, Context
  <2>2. \A q \in Client : call'[q].pc \in {"idle", "merge", "put", "notify"}
    BY <1>4, <1>6, Defaults DEF CollInv, Typed, TypeOK
  <2>3. \A w \in Pager : walk'[w].pc \in {"idle", "scan", "get", "done"}
    BY DEF WalkState
  <2>4. TypeOK'
    BY <2>1, <2>2, <2>3, <1>3, <1>7 DEF CollInv, Typed, TypeOK, HeldPCs
  <2> QED BY <2>4, <1>6 DEF CollInv, Typed, Exists
<1>9. \A q \in Admin : SchemaCallOK(q)'
  <2> SUFFICES ASSUME NEW q \in Admin PROVE SchemaCallOK(q)'
    OBVIOUS
  <2>1. call'[q] = call[q] /\ SchemaCallOK(q)
    BY <1>7 DEF CollInv
  <2>2. ASSUME call[q].pc = "wipe", NEW i \in Ids(call[q].c)'
        PROVE  i \in call'[q].keys \/ <<call'[q].c, i>> \in late'
    <3>1. PICK d \in Coll : call[q].c = d
      BY <2>1, <2>2 DEF SchemaCallOK, At
    <3>2. i \in Ids(d)'
      BY <3>1, <2>1, <2>2 DEF Ids
    <3> QED BY <3>1, <3>2, <2>1, <2>2 DEF At
  <2> QED BY <2>1, <2>2 DEF SchemaCallOK, PutIsRight, At, Exists, Ids
<1>10. \A q \in Client : RecordCallOK(q)'
  <2> SUFFICES ASSUME NEW q \in Client PROVE RecordCallOK(q)'
    OBVIOUS
  <2>1. CASE q = p /\ k = n
    <3>1. Change(p)' = Change(p)
      BY <2>1, <1>2, <1>4 DEF Change
    <3> QED BY <3>1, <2>1, <1>1, <1>3, <1>4 DEF RecordCallOK, At
  <2>2. CASE q = p /\ k = IdleCall
    BY <2>2, Defaults DEF RecordCallOK, At
  <2>3. CASE q # p
    <3>1. call'[q] = call[q] /\ RecordCallOK(q)
      BY <1>6, <2>3 DEF CollInv
    <3>2. Change(q)' = Change(q) /\ (Change(q) \in Range(history) => Change(q) \in Range(history'))
      BY <3>1, <1>3 DEF Change
    <3> QED BY <3>1, <3>2 DEF RecordCallOK, At, Exists
  <2> QED BY <2>1, <2>2, <2>3, <1>6
<1>11. Numbers'
  <2>1. \A q \in Client : call'[q].pc = "idle" \/ (call'[q].n = call[q].n /\ call[q].pc # "idle")
    BY <1>4, <1>6, <1>1, Defaults DEF At
  <2> QED BY <2>1, <1>3 DEF CollInv, Numbers, At
<1> QED BY <1>8, <1>9, <1>10, <1>11 DEF CollInv

LEMMA PutStep ==
    ASSUME CollectionsAssumption, CollInv, NEW p \in Client, Put(p)
    PROVE  CollInv'
<1>0. PICK c, id : c = call[p].c /\ id = call[p].id
  OBVIOUS
<1>1. PICK ok \in BOOLEAN, applied \in BOOLEAN :
         /\ Attempt(ok, applied)
         /\ IF ~applied THEN UNCHANGED <<recs, walk, history, late>>
            ELSE /\ history' = Append(history, Change(p))
                 /\ IF call[p].op = "delete"
                    THEN recs' = Without(c, id) /\ Forget(c, id) /\ UNCHANGED late
                    ELSE /\ recs' = With(c, id, call[p].data)
                         /\ late' = IF Doomed(c) THEN late \cup {<<c, id>>} ELSE late
                         /\ UNCHANGED walk
         /\ IF AfterWrite(ok) = "notify"
            THEN call' = [call EXCEPT ![p].pc = "notify"]
            ELSE Idle(p)
  BY <1>0 DEF Put
<1>2. /\ call[p].pc = "put" /\ call[p] \in CallState /\ RecordCallOK(p)
      /\ UNCHANGED <<meta, mu, used, events, edited, recordCalls, misses>>
  BY Context DEF Put, At, CollInv
<1>3. c \in Coll /\ id \in used /\ id \in Id /\ call[p].data \in Data
  BY <1>0, <1>2, Context DEF RecordCallOK, At, CallState
<1>4. CASE ~applied
  <2>1. Idle(p)
    BY <1>1, <1>4 DEF Attempt, AfterWrite
  <2> QED BY <2>1, <1>1, <1>2, <1>4, Context, RecordEnds DEF store, ghosts
<1>5. CASE applied /\ call[p].op = "delete"
  <2>1. UNCHANGED <<meta, late, edited, used, misses>>
    BY <1>1, <1>2, <1>5
  <2>2. /\ DOMAIN recs' = Coll
        /\ \A d \in Coll : /\ Ids(d)' = IF d = c THEN Ids(d) \ {id} ELSE Ids(d)
                           /\ \A i \in Ids(d)' : recs'[d][i] = recs[d][i]
        /\ walk' \in [Pager -> WalkState]
        /\ \A w \in Pager : WalkOK(w)'
        /\ RecordsFitSchema' /\ OrphansAreLateWrites'
    BY <1>1, <1>3, <1>5, <2>1, Removal
  <2>3. \A d \in Coll : Ids(d)' \subseteq Ids(d)
    BY <2>2
  <2>4. \A d \in Coll : /\ Ids(d)' \subseteq used
                        /\ \A i \in Ids(d)' : recs'[d][i] \in Data
    BY <2>2, <2>3 DEF CollInv, Typed, TypeOK
  <2>5. \A q \in Admin, d \in Coll : At(q, "wipe") /\ call[q].c = d =>
           \A i \in Ids(d)' : i \in call[q].keys \/ <<d, i>> \in late'
    <3> SUFFICES ASSUME NEW q \in Admin, NEW d \in Coll, At(q, "wipe"), call[q].c = d,
                        NEW i \in Ids(d)'
                 PROVE  i \in call[q].keys \/ <<d, i>> \in late'
      OBVIOUS
    <3>1. i \in Ids(d) /\ SchemaCallOK(q)
      BY <2>3 DEF CollInv
    <3> QED BY <3>1, <2>1 DEF SchemaCallOK
  <2>6. late \subseteq late' /\ late' \subseteq Coll \X Id
    BY <2>1 DEF CollInv, Typed, TypeOK
  <2>7. /\ history' = Append(history, Change(p))
        /\ call' = [call EXCEPT ![p].pc = "notify"] \/ Idle(p)
    BY <1>1, <1>5
  <2> QED BY <2>2, <2>4, <2>5, <2>6, <2>7, <1>2, Written
<1>6. CASE applied /\ call[p].op # "delete"
  <2>1. c \notin edited => validateRecord(meta[c].fields, call[p].data)
    BY <1>0, <1>2, <1>6 DEF RecordCallOK, At
  <2>2. PICK data \in Data : data = call[p].data
    BY <1>3
  <2>3. /\ recs' = With(c, id, data) /\ UNCHANGED <<walk, meta, edited, used, misses>>
        /\ late' = IF Doomed(c) THEN late \cup {<<c, id>>} ELSE late
    BY <1>1, <1>2, <1>6, <2>2
  <2>4. /\ DOMAIN recs' = Coll
        /\ \A d \in Coll : /\ Ids(d)' \subseteq used
                           /\ \A i \in Ids(d)' : recs'[d][i] \in Data
        /\ \A q \in Admin, d \in Coll : At(q, "wipe") /\ call[q].c = d =>
              \A i \in Ids(d)' : i \in call[q].keys \/ <<d, i>> \in late'
        /\ late \subseteq late' /\ late' \subseteq Coll \X Id
        /\ \A w \in Pager : WalkOK(w)'
        /\ RecordsFitSchema' /\ OrphansAreLateWrites'
    BY <1>3, <2>1, <2>2, <2>3, Addition
  <2>5. walk' \in [Pager -> WalkState]
    BY <2>3, Context
  <2>7. /\ history' = Append(history, Change(p))
        /\ call' = [call EXCEPT ![p].pc = "notify"] \/ Idle(p)
    BY <1>1, <1>6
  <2> QED BY <2>4, <2>5, <2>7, <1>2, Written
<1> QED BY <1>4, <1>5, <1>6

LEMMA NotifyStep ==
    ASSUME CollectionsAssumption, CollInv, NEW p \in Client, Notify(p)
    PROVE  CollInv'
<1>1. /\ call[p].pc = "notify" /\ call[p] \in CallState /\ RecordCallOK(p)
      /\ call' = [call EXCEPT ![p] = IdleCall]
      /\ events' = Append(events, Change(p))
      /\ UNCHANGED <<store, mu, walk, used, history, late, edited, recordCalls, misses>>
  BY Context DEF Notify, At, CollInv, Idle, counters
<1> DEFINE e == Change(p)
<1>2. /\ e \in Change_Type /\ events \in Seq(Change_Type) /\ e.n = call[p].n
      /\ e \in Range(history) /\ e.n <= recordCalls
      /\ \A i \in DOMAIN events : events[i].n # e.n
  BY <1>1, Context DEF RecordCallOK, At, Change, Change_Type, CallState, CollInv, Typed, TypeOK, Ops
<1>3. /\ \A q \in Admin \cup Client : call'[q] = IF q = p THEN IdleCall ELSE call[q]
      /\ call' \in [Admin \cup Client -> CallState]
  BY <1>1, Context, Defaults
<1>4. \A q \in Admin : call'[q] = call[q]
  BY <1>3, Context
<1> HIDE DEF e
<1>5. /\ events' \in Seq(Change_Type)
      /\ DOMAIN events' = 1 .. Len(events) + 1 /\ DOMAIN events = 1 .. Len(events)
      /\ Len(events) \in Nat
      /\ \A i \in DOMAIN events : events'[i] = events[i]
      /\ events'[Len(events) + 1] = e
  BY <1>1, <1>2, RangeOfAppend DEF e
<1>6. \A i \in DOMAIN events' : (i \in DOMAIN events /\ events'[i] = events[i])
                                \/ (i = Len(events) + 1 /\ events'[i] = e)
  BY <1>5
<1>7. Typed'
  <2>1. \A q \in Admin : (mu' = q) <=> call'[q].pc \in HeldPCs
    BY <1>1, <1>4, Context
  <2>2. \A q \in Client : call'[q].pc \in {"idle", "merge", "put", "notify"}
    BY <1>3, Defaults DEF CollInv, Typed, TypeOK
  <2>3. TypeOK'
    BY <2>1, <2>2, <1>1, <1>4, <1>5 DEF CollInv, Typed, TypeOK, store, HeldPCs, Ids
  <2> QED BY <2>3, <1>1, <1>3 DEF CollInv, Typed, store, Exists
<1>8. \A q \in Admin : SchemaCallOK(q)'
  <2> SUFFICES ASSUME NEW q \in Admin PROVE SchemaCallOK(q)'
    OBVIOUS
  <2>1. call'[q] = call[q] /\ SchemaCallOK(q)
    BY <1>4 DEF CollInv
  <2> QED BY <2>1, <1>1 DEF SchemaCallOK, PutIsRight, At, Exists, Ids, store
<1>9. \A q \in Client : RecordCallOK(q)'
  <2> SUFFICES ASSUME NEW q \in Client PROVE RecordCallOK(q)'
    OBVIOUS
  <2>1. CASE q = p
    BY <2>1, <1>3, Defaults DEF RecordCallOK, At
  <2>2. CASE q # p
    <3>1. call'[q] = call[q] /\ RecordCallOK(q)
      BY <1>3, <2>2 DEF CollInv
    <3>2. Change(q)' = Change(q) /\ Range(history') = Range(history)
      BY <3>1, <1>1 DEF Change
    <3>3. CASE call[q].pc = "idle"
      BY <3>1, <3>3 DEF RecordCallOK, At
    <3>4. CASE call[q].pc # "idle"
      <4>1. call[q].n # call[p].n
        BY <1>1, <2>2, <3>4 DEF CollInv, Numbers, At
      <4>2. \A i \in DOMAIN events : events[i].n # call[q].n
        BY <3>1, <3>4 DEF RecordCallOK, At
      <4>3. \A i \in DOMAIN events' : events'[i].n # call[q].n
        BY <4>1, <4>2, <1>2, <1>6
      <4> QED BY <3>1, <3>2, <3>4, <4>3, <1>1 DEF RecordCallOK, At, Exists, store
    <3> QED BY <3>3, <3>4
  <2> QED BY <2>1, <2>2
<1>10. Numbers'
  <2>1. \A q, r \in Client : q # r /\ call'[q].pc # "idle" /\ call'[r].pc # "idle" => call'[q].n # call'[r].n
    BY <1>3, Defaults DEF CollInv, Numbers, At
  <2>2. \A i \in DOMAIN events : events[i].n <= recordCalls /\ events[i] \in Range(history)
    BY DEF CollInv, Numbers
  <2>3. \A i \in DOMAIN events' : events'[i].n <= recordCalls /\ events'[i] \in Range(history)
    BY <2>2, <1>2, <1>6
  <2>4. \A i, j \in DOMAIN events : i # j => events[i].n # events[j].n
    BY DEF CollInv, Numbers
  <2>5. \A i, j \in DOMAIN events' : i # j => events'[i].n # events'[j].n
    <3> SUFFICES ASSUME NEW i \in DOMAIN events', NEW j \in DOMAIN events', i # j
                 PROVE  events'[i].n # events'[j].n
      OBVIOUS
    <3>1. CASE i \in DOMAIN events /\ j \in DOMAIN events
      BY <3>1, <2>4, <1>5
    <3>2. CASE i \notin DOMAIN events
      BY <3>2, <1>2, <1>6
    <3>3. CASE j \notin DOMAIN events
      BY <3>3, <1>2, <1>6
    <3> QED BY <3>1, <3>2, <3>3
  <2> QED BY <2>1, <2>3, <2>5, <1>1 DEF Numbers, At
<1>11. \A w \in Pager : WalkOK(w)'
  BY <1>1 DEF CollInv, WalkOK, InOrder, Complete, Ids, store
<1>12. RecordsFitSchema' /\ OrphansAreLateWrites'
  BY <1>1 DEF CollInv, RecordsFitSchema, OrphansAreLateWrites, Exists, Ids, store
<1> QED BY <1>7, <1>8, <1>9, <1>10, <1>11, <1>12 DEF CollInv

RecordSteps ==
    \/ \E p \in Client, c \in Coll :
          \/ \E data \in NewData : InsertCheck(p, c, data)
          \/ \E id \in used, data \in PatchData : UpdateReadMeta(p, c, id, data)
          \/ \E id \in used : DeleteFind(p, c, id)
    \/ \E p \in Client : RecordStep(p)

LEMMA RecordStepKeeps ==
    ASSUME CollectionsAssumption, CollInv, RecordSteps
    PROVE  CollInv'
BY InsertCheckStep, UpdateReadMetaStep, DeleteFindStep, UpdateMergeStep, PutStep, NotifyStep
   DEF RecordSteps, RecordStep
----------------------------------------------------------------------------
(* Listings.                                                               *)

LEMMA WalkFacts ==
    ASSUME CollectionsAssumption, CollInv, NEW w \in Pager
    PROVE  /\ walk[w] \in WalkState /\ InOrder(w) /\ Complete(w)
           /\ walk[w].after \in Nat /\ walk[w].next \in Nat
           /\ walk[w].keys \subseteq Id /\ walk[w].seen \in Seq(Id) /\ walk[w].stable \subseteq Id
           /\ DOMAIN walk[w].seen = 1 .. Len(walk[w].seen) /\ Len(walk[w].seen) \in Nat
           /\ \A i \in DOMAIN walk[w].seen : walk[w].seen[i] \in Id
           /\ \A id \in Id : id \in Nat /\ id > 0
<1>1. walk[w] \in WalkState
  BY Context
<1>2. walk[w].seen \in Seq(Id)
  BY <1>1 DEF WalkState
<1>3. /\ DOMAIN walk[w].seen = 1 .. Len(walk[w].seen) /\ Len(walk[w].seen) \in Nat
      /\ \A i \in DOMAIN walk[w].seen : walk[w].seen[i] \in Id
  BY <1>2
<1> QED BY <1>1, <1>3 DEF WalkState, CollInv, WalkOK, CollectionsAssumption

LEMMA BeginWalkStep ==
    ASSUME CollectionsAssumption, CollInv, NEW w \in Pager, NEW c \in Coll, BeginWalk(w, c)
    PROVE  CollInv'
<1> DEFINE v == [IdleWalk EXCEPT !.pc = "scan", !.c = c, !.stable = Ids(c)]
<1>1. Ids(c) \subseteq Id /\ \A id \in Ids(c) : id \in Nat /\ id > 0
  <2>1. Ids(c) \subseteq Id
    BY Context
  <2> QED BY <2>1, WalkFacts
<1>2. /\ v \in WalkState /\ v.pc = "scan" /\ v.c = c /\ v.stable = Ids(c) /\ v.seen = <<>>
      /\ v.after = 0
  BY <1>1, Defaults DEF IdleWalk, WalkState
<1>3. /\ walk' = [walk EXCEPT ![w] = v]
      /\ UNCHANGED <<store, mu, call, ghosts, recordCalls, misses>>
  BY DEF BeginWalk
<1> HIDE DEF v
<1>4. walk'[w] = v /\ recs' = recs
  BY <1>3, Context DEF store
<1>5. InOrder(w)'
  BY <1>2, <1>4 DEF InOrder, Sorted
<1>6. Complete(w)'
  BY <1>1, <1>2, <1>4 DEF Complete, Ids
<1> QED BY <1>2, <1>3, <1>5, <1>6, Context, WalkMoves DEF WalkOK

\* A listing that has ended.
LEMMA WalkEnds ==
    ASSUME CollectionsAssumption, CollInv, NEW w \in Pager, walk' = [walk EXCEPT ![w] = IdleWalk],
           UNCHANGED <<store, mu, call, ghosts, recordCalls, misses>>
    PROVE  CollInv'
<1>1. walk'[w] = IdleWalk
  BY Context
<1>2. WalkOK(w)'
  BY <1>1, Defaults DEF WalkOK, InOrder, Complete, Sorted
<1> QED BY <1>2, Context, Defaults, WalkMoves

LEMMA ScanPageStep ==
    ASSUME CollectionsAssumption, CollInv, NEW w \in Pager, ScanPage(w)
    PROVE  CollInv'
<1>0. PICK c, rest, page : c = walk[w].c /\ rest = Behind(w) /\ page = FirstOf(Behind(w))
  OBVIOUS
<1> DEFINE next == NextAfter(rest, page)
           v == [walk[w] EXCEPT !.pc = "get", !.keys = page, !.next = next]
<1>1. /\ walk[w].pc = "scan"
      /\ UNCHANGED <<store, mu, call, ghosts, recordCalls, misses>>
      /\ walk' = [walk EXCEPT ![w] = IdleWalk] \/ walk' = [walk EXCEPT ![w] = v]
  <2>1. PICK ok \in BOOLEAN : walk' = [walk EXCEPT ![w] = IF ~ok THEN IdleWalk ELSE v]
    BY <1>0, Context DEF ScanPage
  <2>2. /\ walk[w].pc = "scan"
        /\ UNCHANGED <<store, mu, call, ghosts, recordCalls, misses>>
    BY DEF ScanPage, WalkAt
  <2> HIDE DEF v
  <2> QED BY <2>1, <2>2
<1>2. CASE walk' = [walk EXCEPT ![w] = IdleWalk]
  BY <1>1, <1>2, WalkEnds
<1>3. CASE walk' = [walk EXCEPT ![w] = v]
  <2>1. c \in Coll
    BY <1>0, <1>1, WalkFacts DEF InOrder
  <2>2. /\ rest = {id \in Ids(c) : id > walk[w].after}
        /\ rest \in SUBSET Id
    BY <1>0, <2>1, Context DEF Behind
  <2>3. /\ page \in SUBSET rest /\ IsFiniteSet(page)
        /\ rest # {} => page # {}
        /\ \A i \in page, j \in rest \ page : i < j
    BY <1>0, <2>2, PageIsFirst
  <2>a. page \subseteq Id /\ page \subseteq Nat
    BY <2>2, <2>3, WalkFacts
  <2>4. /\ next \in Nat
        /\ rest = page => next = 0
        /\ rest # page => next \in page /\ \A k \in page : k <= next
    <3>1. CASE rest = page
      BY <3>1 DEF NextAfter
    <3>2. CASE rest # page
      <4>1. page # {}
        BY <2>3, <3>2
      <4>2. Max(page) \in page /\ \A k \in page : k <= Max(page)
        BY <4>1, <2>3, <2>a, MaxOfIds
      <4> QED BY <4>2, <3>2, <2>a DEF NextAfter
    <3> QED BY <3>1, <3>2
  <2> HIDE DEF next
  <2>5. /\ v \in WalkState /\ v.pc = "get" /\ v.c = c /\ v.keys = page /\ v.next = next
        /\ v.stable = walk[w].stable /\ v.seen = walk[w].seen
    <3>1. walk[w] \in WalkState
      BY WalkFacts
    <3>2. v \in WalkState
      BY <3>1, <2>4, <2>a DEF WalkState
    <3> QED BY <3>1, <3>2, <1>0 DEF WalkState
  <2> HIDE DEF v
  <2>6. walk'[w] = v /\ recs' = recs
    BY <1>1, <1>3, Context DEF store
  <2>7. \A i \in DOMAIN v.seen : v.seen[i] \in Nat /\ v.seen[i] <= walk[w].after
    BY <2>5, <1>1, WalkFacts DEF InOrder
  <2>8. \A k \in rest : k \in Nat /\ k > walk[w].after /\ walk[w].after \in Nat
    BY <2>2, WalkFacts
  <2>9. \A i \in DOMAIN v.seen : \A k \in rest : v.seen[i] < k
    BY <2>7, <2>8
  <2>10. InOrder(w)'
    <3>1. \A i \in DOMAIN v.seen : \A k \in v.keys : v.seen[i] < k
      BY <2>3, <2>5, <2>9
    <3>2. v.next # 0 => rest # page /\ next \in page
      BY <2>4, <2>5
    <3>3. v.next # 0 => \A i \in DOMAIN v.seen : v.seen[i] <= v.next
      <4> SUFFICES ASSUME v.next # 0, NEW i \in DOMAIN v.seen PROVE v.seen[i] <= v.next
        OBVIOUS
      <4>1. v.seen[i] < next /\ next \in Nat /\ v.seen[i] \in Nat
        BY <3>2, <2>3, <2>4, <2>7, <2>9
      <4> QED BY <4>1, <2>5
    <3>4. v.next # 0 => \A k \in v.keys : k <= v.next
      BY <2>4, <2>5
    <3>5. Sorted(v.seen)
      BY <2>5, WalkFacts DEF InOrder
    <3> QED BY <3>1, <3>3, <3>4, <3>5, <2>1, <2>5, <2>6 DEF InOrder
  <2>11. Complete(w)'
    <3>1. walk[w].stable \subseteq Ids(c)
      BY <1>0, <1>1, WalkFacts DEF Complete
    <3>2. ASSUME misses = 0, NEW id \in walk[w].stable
          PROVE  id \in Range(v.seen) \/ id \in page \/ (next # 0 /\ id > next)
      <4>1. id \in Range(v.seen) \/ id > walk[w].after
        BY <3>2, <1>1, <2>5, WalkFacts DEF Complete
      <4>2. CASE id > walk[w].after /\ id \notin page
        <5>1. id \in rest \ page
          BY <4>2, <3>1, <2>2
        <5>2. next \in page /\ next < id
          BY <5>1, <2>3, <2>4
        <5>3. next # 0 /\ id \in Nat /\ next \in Nat
          BY <5>1, <5>2, <2>a, <2>2, WalkFacts
        <5> QED BY <5>2, <5>3
      <4> QED BY <4>1, <4>2
    <3> QED BY <3>1, <3>2, <2>5, <2>6, <1>1 DEF Complete, Ids
  <2> QED BY <1>1, <1>3, <2>5, <2>10, <2>11, Context, WalkMoves DEF WalkOK
<1> QED BY <1>1, <1>2, <1>3

LEMMA AppendSorted ==
    ASSUME NEW T, T \subseteq Nat, NEW s \in Seq(T), Sorted(s), NEW e \in T,
           \A i \in DOMAIN s : s[i] < e
    PROVE  Sorted(Append(s, e))
<1>1. /\ DOMAIN Append(s, e) = 1 .. Len(s) + 1
      /\ DOMAIN s = 1 .. Len(s) /\ Len(s) \in Nat
      /\ \A i \in DOMAIN s : Append(s, e)[i] = s[i]
      /\ Append(s, e)[Len(s) + 1] = e
  BY RangeOfAppend
<1> DEFINE a == Append(s, e)
<1> HIDE DEF a
<1> SUFFICES ASSUME NEW i \in DOMAIN a, NEW j \in DOMAIN a, i < j PROVE a[i] < a[j]
  BY DEF Sorted, a
<1>2. i \in DOMAIN s /\ a[i] = s[i] /\ (j \in DOMAIN s \/ j = Len(s) + 1)
  BY <1>1 DEF a
<1>3. CASE j \in DOMAIN s
  BY <1>1, <1>2, <1>3 DEF Sorted, a
<1>4. CASE j = Len(s) + 1
  BY <1>1, <1>2, <1>4 DEF a
<1> QED BY <1>2, <1>3, <1>4

LEMMA GetListedStep ==
    ASSUME CollectionsAssumption, CollInv, NEW w \in Pager, GetListed(w)
    PROVE  CollInv'
<1>0. PICK c, id : c = walk[w].c /\ id = Min(walk[w].keys)
  OBVIOUS
<1>1. PICK found \in BOOLEAN :
         /\ Gets(id \in Ids(c), found)
         /\ walk' = [walk EXCEPT ![w].keys = @ \ {id},
                                 ![w].seen = IF found THEN Append(@, id) ELSE @]
  BY <1>0 DEF GetListed
<1>2. /\ walk[w].pc = "get" /\ walk[w].keys # {}
      /\ UNCHANGED <<store, mu, call, ghosts, recordCalls>>
  BY DEF GetListed, WalkAt
<1>3. misses' \in Nat /\ (misses' = 0 => misses = 0 /\ found = (id \in Ids(c)))
  <2>1. (id \in Ids(c)) \in BOOLEAN /\ misses \in Nat
    BY Context
  <2> QED BY <2>1, <1>1, GetsType
<1>4. id \in walk[w].keys /\ id \in Id /\ \A k \in walk[w].keys : id <= k
  <2>1. walk[w].keys \subseteq Id /\ walk[w].keys \subseteq Nat
    BY WalkFacts
  <2> QED BY <2>1, <1>0, <1>2, MinOfIds
<1> DEFINE seen == IF found THEN Append(walk[w].seen, id) ELSE walk[w].seen
           v == [walk[w] EXCEPT !.keys = @ \ {id}, !.seen = seen]
<1>5. /\ seen \in Seq(Id) /\ Sorted(seen)
      /\ \A i \in DOMAIN seen :
            \/ i \in DOMAIN walk[w].seen /\ seen[i] = walk[w].seen[i]
            \/ seen[i] = id
      /\ Range(walk[w].seen) \subseteq Range(seen)
      /\ found => id \in Range(seen)
  <2>0. /\ walk[w].seen \in Seq(Id) /\ Sorted(walk[w].seen) /\ Id \subseteq Nat
        /\ \A i \in DOMAIN walk[w].seen : walk[w].seen[i] < id
    BY <1>2, <1>4, WalkFacts DEF InOrder
  <2>1. Sorted(Append(walk[w].seen, id))
    BY <2>0, <1>4, AppendSorted
  <2>2. /\ Append(walk[w].seen, id) \in Seq(Id)
        /\ \A i \in DOMAIN Append(walk[w].seen, id) :
              \/ i \in DOMAIN walk[w].seen /\ Append(walk[w].seen, id)[i] = walk[w].seen[i]
              \/ Append(walk[w].seen, id)[i] = id
        /\ Range(walk[w].seen) \subseteq Range(Append(walk[w].seen, id))
        /\ id \in Range(Append(walk[w].seen, id))
    <3>1. /\ DOMAIN Append(walk[w].seen, id) = 1 .. Len(walk[w].seen) + 1
          /\ DOMAIN walk[w].seen = 1 .. Len(walk[w].seen) /\ Len(walk[w].seen) \in Nat
          /\ \A i \in DOMAIN walk[w].seen : Append(walk[w].seen, id)[i] = walk[w].seen[i]
          /\ Append(walk[w].seen, id)[Len(walk[w].seen) + 1] = id
          /\ Append(walk[w].seen, id) \in Seq(Id)
          /\ Range(walk[w].seen) \subseteq Range(Append(walk[w].seen, id))
          /\ id \in Range(Append(walk[w].seen, id))
      BY <2>0, <1>4, RangeOfAppend
    <3>2. ASSUME NEW i \in 1 .. Len(walk[w].seen) + 1
          PROVE  i \in 1 .. Len(walk[w].seen) \/ i = Len(walk[w].seen) + 1
      BY <3>1, <3>2
    <3> QED BY <3>1, <3>2
  <2>3. CASE found
    BY <2>1, <2>2, <2>3
  <2>4. CASE ~found
    BY <2>0, <2>4
  <2> QED BY <2>3, <2>4
<1> HIDE DEF seen
<1>6. /\ v \in WalkState /\ v.pc = "get" /\ v.c = c /\ v.keys = walk[w].keys \ {id}
      /\ v.next = walk[w].next /\ v.stable = walk[w].stable /\ v.seen = seen
  <2>1. walk[w] \in WalkState
    BY WalkFacts
  <2>2. v \in WalkState
    BY <2>1, <1>5 DEF WalkState
  <2> QED BY <2>1, <2>2, <1>0, <1>2 DEF WalkState
<1>7. walk' = [walk EXCEPT ![w] = v]
  BY <1>1, Context DEF seen
<1> HIDE DEF v
<1>8. walk'[w] = v /\ recs' = recs
  BY <1>2, <1>7, Context DEF store
<1>9. InOrder(w)'
  <2>1. InOrder(w)
    BY WalkFacts
  <2>2. \A k \in v.keys : k \in walk[w].keys /\ id < k
    <3> SUFFICES ASSUME NEW k \in v.keys PROVE k \in walk[w].keys /\ id < k
      OBVIOUS
    <3>1. k \in walk[w].keys /\ k # id /\ id <= k
      BY <1>4, <1>6
    <3>2. k \in Nat /\ id \in Nat
      BY <3>1, <1>4, WalkFacts
    <3> QED BY <3>1, <3>2
  <2>3. \A i \in DOMAIN v.seen : \A k \in v.keys : v.seen[i] < k
    BY <2>1, <2>2, <1>2, <1>5, <1>6 DEF InOrder
  <2>4. v.next # 0 => /\ \A i \in DOMAIN v.seen : v.seen[i] <= v.next
                      /\ \A k \in v.keys : k <= v.next
    BY <2>1, <2>2, <1>2, <1>4, <1>5, <1>6 DEF InOrder
  <2>5. v.c \in Coll
    BY <2>1, <1>0, <1>2, <1>6 DEF InOrder
  <2> QED BY <2>3, <2>4, <2>5, <1>5, <1>6, <1>8 DEF InOrder
<1>10. Complete(w)'
  <2>1. walk[w].stable \subseteq Ids(c)
    BY <1>0, <1>2, WalkFacts DEF Complete
  <2>2. ASSUME misses' = 0, NEW i \in walk[w].stable
        PROVE  i \in Range(v.seen) \/ i \in v.keys \/ (v.next # 0 /\ i > v.next)
    <3>1. \/ i \in Range(walk[w].seen) \/ i \in walk[w].keys
          \/ walk[w].next # 0 /\ i > walk[w].next
      BY <2>2, <1>2, <1>3, WalkFacts DEF Complete
    <3>2. CASE i = id
      BY <3>2, <2>1, <2>2, <1>3, <1>5, <1>6
    <3>3. CASE i # id
      BY <3>1, <3>3, <1>5, <1>6
    <3> QED BY <3>2, <3>3
  <2> QED BY <2>1, <2>2, <1>6, <1>8 DEF Complete, Ids
<1> QED BY <1>2, <1>3, <1>6, <1>7, <1>9, <1>10, WalkMoves DEF WalkOK

LEMMA EndPageStep ==
    ASSUME CollectionsAssumption, CollInv, NEW w \in Pager, EndPage(w)
    PROVE  CollInv'
<1> DEFINE pc == IF walk[w].next = 0 THEN "done" ELSE "scan"
           v == [walk[w] EXCEPT !.pc = pc, !.after = walk[w].next]
<1>1. /\ walk[w].pc = "get" /\ walk[w].keys = {}
      /\ UNCHANGED <<store, mu, call, ghosts, recordCalls, misses>>
  BY DEF EndPage, WalkAt, counters
<1>2. /\ v \in WalkState /\ v.pc = pc /\ v.c = walk[w].c /\ v.after = walk[w].next
      /\ v.stable = walk[w].stable /\ v.seen = walk[w].seen
  <2>1. walk[w] \in WalkState
    BY WalkFacts
  <2>2. v \in WalkState
    BY <2>1 DEF WalkState
  <2> QED BY <2>1, <2>2 DEF WalkState
<1>3. walk' = [walk EXCEPT ![w] = v]
  BY Context DEF EndPage
<1> HIDE DEF v
<1>4. walk'[w] = v /\ recs' = recs
  BY <1>1, <1>3, Context DEF store
<1>5. InOrder(w) /\ Complete(w)
  BY WalkFacts
<1>6. InOrder(w)'
  BY <1>1, <1>2, <1>4, <1>5 DEF InOrder
<1>7. Complete(w)'
  BY <1>1, <1>2, <1>4, <1>5 DEF Complete, Ids
<1> QED BY <1>1, <1>2, <1>3, <1>6, <1>7, Context, WalkMoves DEF WalkOK

WalkSteps ==
    \/ \E w \in Pager, c \in Coll : BeginWalk(w, c)
    \/ \E w \in Pager : WalkStep(w)

LEMMA WalkStepKeeps ==
    ASSUME CollectionsAssumption, CollInv, WalkSteps
    PROVE  CollInv'
<1>1. ASSUME NEW w \in Pager, FinishWalk(w) PROVE CollInv'
  <2>1. /\ walk' = [walk EXCEPT ![w] = IdleWalk]
        /\ UNCHANGED <<store, mu, call, ghosts, recordCalls, misses>>
    BY <1>1 DEF FinishWalk, counters
  <2> QED BY <2>1, WalkEnds
<1> QED BY <1>1, BeginWalkStep, ScanPageStep, GetListedStep, EndPageStep DEF WalkSteps, WalkStep
----------------------------------------------------------------------------
(* All together.                                                           *)

LEMMA CrashStep ==
    ASSUME CollectionsAssumption, CollInv, Crash
    PROVE  CollInv'
<1>1. /\ call' = [p \in Admin \cup Client |-> IdleCall] /\ mu' = Nobody
      /\ walk' = [w \in Pager |-> IdleWalk]
      /\ UNCHANGED <<meta, recs, used, events, history, late, edited, recordCalls, misses>>
  BY DEF Crash, store, ghosts
<1>2. /\ \A p \in Admin \cup Client : call'[p] = IdleCall /\ call'[p].pc = "idle"
      /\ \A w \in Pager : walk'[w] = IdleWalk /\ walk'[w].pc = "idle" /\ walk'[w].seen = <<>>
  BY <1>1, Defaults
<1>3. Typed'
  <2>1. TypeOK'
    BY <1>1, <1>2 DEF CollInv, Typed, TypeOK, Ids, CollectionsAssumption
  <2> QED BY <2>1, <1>1, Defaults DEF CollInv, Typed, Exists
<1>4. /\ \A p \in Admin : SchemaCallOK(p)'
      /\ \A p \in Client : RecordCallOK(p)'
  BY <1>2 DEF SchemaCallOK, RecordCallOK, At
<1>5. Numbers'
  BY <1>1, <1>2 DEF CollInv, Numbers, At
<1>6. \A w \in Pager : WalkOK(w)'
  BY <1>2 DEF WalkOK, InOrder, Complete, Sorted
<1>7. RecordsFitSchema' /\ OrphansAreLateWrites'
  BY <1>1 DEF CollInv, RecordsFitSchema, OrphansAreLateWrites, Exists, Ids
<1> QED BY <1>3, <1>4, <1>5, <1>6, <1>7 DEF CollInv

LEMMA StutterStep ==
    ASSUME CollectionsAssumption, CollInv, UNCHANGED vars
    PROVE  CollInv'
<1>1. UNCHANGED <<meta, recs, mu, call, walk, used, events, history, late, edited, recordCalls, misses>>
  BY DEF vars, store, ghosts, counters
<1>2. Typed'
  BY <1>1 DEF CollInv, Typed, TypeOK, Ids, Exists
<1>3. \A p \in Admin : SchemaCallOK(p)'
  BY <1>1 DEF CollInv, SchemaCallOK, PutIsRight, At, Ids, Exists
<1>4. \A p \in Client : RecordCallOK(p)'
  BY <1>1 DEF CollInv, RecordCallOK, At, Exists, Change
<1>5. Numbers'
  BY <1>1 DEF CollInv, Numbers, At
<1>6. \A w \in Pager : WalkOK(w)'
  BY <1>1 DEF CollInv, WalkOK, InOrder, Complete, Ids
<1>7. RecordsFitSchema' /\ OrphansAreLateWrites'
  BY <1>1 DEF CollInv, RecordsFitSchema, OrphansAreLateWrites, Exists, Ids
<1> QED BY <1>2, <1>3, <1>4, <1>5, <1>6, <1>7 DEF CollInv

CallSchemaSteps ==
    \E p \in Admin, c \in Coll :
       \/ \E m \in NewMeta : CallSchema(p, "create", c, m, NoPatch)
       \/ \E patch \in Patch : CallSchema(p, "update", c, NoMeta, patch)
       \/ CallSchema(p, "delete", c, NoMeta, NoPatch)

LEMMA NextSteps ==
    ASSUME Next
    PROVE  CallSchemaSteps \/ RecordSteps \/ WalkSteps \/ SchemaSteps \/ Crash
BY DEF Next, CallSchemaSteps, RecordSteps, WalkSteps, SchemaSteps

LEMMA CallSchemaStepKeeps ==
    ASSUME CollectionsAssumption, CollInv, CallSchemaSteps
    PROVE  CollInv'
<1>1. NoMeta \in Meta /\ NoPatch \in PatchType /\ NewMeta \subseteq Meta /\ Patch \subseteq PatchType
  BY Defaults DEF CollectionsAssumption
<1>2. ASSUME NEW p \in Admin, NEW c \in Coll, NEW m \in NewMeta,
             CallSchema(p, "create", c, m, NoPatch)
      PROVE  CollInv'
  <2>1. m \in Meta /\ "create" \in Ops
    BY <1>1 DEF Ops
  <2> QED BY <1>1, <1>2, <2>1, CallSchemaStep
<1>3. ASSUME NEW p \in Admin, NEW c \in Coll, NEW patch \in Patch,
             CallSchema(p, "update", c, NoMeta, patch)
      PROVE  CollInv'
  <2>1. patch \in PatchType /\ "update" \in Ops
    BY <1>1 DEF Ops
  <2> QED BY <1>1, <1>3, <2>1, CallSchemaStep
<1>4. ASSUME NEW p \in Admin, NEW c \in Coll, CallSchema(p, "delete", c, NoMeta, NoPatch)
      PROVE  CollInv'
  <2>1. "delete" \in Ops
    BY DEF Ops
  <2> QED BY <1>1, <1>4, <2>1, CallSchemaStep
<1> QED BY <1>2, <1>3, <1>4 DEF CallSchemaSteps

\* Records, schemas, calls, events and listings stay in agreement, whatever
\* calls overlap, fail or are cut off by a crash.
THEOREM CollectionsAgree ==
    ASSUME CollectionsAssumption
    PROVE  Spec => []CollInv
<1>1. Init => CollInv
  BY CollInit
<1>2. CollInv /\ [Next]_vars => CollInv'
  BY NextSteps, CallSchemaStepKeeps, RecordStepKeeps, WalkStepKeeps, SchemaStepKeeps,
     CrashStep, StutterStep
<1> QED BY <1>1, <1>2, PTL DEF Spec

\* DeleteCollection: a record whose collection is gone was written after the
\* records had been listed, or when there was no such collection.
THEOREM OnlyLateWritesAreOrphans ==
    ASSUME CollectionsAssumption
    PROVE  Spec => []OrphansAreLateWrites
<1>1. CollInv => OrphansAreLateWrites
  BY DEF CollInv
<1> QED BY <1>1, CollectionsAgree, PTL

\* Insert and UpdateRecord: every record fits the first schema of its
\* collection, and the state is well-formed.
THEOREM RecordsStaySound ==
    ASSUME CollectionsAssumption
    PROVE  Spec => []RecordsAreSound
<1>1. CollInv => RecordsAreSound
  BY DEF CollInv, Typed, RecordsAreSound
<1> QED BY <1>1, CollectionsAgree, PTL

\* notify: no event without a write that took effect, none twice.
THEOREM NoFalseEvents ==
    ASSUME CollectionsAssumption
    PROVE  Spec => []EventsTellOfWrites
<1>1. CollInv => EventsTellOfWrites
  <2> SUFFICES ASSUME CollInv PROVE EventsTellOfWrites
    OBVIOUS
  <2>1. Numbers
    BY DEF CollInv
  <2> QED BY <2>1 DEF Numbers, EventsTellOfWrites
<1> QED BY <1>1, CollectionsAgree, PTL

\* ListRecords page by page: in order, none twice, and none left out that was
\* there all the time.
THEOREM ListingsAreComplete ==
    ASSUME CollectionsAssumption
    PROVE  Spec => []ListingExact
<1>1. CollInv => ListingExact
  <2> SUFFICES ASSUME CollInv, NEW w \in Pager
               PROVE  /\ Sorted(walk[w].seen)
                      /\ WalkAt(w, "done") /\ misses = 0 =>
                            walk[w].stable \subseteq Range(walk[w].seen)
    BY DEF ListingExact, Sorted
  <2>1. InOrder(w) /\ Complete(w)
    BY DEF CollInv, WalkOK
  <2> QED BY <2>1 DEF InOrder, Complete, WalkAt
<1> QED BY <1>1, CollectionsAgree, PTL

LEMMA PutMetaIsAtomic ==
    ASSUME CollectionsAssumption, CollInv, NEW p \in Admin, PutMeta(p)
    PROVE  Schemas!Next \/ misses > 0 \/ meta' = meta
<1> DEFINE c == call[p].c
           m == call[p].meta
<1>1. c \in Coll /\ PutIsRight(p)
  <2>1. call[p].pc = "putMeta" /\ SchemaCallOK(p)
    BY DEF PutMeta, At, CollInv
  <2> QED BY <2>1 DEF SchemaCallOK, At
<1>2. meta' = meta \/ meta' = [meta EXCEPT ![c] = m]
  BY DEF PutMeta
<1>3. misses = 0 \/ misses > 0
  BY Context
<1>4. ASSUME misses = 0, meta' = [meta EXCEPT ![c] = m],
             m \in NewMeta, validateFields(m.fields), ~Exists(c)
      PROVE  Schemas!Next
  <2>1. Schemas!Create(c)
    BY <1>4 DEF Schemas!Create, Schemas!Exists, Schemas!NoMeta, Schemas!validateFields,
       Schemas!RuleName, Schemas!FieldType, Exists, NoMeta, validateFields, RuleName, FieldType
  <2> QED BY <1>1, <2>1 DEF Schemas!Next
<1>5. ASSUME meta' = [meta EXCEPT ![c] = m], Exists(c),
             NEW patch \in Patch, LegalPatch(patch), m = Patched(meta[c], patch)
      PROVE  Schemas!Next
  <2>1. Schemas!LegalPatch(patch)
    BY <1>5 DEF Schemas!LegalPatch, Schemas!validateFields, Schemas!FieldType,
       LegalPatch, validateFields, FieldType
  <2>2. Schemas!Patched(meta[c], patch) = Patched(meta[c], patch)
    BY DEF Schemas!Patched, Schemas!Normalize, Schemas!Rule, Schemas!RuleName,
       Patched, Normalize, Rule, RuleName
  <2>3. Schemas!Exists(c)
    BY <1>5 DEF Schemas!Exists, Schemas!NoMeta, Schemas!RuleName, Exists, NoMeta, RuleName
  <2>4. Schemas!Change(c)
    BY <1>5, <2>1, <2>2, <2>3 DEF Schemas!Change
  <2> QED BY <1>1, <2>4 DEF Schemas!Next
<1> QED BY <1>1, <1>2, <1>3, <1>4, <1>5 DEF PutIsRight

LEMMA DropMetaIsAtomic ==
    ASSUME CollectionsAssumption, CollInv, NEW p \in Admin, DropMeta(p)
    PROVE  Schemas!Next \/ meta' = meta
<1> DEFINE c == call[p].c
<1>1. c \in Coll /\ Exists(c)
  <2>1. call[p].pc = "wipe" /\ SchemaCallOK(p)
    BY DEF DropMeta, At, CollInv
  <2> QED BY <2>1 DEF SchemaCallOK, At
<1>2. CASE meta' = [meta EXCEPT ![c] = NoMeta]
  <2>1. Schemas!Remove(c)
    BY <1>1, <1>2 DEF Schemas!Remove, Schemas!Exists, Schemas!NoMeta, Schemas!RuleName,
       Exists, NoMeta, RuleName
  <2> QED BY <1>1, <2>1 DEF Schemas!Next
<1> QED BY <1>2 DEF DropMeta

\* Service.mu: each schema call changes the metadata once, as if it had been
\* alone, until an error of reading a table hides a collection.
THEOREM SchemaCallsImplementCatalog ==
    ASSUME CollectionsAssumption
    PROVE  Spec => SchemaCallsAreAtomic
<1>1. Init => Schemas!Init
  BY DEF Init, Schemas!Init, Schemas!NoMeta, Schemas!RuleName, NoMeta, RuleName
<1>2. CollInv /\ [Next]_vars => [Schemas!Next \/ misses > 0]_meta
  <2> SUFFICES ASSUME CollInv, [Next]_vars PROVE Schemas!Next \/ misses > 0 \/ meta' = meta
    OBVIOUS
  <2>1. CASE UNCHANGED vars
    BY <2>1 DEF vars, store
  <2>2. CASE CallSchemaSteps
    BY <2>2 DEF CallSchemaSteps, CallSchema, store
  <2>3. CASE RecordSteps
    BY <2>3 DEF RecordSteps, RecordStep, InsertCheck, UpdateReadMeta, DeleteFind, UpdateMerge,
       Put, Notify, store
  <2>4. CASE WalkSteps
    BY <2>4 DEF WalkSteps, WalkStep, BeginWalk, ScanPage, GetListed, EndPage, FinishWalk, store
  <2>5. CASE SchemaSteps
    <3>1. PICK p \in Admin : SchemaStep(p)
      BY <2>5 DEF SchemaSteps
    <3>2. CASE PutMeta(p)
      BY <3>2, PutMetaIsAtomic
    <3>3. CASE DropMeta(p)
      BY <3>3, DropMetaIsAtomic
    <3>4. CASE CreateCheck(p) \/ UpdateCheck(p) \/ DeleteCheck(p) \/ ListDoomed(p) \/ WipeRecord(p)
      BY <3>4 DEF CreateCheck, UpdateCheck, DeleteCheck, ListDoomed, WipeRecord, store
    <3> QED BY <3>1, <3>2, <3>3, <3>4 DEF SchemaStep
  <2>6. CASE Crash
    BY <2>6 DEF Crash, store
  <2> QED BY <2>1, <2>2, <2>3, <2>4, <2>5, <2>6, NextSteps
<1> QED BY <1>1, <1>2, CollectionsAgree, PTL DEF Spec, SchemaCallsAreAtomic
=============================================================================
