---------------------------- MODULE EngineProofs ----------------------------
(***************************************************************************)
(* Proofs about Engine, for any keys, readers, thresholds and bounds.  The *)
(* invariant ListInv of EngineInv is shown to be inductive part by part;   *)
(* for each part the steps that change a variable it mentions are treated  *)
(* one by one, and a "frame" lemma says that they are all there are.       *)
(* First come the facts about the operators of LSM that this rests on.     *)
(***************************************************************************)
EXTENDS EngineInv, FiniteSetTheorems, SequenceTheorems, WellFoundedInduction, TLAPS

----------------------------------------------------------------------------
(* What the operators of LSM return, for every value of the constants.     *)

\* A set of positions 1 .. n that is not empty has a greatest element.
LEMMA MaxPosition ==
    ASSUME NEW n \in Nat, NEW S, S \subseteq 1 .. n, S # {}
    PROVE  /\ Max(S) \in S
           /\ \A i \in S : i <= Max(S)
<1> DEFINE T == {n - i : i \in S}
<1>1. T \subseteq Nat /\ T # {}
  <2>1. \A i \in S : i \in 1 .. n /\ n - i \in Nat
      OBVIOUS
  <2> QED
      BY <2>1
<1>2. PICK x \in T : \A y \in T : ~ (<<y, x>> \in OpToRel(<, Nat))
    BY <1>1, NatLessThanWellFounded, WFMin
<1>3. PICK m \in S : x = n - m
    OBVIOUS
<1>4. \A i \in S : m >= i
  <2> SUFFICES ASSUME NEW i \in S, i > m PROVE FALSE
      OBVIOUS
  <2>1. n - i \in T /\ n - i < n - m
      OBVIOUS
  <2> QED
      BY <2>1, <1>1, <1>2, <1>3 DEF OpToRel
<1> QED
    BY <1>4 DEF Max

\* The greatest element is determined by being one.
LEMMA MaxIs ==
    ASSUME NEW S, S \subseteq Nat, NEW m \in S, \A i \in S : i <= m
    PROVE  Max(S) = m
<1>1. m \in S /\ \A i \in S : m >= i
    OBVIOUS
<1>2. Max(S) \in S /\ \A i \in S : Max(S) >= i
    BY <1>1 DEF Max
<1>3. Max(S) >= m /\ m >= Max(S) /\ Max(S) \in Nat /\ m \in Nat
    BY <1>1, <1>2
<1> QED
    BY <1>3

LEMMA EntryTypes == NoEntry \in Entry /\ Empty \in Contents /\ NoTable \in Table
    BY DEF NoEntry, Entry, Empty, Contents, NoTable, Table

\* Replaying a log gives a memtable.
LEMMA ReplayType ==
    ASSUME NEW s \in Seq(Record)
    PROVE  Replay(s) \in Contents
<1> SUFFICES ASSUME NEW k \in Key PROVE Replay(s)[k] \in Entry
    BY DEF Replay, Contents
<1> DEFINE at == {i \in DOMAIN s : s[i].key = k}
<1>1. CASE at = {}
    BY <1>1, EntryTypes DEF Replay
<1>2. CASE at # {}
  <2>1. at \subseteq 1 .. Len(s) /\ Len(s) \in Nat
      OBVIOUS
  <2>2. Max(at) \in at
      BY <1>2, <2>1, MaxPosition
  <2>3. s[Max(at)] \in Record
      BY <2>1, <2>2
  <2> QED
      BY <1>2, <2>3 DEF Replay, Record
<1> QED
    BY <1>1, <1>2

\* Merging and searching tables gives versions.
LEMMA NewestType ==
    ASSUME NEW s \in Seq(Table), NEW P, P \subseteq DOMAIN s, NEW k \in Key
    PROVE  NewestAmong(s, P, k) \in Entry
<1> DEFINE hits == {i \in P : Present(s[i].recs[k])}
<1>1. CASE hits = {}
    BY <1>1, EntryTypes DEF NewestAmong
<1>2. CASE hits # {}
  <2>1. hits \subseteq 1 .. Len(s) /\ Len(s) \in Nat
      OBVIOUS
  <2>2. Max(hits) \in hits
      BY <1>2, <2>1, MaxPosition
  <2>3. s[Max(hits)] \in Table
      BY <2>1, <2>2
  <2> QED
      BY <1>2, <2>3 DEF NewestAmong, Table, Contents
<1> QED
    BY <1>1, <1>2

LEMMA MergeType ==
    ASSUME NEW s \in Seq(Table)
    PROVE  Merge(s) \in Contents
<1>1. \A k \in Key : Merge(s)[k] = NewestAmong(s, DOMAIN s, k)
    BY DEF Merge, NewestAmong
<1>2. \A k \in Key : Merge(s)[k] \in Entry
    BY <1>1, NewestType
<1> QED
    BY <1>2 DEF Merge, Contents

LEMMA MemSizeType ==
    ASSUME NEW mem \in Contents
    PROVE  MemSize(mem) \in Nat
<1> DEFINE keys == {k \in Key : Present(mem[k])}
           live == {k \in keys : ~mem[k].del}
<1>1. IsFiniteSet(keys) /\ IsFiniteSet(live)
    BY KeyAssumption, FS_Subset
<1>2. Cardinality(keys) \in Nat /\ Cardinality(live) \in Nat
    BY <1>1, FS_CardinalityType
<1> QED
    BY <1>2 DEF MemSize

LEMMA GrowthType == \A prev, e : Growth(prev, e) \in Int
    BY DEF Growth, KeyBytes, ValueBytes

LEMMA MaxOfTwo ==
    ASSUME NEW a \in Nat, NEW b \in Nat
    PROVE  /\ Max({a, b}) \in Nat
           /\ a <= Max({a, b}) /\ b <= Max({a, b})
<1>1. CASE a <= b
    BY <1>1, MaxIs
<1>2. CASE b <= a
    BY <1>2, MaxIs
<1> QED
    BY <1>1, <1>2

\* A reload finds the files in order, and the highest of their numbers.
LEMMA LoadOrdersFacts ==
    ASSUME NEW S \in SUBSET Table, IsFiniteSet(S), NEW s \in LoadOrders(S)
    PROVE  /\ s \in Seq(Table) /\ Ascending(s) /\ Range(s) = S
           /\ Max({0} \cup {t.seq : t \in S}) \in Nat
           /\ \A t \in S : t.seq <= Max({0} \cup {u.seq : u \in S})
<1> DEFINE n == Cardinality(S)
           seqs == {0} \cup {t.seq : t \in S}
<1>1. n \in Nat
    BY FS_CardinalityType
<1>2. s \in [1 .. n -> S] /\ Ascending(s) /\ \A t \in S : \E i \in DOMAIN s : s[i] = t
    BY DEF LoadOrders
<1>3. s \in Seq(Table) /\ Len(s) = n /\ DOMAIN s = 1 .. n
    BY <1>1, <1>2
<1>4. Range(s) = S
    BY <1>2 DEF Range
<1>5. seqs \subseteq Nat
    BY DEF Table
<1>6. \E m \in seqs : \A x \in seqs : x <= m
  <2>1. CASE S = {}
      BY <2>1
  <2>2. CASE S # {}
    <3>1. n \in 1 .. n
        BY <1>1, <1>2, <2>2
    <3>2. s[n] \in S /\ s[n].seq \in seqs
        BY <1>2, <3>1
    <3>3. ASSUME NEW t \in S PROVE t.seq <= s[n].seq
      <4>1. PICK i \in 1 .. n : s[i] = t
          BY <1>2, <1>3
      <4>2. t.seq \in Nat /\ s[n].seq \in Nat
          BY <3>2 DEF Table
      <4>3. CASE i = n
          BY <4>1, <4>2, <4>3
      <4>4. CASE i < n
        <5>1. Older(s[i], s[n])
            BY <1>2, <1>3, <3>1, <4>4 DEF Ascending
        <5> QED
            BY <4>1, <4>2, <5>1 DEF Older
      <4> QED
          BY <4>3, <4>4, <1>1
    <3>4. \A x \in seqs : x <= s[n].seq
        BY <3>2, <3>3, <1>5
    <3> QED
        BY <3>2, <3>4
  <2> QED
      BY <2>1, <2>2
<1>7. PICK m \in seqs : \A x \in seqs : x <= m
    BY <1>6
<1>8. Max(seqs) = m
    BY <1>5, <1>7, MaxIs
<1> HIDE DEF seqs
<1>9. Max(seqs) \in Nat /\ \A x \in seqs : x <= Max(seqs)
    BY <1>5, <1>7, <1>8
<1>10. \A t \in S : t.seq \in seqs
    BY DEF seqs
<1> QED
    BY <1>2, <1>3, <1>4, <1>9, <1>10 DEF seqs

\* The tables of a list, and the types of their names.
LEMMA ListFacts ==
    ASSUME NEW s \in Seq(Table)
    PROVE  /\ Len(s) \in Nat /\ DOMAIN s = 1 .. Len(s)
           /\ \A i \in 1 .. Len(s) : s[i] \in Table /\ s[i].seq \in Nat
<1>1. Len(s) \in Nat /\ DOMAIN s = 1 .. Len(s)
    OBVIOUS
<1>2. \A i \in 1 .. Len(s) : s[i] \in Table
    BY <1>1
<1>3. \A t \in Table : t.seq \in Nat
    BY DEF Table
<1> QED
    BY <1>1, <1>2, <1>3

\* The list after a swap: the merged table, and what followed the inputs.
LEMMA SwapInFacts ==
    ASSUME NEW list \in Seq(Table), NEW t \in Table, NEW n \in 0 .. Len(list)
    PROVE  /\ SwapIn(t, n, list) \in Seq(Table)
           /\ Len(SwapIn(t, n, list)) = 1 + Len(list) - n
           /\ SwapIn(t, n, list)[1] = t
           /\ \A i \in 2 .. 1 + Len(list) - n :
                 SwapIn(t, n, list)[i] = list[n + i - 1]
<1> DEFINE rest == SubSeq(list, n + 1, Len(list))
<1>1. rest \in Seq(Table) /\ Len(rest) = Len(list) - n
      /\ \A i \in 1 .. Len(list) - n : rest[i] = list[n + i]
  <2>1. \A i \in n + 1 .. Len(list) : list[i] \in Table
      OBVIOUS
  <2>2. n + 1 \in Int /\ Len(list) \in Int
      OBVIOUS
  <2> QED
      BY <2>1, <2>2, SubSeqProperties
<1>2. <<t>> \in Seq(Table) /\ Len(<<t>>) = 1 /\ <<t>>[1] = t
    OBVIOUS
<1> HIDE DEF rest
<1>3. /\ <<t>> \o rest \in Seq(Table)
      /\ Len(<<t>> \o rest) = 1 + Len(rest)
      /\ \A i \in 1 .. 1 + Len(rest) :
            (<<t>> \o rest)[i] = IF i <= 1 THEN <<t>>[i] ELSE rest[i - 1]
    BY <1>1, <1>2, ConcatProperties
<1>4. SwapIn(t, n, list) = <<t>> \o rest
    BY DEF SwapIn, rest
<1>5. Len(list) \in Nat /\ n \in Nat /\ n <= Len(list)
    OBVIOUS
<1>6. Len(<<t>> \o rest) = 1 + Len(list) - n
    BY <1>1, <1>3, <1>5
<1>7. (<<t>> \o rest)[1] = t
    BY <1>1, <1>2, <1>3, <1>5
<1>8. ASSUME NEW i \in 2 .. 1 + Len(list) - n
      PROVE  (<<t>> \o rest)[i] = list[n + i - 1]
  <2>1. i \in 1 .. 1 + Len(rest) /\ ~(i <= 1) /\ i - 1 \in 1 .. Len(list) - n
      BY <1>1, <1>5
  <2>2. (<<t>> \o rest)[i] = rest[i - 1]
      BY <1>3, <2>1
  <2>3. rest[i - 1] = list[n + (i - 1)]
      BY <1>1, <2>1
  <2>4. n + (i - 1) = n + i - 1
      BY <1>5
  <2> QED
      BY <2>2, <2>3, <2>4
<1> QED
    BY <1>3, <1>4, <1>6, <1>7, <1>8

----------------------------------------------------------------------------
(* Order.  tableOlder is a strict order, total on tables of different      *)
(* names.                                                                  *)

LEMMA OlderIsOrder ==
    ASSUME NEW t \in Table, NEW u \in Table
    PROVE  /\ Name(t) = Name(u) \/ Older(t, u) \/ Older(u, t)
           /\ Older(t, u) => ~Older(u, t) /\ Name(t) # Name(u)
           /\ Older(t, u) => t.seq <= u.seq
           /\ t.seq < u.seq => Older(t, u)
    BY DEF Table, Name, Older

LEMMA OlderTransitive ==
    ASSUME NEW t \in Table, NEW u \in Table, NEW v \in Table, Older(t, u), Older(u, v)
    PROVE  Older(t, v)
    BY DEF Table, Older

\* Among finitely many files of different names one is the newest.
LEMMA NewestFile ==
    ASSUME NEW S \in SUBSET Table, IsFiniteSet(S), S # {},
           \A t, u \in S : Name(t) = Name(u) => t = u
    PROVE  \E m \in S : \A u \in S \ {m} : Older(u, m)
<1> DEFINE Peak(T) == \E m \in T : \A u \in T \ {m} : Older(u, m)
           Sets == {T \in SUBSET S : IsFiniteSet(T) /\ T # {} /\ ~Peak(T)}
           Sizes == {Cardinality(T) : T \in Sets}
<1> SUFFICES ASSUME S \in Sets PROVE FALSE
    OBVIOUS
<1>1. Sizes \subseteq Nat /\ Sizes # {}
    BY FS_CardinalityType
<1>2. PICK n \in Sizes : \A m \in Sizes : ~(<<m, n>> \in OpToRel(<, Nat))
    BY <1>1, NatLessThanWellFounded, WFMin
<1>3. PICK T \in Sets : n = Cardinality(T)
    OBVIOUS
<1>4. PICK x \in T : TRUE
    OBVIOUS
<1>5. /\ IsFiniteSet(T \ {x}) /\ Cardinality(T \ {x}) = n - 1
      /\ n - 1 \in Nat /\ n \in Nat /\ n - 1 < n
  <2>1. IsFiniteSet(T \ {x}) /\ Cardinality(T \ {x}) = n - 1
      BY <1>3, FS_RemoveElement
  <2>2. n - 1 \in Nat /\ n \in Nat
      BY <1>1, <2>1, FS_CardinalityType
  <2> QED
      BY <2>1, <2>2
<1>6. T \ {x} \notin Sets
  <2> SUFFICES ASSUME T \ {x} \in Sets PROVE FALSE
      OBVIOUS
  <2>1. n - 1 \in Sizes
      BY <1>5
  <2> QED
      BY <1>2, <1>5, <2>1 DEF OpToRel
<1>7. CASE T \ {x} = {}
  <2>1. \A u \in T \ {x} : Older(u, x)
      BY <1>7
  <2>2. Peak(T)
      BY <2>1
  <2> QED
      BY <1>3, <2>2
<1>8. CASE T \ {x} # {}
  <2>1. PICK m \in T \ {x} : \A u \in (T \ {x}) \ {m} : Older(u, m)
      BY <1>5, <1>6, <1>8
  <2>2. m \in Table /\ x \in Table /\ T \subseteq Table /\ Name(m) # Name(x)
      BY <1>3
  <2>3. CASE Older(x, m)
    <3>1. \A u \in T \ {m} : Older(u, m)
        BY <2>1, <2>3
    <3> QED
        BY <1>3, <3>1
  <2>4. CASE Older(m, x)
    <3>1. \A u \in T \ {x} : Older(u, x)
        BY <2>1, <2>2, <2>4, OlderTransitive
    <3> QED
        BY <1>3, <3>1
  <2> QED
      BY <2>2, <2>3, <2>4, OlderIsOrder
<1> QED
    BY <1>7, <1>8

\* A directory without two files of one name has no two equal names.
LEMMA DistinctNames ==
    ASSUME NEW S, IsFiniteSet(S), Cardinality({Name(t) : t \in S}) = Cardinality(S)
    PROVE  \A t, u \in S : Name(t) = Name(u) => t = u
<1> DEFINE T == {Name(t) : t \in S}
           f == [t \in S |-> Name(t)]
<1>1. f \in Surjection(S, T)
    BY DEF Surjection
<1> HIDE DEF T
<1>2. f \in Injection(S, T)
    BY <1>1, FS_SurjSameCardinalityImpliesInj DEF T
<1> QED
    BY <1>2 DEF Injection, IsInjective

----------------------------------------------------------------------------
(* Searching.                                                              *)

\* Newest gives the version in the last table that has the key.
LEMMA NewestIs ==
    ASSUME NEW s \in Seq(Table), NEW k \in Key, NEW m \in DOMAIN s,
           Present(s[m].recs[k]), \A j \in DOMAIN s : j > m => ~Present(s[j].recs[k])
    PROVE  Newest(s, k) = s[m].recs[k]
<1> DEFINE hits == {i \in DOMAIN s : Present(s[i].recs[k])}
<1>1. DOMAIN s = 1 .. Len(s) /\ Len(s) \in Nat
    OBVIOUS
<1>2. hits \subseteq Nat /\ m \in hits /\ \A i \in hits : i <= m
    BY <1>1
<1>3. Max(hits) = m
    BY <1>2, MaxIs
<1> QED
    BY <1>2, <1>3 DEF Newest, NewestAmong

\* Either no table has the key, or there is such a last one.
LEMMA NewestCases ==
    ASSUME NEW s \in Seq(Table), NEW k \in Key
    PROVE  \/ /\ \A i \in DOMAIN s : ~Present(s[i].recs[k])
              /\ Newest(s, k) = NoEntry
           \/ \E m \in DOMAIN s :
                 /\ Present(s[m].recs[k]) /\ Newest(s, k) = s[m].recs[k]
                 /\ \A j \in DOMAIN s : j > m => ~Present(s[j].recs[k])
<1> DEFINE hits == {i \in DOMAIN s : Present(s[i].recs[k])}
<1>1. DOMAIN s = 1 .. Len(s) /\ Len(s) \in Nat
    OBVIOUS
<1>2. CASE hits = {}
    BY <1>2 DEF Newest, NewestAmong
<1>3. CASE hits # {}
  <2>1. Max(hits) \in hits /\ \A i \in hits : i <= Max(hits)
      BY <1>1, <1>3, MaxPosition
  <2>2. PICK m \in hits : m = Max(hits) /\ \A i \in hits : i <= m
      BY <2>1
  <2>3. Newest(s, k) = s[m].recs[k]
      BY <1>3, <2>2 DEF Newest, NewestAmong
  <2>4. \A j \in DOMAIN s : j > m => ~Present(s[j].recs[k])
      BY <1>1, <2>2
  <2> QED
      BY <2>2, <2>3, <2>4
<1> QED
    BY <1>2, <1>3

\* mergeTables keeps of every key what a search of its inputs would find.
LEMMA MergeIsNewest ==
    ASSUME NEW s, NEW k \in Key
    PROVE  Merge(s)[k] = Newest(s, k)
    BY DEF Merge, Newest, NewestAmong

LEMMA NewestOfEmpty == \A k \in Key : Newest(<<>>, k) = NoEntry
<1>1. <<>> \in Seq(Table) /\ DOMAIN <<>> = {}
    OBVIOUS
<1> QED
    BY <1>1, NewestCases

\* A flush adds one table at the end.
LEMMA NewestAppend ==
    ASSUME NEW s \in Seq(Table), NEW t \in Table, NEW k \in Key
    PROVE  Newest(Append(s, t), k) =
              IF Present(t.recs[k]) THEN t.recs[k] ELSE Newest(s, k)
<1> DEFINE a == Append(s, t)
           n == Len(s)
<1>1. /\ a \in Seq(Table) /\ n \in Nat /\ DOMAIN a = 1 .. n + 1 /\ DOMAIN s = 1 .. n
      /\ a[n + 1] = t /\ \A i \in 1 .. n : a[i] = s[i]
    BY AppendProperties
<1> HIDE DEF a, n
<1>2. CASE Present(t.recs[k])
  <2>1. n + 1 \in DOMAIN a /\ \A j \in DOMAIN a : ~(j > n + 1)
      BY <1>1
  <2>2. Newest(a, k) = a[n + 1].recs[k]
      BY <1>1, <1>2, <2>1, NewestIs
  <2> QED
      BY <1>1, <1>2, <2>2 DEF a
<1>3. CASE ~Present(t.recs[k])
  <2>1. CASE \A i \in DOMAIN s : ~Present(s[i].recs[k])
    <3>1. \A i \in DOMAIN a : ~Present(a[i].recs[k])
        BY <1>1, <1>3, <2>1
    <3>2. Newest(a, k) = NoEntry /\ Newest(s, k) = NoEntry
        BY <1>1, <2>1, <3>1, NewestCases
    <3> QED
        BY <1>3, <3>2 DEF a
  <2>2. CASE \E m \in DOMAIN s :
                 /\ Present(s[m].recs[k]) /\ Newest(s, k) = s[m].recs[k]
                 /\ \A j \in DOMAIN s : j > m => ~Present(s[j].recs[k])
    <3>1. PICK m \in 1 .. n :
                 /\ Present(s[m].recs[k]) /\ Newest(s, k) = s[m].recs[k]
                 /\ \A j \in 1 .. n : j > m => ~Present(s[j].recs[k])
        BY <1>1, <2>2
    <3>2. m \in DOMAIN a /\ Present(a[m].recs[k]) /\ a[m].recs[k] = s[m].recs[k]
        BY <1>1, <3>1
    <3>3. \A j \in DOMAIN a : j > m => ~Present(a[j].recs[k])
      <4> SUFFICES ASSUME NEW j \in 1 .. n + 1, j > m PROVE ~Present(a[j].recs[k])
          BY <1>1
      <4>1. CASE j = n + 1
          BY <1>1, <1>3, <4>1
      <4>2. CASE j \in 1 .. n
          BY <1>1, <3>1, <4>2
      <4> QED
          BY <1>1, <4>1, <4>2
    <3>4. Newest(a, k) = a[m].recs[k]
        BY <1>1, <3>2, <3>3, NewestIs
    <3> QED
        BY <1>3, <3>1, <3>2, <3>4 DEF a
  <2> QED
      BY <2>1, <2>2, NewestCases
<1> QED
    BY <1>2, <1>3

LEMMA VersionTypes ==
    /\ \A t \in Table, k \in Key : t.recs[k] \in Entry /\ t.recs[k].id \in Nat
    /\ \A c \in Contents, k \in Key : c[k] \in Entry /\ c[k].id \in Nat
    /\ \A s \in Seq(Table), k \in Key : Newest(s, k) \in Entry /\ Newest(s, k).id \in Nat
<1>1. \A c \in Contents, k \in Key : c[k] \in Entry /\ c[k].id \in Nat
    BY DEF Contents, Entry
<1>2. \A t \in Table : t.recs \in Contents
    BY DEF Table
<1>3. \A s \in Seq(Table), k \in Key : Newest(s, k) \in Entry
    BY NewestType DEF Newest
<1>4. \A e \in Entry : e.id \in Nat
    BY DEF Entry
<1> QED
    BY <1>1, <1>2, <1>3, <1>4

\* In a list in which later tables have later versions, no table has a version
\* newer than the one found.
LEMMA NewestCovers ==
    ASSUME NEW s \in Seq(Table), NEW k \in Key, NEW i \in DOMAIN s,
           \A a, b \in DOMAIN s :
              a < b /\ Present(s[b].recs[k]) => s[a].recs[k].id <= s[b].recs[k].id
    PROVE  s[i].recs[k].id <= Newest(s, k).id
<1>1. DOMAIN s = 1 .. Len(s) /\ Len(s) \in Nat
    OBVIOUS
<1>2. \A a \in DOMAIN s : s[a].recs[k].id \in Nat
    BY <1>1, VersionTypes
<1>3. CASE \A a \in DOMAIN s : ~Present(s[a].recs[k])
  <2>1. Newest(s, k) = NoEntry
      BY <1>1, <1>3, NewestCases
  <2> QED
      BY <1>3, <2>1 DEF Present, NoEntry
<1>4. ASSUME NEW m \in DOMAIN s, Present(s[m].recs[k]), Newest(s, k) = s[m].recs[k],
             \A j \in DOMAIN s : j > m => ~Present(s[j].recs[k])
      PROVE  s[i].recs[k].id <= Newest(s, k).id
  <2>1. CASE i > m
    <3>1. s[i].recs[k].id = 0 /\ s[m].recs[k].id \in Nat
        BY <1>2, <1>4, <2>1 DEF Present
    <3> QED
        BY <1>4, <3>1
  <2>2. CASE i = m
      BY <1>2, <1>4, <2>2
  <2>3. CASE i < m
      BY <1>4, <2>3
  <2> QED
      BY <1>1, <2>1, <2>2, <2>3
<1> QED
    BY <1>3, <1>4, NewestCases

\* What a search finds is what one of the tables has, or nothing.
LEMMA NewestIsHeld ==
    ASSUME NEW s \in Seq(Table), NEW k \in Key, Present(Newest(s, k))
    PROVE  \E i \in DOMAIN s : s[i].recs[k] = Newest(s, k)
<1>1. Newest(s, k) # NoEntry
    BY DEF Present, NoEntry
<1> QED
    BY <1>1, NewestCases

\* The merge of the first n tables answers like they did.
LEMMA NewestSwapIn ==
    ASSUME NEW list \in Seq(Table), NEW t \in Table, NEW n \in 1 .. Len(list),
           NEW first \in Seq(Table), Len(first) = n, \A i \in 1 .. n : first[i] = list[i],
           t.recs = Merge(first), NEW k \in Key
    PROVE  Newest(SwapIn(t, n, list), k) = Newest(list, k)
<1> DEFINE s == SwapIn(t, n, list)
           len == Len(list)
<1>1. /\ s \in Seq(Table) /\ len \in Nat /\ Len(s) = 1 + len - n /\ s[1] = t
      /\ \A i \in 2 .. 1 + len - n : s[i] = list[n + i - 1]
  <2>1. n \in 0 .. Len(list) /\ Len(list) \in Nat
      OBVIOUS
  <2> HIDE DEF s
  <2>2. /\ s \in Seq(Table) /\ Len(s) = 1 + Len(list) - n /\ s[1] = t
        /\ \A i \in 2 .. 1 + Len(list) - n : s[i] = list[n + i - 1]
      BY <2>1, SwapInFacts DEF s
  <2> QED
      BY <2>1, <2>2
<1> HIDE DEF s
<1>2. DOMAIN s = 1 .. 1 + len - n /\ DOMAIN list = 1 .. len /\ DOMAIN first = 1 .. n
    BY <1>1
<1>3. t.recs[k] = Newest(first, k)
    BY MergeIsNewest
<1>4. ASSUME NEW m \in 1 .. len, Present(list[m].recs[k]), Newest(list, k) = list[m].recs[k],
             \A j \in 1 .. len : j > m => ~Present(list[j].recs[k])
      PROVE  Newest(s, k) = Newest(list, k)
  <2>1. CASE m <= n
    <3>1. m \in DOMAIN first /\ Present(first[m].recs[k])
        BY <1>2, <1>4, <2>1
    <3>2. \A j \in DOMAIN first : j > m => ~Present(first[j].recs[k])
        BY <1>1, <1>2, <1>4
    <3>3. t.recs[k] = first[m].recs[k]
        BY <1>3, <3>1, <3>2, NewestIs
    <3>4. 1 \in DOMAIN s /\ Present(s[1].recs[k])
        BY <1>1, <1>2, <3>1, <3>3
    <3>5. \A j \in DOMAIN s : j > 1 => ~Present(s[j].recs[k])
      <4> SUFFICES ASSUME NEW j \in 2 .. 1 + len - n PROVE ~Present(s[j].recs[k])
          BY <1>1, <1>2
      <4>1. n + j - 1 \in 1 .. len /\ n + j - 1 > m
          BY <1>1, <2>1
      <4> QED
          BY <1>1, <1>4, <4>1
    <3>6. Newest(s, k) = s[1].recs[k]
        BY <1>1, <3>4, <3>5, NewestIs
    <3> QED
        BY <1>1, <1>2, <1>4, <3>1, <3>3, <3>6
  <2>2. CASE m > n
    <3> DEFINE p == m - n + 1
    <3>1. p \in 2 .. 1 + len - n /\ n + p - 1 = m
        BY <1>1, <2>2
    <3>2. p \in DOMAIN s /\ s[p] = list[m]
        BY <1>1, <1>2, <3>1
    <3>3. \A j \in DOMAIN s : j > p => ~Present(s[j].recs[k])
      <4> SUFFICES ASSUME NEW j \in 1 .. 1 + len - n, j > p PROVE ~Present(s[j].recs[k])
          BY <1>2
      <4>1. j \in 2 .. 1 + len - n /\ n + j - 1 \in 1 .. len /\ n + j - 1 > m
          BY <1>1, <3>1
      <4> QED
          BY <1>1, <1>4, <4>1
    <3>4. Newest(s, k) = s[p].recs[k]
        BY <1>1, <1>4, <3>2, <3>3, NewestIs
    <3> QED
        BY <1>4, <3>2, <3>4
  <2> QED
      BY <1>1, <2>1, <2>2
<1>5. CASE \A i \in DOMAIN list : ~Present(list[i].recs[k])
  <2>1. \A i \in DOMAIN first : ~Present(first[i].recs[k])
      BY <1>1, <1>2, <1>5
  <2>2. Newest(first, k) = NoEntry
      BY <1>2, <2>1, NewestCases
  <2>3. \A i \in DOMAIN s : ~Present(s[i].recs[k])
    <3> SUFFICES ASSUME NEW i \in 1 .. 1 + len - n PROVE ~Present(s[i].recs[k])
        BY <1>2
    <3>1. CASE i = 1
        BY <1>1, <1>3, <2>2, <3>1 DEF Present, NoEntry
    <3>2. CASE i # 1
      <4>1. i \in 2 .. 1 + len - n /\ n + i - 1 \in 1 .. len
          BY <1>1, <3>2
      <4> QED
          BY <1>1, <1>2, <1>5, <4>1
    <3> QED
        BY <3>1, <3>2
  <2>4. Newest(list, k) = NoEntry /\ Newest(s, k) = NoEntry
    <3>1. Newest(list, k) = NoEntry
        BY <1>5, NewestCases
    <3>2. Newest(s, k) = NoEntry
        BY <1>1, <2>3, NewestCases
    <3> QED
        BY <3>1, <3>2
  <2> QED
      BY <2>4 DEF s
<1> QED
    BY <1>2, <1>4, <1>5, NewestCases DEF s

----------------------------------------------------------------------------
(* The log.                                                                *)

LEMMA ReplayOfEmpty == Replay(<<>>) = Empty
<1>1. \A k \in Key : {i \in DOMAIN <<>> : <<>>[i].key = k} = {}
    OBVIOUS
<1> QED
    BY <1>1 DEF Replay, Empty

\* What replaying gives of a key is its last record in the log.
LEMMA ReplayIs ==
    ASSUME NEW s \in Seq(Record), NEW m \in DOMAIN s,
           \A j \in DOMAIN s : j > m => s[j].key # s[m].key
    PROVE  Replay(s)[s[m].key] = s[m].entry
<1> DEFINE at == {i \in DOMAIN s : s[i].key = s[m].key}
<1>1. DOMAIN s = 1 .. Len(s) /\ Len(s) \in Nat /\ s[m].key \in Key
  <2>1. s[m] \in Record
      OBVIOUS
  <2> QED
      BY <2>1 DEF Record
<1>2. at \subseteq Nat /\ m \in at /\ \A i \in at : i <= m
    BY <1>1
<1>3. Max(at) = m
    BY <1>2, MaxIs
<1> QED
    BY <1>1, <1>2, <1>3 DEF Replay

LEMMA ReplayCases ==
    ASSUME NEW s \in Seq(Record), NEW k \in Key
    PROVE  \/ (\A i \in DOMAIN s : s[i].key # k) /\ Replay(s)[k] = NoEntry
           \/ \E m \in DOMAIN s :
                 /\ s[m].key = k /\ Replay(s)[k] = s[m].entry
                 /\ \A j \in DOMAIN s : j > m => s[j].key # k
<1> DEFINE at == {i \in DOMAIN s : s[i].key = k}
<1>1. DOMAIN s = 1 .. Len(s) /\ Len(s) \in Nat
    OBVIOUS
<1>2. CASE at = {}
    BY <1>2 DEF Replay
<1>3. CASE at # {}
  <2>1. Max(at) \in at /\ \A i \in at : i <= Max(at)
      BY <1>1, <1>3, MaxPosition
  <2>2. PICK m \in at : m = Max(at) /\ \A i \in at : i <= m
      BY <2>1
  <2>3. Replay(s)[k] = s[m].entry
      BY <1>3, <2>2 DEF Replay
  <2>4. \A j \in DOMAIN s : j > m => s[j].key # k
    <3> SUFFICES ASSUME NEW j \in 1 .. Len(s), j > m, s[j].key = k PROVE FALSE
        BY <1>1
    <3>1. j \in at
        BY <1>1
    <3>2. j <= m
        BY <2>2, <3>1
    <3>3. m \in 1 .. Len(s)
        BY <1>1
    <3> QED
        BY <1>1, <3>2, <3>3
  <2> QED
      BY <2>2, <2>3, <2>4
<1> QED
    BY <1>2, <1>3

\* One record more changes the version of its key only.
LEMMA ReplayAppend ==
    ASSUME NEW s \in Seq(Record), NEW r \in Record, NEW k \in Key
    PROVE  Replay(Append(s, r))[k] = IF r.key = k THEN r.entry ELSE Replay(s)[k]
<1> DEFINE a == Append(s, r)
           n == Len(s)
<1>1. /\ a \in Seq(Record) /\ n \in Nat /\ DOMAIN a = 1 .. n + 1 /\ DOMAIN s = 1 .. n
      /\ a[n + 1] = r /\ \A i \in 1 .. n : a[i] = s[i]
    BY AppendProperties
<1> HIDE DEF a, n
<1>2. CASE r.key = k
  <2>1. n + 1 \in DOMAIN a /\ \A j \in DOMAIN a : ~(j > n + 1)
      BY <1>1
  <2>2. Replay(a)[a[n + 1].key] = a[n + 1].entry
      BY <1>1, <2>1, ReplayIs
  <2> QED
      BY <1>1, <1>2, <2>2 DEF a
<1>3. CASE r.key # k
  <2>1. CASE \A i \in DOMAIN s : s[i].key # k
    <3>1. \A i \in DOMAIN a : a[i].key # k
        BY <1>1, <1>3, <2>1
    <3>2. Replay(a)[k] = NoEntry
        BY <1>1, <3>1, ReplayCases
    <3>3. Replay(s)[k] = NoEntry
        BY <2>1, ReplayCases
    <3> QED
        BY <1>3, <3>2, <3>3 DEF a
  <2>2. ASSUME NEW m \in DOMAIN s, s[m].key = k, Replay(s)[k] = s[m].entry,
               \A j \in DOMAIN s : j > m => s[j].key # k
        PROVE  Replay(a)[k] = Replay(s)[k]
    <3>1. m \in DOMAIN a /\ a[m] = s[m]
        BY <1>1, <2>2
    <3>2. \A j \in DOMAIN a : j > m => a[j].key # k
      <4> SUFFICES ASSUME NEW j \in 1 .. n + 1, j > m PROVE a[j].key # k
          BY <1>1
      <4>1. CASE j = n + 1
          BY <1>1, <1>3, <4>1
      <4>2. CASE j \in 1 .. n
          BY <1>1, <2>2, <4>2
      <4> QED
          BY <1>1, <4>1, <4>2
    <3>3. Replay(a)[a[m].key] = a[m].entry
        BY <1>1, <2>2, <3>1, <3>2, ReplayIs
    <3> QED
        BY <2>2, <3>1, <3>3
  <2>3. Replay(a)[k] = Replay(s)[k]
      BY <2>1, <2>2, ReplayCases, <1>3 DEF a
  <2> QED
      BY <1>3, <2>3 DEF a
<1> QED
    BY <1>2, <1>3

\* A key that is not absent has a record.
LEMMA ReplayIsLogged ==
    ASSUME NEW s \in Seq(Record), NEW k \in Key, Present(Replay(s)[k])
    PROVE  \E i \in DOMAIN s : s[i].key = k /\ s[i].entry = Replay(s)[k]
<1>1. Replay(s)[k] # NoEntry
    BY DEF Present, NoEntry
<1> QED
    BY <1>1, ReplayCases

----------------------------------------------------------------------------
(* Size.                                                                   *)

LEMMA MemSizeOfEmpty == MemSize(Empty) = 0
<1>1. {k \in Key : Present(Empty[k])} = {}
    BY DEF Empty, Present, NoEntry
<1> QED
    BY <1>1, FS_EmptySet DEF MemSize

\* Taking one key more or less into account in a set of keys.
LEMMA OneKeyMore ==
    ASSUME NEW S \in SUBSET Key, NEW T \in SUBSET Key, NEW k \in Key, k \in T,
           S \ {k} = T \ {k}
    PROVE  /\ Cardinality(S) \in Nat
           /\ Cardinality(T) = Cardinality(S) + (IF k \in S THEN 0 ELSE 1)
<1>1. IsFiniteSet(S) /\ IsFiniteSet(T)
    BY KeyAssumption, FS_Subset
<1>2. Cardinality(S) \in Nat
    BY <1>1, FS_CardinalityType
<1>3. CASE k \in S
  <2>1. S = T
      BY <1>3
  <2> QED
      BY <1>2, <1>3, <2>1
<1>4. CASE k \notin S
  <2>1. T = S \cup {k}
      BY <1>4
  <2>2. Cardinality(S \cup {k}) = Cardinality(S) + 1
      BY <1>1, <1>4, FS_AddElement
  <2> QED
      BY <1>2, <1>4, <2>1, <2>2
<1> QED
    BY <1>3, <1>4

\* The amount Set and Delete add to the running total is the amount by which
\* the sum grows.
LEMMA MemSizeGrows ==
    ASSUME NEW mem \in Contents, NEW k \in Key, NEW e \in Entry, Present(e)
    PROVE  MemSize([mem EXCEPT ![k] = e]) = MemSize(mem) + Growth(mem[k], e)
<1> DEFINE new == [mem EXCEPT ![k] = e]
           keys(m) == {j \in Key : Present(m[j])}
           live(m) == {j \in keys(m) : ~m[j].del}
<1>1. new[k] = e /\ \A j \in Key \ {k} : new[j] = mem[j]
    BY DEF Contents
<1> HIDE DEF new
<1>2. /\ Cardinality(keys(mem)) \in Nat
      /\ Cardinality(keys(new)) =
            Cardinality(keys(mem)) + (IF k \in keys(mem) THEN 0 ELSE 1)
  <2>1. k \in keys(new) /\ keys(mem) \ {k} = keys(new) \ {k}
      BY <1>1
  <2> QED
      BY <2>1, OneKeyMore
<1>3. live(mem) \ {k} = live(new) \ {k}
    BY <1>1
<1>4. CASE ~e.del
  <2>1. k \in live(new)
      BY <1>1, <1>4
  <2>2. /\ Cardinality(live(mem)) \in Nat
        /\ Cardinality(live(new)) =
              Cardinality(live(mem)) + (IF k \in live(mem) THEN 0 ELSE 1)
      BY <1>3, <2>1, OneKeyMore
  <2> QED
      BY <1>2, <1>4, <2>2 DEF MemSize, Growth, KeyBytes, ValueBytes, new
<1>5. CASE e.del
  <2>1. k \notin live(new)
      BY <1>1, <1>5
  <2>2. CASE k \in live(mem)
    <3>1. /\ Cardinality(live(new)) \in Nat
          /\ Cardinality(live(mem)) = Cardinality(live(new)) + 1
        BY <1>3, <2>1, <2>2, OneKeyMore
    <3> QED
        BY <1>2, <1>5, <2>2, <3>1 DEF MemSize, Growth, KeyBytes, ValueBytes, new
  <2>3. CASE k \notin live(mem)
    <3>1. live(mem) = live(new) /\ Cardinality(live(mem)) \in Nat
      <4>1. live(mem) = live(new)
          BY <1>3, <2>1, <2>3
      <4>2. IsFiniteSet(live(mem))
          BY KeyAssumption, FS_Subset
      <4> QED
          BY <4>1, <4>2, FS_CardinalityType
    <3>2. Present(mem[k]) => mem[k].del
        BY <2>3
    <3>3. Growth(mem[k], e) = IF k \in keys(mem) THEN 0 ELSE 1
        BY <1>5, <3>2 DEF Growth, KeyBytes, ValueBytes
    <3>4. MemSize(new) = Cardinality(keys(new)) + Cardinality(live(new))
          /\ MemSize(mem) = Cardinality(keys(mem)) + Cardinality(live(mem))
        BY DEF MemSize
    <3> DEFINE a == Cardinality(keys(mem))
               b == Cardinality(live(mem))
               c == Cardinality(keys(new))
               d == Cardinality(live(new))
               p == k \in keys(mem)
    <3> HIDE DEF a, b, c, d, p
    <3>5. a \in Nat /\ b \in Nat /\ c = a + (IF p THEN 0 ELSE 1) /\ d = b
        BY <1>2, <3>1 DEF a, b, c, d, p
    <3>6. /\ MemSize(new) = c + d /\ MemSize(mem) = a + b
          /\ Growth(mem[k], e) = IF p THEN 0 ELSE 1
        BY <3>3, <3>4 DEF a, b, c, d, p
    <3>7. MemSize(new) = MemSize(mem) + Growth(mem[k], e)
        BY <3>5, <3>6
    <3> QED
        BY <3>7 DEF new
  <2> QED
      BY <2>2, <2>3
<1> QED
    BY <1>4, <1>5

----------------------------------------------------------------------------
(* The engine.                                                             *)

LEMMA DiskFrame ==
    [Next]_vars =>
        \/ AppendWAL \/ AppendWALFails \/ ApplyWrite \/ TruncateWAL \/ SyncReset
        \/ FlushWriteTmp \/ FlushRename \/ FlushRenameFails \/ FlushSyncDir
        \/ CompactWriteTmp \/ CompactRename \/ CompactRenameFails \/ CompactSyncDir
        \/ CompactRaced \/ CompactCleanup
        \/ Open \/ Kill \/ PowerLoss
        \/ UNCHANGED disk
<1>1. Write =>
        \/ AppendWAL \/ AppendWALFails \/ ApplyWrite \/ TruncateWAL \/ SyncReset
        \/ FlushWriteTmp \/ FlushRename \/ FlushRenameFails \/ FlushSyncDir
        \/ UNCHANGED disk
    BY DEF Write, BeginWrite, SyncWALFails, FlushWriteTmpFails, FlushOrphan, FlushInstall,
           ResetWALFails, disk
<1>2. Compact =>
        \/ CompactWriteTmp \/ CompactRename \/ CompactRenameFails \/ CompactSyncDir
        \/ CompactRaced \/ CompactCleanup \/ UNCHANGED disk
    BY DEF Compact, CompactBegin, CompactAcquire, CompactMerge, CompactMergeFails,
           CompactWriteTmpFails, CompactOrphan, CompactOpen, CompactSwap, disk
<1>3. (\E r \in Reader : Get(r)) => UNCHANGED disk
    BY DEF Get, GetMemtable, GetTables, GetRead, GetReadFails, GetReturn, disk
<1>4. CloseBegin \/ CloseTables \/ Exit \/ UNCHANGED vars => UNCHANGED disk
    BY DEF CloseBegin, CloseTables, Exit, vars, disk
<1> QED
    BY <1>1, <1>2, <1>3, <1>4 DEF Next

LEMMA TableNames == \A t \in Table : Name(t) \in Nat \X BOOLEAN
    BY DEF Table, Name

LEMMA NamesType == \A S \in SUBSET Table : Names(S) \in SUBSET (Nat \X BOOLEAN)
    BY TableNames DEF Names

\* What a power failure can leave in the WAL is a log.
LEMMA WALImagesType ==
    ASSUME DiskTypeOK
    PROVE  WALImages \subseteq Seq(Record)
<1>1. \A n \in 0 .. Len(wal) : SubSeq(wal, 1, n) \in Seq(Record)
  <2> SUFFICES ASSUME NEW n \in 0 .. Len(wal) PROVE SubSeq(wal, 1, n) \in Seq(Record)
      OBVIOUS
  <2>1. wal \in Seq(Record) /\ Len(wal) \in Nat
      BY DEF DiskTypeOK
  <2>2. \A i \in 1 .. n : wal[i] \in Record
      BY <2>1
  <2> QED
      BY <2>1, <2>2, SubSeqProperties
<1>2. Len(walDisk) \in Nat /\ walDisk \in Seq(Record)
    BY DEF DiskTypeOK
<1> QED
    BY <1>1, <1>2 DEF WALImages

LEMMA DiskTypeStep ==
    ASSUME ListInv, [Next]_vars
    PROVE  DiskTypeOK'
<1> USE DEF ListInv, TypeOK
<1>w. wal' \in Seq(Record) /\ walDisk' \in Seq(Record) /\ torn' \in BOOLEAN
  <2>1. CASE AppendWAL
    <3>1. writer.key \in Key /\ writer.entry \in Entry
        BY <2>1 DEF AppendWAL, WriterAt, CallTypeOK, WriterType
    <3>2. [key |-> writer.key, entry |-> writer.entry] \in Record
        BY <3>1 DEF Record
    <3> QED
        BY <2>1, <3>2, AppendProperties DEF AppendWAL, DiskTypeOK
  <2>2. CASE Open
      BY <2>2 DEF Open, ReplayWAL, DiskTypeOK
  <2>3. CASE PowerLoss
      BY <2>3, WALImagesType DEF PowerLoss, DiskTypeOK
  <2>4. CASE ApplyWrite \/ TruncateWAL \/ SyncReset
    <3>1. (wal' = wal \/ wal' = <<>>) /\ (walDisk' = wal \/ walDisk' = walDisk)
        BY <2>4 DEF ApplyWrite, TruncateWAL, SyncReset, SyncWAL
    <3>2. <<>> \in Seq(Record) /\ wal \in Seq(Record) /\ walDisk \in Seq(Record)
        BY DEF DiskTypeOK
    <3>3. torn' \in BOOLEAN
      <4>1. torn' = torn \/ torn' = FALSE
          BY <2>4 DEF ApplyWrite, TruncateWAL, SyncReset
      <4> QED
          BY <4>1 DEF DiskTypeOK
    <3> QED
        BY <3>1, <3>2, <3>3
  <2>8. CASE AppendWALFails \/ Kill
    <3>1. UNCHANGED <<wal, walDisk>>
        BY <2>8 DEF AppendWALFails, Kill
    <3>2. torn' \in BOOLEAN \/ torn' = torn
        BY <2>8, Zenon DEF AppendWALFails, Kill
    <3> QED
        BY <3>1, <3>2 DEF DiskTypeOK
  <2>5. CASE UNCHANGED log
      BY <2>5 DEF log, DiskTypeOK
  <2>6. CASE FlushWriteTmp \/ FlushRename \/ FlushRenameFails \/ FlushSyncDir
    <3>1. UNCHANGED log
        BY <2>6 DEF FlushWriteTmp, FlushRename, FlushRenameFails, FlushSyncDir, log
    <3> QED
        BY <2>5, <3>1
  <2>7. CASE CompactWriteTmp \/ CompactRename \/ CompactRenameFails \/ CompactSyncDir
             \/ CompactRaced \/ CompactCleanup
      BY <2>5, <2>7 DEF CompactWriteTmp, CompactRename, CompactRenameFails, CompactSyncDir,
         CompactRaced, CompactCleanup
  <2> QED
      BY <2>1, <2>2, <2>3, <2>4, <2>5, <2>6, <2>7, <2>8, DiskFrame DEF disk, log
<1>d. /\ files' \in SUBSET Table /\ unsynced' \in SUBSET files' /\ unlinked' \in SUBSET Table
      /\ tmps' \in SUBSET (Nat \X BOOLEAN)
  <2>0. writer.table \in Table /\ comp.table \in Table
      BY DEF CallTypeOK, WriterType, CompType
  <2>1. CASE UNCHANGED dir
      BY <2>1 DEF dir, DiskTypeOK
  <2>2. CASE AppendWAL \/ AppendWALFails \/ ApplyWrite \/ TruncateWAL \/ SyncReset \/ Kill
      BY <2>1, <2>2 DEF AppendWAL, AppendWALFails, ApplyWrite, TruncateWAL, SyncReset, Kill
  <2>3. CASE FlushWriteTmp
    <3>1. PICK seq \in FlushSeqs :
            tmps' = tmps \cup {Name([seq |-> seq, compacted |-> FALSE, recs |-> memtable])}
        BY <2>3 DEF FlushWriteTmp
    <3>2. seq \in Nat
        BY <3>1, BoundsAssumption DEF FlushSeqs, HandleTypeOK
    <3>3. [seq |-> seq, compacted |-> FALSE, recs |-> memtable] \in Table
        BY <3>2 DEF Table, HandleTypeOK
    <3>4. tmps' \in SUBSET (Nat \X BOOLEAN)
        BY <3>1, <3>3, TableNames DEF DiskTypeOK
    <3> QED
        BY <2>3, <3>4 DEF FlushWriteTmp, DiskTypeOK
  <2>4. CASE FlushRename \/ FlushRenameFails \/ FlushSyncDir
      BY <2>4, <2>0 DEF FlushRename, FlushRenameFails, FlushSyncDir, SyncDir, DiskTypeOK
  <2>5. CASE CompactWriteTmp \/ CompactRename \/ CompactRenameFails \/ CompactSyncDir
      BY <2>5, <2>0, TableNames DEF CompactWriteTmp, CompactRename, CompactRenameFails,
         CompactSyncDir, SyncDir, DiskTypeOK
  <2>6. CASE CompactRaced
      BY <2>6, <2>0 DEF CompactRaced, CompAt, InputsDurable, DiskTypeOK, counters
  <2>7. CASE CompactCleanup
    <3>1. comp.inputs \in Seq(Table) /\ comp.inputs # <<>>
        BY <2>7 DEF CompactCleanup, CompAt, CleanupApart, CallTypeOK, CompType
    <3>2. Head(comp.inputs) \in Table /\ Head(comp.inputs) \in Range(comp.inputs)
        BY <3>1 DEF Range
    <3>3. Head(comp.inputs) \notin unsynced
        BY <2>7, <3>2 DEF CompactCleanup, CompAt, InputsDurable
    <3> QED
        BY <2>7, <3>2, <3>3 DEF CompactCleanup, DiskTypeOK, counters
  <2>8. CASE Open
      BY <2>8 DEF Open, LoadSSTables, DiskTypeOK
  <2>9. CASE PowerLoss
    <3>1. files' \in SUBSET Table
        BY <2>9 DEF PowerLoss, DirImages, DiskTypeOK
    <3>2. Names(files \ files') \in SUBSET (Nat \X BOOLEAN)
        BY NamesType DEF DiskTypeOK
    <3> QED
        BY <2>9, <3>1, <3>2 DEF PowerLoss, DiskTypeOK
  <2> QED
      BY <2>1, <2>2, <2>3, <2>4, <2>5, <2>6, <2>7, <2>8, <2>9, DiskFrame DEF disk, dir
<1> QED
    BY <1>w, <1>d DEF DiskTypeOK

----------------------------------------------------------------------------
LEMMA HandleFrame ==
    [Next]_vars =>
        \/ AppendWALFails \/ ApplyWrite \/ FlushWriteTmp \/ FlushWriteTmpFails
        \/ FlushInstall
        \/ CompactOpen \/ CompactSwap \/ CompactRaced \/ CompactCleanup
        \/ Open \/ CloseBegin \/ CloseTables \/ LoseHandle
        \/ UNCHANGED handle
<1>1. Write =>
        \/ AppendWALFails \/ ApplyWrite \/ FlushWriteTmp \/ FlushWriteTmpFails
        \/ FlushInstall \/ UNCHANGED handle
    BY DEF Write, BeginWrite, AppendWAL, SyncWALFails, FlushRename, FlushRenameFails,
           FlushSyncDir, FlushOrphan, TruncateWAL, SyncReset, ResetWALFails, handle
<1>2. Compact =>
        \/ CompactOpen \/ CompactSwap \/ CompactRaced \/ CompactCleanup \/ UNCHANGED handle
    BY DEF Compact, CompactBegin, CompactAcquire, CompactMerge, CompactMergeFails,
           CompactWriteTmp, CompactWriteTmpFails, CompactRename, CompactRenameFails,
           CompactSyncDir, CompactOrphan, handle
<1>3. (\E r \in Reader : Get(r)) => UNCHANGED handle
    BY DEF Get, GetMemtable, GetTables, GetRead, GetReadFails, GetReturn, handle
<1>4. (Exit \/ Kill \/ PowerLoss => LoseHandle) /\ (UNCHANGED vars => UNCHANGED handle)
    BY DEF Exit, Kill, PowerLoss, vars, handle
<1> QED
    BY <1>1, <1>2, <1>3, <1>4 DEF Next

LEMMA HandleTypeStep ==
    ASSUME ListInv, [Next]_vars
    PROVE  HandleTypeOK'
<1> USE DEF ListInv, TypeOK
<1>0. writer.table \in Table /\ comp.table \in Table /\ writer.entry \in Entry
    BY DEF CallTypeOK, WriterType, CompType
<1>1. CASE AppendWALFails
    BY <1>1 DEF AppendWALFails, HandleTypeOK
<1>2. CASE ApplyWrite
  <2>1. memtable' \in Contents
      BY <1>2, <1>0 DEF ApplyWrite, HandleTypeOK, Contents
  <2>2. Growth(memtable[writer.key], writer.entry) \in Int
      BY GrowthType
  <2>3. memBytes' \in Int
      BY <1>2, <2>2 DEF ApplyWrite, HandleTypeOK
  <2> QED
      BY <1>2, <2>1, <2>3 DEF ApplyWrite, HandleTypeOK
<1>3. CASE FlushWriteTmp \/ FlushWriteTmpFails
  <2>1. lastSeq' \in FlushSeqs
      BY <1>3 DEF FlushWriteTmp, FlushWriteTmpFails
  <2>2. lastSeq' \in Nat
      BY <2>1 DEF FlushSeqs, HandleTypeOK
  <2>3. UNCHANGED <<up, memtable, memBytes, sstables, walBroken, opened>>
      BY <1>3 DEF FlushWriteTmp, FlushWriteTmpFails
  <2> QED
      BY <2>2, <2>3 DEF HandleTypeOK
<1>4. CASE FlushInstall
  <2>1. sstables' \in Seq(Table)
      BY <1>4, <1>0, AppendProperties DEF FlushInstall, HandleTypeOK
  <2> QED
      BY <1>4, <1>0, <2>1, EntryTypes DEF FlushInstall, HandleTypeOK
<1>5. CASE CompactOpen
    BY <1>5, <1>0 DEF CompactOpen, HandleTypeOK
<1>6. CASE CompactSwap
  <2>1. comp.inputs \in Seq(Table) /\ Len(comp.inputs) \in 0 .. Len(sstables)
      BY <1>6 DEF CompactSwap, IsPrefixOf, CallTypeOK, CompType
  <2>2. sstables' \in Seq(Table)
      BY <1>6, <1>0, <2>1, SwapInFacts DEF CompactSwap, HandleTypeOK
  <2>3. comp.table.seq \in Nat /\ lastSeq \in Nat
      BY <1>0 DEF Table, HandleTypeOK
  <2>4. lastSeq' \in Nat
      BY <1>6, <2>3, MaxOfTwo DEF CompactSwap
  <2> QED
      BY <1>6, <2>2, <2>4 DEF CompactSwap, HandleTypeOK
<1>7. CASE CompactRaced \/ CompactCleanup
  <2>1. opened' \in SUBSET opened
      BY <1>7 DEF CompactRaced, CompactCleanup
  <2>2. UNCHANGED <<up, memtable, memBytes, sstables, lastSeq, walBroken>>
      BY <1>7 DEF CompactRaced, CompactCleanup
  <2> QED
      BY <2>1, <2>2 DEF HandleTypeOK
<1>8. CASE Open
  <2>1. files \in SUBSET Table /\ IsFiniteSet(files) /\ wal \in Seq(Record)
      BY DEF DiskTypeOK, FiniteDisk
  <2>2. sstables' \in Seq(Table) /\ lastSeq' \in Nat
      BY <1>8, <2>1, LoadOrdersFacts DEF Open, LoadSSTables
  <2>3. memtable' \in Contents /\ memBytes' \in Int
      BY <1>8, <2>1, ReplayType, MemSizeType DEF Open, ReplayWAL
  <2> QED
      BY <1>8, <2>1, <2>2, <2>3 DEF Open, LoadSSTables, HandleTypeOK
<1>9. CASE CloseBegin
    BY <1>9 DEF CloseBegin, HandleTypeOK
<1>10. CASE CloseTables
    BY <1>10 DEF CloseTables, HandleTypeOK
<1>11. CASE LoseHandle
  <2>1. /\ up' = "down" /\ memtable' = Empty /\ memBytes' = 0 /\ sstables' = <<>>
        /\ lastSeq' = 0 /\ walBroken' = FALSE /\ opened' = {}
      BY <1>11 DEF LoseHandle
  <2>2. sstables' \in Seq(Table) /\ lastSeq' \in Nat /\ memBytes' \in Int
      BY <2>1
  <2>3. walBroken' \in BOOLEAN /\ opened' \in SUBSET Table
      BY <2>1
  <2> QED
      BY <2>1, <2>2, <2>3, EntryTypes DEF HandleTypeOK
<1>12. CASE UNCHANGED handle
    BY <1>12 DEF handle, HandleTypeOK
<1> QED
    BY <1>1, <1>2, <1>3, <1>4, <1>5, <1>6, <1>7, <1>8, <1>9, <1>10, <1>11, <1>12, HandleFrame

----------------------------------------------------------------------------
LEMMA WriterTypeStep ==
    ASSUME ListInv, [Next]_vars
    PROVE  writer' \in WriterType /\ (writer'.pc # "idle" => writer'.key \in Key)
<1> USE DEF ListInv, TypeOK
<1>0. writer \in WriterType /\ (writer.pc # "idle" => writer.key \in Key)
    BY DEF CallTypeOK
<1>i. IdleWriter \in WriterType /\ IdleWriter.pc = "idle"
    BY EntryTypes DEF IdleWriter, WriterType, WriterPCs
<1>1. CASE writer' = IdleWriter
    BY <1>1, <1>i
<1>2. CASE writer' = writer
    BY <1>0, <1>2
<1>3. CASE \E k \in Key, del \in BOOLEAN : BeginWrite(k, del)
  <2>1. PICK k \in Key, del \in BOOLEAN : BeginWrite(k, del)
      BY <1>3
  <2>2. [id |-> writes + 1, del |-> del] \in Entry
      BY DEF Entry, HistoryTypeOK
  <2> QED
      BY <2>1, <2>2, EntryTypes DEF BeginWrite, IdleWriter, WriterType, WriterPCs
<1>4. CASE FlushWriteTmp
  <2>1. PICK seq \in FlushSeqs :
          writer' = [writer EXCEPT !.pc = "rename",
                        !.table = [seq |-> seq, compacted |-> FALSE, recs |-> memtable]]
      BY <1>4 DEF FlushWriteTmp
  <2>2. [seq |-> seq, compacted |-> FALSE, recs |-> memtable] \in Table
      BY DEF FlushSeqs, Table, HandleTypeOK
  <2>3. writer.key \in Key
      BY <1>0, <1>4 DEF FlushWriteTmp, WriterAt
  <2> QED
      BY <1>0, <2>1, <2>2, <2>3 DEF WriterType, WriterPCs
<1>5. ASSUME \E pc \in WriterPCs, t \in {writer.table, NoTable} :
                writer' = [writer EXCEPT !.pc = pc, !.table = t],
             writer.pc # "idle"
      PROVE  writer' \in WriterType /\ (writer'.pc # "idle" => writer'.key \in Key)
  <2>1. NoTable \in Table /\ writer.table \in Table
      BY <1>0, EntryTypes DEF WriterType
  <2> QED
      BY <1>0, <1>5, <2>1 DEF WriterType
<1>6. CASE \/ AppendWAL \/ ApplyWrite \/ FlushRename \/ FlushSyncDir \/ FlushInstall
           \/ TruncateWAL
  <2>1. writer.pc # "idle"
      BY <1>6 DEF AppendWAL, ApplyWrite, FlushRename, FlushSyncDir, FlushInstall,
                  TruncateWAL, WriterAt
  <2>2. \/ writer' = IdleWriter
        \/ \E pc \in WriterPCs : writer' = [writer EXCEPT !.pc = pc]
        \/ \E pc \in WriterPCs : writer' = [writer EXCEPT !.pc = pc, !.table = NoTable]
      BY <1>6 DEF AppendWAL, ApplyWrite, FlushRename, FlushSyncDir, FlushInstall,
                  TruncateWAL, Return, WriterPCs
  <2>3. \/ writer' = IdleWriter
        \/ \E pc \in WriterPCs, t \in {writer.table, NoTable} :
              writer' = [writer EXCEPT !.pc = pc, !.table = t]
      BY <1>0, <2>2 DEF WriterType
  <2> QED
      BY <1>1, <1>5, <2>1, <2>3
<1>7. \/ writer' = IdleWriter \/ writer' = writer
      \/ \E k \in Key, del \in BOOLEAN : BeginWrite(k, del)
      \/ FlushWriteTmp
      \/ AppendWAL \/ ApplyWrite \/ FlushRename \/ FlushSyncDir \/ FlushInstall \/ TruncateWAL
  <2>1. Write =>
          \/ writer' = IdleWriter
          \/ \E k \in Key, del \in BOOLEAN : BeginWrite(k, del)
          \/ FlushWriteTmp
          \/ AppendWAL \/ ApplyWrite \/ FlushRename \/ FlushSyncDir \/ FlushInstall
          \/ TruncateWAL
      BY DEF Write, AppendWALFails, SyncWALFails, FlushWriteTmpFails, FlushRenameFails,
             FlushOrphan, SyncReset, ResetWALFails, GiveUp, Return
  <2>2. Compact => writer' = writer
      BY DEF Compact, CompactBegin, CompactAcquire, CompactMerge, CompactMergeFails,
             CompactWriteTmp, CompactWriteTmpFails, CompactRename, CompactRenameFails,
             CompactSyncDir, CompactOrphan, CompactOpen, CompactSwap, CompactRaced,
             CompactCleanup
  <2>3. (\E r \in Reader : Get(r)) => writer' = writer
      BY DEF Get, GetMemtable, GetTables, GetRead, GetReadFails, GetReturn
  <2>4. Open \/ CloseBegin \/ CloseTables \/ UNCHANGED vars => writer' = writer
      BY DEF Open, CloseBegin, CloseTables, vars
  <2>5. Exit \/ Kill \/ PowerLoss => writer' = IdleWriter
      BY DEF Exit, Kill, PowerLoss, LoseHandle
  <2> QED
      BY <2>1, <2>2, <2>3, <2>4, <2>5 DEF Next
<1> QED
    BY <1>1, <1>2, <1>3, <1>4, <1>6, <1>7

LEMMA CompTypeStep ==
    ASSUME ListInv, [Next]_vars
    PROVE  comp' \in CompType
<1> USE DEF ListInv, TypeOK
<1>0. comp \in CompType /\ comp.inputs \in Seq(Table)
    BY DEF CallTypeOK, CompType
<1>1. CASE comp' = IdleComp
    BY <1>1, EntryTypes DEF IdleComp, CompType, CompPCs
<1>2. CASE \E pc \in CompPCs : comp' = [comp EXCEPT !.pc = pc]
    BY <1>0, <1>2 DEF CompType
<1>3. CASE comp' = comp
    BY <1>0, <1>3
<1>4. CASE CompactBegin
    BY <1>4, EntryTypes DEF CompactBegin, IdleComp, CompType, CompPCs, HandleTypeOK
<1>5. CASE CompactMerge
  <2>1. comp.inputs # <<>>
      BY <1>5 DEF CompactMerge, CompAt, InputsLive, Merging
  <2>2. LastInput \in Table
      BY <1>0, <2>1 DEF LastInput
  <2>3. LastInput.seq + 1 \in Nat
      BY <2>2 DEF Table
  <2>4. Compacted(comp.inputs) \in Table
      BY <1>0, <2>3, MergeType DEF Compacted, LastInput, Table
  <2> QED
      BY <1>0, <1>5, <2>4 DEF CompactMerge, CompType, CompPCs
<1>6. CASE CompactCleanup
  <2>1. comp.inputs # <<>>
      BY <1>6 DEF CompactCleanup, CompAt, CleanupApart
  <2>2. Tail(comp.inputs) \in Seq(Table)
      BY <1>0, <2>1
  <2>3. comp' = IdleComp \/ comp' = [comp EXCEPT !.inputs = Tail(comp.inputs)]
      BY <1>6 DEF CompactCleanup, EndCompact
  <2>4. CASE comp' = [comp EXCEPT !.inputs = Tail(comp.inputs)]
      BY <1>0, <2>2, <2>4 DEF CompType
  <2> QED
      BY <1>1, <2>3, <2>4
<1>7. \/ comp' = IdleComp \/ comp' = comp
      \/ \E pc \in CompPCs : comp' = [comp EXCEPT !.pc = pc]
      \/ CompactBegin \/ CompactMerge \/ CompactCleanup
  <2>1. Compact =>
          \/ comp' = IdleComp
          \/ \E pc \in CompPCs : comp' = [comp EXCEPT !.pc = pc]
          \/ CompactBegin \/ CompactMerge \/ CompactCleanup
      BY DEF Compact, CompactAcquire, CompactMergeFails, CompactWriteTmp,
             CompactWriteTmpFails, CompactRename, CompactRenameFails, CompactSyncDir,
             CompactOrphan, CompactOpen, CompactSwap, CompactRaced, CompGoto, EndCompact,
             CompPCs
  <2>2. Write => comp' = comp
      BY DEF Write, BeginWrite, AppendWAL, AppendWALFails, ApplyWrite, SyncWALFails,
             FlushWriteTmp, FlushWriteTmpFails, FlushRename, FlushRenameFails,
             FlushSyncDir, FlushOrphan, FlushInstall, TruncateWAL, SyncReset, ResetWALFails
  <2>3. (\E r \in Reader : Get(r)) => comp' = comp
      BY DEF Get, GetMemtable, GetTables, GetRead, GetReadFails, GetReturn
  <2>4. Open \/ CloseBegin \/ CloseTables \/ UNCHANGED vars => comp' = comp
      BY DEF Open, CloseBegin, CloseTables, vars
  <2>5. Exit \/ Kill \/ PowerLoss => comp' = IdleComp
      BY DEF Exit, Kill, PowerLoss, LoseHandle
  <2> QED
      BY <2>1, <2>2, <2>3, <2>4, <2>5 DEF Next
<1> QED
    BY <1>1, <1>2, <1>3, <1>4, <1>5, <1>6, <1>7

\* Every Get is by a reader, and nothing else touches reader but the loss of
\* the handle.
LEMMA ReaderFrame ==
    [Next]_vars =>
        \/ \E r \in Reader : Get(r)
        \/ reader' = [r \in Reader |-> IdleReader] /\ LoseHandle
        \/ UNCHANGED reader
<1>1. Write => UNCHANGED reader
    BY DEF Write, BeginWrite, AppendWAL, AppendWALFails, ApplyWrite, SyncWALFails,
           FlushWriteTmp, FlushWriteTmpFails, FlushRename, FlushRenameFails,
           FlushSyncDir, FlushOrphan, FlushInstall, TruncateWAL, SyncReset, ResetWALFails
<1>2. Compact => UNCHANGED reader
    BY DEF Compact, CompactBegin, CompactAcquire, CompactMerge, CompactMergeFails,
           CompactWriteTmp, CompactWriteTmpFails, CompactRename, CompactRenameFails,
           CompactSyncDir, CompactOrphan, CompactOpen, CompactSwap, CompactRaced,
           CompactCleanup
<1>3. Open \/ CloseBegin \/ CloseTables \/ UNCHANGED vars => UNCHANGED reader
    BY DEF Open, CloseBegin, CloseTables, vars
<1>4. Exit \/ Kill \/ PowerLoss => LoseHandle /\ reader' = [r \in Reader |-> IdleReader]
    BY DEF Exit, Kill, PowerLoss, LoseHandle
<1> QED
    BY <1>1, <1>2, <1>3, <1>4 DEF Next

LEMMA ReaderTypeStep ==
    ASSUME ListInv, [Next]_vars
    PROVE  /\ reader' \in [Reader -> ReaderType]
           /\ \A r \in Reader : reader'[r].pc # "idle" => reader'[r].key \in Key
<1> USE DEF ListInv, TypeOK
<1>0. /\ reader \in [Reader -> ReaderType]
      /\ \A r \in Reader : reader[r].pc # "idle" => reader[r].key \in Key
    BY DEF CallTypeOK
<1>i. IdleReader \in ReaderType /\ IdleReader.pc = "idle"
  <2>1. <<>> \in Seq(Table) /\ 0 \in Nat
      OBVIOUS
  <2> QED
      BY <2>1, EntryTypes DEF IdleReader, ReaderType, ReaderPCs
<1>1. CASE reader' = [r \in Reader |-> IdleReader]
    BY <1>1, <1>i
<1>2. CASE UNCHANGED reader
    BY <1>0, <1>2
<1>3. ASSUME NEW r \in Reader, Get(r)
      PROVE  /\ reader' \in [Reader -> ReaderType]
             /\ \A q \in Reader : reader'[q].pc # "idle" => reader'[q].key \in Key
  <2>0. ASSUME NEW e \in ReaderType, e.pc # "idle" => e.key \in Key,
               reader' = [reader EXCEPT ![r] = e]
        PROVE  /\ reader' \in [Reader -> ReaderType]
               /\ \A q \in Reader : reader'[q].pc # "idle" => reader'[q].key \in Key
      BY <1>0, <2>0
  <2>1. CASE \E k \in Key : GetMemtable(r, k)
    <3>1. PICK k \in Key : GetMemtable(r, k)
        BY <2>1
    <3>2. memtable[k] \in Entry /\ Newest(sstables, k) \in Entry
      <4>1. sstables \in Seq(Table) /\ DOMAIN sstables \subseteq DOMAIN sstables
          BY DEF HandleTypeOK
      <4> QED
          BY <4>1, NewestType DEF Newest, HandleTypeOK, Contents
    <3>3. Visible(k).id \in Nat
        BY <3>2 DEF Visible, Entry
    <3> DEFINE e == [IdleReader EXCEPT !.key = k, !.floor = Visible(k).id,
                        !.pc = IF Present(memtable[k]) THEN "done" ELSE "tables",
                        !.result = memtable[k]]
    <3>4. e \in ReaderType /\ e.key \in Key
        BY <1>i, <3>2, <3>3 DEF ReaderType, ReaderPCs
    <3>5. reader' = [reader EXCEPT ![r] = e]
        BY <3>1 DEF GetMemtable
    <3> QED
        BY <2>0, <3>4, <3>5
  <2>2. CASE GetTables(r)
    <3> DEFINE e == [reader[r] EXCEPT !.pc = "read", !.tables = sstables,
                        !.floor = IF up = "open" THEN reader[r].floor ELSE 0]
    <3>1. reader[r] \in ReaderType /\ reader[r].key \in Key
        BY <1>0, <2>2 DEF GetTables
    <3>2. e \in ReaderType /\ e.key \in Key
        BY <3>1 DEF ReaderType, ReaderPCs, HandleTypeOK
    <3>3. reader' = [reader EXCEPT ![r] = e]
        BY <1>0, <2>2 DEF GetTables, ReaderType
    <3> QED
        BY <2>0, <3>2, <3>3
  <2>3. CASE GetRead(r) \/ GetReadFails(r)
    <3>1. reader[r] \in ReaderType /\ reader[r].key \in Key
        BY <1>0, <2>3 DEF GetRead, GetReadFails
    <3>2. PICK P : reader' = [reader EXCEPT ![r].pc = "done", ![r].tables = <<>>,
                                            ![r].result = Search(r, P)]
        BY <2>3 DEF GetRead, GetReadFails
    <3>3. Search(r, P) \in Entry
      <4>1. reader[r].tables \in Seq(Table)
          BY <3>1 DEF ReaderType
      <4>2. DOMAIN reader[r].tables \ P \subseteq DOMAIN reader[r].tables
          OBVIOUS
      <4> QED
          BY <3>1, <4>1, <4>2, NewestType DEF Search
    <3> DEFINE e == [reader[r] EXCEPT !.pc = "done", !.tables = <<>>, !.result = Search(r, P)]
    <3>x. <<>> \in Seq(Table) /\ "done" \in ReaderPCs
        BY DEF ReaderPCs
    <3>4. e \in ReaderType /\ e.key \in Key
        BY <3>1, <3>3, <3>x DEF ReaderType
    <3>5. reader' = [reader EXCEPT ![r] = e]
        BY <1>0, <3>1, <3>2 DEF ReaderType
    <3> QED
        BY <2>0, <3>4, <3>5
  <2>4. CASE GetReturn(r)
      BY <2>0, <2>4, <1>i DEF GetReturn
  <2> QED
      BY <1>3, <2>1, <2>2, <2>3, <2>4 DEF Get
<1> QED
    BY <1>1, <1>2, <1>3, ReaderFrame

LEMMA HistoryTypeStep ==
    ASSUME ListInv, [Next]_vars
    PROVE  HistoryTypeOK'
<1> USE DEF ListInv, TypeOK
<1>1. \/ UNCHANGED acked
      \/ acked' = [acked EXCEPT ![writer.key] = writer.entry.id]
  <2>1. Write => \/ UNCHANGED acked
                 \/ acked' = [acked EXCEPT ![writer.key] = writer.entry.id]
      BY DEF Write, BeginWrite, AppendWAL, AppendWALFails, ApplyWrite, SyncWALFails,
             FlushWriteTmp, FlushWriteTmpFails, FlushRename, FlushRenameFails,
             FlushSyncDir, FlushOrphan, FlushInstall, TruncateWAL, SyncReset,
             ResetWALFails, GiveUp, Return
  <2>2. Compact => UNCHANGED acked
      BY DEF Compact, CompactBegin, CompactAcquire, CompactMerge, CompactMergeFails,
             CompactWriteTmp, CompactWriteTmpFails, CompactRename, CompactRenameFails,
             CompactSyncDir, CompactOrphan, CompactOpen, CompactSwap, CompactRaced,
             CompactCleanup
  <2>3. (\E r \in Reader : Get(r)) => UNCHANGED acked
      BY DEF Get, GetMemtable, GetTables, GetRead, GetReadFails, GetReturn
  <2>4. Open \/ CloseBegin \/ CloseTables \/ Exit \/ Kill \/ PowerLoss \/ UNCHANGED vars
          => UNCHANGED acked
      BY DEF Open, CloseBegin, CloseTables, Exit, Kill, PowerLoss, LoseHandle, vars
  <2> QED
      BY <2>1, <2>2, <2>3, <2>4 DEF Next
<1>2. /\ writes' \in {writes, writes + 1} /\ compactions' \in {compactions, compactions + 1}
      /\ crashes' \in {crashes, crashes + 1} /\ faults' \in {faults, faults + 1}
      /\ readFaults' \in {readFaults, readFaults + 1}
  <2>1. CASE Write
      BY <2>1 DEF Write, BeginWrite, AppendWAL, AppendWALFails, ApplyWrite, SyncWALFails,
             FlushWriteTmp, FlushWriteTmpFails, FlushRename, FlushRenameFails,
             FlushSyncDir, FlushOrphan, FlushInstall, TruncateWAL, SyncReset,
             ResetWALFails, Fails, counters
  <2>2. CASE Compact
      BY <2>2 DEF Compact, CompactBegin, CompactAcquire, CompactMerge, CompactMergeFails,
             CompactWriteTmp, CompactWriteTmpFails, CompactRename, CompactRenameFails,
             CompactSyncDir, CompactOrphan, CompactOpen, CompactSwap, CompactRaced,
             CompactCleanup, Fails, counters
  <2>3. CASE \E r \in Reader : Get(r)
      BY <2>3 DEF Get, GetMemtable, GetTables, GetRead, GetReadFails, GetReturn, counters
  <2>4. CASE Open \/ CloseBegin \/ CloseTables \/ Exit \/ Kill \/ PowerLoss \/ UNCHANGED vars
      BY <2>4 DEF Open, CloseBegin, CloseTables, Exit, Kill, PowerLoss, vars, counters
  <2> QED
      BY <2>1, <2>2, <2>3, <2>4 DEF Next
<1>3. acked' \in [Key -> Nat]
  <2>1. acked \in [Key -> Nat] /\ writer.entry.id \in Nat
      BY DEF HistoryTypeOK, CallTypeOK, WriterType, Entry
  <2> QED
      BY <1>1, <2>1
<1> QED
    BY <1>2, <1>3 DEF HistoryTypeOK

----------------------------------------------------------------------------
LEMMA FiniteDiskStep ==
    ASSUME ListInv, [Next]_vars
    PROVE  FiniteDisk'
<1> USE DEF ListInv
<1>1. CASE UNCHANGED <<files, unlinked>>
    BY <1>1 DEF FiniteDisk
<1>2. CASE FlushRename \/ CompactRename
  <2>1. PICK t : files' = files \cup {t} /\ unlinked' = unlinked
      BY <1>2 DEF FlushRename, CompactRename
  <2> QED
      BY <2>1, FS_AddElement DEF FiniteDisk
<1>3. CASE FlushSyncDir \/ CompactSyncDir
    BY <1>3, FS_EmptySet DEF FlushSyncDir, CompactSyncDir, SyncDir, FiniteDisk
<1>4. CASE CompactRaced \/ CompactCleanup
  <2>1. PICK t : \/ files' = files \ {t} /\ unlinked' = unlinked \cup {t}
                 \/ UNCHANGED <<files, unlinked>>
      BY <1>4 DEF CompactRaced, CompactCleanup
  <2> QED
      BY <2>1, FS_AddElement, FS_RemoveElement DEF FiniteDisk
<1>5. CASE PowerLoss
  <2>1. PICK lost \in SUBSET unsynced, back \in SUBSET unlinked :
            files' = (files \ lost) \cup back
      BY <1>5 DEF PowerLoss, DirImages
  <2>2. IsFiniteSet(files \ lost) /\ IsFiniteSet(back)
      BY FS_Difference, FS_Subset DEF FiniteDisk
  <2>3. IsFiniteSet(files')
      BY <2>1, <2>2, FS_Union
  <2> QED
      BY <1>5, <2>3, FS_EmptySet DEF PowerLoss, FiniteDisk
<1>6. \/ FlushRename \/ CompactRename \/ FlushSyncDir \/ CompactSyncDir
      \/ CompactRaced \/ CompactCleanup \/ PowerLoss
      \/ UNCHANGED <<files, unlinked>>
    BY DiskFrame DEF AppendWAL, AppendWALFails, ApplyWrite, TruncateWAL, SyncReset,
        FlushWriteTmp, FlushRenameFails, CompactWriteTmp, CompactRenameFails, Open,
        LoadSSTables, Kill, disk, dir
<1> QED
    BY <1>1, <1>2, <1>3, <1>4, <1>5, <1>6

LEMMA ModesStep ==
    ASSUME ListInv, [Next]_vars
    PROVE  Modes'
<1> USE DEF ListInv
<1>1. CASE Write
  <2>1. up = "open" /\ UNCHANGED <<up, comp, reader>>
      BY <1>1 DEF Write, BeginWrite, AppendWAL, AppendWALFails, ApplyWrite, SyncWALFails,
             FlushWriteTmp, FlushWriteTmpFails, FlushRename, FlushRenameFails,
             FlushSyncDir, FlushOrphan, FlushInstall, TruncateWAL, SyncReset,
             ResetWALFails, WriterAt, handle
  <2> QED
      BY <2>1 DEF Modes
<1>2. CASE Compact
  <2>1. up # "down"
      BY <1>2 DEF Compact, CompactBegin, CompactAcquire, CompactMerge, CompactMergeFails,
             CompactWriteTmp, CompactWriteTmpFails, CompactRename, CompactRenameFails,
             CompactSyncDir, CompactOrphan, CompactOpen, CompactSwap, CompactRaced,
             CompactCleanup, CompAt, MuFree, Modes
  <2>2. UNCHANGED <<up, writer>>
      BY <1>2 DEF Compact, CompactBegin, CompactAcquire, CompactMerge, CompactMergeFails,
             CompactWriteTmp, CompactWriteTmpFails, CompactRename, CompactRenameFails,
             CompactSyncDir, CompactOrphan, CompactOpen, CompactSwap, CompactRaced,
             CompactCleanup, handle
  <2>3. up = "closed" => UNCHANGED sstables
    <3>1. ASSUME CompactSwap, up = "closed" PROVE FALSE
      <4>1. comp.inputs \in Seq(Table) /\ comp.inputs # <<>> /\ sstables = <<>>
          BY <3>1 DEF CompactSwap, CompAt, InputsLive, Merging, Modes, TypeOK, CallTypeOK,
                      CompType
      <4>2. Len(comp.inputs) <= 0
          BY <3>1, <4>1 DEF CompactSwap, IsPrefixOf
      <4> QED
          BY <4>1, <4>2
    <3>2. \/ CompactSwap \/ UNCHANGED sstables
        BY <1>2 DEF Compact, CompactBegin, CompactAcquire, CompactMerge,
             CompactMergeFails, CompactWriteTmp, CompactWriteTmpFails, CompactRename,
             CompactRenameFails, CompactSyncDir, CompactOrphan, CompactOpen, CompactRaced,
             CompactCleanup, handle
    <3> QED
        BY <3>1, <3>2
  <2> QED
      BY <2>1, <2>2, <2>3 DEF Modes
<1>3. CASE \E r \in Reader : Get(r)
  <2>1. PICK r \in Reader : Get(r)
      BY <1>3
  <2>2. up # "down" /\ UNCHANGED <<handle, writer, comp>>
      BY <2>1 DEF Get, GetMemtable, GetTables, GetRead, GetReadFails, GetReturn, MuFree,
                  Modes
  <2> QED
      BY <2>2 DEF Modes, handle
<1>4. CASE Open \/ CloseBegin \/ CloseTables
    BY <1>4 DEF Open, CloseBegin, CloseTables, MuFree, Modes
<1>5. CASE LoseHandle
    BY <1>5 DEF LoseHandle, IdleWriter, IdleComp, IdleReader, Modes
<1>6. CASE UNCHANGED vars
    BY <1>6 DEF vars, handle, Modes
<1> QED
    BY <1>1, <1>2, <1>3, <1>4, <1>5, <1>6 DEF Next, Exit, Kill, PowerLoss

----------------------------------------------------------------------------
(* What the steps of one process leave alone.                              *)

LEMMA WriteKeeps == Write => up = "open" /\ UNCHANGED <<up, comp, reader>>
    BY DEF Write, BeginWrite, AppendWAL, AppendWALFails, ApplyWrite, SyncWALFails,
           FlushWriteTmp, FlushWriteTmpFails, FlushRename, FlushRenameFails,
           FlushSyncDir, FlushOrphan, FlushInstall, TruncateWAL, SyncReset,
           ResetWALFails, WriterAt, handle

LEMMA CompactKeeps ==
    /\ Compact => UNCHANGED <<up, writer, reader>>
    /\ Compact => CompactOpen \/ CompactSwap \/ CompactRaced \/ CompactCleanup
                  \/ UNCHANGED handle
    BY DEF Compact, CompactBegin, CompactAcquire, CompactMerge, CompactMergeFails,
           CompactWriteTmp, CompactWriteTmpFails, CompactRename, CompactRenameFails,
           CompactSyncDir, CompactOrphan, CompactOpen, CompactSwap, CompactRaced,
           CompactCleanup, handle

LEMMA GetKeeps == (\E r \in Reader : Get(r)) => UNCHANGED <<disk, handle, writer, comp>>
    BY DEF Get, GetMemtable, GetTables, GetRead, GetReadFails, GetReturn

\* The steps of a compaction before the swap keep its inputs.
LEMMA CompactSteps ==
    ASSUME comp \in CompType, Compact
    PROVE  \/ CompactBegin \/ CompactSwap \/ CompactCleanup
           \/ comp' = IdleComp /\ UNCHANGED sstables
           \/ /\ Merging /\ comp'.inputs = comp.inputs /\ comp'.pc # "cleanup"
              /\ UNCHANGED sstables
<1>1. \/ CompactBegin \/ CompactSwap \/ CompactCleanup
      \/ comp' = IdleComp /\ UNCHANGED sstables
      \/ CompactMerge
      \/ /\ Merging /\ UNCHANGED sstables
         /\ \E pc \in CompPCs \ {"cleanup"} : comp' = [comp EXCEPT !.pc = pc]
    BY DEF Compact, CompactAcquire, CompactMergeFails, CompactWriteTmp,
           CompactWriteTmpFails, CompactRename, CompactRenameFails, CompactSyncDir,
           CompactOrphan, CompactOpen, CompactRaced, CompAt, CompGoto, EndCompact,
           Merging, CompPCs, handle
<1>2. CASE CompactMerge
    BY <1>2 DEF CompactMerge, CompAt, Merging, CompType, handle
<1>3. CASE \E pc \in CompPCs \ {"cleanup"} : comp' = [comp EXCEPT !.pc = pc]
    BY <1>3, <1>1, <1>2 DEF CompType
<1> QED
    BY <1>1, <1>2, <1>3

LEMMA ListOrderStep ==
    ASSUME ListInv, [Next]_vars
    PROVE  ListOrder'
<1> USE DEF ListInv, TypeOK
<1>0. sstables \in Seq(Table) /\ lastSeq \in Nat
    BY DEF HandleTypeOK
<1>l. /\ Len(sstables) \in Nat /\ DOMAIN sstables = 1 .. Len(sstables)
      /\ \A i \in 1 .. Len(sstables) : sstables[i] \in Table /\ sstables[i].seq \in Nat
    BY <1>0, ListFacts
<1>1. CASE UNCHANGED <<sstables, lastSeq>>
    BY <1>1 DEF ListOrder, Ascending, Older
<1>2. CASE FlushWriteTmp \/ FlushWriteTmpFails
  <2>1. UNCHANGED sstables /\ lastSeq' \in lastSeq + 1 .. lastSeq + MaxClockStep
      BY <1>2 DEF FlushWriteTmp, FlushWriteTmpFails, FlushSeqs
  <2>2. lastSeq' >= lastSeq /\ lastSeq' \in Nat
      BY <1>0, <2>1, BoundsAssumption
  <2>3. \A i \in DOMAIN sstables : sstables[i].seq <= lastSeq'
      BY <1>0, <1>l, <2>2 DEF ListOrder
  <2> QED
      BY <2>1, <2>3 DEF ListOrder, Ascending, Older
<1>3. CASE FlushInstall
  <2>1. Flushing /\ writer.table \in Table
      BY <1>3 DEF FlushInstall, WriterAt, Flushing, CallTypeOK, WriterType
  <2>2. sstables' = Append(sstables, writer.table) /\ lastSeq' = lastSeq
      BY <1>3 DEF FlushInstall
  <2>3. /\ DOMAIN sstables' = 1 .. Len(sstables) + 1
        /\ \A i \in 1 .. Len(sstables) : sstables'[i] = sstables[i]
        /\ sstables'[Len(sstables) + 1] = writer.table
      BY <1>0, <2>1, <2>2, AppendProperties
  <2>4. \A i \in 1 .. Len(sstables) : Older(sstables[i], writer.table)
      BY <1>l, <2>1 DEF FlushFresh, Older
  <2>5. ASSUME NEW i \in DOMAIN sstables', NEW j \in DOMAIN sstables', i < j
        PROVE  Older(sstables'[i], sstables'[j])
    <3>1. CASE j = Len(sstables) + 1
        BY <1>l, <2>3, <2>4, <2>5, <3>1
    <3>2. CASE j # Len(sstables) + 1
        BY <1>l, <2>3, <2>5, <3>2 DEF ListOrder, Ascending
    <3> QED
        BY <3>1, <3>2
  <2>6. \A i \in DOMAIN sstables' : sstables'[i].seq <= lastSeq'
      BY <1>l, <2>1, <2>2, <2>3 DEF ListOrder, FlushFresh
  <2> QED
      BY <2>5, <2>6 DEF ListOrder, Ascending
<1>4. CASE CompactSwap
  <2>1. PICK n \in 1 .. Len(sstables) :
            /\ n = Len(comp.inputs)
            /\ \A i \in 1 .. n : comp.inputs[i] = sstables[i]
    <3>1. comp.inputs \in Seq(Table) /\ comp.inputs # <<>>
        BY <1>4 DEF CompactSwap, CompAt, InputsLive, Merging, CallTypeOK, CompType
    <3>2. Len(comp.inputs) \in 1 .. Len(sstables)
        BY <1>4, <1>l, <3>1 DEF CompactSwap, IsPrefixOf
    <3>3. \A i \in 1 .. Len(comp.inputs) : comp.inputs[i] = sstables[i]
        BY <1>4, <3>1 DEF CompactSwap, IsPrefixOf
    <3> QED
        BY <3>2, <3>3
  <2>2. comp.table \in Table /\ comp.table.seq \in Nat
      BY DEF CallTypeOK, CompType, Table
  <2>3. comp.table.compacted /\ comp.table.seq = sstables[n].seq + 1
      BY <1>4, <2>1 DEF CompactSwap, CompAt, MergedNext, Merged, LastInput
  <2>4. \A i \in DOMAIN sstables : i > n =>
            ~sstables[i].compacted /\ sstables[i].seq > sstables[n].seq
    <3>1. up # "closed"
      <4>1. Len(sstables) # 0
          BY <1>l, <2>1
      <4> QED
          BY <4>1 DEF Modes
    <3> QED
        BY <1>4, <2>1, <3>1 DEF CompactSwap, CompAt, InputsLive, Merging, LastInput
  <2>5. /\ Len(sstables') = 1 + Len(sstables) - n /\ sstables' \in Seq(Table)
        /\ sstables'[1] = comp.table
        /\ \A i \in 2 .. 1 + Len(sstables) - n : sstables'[i] = sstables[n + i - 1]
    <3>1. n \in 0 .. Len(sstables)
        BY <1>l, <2>1
    <3>2. sstables' = SwapIn(comp.table, n, sstables)
        BY <1>4, <2>1 DEF CompactSwap
    <3> QED
        BY <1>0, <2>2, <3>1, <3>2, SwapInFacts
  <2>n. n \in Nat /\ Len(sstables) \in Nat /\ 1 <= n /\ n <= Len(sstables)
      BY <1>l, <2>1
  <2>6. DOMAIN sstables' = 1 .. 1 + Len(sstables) - n
      BY <2>5, ListFacts
  <2>7. \A i \in 2 .. 1 + Len(sstables) - n :
            n + i - 1 \in 1 .. Len(sstables) /\ n + i - 1 > n
      BY <2>n
  <2>8. lastSeq' \in Nat /\ lastSeq <= lastSeq' /\ comp.table.seq <= lastSeq'
      BY <1>4, <1>0, <2>2, MaxOfTwo DEF CompactSwap
  <2>9. \A j \in 2 .. 1 + Len(sstables) - n : Older(sstables'[1], sstables'[j])
    <3>1. \A i \in 1 .. Len(sstables) : i > n => Older(comp.table, sstables[i])
        BY <1>l, <2>1, <2>2, <2>3, <2>4 DEF Older
    <3> QED
        BY <2>5, <2>7, <3>1
  <2>10. \A i, j \in 2 .. 1 + Len(sstables) - n :
            i < j => Older(sstables'[i], sstables'[j])
    <3>1. \A i, j \in 2 .. 1 + Len(sstables) - n :
             i < j => n + i - 1 < n + j - 1
        BY <2>n
    <3>2. \A i, j \in 1 .. Len(sstables) : i < j => Older(sstables[i], sstables[j])
        BY <1>l DEF ListOrder, Ascending
    <3> QED
        BY <2>5, <2>7, <3>1, <3>2
  <2>11. Ascending(sstables')
    <3>1. ASSUME NEW i \in DOMAIN sstables', NEW j \in DOMAIN sstables', i < j
          PROVE  Older(sstables'[i], sstables'[j])
      <4>1. i = 1 \/ i \in 2 .. 1 + Len(sstables) - n
          BY <2>n, <2>6
      <4>2. j \in 2 .. 1 + Len(sstables) - n
          BY <2>n, <2>6, <3>1
      <4> QED
          BY <2>9, <2>10, <3>1, <4>1, <4>2
    <3> QED
        BY <3>1 DEF Ascending
  <2>12. ASSUME NEW i \in DOMAIN sstables' PROVE sstables'[i].seq <= lastSeq'
    <3>1. \A m \in 1 .. Len(sstables) : sstables[m].seq <= lastSeq'
        BY <1>0, <1>l, <2>8 DEF ListOrder
    <3>2. i = 1 \/ i \in 2 .. 1 + Len(sstables) - n
        BY <2>n, <2>6
    <3> QED
        BY <2>5, <2>7, <2>8, <3>1, <3>2
  <2> QED
      BY <2>11, <2>12 DEF ListOrder
<1>5. CASE Open
  <2>1. files \in SUBSET Table /\ IsFiniteSet(files)
      BY DEF DiskTypeOK, FiniteDisk
  <2>2. /\ sstables' \in Seq(Table) /\ Ascending(sstables') /\ Range(sstables') = files
        /\ \A t \in files : t.seq <= lastSeq'
      BY <1>5, <2>1, LoadOrdersFacts DEF Open, LoadSSTables
  <2>3. \A i \in DOMAIN sstables' : sstables'[i] \in files
      BY <2>2 DEF Range
  <2> QED
      BY <2>2, <2>3 DEF ListOrder
<1>6. CASE CloseTables \/ LoseHandle
  <2>1. sstables' = <<>>
      BY <1>6 DEF CloseTables, LoseHandle
  <2> QED
      BY <2>1 DEF ListOrder, Ascending
<1>7. \/ UNCHANGED <<sstables, lastSeq>>
      \/ FlushWriteTmp \/ FlushWriteTmpFails \/ FlushInstall \/ CompactSwap \/ Open
      \/ CloseTables \/ LoseHandle
    BY HandleFrame DEF AppendWALFails, ApplyWrite, CompactOpen, CompactRaced,
       CompactCleanup, CloseBegin, handle
<1> QED
    BY <1>1, <1>2, <1>3, <1>4, <1>5, <1>6, <1>7

----------------------------------------------------------------------------
\* While a write holds db.mu, a compaction can only work on files.
LEMMA CompactUnderWrite ==
    ASSUME comp \in CompType, Compact, writer.pc # "idle"
    PROVE  /\ UNCHANGED <<sstables, lastSeq>>
           /\ CompactCleanup \/ (comp'.pc # "cleanup" /\ files \subseteq files')
<1>1. \/ CompactCleanup
      \/ /\ UNCHANGED <<sstables, lastSeq>> /\ files \subseteq files'
         /\ \/ comp' = IdleComp
            \/ CompactMerge
            \/ \E pc \in CompPCs \ {"cleanup"} : comp' = [comp EXCEPT !.pc = pc]
    BY DEF Compact, CompactBegin, CompactAcquire, CompactMerge, CompactMergeFails,
           CompactWriteTmp, CompactWriteTmpFails, CompactRename, CompactRenameFails,
           CompactSyncDir, CompactOrphan, CompactOpen, CompactSwap, CompactRaced,
           CompGoto, EndCompact, CompPCs, MuFree, handle, disk, dir
<1>2. CompactCleanup => UNCHANGED <<sstables, lastSeq>>
    BY DEF CompactCleanup
<1>3. CompactMerge => comp'.pc = "create"
    BY DEF CompactMerge, CompType
<1>4. (\E pc \in CompPCs \ {"cleanup"} : comp' = [comp EXCEPT !.pc = pc])
          => comp'.pc # "cleanup"
    BY DEF CompType
<1>5. comp' = IdleComp => comp'.pc # "cleanup"
    BY DEF IdleComp
<1>6. UNCHANGED <<sstables, lastSeq>>
    BY <1>1, <1>2
<1>7. CompactCleanup \/ comp'.pc # "cleanup"
    BY <1>1, <1>3, <1>4, <1>5
<1>8. CompactCleanup \/ files \subseteq files'
    BY <1>1
<1> QED
    BY <1>6, <1>7, <1>8

\* What is left of the inputs after one of them is removed.
LEMMA CleanupFacts ==
    ASSUME ListInv, CompactCleanup
    PROVE  /\ comp.inputs \in Seq(Table) /\ Head(comp.inputs) \in Range(comp.inputs)
           /\ comp'.pc \in {"idle", "cleanup"}
           /\ comp'.pc = "cleanup" =>
                 comp'.inputs # <<>> /\ Range(comp'.inputs) \subseteq Range(comp.inputs)
           /\ files \ {Head(comp.inputs)} \subseteq files'
<1>1. comp \in CompType /\ comp.pc = "cleanup"
    BY DEF ListInv, TypeOK, CallTypeOK, CompactCleanup, CompAt
<1>2. comp.inputs \in Seq(Table) /\ comp.inputs # <<>>
    BY <1>1 DEF ListInv, CleanupApart, CompType
<1>3. Head(comp.inputs) \in Range(comp.inputs)
    BY <1>2 DEF Range
<1>4. Range(Tail(comp.inputs)) \subseteq Range(comp.inputs)
  <2>1. \A i \in DOMAIN Tail(comp.inputs) :
            i + 1 \in DOMAIN comp.inputs /\ Tail(comp.inputs)[i] = comp.inputs[i + 1]
      BY <1>2
  <2> QED
      BY <2>1 DEF Range
<1>5. \/ comp' = IdleComp
      \/ Tail(comp.inputs) # <<>> /\ comp' = [comp EXCEPT !.inputs = Tail(comp.inputs)]
    BY DEF CompactCleanup, EndCompact
<1>6. files \ {Head(comp.inputs)} \subseteq files'
    BY DEF CompactCleanup
<1>7. comp'.pc \in {"idle", "cleanup"}
    BY <1>1, <1>5 DEF IdleComp, CompType
<1>8. comp'.pc = "cleanup" => comp'.inputs = Tail(comp.inputs) /\ Tail(comp.inputs) # <<>>
    BY <1>1, <1>5 DEF IdleComp, CompType
<1> QED
    BY <1>2, <1>3, <1>4, <1>6, <1>7, <1>8

LEMMA FlushFreshStep ==
    ASSUME ListInv, [Next]_vars
    PROVE  FlushFresh'
<1> USE DEF ListInv, TypeOK
<1>0. /\ sstables \in Seq(Table) /\ lastSeq \in Nat /\ comp \in CompType
      /\ writer \in WriterType
    BY DEF HandleTypeOK, CallTypeOK
<1>l. /\ Len(sstables) \in Nat /\ DOMAIN sstables = 1 .. Len(sstables)
      /\ \A i \in 1 .. Len(sstables) : sstables[i] \in Table /\ sstables[i].seq \in Nat
    BY <1>0, ListFacts
<1>1. CASE FlushWriteTmp
  <2>1. PICK seq \in FlushSeqs :
            /\ lastSeq' = seq
            /\ writer' = [writer EXCEPT !.pc = "rename",
                  !.table = [seq |-> seq, compacted |-> FALSE, recs |-> memtable]]
      BY <1>1 DEF FlushWriteTmp
  <2>2. /\ writer'.pc = "rename" /\ ~writer'.table.compacted
        /\ writer'.table.seq = lastSeq'
      BY <1>0, <2>1 DEF WriterType
  <2>3. UNCHANGED <<sstables, comp>>
      BY <1>1 DEF FlushWriteTmp
  <2>4. lastSeq' > lastSeq /\ lastSeq' \in Nat
      BY <1>0, <2>1, BoundsAssumption DEF FlushSeqs
  <2>5. \A i \in DOMAIN sstables : sstables[i].seq < lastSeq'
      BY <1>0, <1>l, <2>4 DEF ListOrder
  <2>6. comp.pc = "cleanup" => \A t \in Range(comp.inputs) : t.seq < lastSeq'
    <3>1. comp.inputs \in Seq(Table)
        BY <1>0 DEF CompType
    <3>2. \A t \in Range(comp.inputs) : t.seq \in Nat
        BY <3>1, ListFacts DEF Range
    <3> QED
        BY <1>0, <2>4, <3>2 DEF CleanupApart
  <2>7. writer'.table.seq <= lastSeq'
      BY <2>2, <2>4
  <2> QED
      BY <2>2, <2>3, <2>5, <2>6, <2>7 DEF FlushFresh
<1>2. CASE FlushRename \/ FlushSyncDir
  <2>1. /\ Flushing /\ UNCHANGED <<sstables, comp, lastSeq>> /\ writer'.table = writer.table
        /\ writer.table \in files'
      BY <1>0, <1>2 DEF FlushRename, FlushSyncDir, WriterAt, WriterType, handle, Flushing,
                        FlushFresh
  <2> QED
      BY <2>1 DEF FlushFresh
<1>3. CASE writer' # writer /\ ~FlushWriteTmp /\ ~FlushRename /\ ~FlushSyncDir
  <2>1. ~Flushing'
    <3>1. \/ writer'.pc \in {"append", "sync", "flush", "truncate", "resetsync"}
          \/ writer' = IdleWriter
        <4>1. Write =>
                \/ writer' = IdleWriter \/ FlushWriteTmp \/ FlushRename \/ FlushSyncDir
                \/ \E pc \in {"append", "sync", "flush", "truncate", "resetsync"} :
                      \/ writer' = [writer EXCEPT !.pc = pc]
                      \/ writer' = [writer EXCEPT !.pc = pc, !.table = NoTable]
                      \/ writer'.pc = pc
            BY DEF Write, BeginWrite, AppendWAL, AppendWALFails, ApplyWrite, SyncWALFails,
               FlushWriteTmpFails, FlushRenameFails, FlushOrphan, FlushInstall,
               TruncateWAL, SyncReset, ResetWALFails, GiveUp, Return, IdleWriter
        <4>2. Compact \/ (\E r \in Reader : Get(r)) => writer' = writer
            BY CompactKeeps, GetKeeps
        <4>3. Open \/ CloseBegin \/ CloseTables \/ UNCHANGED vars => writer' = writer
            BY DEF Open, CloseBegin, CloseTables, vars
        <4>4. Exit \/ Kill \/ PowerLoss => writer' = IdleWriter
            BY DEF Exit, Kill, PowerLoss, LoseHandle
        <4> QED
            BY <1>0, <1>3, <4>1, <4>2, <4>3, <4>4 DEF Next, WriterType
    <3> QED
        BY <3>1 DEF Flushing, IdleWriter
  <2> QED
      BY <2>1 DEF FlushFresh
<1>4. CASE writer' = writer /\ ~Flushing
    BY <1>4 DEF FlushFresh, Flushing
<1>5. CASE Flushing /\ Compact
  <2>1. writer' = writer /\ UNCHANGED <<sstables, lastSeq>>
      BY <1>0, <1>5, CompactKeeps, CompactUnderWrite DEF Flushing
  <2>2. CASE comp'.pc # "cleanup" /\ files \subseteq files'
      BY <1>5, <2>1, <2>2 DEF FlushFresh, Flushing
  <2>3. CASE CompactCleanup
    <3>1. comp.pc = "cleanup"
        BY <2>3 DEF CompactCleanup, CompAt
    <3>2. Head(comp.inputs) # writer.table
      <4>1. Head(comp.inputs).seq < writer.table.seq
          BY <1>5, <2>3, <3>1, CleanupFacts DEF FlushFresh
      <4>2. writer.table.seq \in Nat
          BY <1>0 DEF WriterType, Table
      <4> QED
          BY <4>1, <4>2
    <3>3. writer.pc # "rename" => writer.table \in files'
        BY <1>5, <2>3, <3>2, CleanupFacts DEF FlushFresh
    <3>4. comp'.pc = "cleanup" => Range(comp'.inputs) \subseteq Range(comp.inputs)
        BY <2>3, CleanupFacts
    <3> QED
        BY <1>5, <2>1, <3>1, <3>3, <3>4 DEF FlushFresh, Flushing
  <2> QED
      BY <1>0, <1>5, <2>2, <2>3, CompactUnderWrite DEF Flushing
<1>6. CASE writer' = writer /\ Flushing /\ ~Compact
  <2>1. up = "open" /\ ~MuFree
      BY <1>6 DEF Modes, Flushing, MuFree
  <2>2. ASSUME Write PROVE FALSE
    <3>1. ASSUME NEW pc \in WriterPCs, pc # writer.pc PROVE writer' # [writer EXCEPT !.pc = pc]
        BY <1>0, <1>6, <3>1 DEF WriterType
    <3>2. \/ writer' = IdleWriter
          \/ FlushWriteTmp
          \/ \E pc \in WriterPCs : pc # writer.pc /\ writer'.pc = pc
      <4>1. writer.pc # "idle"
          BY <1>6 DEF Flushing
      <4>2. \/ writer' = IdleWriter \/ FlushWriteTmp
            \/ \E pc \in WriterPCs : pc # writer.pc /\
                  \/ writer' = [writer EXCEPT !.pc = pc]
                  \/ writer' = [writer EXCEPT !.pc = pc, !.table = NoTable]
          BY <2>1, <2>2, <4>1 DEF Write, BeginWrite, AppendWAL, AppendWALFails, ApplyWrite,
               SyncWALFails, FlushWriteTmpFails, FlushRename, FlushRenameFails,
               FlushSyncDir, FlushOrphan, FlushInstall, TruncateWAL, SyncReset,
               ResetWALFails, GiveUp, Return, WriterAt, WriterPCs
      <4> QED
          BY <1>0, <4>2 DEF WriterType
    <3>3. FlushWriteTmp => writer.pc = "flush"
        BY DEF FlushWriteTmp, WriterAt
    <3> QED
        BY <1>6, <3>2, <3>3 DEF Flushing, IdleWriter
  <2>3. UNCHANGED <<sstables, lastSeq, comp, files>>
    <3>1. (\E r \in Reader : Get(r)) \/ UNCHANGED vars
              => UNCHANGED <<sstables, lastSeq, comp, files>>
        BY GetKeeps DEF vars, handle, disk
    <3>2. ~(Open \/ CloseBegin \/ CloseTables \/ Exit)
        BY <2>1 DEF Open, CloseBegin, CloseTables, Exit
    <3>3. ~(Kill \/ PowerLoss)
      <4>1. Kill \/ PowerLoss => writer' = IdleWriter
          BY DEF Kill, PowerLoss, LoseHandle
      <4> QED
          BY <1>6, <4>1 DEF Flushing, IdleWriter
    <3> QED
        BY <1>6, <2>2, <3>1, <3>2, <3>3 DEF Next
  <2> QED
      BY <1>6, <2>3 DEF FlushFresh, Flushing
<1> QED
    BY <1>1, <1>2, <1>3, <1>4, <1>5, <1>6, CompactKeeps

----------------------------------------------------------------------------
LEMMA WriteFrame ==
    Write => /\ files \subseteq files'
             /\ FlushInstall \/ UNCHANGED <<sstables, opened>>
             /\ FlushRename \/ unsynced' \subseteq unsynced
    BY DEF Write, BeginWrite, AppendWAL, AppendWALFails, ApplyWrite, SyncWALFails,
           FlushWriteTmp, FlushWriteTmpFails, FlushRename, FlushRenameFails,
           FlushSyncDir, FlushOrphan, FlushInstall, TruncateWAL, SyncReset,
           ResetWALFails, SyncDir, disk, dir, handle

\* The steps that change the list, the compaction or the mode of the handle.
LEMMA ListFrame ==
    [Next]_vars =>
        \/ Compact \/ FlushInstall \/ Open \/ CloseTables \/ LoseHandle
        \/ UNCHANGED <<comp, sstables>> /\ (CloseBegin \/ up' = up)
<1>1. Write => FlushInstall \/ UNCHANGED <<comp, sstables, up>>
    BY WriteKeeps, WriteFrame
<1>2. (\E r \in Reader : Get(r)) => UNCHANGED <<comp, sstables, up>>
    BY GetKeeps DEF handle
<1>3. CloseBegin => UNCHANGED <<comp, sstables>>
    BY DEF CloseBegin
<1>4. Exit \/ Kill \/ PowerLoss => LoseHandle
    BY DEF Exit, Kill, PowerLoss
<1>5. UNCHANGED vars => UNCHANGED <<comp, sstables, up>>
    BY DEF vars, handle
<1> QED
    BY <1>1, <1>2, <1>3, <1>4, <1>5 DEF Next

LEMMA InputsLiveStep ==
    ASSUME ListInv, [Next]_vars
    PROVE  InputsLive'
<1> USE DEF ListInv, TypeOK
<1>0. /\ sstables \in Seq(Table) /\ comp \in CompType
      /\ comp.inputs \in Seq(Table) /\ writer.table \in Table
    BY DEF HandleTypeOK, CallTypeOK, CompType, WriterType
<1>l. /\ Len(sstables) \in Nat /\ DOMAIN sstables = 1 .. Len(sstables)
      /\ \A i \in 1 .. Len(sstables) : sstables[i] \in Table /\ sstables[i].seq \in Nat
      /\ Len(comp.inputs) \in Nat /\ DOMAIN comp.inputs = 1 .. Len(comp.inputs)
    BY <1>0, ListFacts
<1>1. CASE FlushInstall
  <2>1. /\ up = "open" /\ Flushing /\ UNCHANGED <<up, comp>>
        /\ sstables' = Append(sstables, writer.table)
      BY <1>1 DEF FlushInstall, WriterAt, Flushing
  <2>2. /\ Len(sstables') = Len(sstables) + 1 /\ DOMAIN sstables' = 1 .. Len(sstables) + 1
        /\ \A i \in 1 .. Len(sstables) : sstables'[i] = sstables[i]
        /\ sstables'[Len(sstables) + 1] = writer.table
      BY <1>0, <2>1, AppendProperties
  <2>3. CASE Merging
    <3>1. /\ comp.inputs # <<>> /\ IsPrefixOf(comp.inputs, sstables)
          /\ \A i \in DOMAIN sstables : i > Len(comp.inputs) =>
                ~sstables[i].compacted /\ sstables[i].seq > LastInput.seq
        BY <2>1, <2>3 DEF InputsLive
    <3>2. IsPrefixOf(comp.inputs, sstables')
        BY <1>l, <2>2, <3>1 DEF IsPrefixOf
    <3>3. ~writer.table.compacted /\ writer.table.seq > LastInput.seq
      <4>1. Len(comp.inputs) \in 1 .. Len(sstables)
          BY <1>0, <1>l, <3>1 DEF IsPrefixOf
      <4>2. LastInput = sstables[Len(comp.inputs)]
          BY <1>l, <3>1, <4>1 DEF IsPrefixOf, LastInput
      <4>3. sstables[Len(comp.inputs)].seq < writer.table.seq
          BY <1>l, <2>1, <4>1 DEF FlushFresh
      <4>4. writer.table.seq \in Nat /\ sstables[Len(comp.inputs)].seq \in Nat
          BY <1>0, <1>l, <4>1 DEF Table
      <4> QED
          BY <2>1, <4>2, <4>3, <4>4 DEF FlushFresh
    <3>4. \A i \in DOMAIN sstables' : i > Len(comp.inputs) =>
              ~sstables'[i].compacted /\ sstables'[i].seq > LastInput.seq
      <4>1. \A i \in DOMAIN sstables' : i \in DOMAIN sstables \/ i = Len(sstables) + 1
          BY <1>l, <2>2
      <4> QED
          BY <1>l, <2>2, <3>1, <3>3, <4>1
    <3> QED
        BY <2>1, <3>1, <3>2, <3>4 DEF InputsLive, LastInput, Merging
  <2> QED
      BY <2>1, <2>3 DEF InputsLive, Merging
<1>2. CASE CompactBegin
  <2>1. comp'.inputs = sstables /\ sstables' = sstables
      BY <1>2 DEF CompactBegin, IdleComp, handle
  <2>2. comp'.inputs # <<>> /\ IsPrefixOf(comp'.inputs, sstables')
      BY <1>2, <1>l, <2>1 DEF CompactBegin, IsPrefixOf
  <2>3. \A i \in DOMAIN sstables' : ~(i > Len(comp'.inputs))
      BY <1>l, <2>1
  <2> QED
      BY <2>2, <2>3 DEF InputsLive
<1>3. CASE CompactSwap \/ CompactCleanup \/ comp' = IdleComp
  <2>1. CompactSwap => comp'.pc = "cleanup"
      BY <1>0 DEF CompactSwap, CompGoto, CompType
  <2>2. CompactCleanup => comp'.pc \in {"idle", "cleanup"}
      BY CleanupFacts
  <2>3. ~Merging'
      BY <1>3, <2>1, <2>2 DEF Merging, IdleComp
  <2> QED
      BY <2>3 DEF InputsLive
<1>4. CASE Compact /\ Merging /\ comp'.inputs = comp.inputs /\ UNCHANGED sstables
  <2>1. up' = up
      BY <1>4, CompactKeeps
  <2> QED
      BY <1>4, <2>1 DEF InputsLive, LastInput
<1>5. CASE Open
  <2>1. ~Merging /\ comp' = comp
      BY <1>5 DEF Open, Modes, Merging
  <2> QED
      BY <2>1 DEF InputsLive, Merging
<1>6. CASE CloseTables
  <2>1. up' = "closed" /\ comp' = comp
      BY <1>6 DEF CloseTables
  <2> QED
      BY <2>1 DEF InputsLive, Merging
<1>7. CASE LoseHandle
  <2>1. comp' = IdleComp
      BY <1>7 DEF LoseHandle
  <2> QED
      BY <1>3, <2>1
<1>8. CASE UNCHANGED <<comp, sstables>> /\ (CloseBegin \/ up' = up)
  <2>2. CASE up' = up
      BY <1>8, <2>2 DEF InputsLive, LastInput, Merging
  <2>3. CASE CloseBegin
    <3>1. up = "open" /\ UNCHANGED <<comp, sstables>>
        BY <2>3 DEF CloseBegin
    <3> QED
        BY <3>1 DEF InputsLive, LastInput, Merging
  <2> QED
      BY <1>8, <2>2, <2>3
<1> QED
    BY <1>0, <1>1, <1>2, <1>3, <1>4, <1>5, <1>6, <1>7, <1>8, CompactSteps, ListFrame

----------------------------------------------------------------------------
\* The merged table is younger than its inputs and older than the rest.
LEMMA MergedNotListed ==
    ASSUME ListInv, Merged
    PROVE  comp.table \notin Range(sstables)
<1> USE DEF ListInv, TypeOK
<1>0. sstables \in Seq(Table) /\ comp.inputs \in Seq(Table) /\ comp.inputs # <<>>
    BY DEF HandleTypeOK, CallTypeOK, CompType, InputsLive, Merging, Merged
<1>l. /\ Len(sstables) \in Nat /\ DOMAIN sstables = 1 .. Len(sstables)
      /\ \A i \in 1 .. Len(sstables) : sstables[i] \in Table /\ sstables[i].seq \in Nat
      /\ Len(comp.inputs) \in Nat /\ DOMAIN comp.inputs = 1 .. Len(comp.inputs)
    BY <1>0, ListFacts
<1>1. CASE up = "closed"
  <2>1. sstables = <<>>
      BY <1>1 DEF Modes
  <2> QED
      BY <2>1 DEF Range
<1>2. CASE up # "closed"
  <2>1. /\ IsPrefixOf(comp.inputs, sstables)
        /\ \A i \in DOMAIN sstables : i > Len(comp.inputs) => ~sstables[i].compacted
      BY <1>2 DEF InputsLive, Merging, Merged
  <2>2. PICK n \in 1 .. Len(sstables) : n = Len(comp.inputs) /\ LastInput = sstables[n]
    <3>1. Len(comp.inputs) \in 1 .. Len(sstables)
        BY <1>0, <1>l, <2>1 DEF IsPrefixOf
    <3>2. LastInput = sstables[Len(comp.inputs)]
        BY <1>l, <2>1, <3>1 DEF IsPrefixOf, LastInput
    <3> QED
        BY <3>1, <3>2
  <2>3. comp.table.compacted /\ comp.table.seq = sstables[n].seq + 1
      BY <2>2 DEF MergedNext
  <2>4. ASSUME NEW i \in 1 .. Len(sstables), sstables[i] = comp.table PROVE FALSE
    <3>1. CASE i > n
        BY <1>l, <2>1, <2>2, <2>3, <2>4, <3>1
    <3>2. CASE i = n
        BY <1>l, <2>3, <2>4, <3>2
    <3>3. CASE i < n
      <4>1. Older(sstables[i], sstables[n])
          BY <1>l, <3>3 DEF ListOrder, Ascending
      <4>2. sstables[i].seq <= sstables[n].seq
          BY <1>l, <4>1 DEF Older
      <4>3. sstables[i].seq \in Nat /\ sstables[n].seq \in Nat
          BY <1>l
      <4> QED
          BY <2>3, <2>4, <4>2, <4>3
    <3> QED
        BY <1>l, <3>1, <3>2, <3>3
  <2> QED
      BY <1>l, <2>4 DEF Range
<1> QED
    BY <1>1, <1>2

\* The tables a search holds are those of the list.
LEMMA GetReads ==
    ASSUME reader \in [Reader -> ReaderType], NEW r \in Reader, Get(r)
    PROVE  \/ reader'[r].pc # "read"
           \/ reader'[r].pc = "read" /\ reader'[r].tables = sstables
<1>1. reader[r] \in ReaderType
    OBVIOUS
<1>2. ASSUME NEW k \in Key, GetMemtable(r, k) PROVE reader'[r].pc # "read"
    BY <1>2 DEF GetMemtable, IdleReader
<1>3. GetTables(r) => reader'[r].pc = "read" /\ reader'[r].tables = sstables
    BY <1>1 DEF GetTables, ReaderType
<1>4. ASSUME GetRead(r) \/ GetReadFails(r) PROVE reader'[r].pc = "done"
  <2>1. PICK P : reader' = [reader EXCEPT ![r].pc = "done", ![r].tables = <<>>,
                                          ![r].result = Search(r, P)]
      BY <1>4 DEF GetRead, GetReadFails
  <2> QED
      BY <1>1, <2>1 DEF ReaderType
<1>5. GetReturn(r) => reader'[r].pc = "idle"
    BY DEF GetReturn, IdleReader
<1> QED
    BY <1>2, <1>3, <1>4, <1>5 DEF Get

LEMMA MergedNextStep ==
    ASSUME ListInv, [Next]_vars
    PROVE  MergedNext'
<1> USE DEF ListInv, TypeOK
<1>0. comp \in CompType /\ files \in SUBSET Table /\ reader \in [Reader -> ReaderType]
    BY DEF CallTypeOK, DiskTypeOK
<1>1. CASE Write
  <2>1. UNCHANGED <<comp, reader>> /\ files \subseteq files'
      BY <1>1, WriteKeeps, WriteFrame
  <2>2. CASE FlushInstall
    <3>1. opened' = opened \cup {writer.table} /\ ~writer.table.compacted
        BY <2>2 DEF FlushInstall, WriterAt, FlushFresh, Flushing
    <3>2. comp.pc \in {"rename", "syncdir", "open"} => comp.table # writer.table
        BY <3>1 DEF MergedNext, Merged
    <3> QED
        BY <2>1, <3>1, <3>2 DEF MergedNext, Merged, LastInput
  <2>3. CASE UNCHANGED opened
      BY <2>1, <2>3 DEF MergedNext, Merged, LastInput
  <2> QED
      BY <1>1, <2>2, <2>3, WriteFrame
<1>2. CASE CompactBegin \/ CompactAcquire \/ CompactMergeFails \/ CompactWriteTmpFails
           \/ CompactRenameFails \/ CompactOrphan \/ CompactSwap \/ CompactRaced
           \/ CompactCleanup
  <2>1. comp'.pc \in {"idle", "acquire", "merge", "cleanup"}
    <3>1. comp' = IdleComp => comp'.pc = "idle"
        BY DEF IdleComp
    <3>2. CompactBegin => comp'.pc = "acquire"
        BY DEF CompactBegin, IdleComp
    <3>3. CompactSwap => comp'.pc = "cleanup"
        BY <1>0 DEF CompactSwap, CompGoto, CompType
    <3>4. CompactAcquire => comp' = IdleComp \/ comp'.pc = "merge"
        BY <1>0 DEF CompactAcquire, CompGoto, EndCompact, CompType
    <3>5. CompactMergeFails \/ CompactWriteTmpFails \/ CompactRenameFails \/ CompactOrphan
             \/ CompactRaced => comp' = IdleComp
        BY DEF CompactMergeFails, CompactWriteTmpFails, CompactRenameFails, CompactOrphan,
               CompactRaced, EndCompact
    <3> QED
        BY <1>2, <3>1, <3>2, <3>3, <3>4, <3>5, CleanupFacts
  <2> QED
      BY <2>1 DEF MergedNext, Merged
<1>3. CASE CompactMerge
  <2>1. /\ comp'.pc = "create" /\ comp'.inputs = comp.inputs
        /\ comp'.table = Compacted(comp.inputs)
      BY <1>0, <1>3 DEF CompactMerge, CompType
  <2>2. comp'.table.compacted /\ comp'.table.seq = LastInput.seq + 1
      BY <2>1 DEF Compacted, LastInput
  <2> QED
      BY <2>1, <2>2 DEF MergedNext, LastInput
<1>4. CASE CompactWriteTmp
  <2>1. /\ comp.pc = "create" /\ comp'.pc = "rename" /\ comp'.inputs = comp.inputs
        /\ comp'.table = comp.table /\ UNCHANGED <<opened, files>>
      BY <1>0, <1>4 DEF CompactWriteTmp, CompAt, CompGoto, CompType, handle
  <2>2. comp.table \notin files
      BY <1>4 DEF CompactWriteTmp, Names
  <2>3. comp.table \notin opened
      BY <2>2 DEF FilesOpen
  <2> QED
      BY <2>1, <2>3 DEF MergedNext, Merged, LastInput
<1>5. CASE CompactRename
  <2>1. /\ comp.pc = "rename" /\ comp'.pc = "syncdir" /\ comp'.inputs = comp.inputs
        /\ comp'.table = comp.table /\ UNCHANGED opened /\ comp.table \in files'
      BY <1>0, <1>5 DEF CompactRename, CompAt, CompGoto, CompType, handle
  <2> QED
      BY <2>1 DEF MergedNext, Merged, LastInput
<1>6. CASE CompactSyncDir
  <2>1. /\ comp.pc = "syncdir" /\ comp'.pc = "open" /\ comp'.inputs = comp.inputs
        /\ comp'.table = comp.table /\ UNCHANGED <<opened, files>>
      BY <1>0, <1>6 DEF CompactSyncDir, CompAt, CompGoto, CompType, handle
  <2> QED
      BY <2>1 DEF MergedNext, Merged, LastInput
<1>7. CASE CompactOpen
  <2>1. /\ comp.pc = "open" /\ comp'.pc = "swap" /\ comp'.inputs = comp.inputs
        /\ comp'.table = comp.table /\ UNCHANGED reader
        /\ opened' = opened \cup {comp.table}
      BY <1>0, <1>7 DEF CompactOpen, CompAt, CompGoto, CompType
  <2>2. comp.table \notin opened
      BY <2>1 DEF MergedNext
  <2>3. \A r \in Reader : reader[r].pc = "read" => comp.table \notin Range(reader[r].tables)
      BY <2>2 DEF FilesOpen
  <2> QED
      BY <2>1, <2>3 DEF MergedNext, Merged, LastInput
<1>8. CASE \E r \in Reader : Get(r)
  <2>1. UNCHANGED <<comp, opened, files>>
      BY <1>8, GetKeeps DEF handle, disk
  <2>2. ASSUME comp.pc = "swap"
        PROVE  \A r \in Reader :
                   reader'[r].pc = "read" => comp.table \notin Range(reader'[r].tables)
    <3>1. PICK r \in Reader : Get(r)
        BY <1>8
    <3>2. \/ reader'[r].pc # "read"
          \/ reader'[r].pc = "read" /\ reader'[r].tables = sstables
        BY <1>0, <3>1, GetReads
    <3>3. \A q \in Reader : q # r => reader'[q] = reader[q]
        BY <1>0, <3>1 DEF Get, GetMemtable, GetTables, GetRead, GetReadFails, GetReturn
    <3>4. comp.table \notin Range(sstables)
        BY <2>2, MergedNotListed DEF Merged
    <3> QED
        BY <2>2, <3>2, <3>3, <3>4 DEF MergedNext
  <2> QED
      BY <2>1, <2>2 DEF MergedNext, Merged, LastInput
<1>9. CASE Open \/ LoseHandle
  <2>1. comp'.pc = "idle"
      BY <1>9 DEF Open, LoseHandle, Modes, IdleComp
  <2> QED
      BY <2>1 DEF MergedNext, Merged
<1>10. CASE CloseTables
  <2>1. UNCHANGED <<comp, reader, files>> /\ opened' = opened \ Range(sstables)
      BY <1>10 DEF CloseTables, disk, dir
  <2>2. comp.pc = "swap" => comp.table \in opened'
      BY <2>1, MergedNotListed DEF MergedNext, Merged
  <2> QED
      BY <2>1, <2>2 DEF MergedNext, Merged, LastInput
<1>11. CASE CloseBegin \/ UNCHANGED vars
  <2>1. UNCHANGED <<comp, reader, files, opened>>
      BY <1>11 DEF CloseBegin, vars, disk, dir, handle
  <2> QED
      BY <2>1 DEF MergedNext, Merged, LastInput
<1>12. Exit \/ Kill \/ PowerLoss => LoseHandle
    BY DEF Exit, Kill, PowerLoss
<1> QED
    BY <1>1, <1>2, <1>3, <1>4, <1>5, <1>6, <1>7, <1>8, <1>9, <1>10, <1>11, <1>12
       DEF Next, Compact

LEMMA CleanupApartStep ==
    ASSUME ListInv, [Next]_vars
    PROVE  CleanupApart'
<1> USE DEF ListInv, TypeOK
<1>0. /\ sstables \in Seq(Table) /\ comp \in CompType /\ lastSeq \in Nat
      /\ comp.inputs \in Seq(Table) /\ writer.table \in Table /\ comp.table \in Table
    BY DEF HandleTypeOK, CallTypeOK, CompType, WriterType
<1>l. /\ Len(sstables) \in Nat /\ DOMAIN sstables = 1 .. Len(sstables)
      /\ \A i \in 1 .. Len(sstables) : sstables[i] \in Table /\ sstables[i].seq \in Nat
      /\ Len(comp.inputs) \in Nat /\ DOMAIN comp.inputs = 1 .. Len(comp.inputs)
      /\ \A i \in 1 .. Len(comp.inputs) : comp.inputs[i] \in Table /\ comp.inputs[i].seq \in Nat
    BY <1>0, ListFacts
<1>r. \A t \in Range(comp.inputs) : t.seq \in Nat
    BY <1>l DEF Range
<1>1. CASE FlushWriteTmp \/ FlushWriteTmpFails
  <2>1. UNCHANGED <<comp, sstables>> /\ lastSeq' \in FlushSeqs
      BY <1>1 DEF FlushWriteTmp, FlushWriteTmpFails
  <2>2. lastSeq' \in Nat /\ lastSeq <= lastSeq'
      BY <1>0, <2>1, BoundsAssumption DEF FlushSeqs
  <2>3. comp.pc = "cleanup" => \A t \in Range(comp.inputs) : t.seq <= lastSeq'
      BY <1>0, <1>r, <2>2 DEF CleanupApart
  <2> QED
      BY <2>1, <2>3 DEF CleanupApart
<1>2. CASE FlushInstall
  <2>1. /\ UNCHANGED <<comp, lastSeq>> /\ sstables' = Append(sstables, writer.table)
        /\ Flushing
      BY <1>2 DEF FlushInstall, WriterAt, Flushing
  <2>2. Range(sstables') = Range(sstables) \cup {writer.table}
    <3>1. /\ DOMAIN sstables' = 1 .. Len(sstables) + 1
          /\ \A i \in 1 .. Len(sstables) : sstables'[i] = sstables[i]
          /\ sstables'[Len(sstables) + 1] = writer.table
        BY <1>0, <2>1, AppendProperties
    <3>2. 1 .. Len(sstables) + 1 = (1 .. Len(sstables)) \cup {Len(sstables) + 1}
        BY <1>l
    <3> QED
        BY <1>l, <3>1, <3>2 DEF Range
  <2>3. comp.pc = "cleanup" => writer.table \notin Range(comp.inputs)
      BY <1>r, <2>1 DEF FlushFresh
  <2> QED
      BY <2>1, <2>2, <2>3 DEF CleanupApart
<1>3. CASE CompactSwap
  <2>1. /\ comp.pc = "swap" /\ comp'.pc = "cleanup" /\ comp'.inputs = comp.inputs
        /\ comp.inputs # <<>>
      BY <1>0, <1>3 DEF CompactSwap, CompAt, CompGoto, CompType, InputsLive, Merging
  <2>2. PICK n \in 1 .. Len(sstables) :
            n = Len(comp.inputs) /\ \A i \in 1 .. n : comp.inputs[i] = sstables[i]
    <3>1. Len(comp.inputs) \in 1 .. Len(sstables)
        BY <1>3, <1>0, <1>l, <2>1 DEF CompactSwap, IsPrefixOf
    <3>2. \A i \in 1 .. Len(comp.inputs) : comp.inputs[i] = sstables[i]
        BY <1>3, <1>l DEF CompactSwap, IsPrefixOf
    <3> QED
        BY <3>1, <3>2
  <2>3. Range(comp.inputs) \subseteq Range(sstables)
      BY <1>l, <2>2 DEF Range
  <2>4. comp.table \notin Range(comp.inputs)
      BY <2>1, <2>3, MergedNotListed DEF Merged
  <2>5. Range(sstables') \subseteq {comp.table} \cup {sstables[m] : m \in n + 1 .. Len(sstables)}
    <3>1. n \in 0 .. Len(sstables) /\ sstables' = SwapIn(comp.table, n, sstables)
        BY <1>3, <1>l, <2>2 DEF CompactSwap
    <3>2. /\ Len(sstables') = 1 + Len(sstables) - n /\ sstables' \in Seq(Table)
          /\ sstables'[1] = comp.table
          /\ \A i \in 2 .. 1 + Len(sstables) - n : sstables'[i] = sstables[n + i - 1]
        BY <1>0, <3>1, SwapInFacts
    <3>3. DOMAIN sstables' = 1 .. 1 + Len(sstables) - n
        BY <3>2, ListFacts
    <3>n. n \in Nat /\ Len(sstables) \in Nat /\ n <= Len(sstables)
        BY <1>l, <2>2
    <3>4. \A i \in 1 .. 1 + Len(sstables) - n :
              i = 1 \/ (i \in 2 .. 1 + Len(sstables) - n /\ n + i - 1 \in n + 1 .. Len(sstables))
        BY <3>n
    <3> QED
        BY <3>2, <3>3, <3>4 DEF Range
  <2>6. ASSUME NEW m \in n + 1 .. Len(sstables) PROVE sstables[m] \notin Range(comp.inputs)
    <3>1. ASSUME NEW i \in 1 .. n, sstables[i] = sstables[m] PROVE FALSE
      <4>1. i \in 1 .. Len(sstables) /\ m \in 1 .. Len(sstables) /\ i < m
          BY <1>l, <2>2, <2>6
      <4>2. Older(sstables[i], sstables[m])
          BY <1>l, <4>1 DEF ListOrder, Ascending
      <4> QED
          BY <1>l, <3>1, <4>1, <4>2 DEF Older
    <3> QED
        BY <1>l, <2>2, <3>1 DEF Range
  <2>7. Range(comp.inputs) \cap Range(sstables') = {}
      BY <2>4, <2>5, <2>6
  <2>8. \A t \in Range(comp.inputs) : t.seq <= lastSeq'
    <3>1. lastSeq' \in Nat /\ lastSeq <= lastSeq'
      <4>1. comp.table.seq \in Nat
          BY <1>0 DEF Table
      <4> QED
          BY <1>0, <1>3, <4>1, MaxOfTwo DEF CompactSwap
    <3>2. \A t \in Range(sstables) : t.seq <= lastSeq
        BY DEF ListOrder, Range
    <3> QED
        BY <1>0, <1>r, <2>3, <3>1, <3>2
  <2> QED
      BY <2>1, <2>7, <2>8 DEF CleanupApart
<1>4. CASE CompactCleanup
  <2>1. comp.pc = "cleanup" /\ UNCHANGED <<sstables, lastSeq>>
      BY <1>4 DEF CompactCleanup, CompAt
  <2> QED
      BY <1>4, <2>1, CleanupFacts DEF CleanupApart
<1>5. CASE comp'.pc # "cleanup"
    BY <1>5 DEF CleanupApart
<1>6. CASE UNCHANGED <<comp, sstables, lastSeq>>
    BY <1>6 DEF CleanupApart
<1>7. CASE CloseTables
  <2>1. sstables' = <<>> /\ UNCHANGED <<comp, lastSeq>>
      BY <1>7 DEF CloseTables
  <2>2. Range(sstables') = {}
      BY <2>1 DEF Range
  <2> QED
      BY <2>1, <2>2 DEF CleanupApart
<1>8. CASE Open \/ LoseHandle
  <2>1. comp'.pc # "cleanup"
      BY <1>8 DEF Open, LoseHandle, Modes, IdleComp
  <2> QED
      BY <2>1 DEF CleanupApart
<1>9. CASE Compact
  <2>1. CompactBegin => comp'.pc = "acquire"
      BY DEF CompactBegin, IdleComp
  <2>2. comp' = IdleComp => comp'.pc # "cleanup"
      BY DEF IdleComp
  <2> QED
      BY <1>0, <1>3, <1>4, <1>5, <1>9, <2>1, <2>2, CompactSteps
<1>10. Write => \/ FlushWriteTmp \/ FlushWriteTmpFails \/ FlushInstall
                \/ UNCHANGED <<comp, sstables, lastSeq>>
    BY WriteKeeps DEF Write, BeginWrite, AppendWAL, AppendWALFails, ApplyWrite, SyncWALFails,
           FlushRename, FlushRenameFails, FlushSyncDir, FlushOrphan, TruncateWAL,
           SyncReset, ResetWALFails, handle
<1>11. (\E r \in Reader : Get(r)) \/ CloseBegin \/ UNCHANGED vars
            => UNCHANGED <<comp, sstables, lastSeq>>
    BY GetKeeps DEF CloseBegin, vars, handle
<1>12. Exit \/ Kill \/ PowerLoss => LoseHandle
    BY DEF Exit, Kill, PowerLoss
<1> QED
    BY <1>1, <1>2, <1>6, <1>7, <1>8, <1>9, <1>10, <1>11, <1>12 DEF Next

----------------------------------------------------------------------------
LEMMA InputsDurableStep ==
    ASSUME ListInv, [Next]_vars
    PROVE  InputsDurable'
<1> USE DEF ListInv, TypeOK
<1>0. comp \in CompType /\ comp.inputs \in Seq(Table) /\ sstables \in Seq(Table)
    BY DEF CallTypeOK, CompType, HandleTypeOK
<1>1. CASE FlushRename
  <2>1. /\ Flushing /\ up = "open" /\ unsynced' = unsynced \cup {writer.table} /\ UNCHANGED comp
      BY <1>1 DEF FlushRename, WriterAt, Flushing
  <2>2. comp.pc \in {"open", "swap"} => comp.table # writer.table
      BY <2>1 DEF FlushFresh, MergedNext, Merged
  <2>3. CASE comp.pc \in {"open", "swap"}
    <3>1. \A i \in DOMAIN comp.inputs :
              i \in DOMAIN sstables /\ comp.inputs[i] = sstables[i]
        BY <1>0, <2>1, <2>3 DEF InputsLive, Merging, IsPrefixOf
    <3>2. \A i \in DOMAIN sstables : sstables[i] # writer.table
      <4>1. \A i \in DOMAIN sstables : sstables[i].seq \in Nat
          BY <1>0, ListFacts
      <4> QED
          BY <2>1, <4>1 DEF FlushFresh
    <3> QED
        BY <2>1, <2>2, <2>3, <3>1, <3>2 DEF InputsDurable, Range
  <2>4. CASE comp.pc = "cleanup"
    <3>1. \A t \in Range(comp.inputs) : t.seq \in Nat
        BY <1>0, ListFacts DEF Range
    <3>2. writer.table \notin Range(comp.inputs)
        BY <2>1, <2>4, <3>1 DEF FlushFresh
    <3> QED
        BY <2>1, <2>2, <2>4, <3>2 DEF InputsDurable
  <2> QED
      BY <2>1, <2>3, <2>4 DEF InputsDurable
<1>2. CASE Write /\ ~FlushRename
  <2>1. UNCHANGED comp /\ unsynced' \subseteq unsynced
      BY <1>2, WriteKeeps, WriteFrame
  <2> QED
      BY <2>1 DEF InputsDurable
<1>3. CASE CompactSyncDir
  <2>1. unsynced' = {}
      BY <1>3 DEF CompactSyncDir, SyncDir
  <2> QED
      BY <2>1 DEF InputsDurable
<1>4. CASE CompactOpen
  <2>1. /\ comp.pc = "open" /\ comp'.inputs = comp.inputs /\ comp'.table = comp.table
        /\ UNCHANGED unsynced
      BY <1>0, <1>4 DEF CompactOpen, CompAt, CompGoto, CompType, disk, dir
  <2> QED
      BY <2>1 DEF InputsDurable
<1>5. CASE CompactSwap
  <2>1. /\ comp.pc = "swap" /\ comp'.pc = "cleanup" /\ comp'.inputs = comp.inputs
        /\ UNCHANGED unsynced
      BY <1>0, <1>5 DEF CompactSwap, CompAt, CompGoto, CompType, disk, dir
  <2> QED
      BY <2>1 DEF InputsDurable
<1>6. CASE CompactCleanup
  <2>1. comp.pc = "cleanup" /\ UNCHANGED unsynced
      BY <1>6 DEF CompactCleanup, CompAt
  <2> QED
      BY <1>6, <2>1, CleanupFacts DEF InputsDurable
<1>7. CASE comp'.pc \in {"idle", "acquire", "merge", "create", "rename", "syncdir"}
    BY <1>7 DEF InputsDurable
<1>8. ASSUME Compact
      PROVE  \/ CompactSyncDir \/ CompactOpen \/ CompactSwap \/ CompactCleanup
             \/ comp'.pc \in {"idle", "acquire", "merge", "create", "rename", "syncdir"}
  <2>1. \/ CompactSyncDir \/ CompactOpen \/ CompactSwap \/ CompactCleanup
        \/ comp' = IdleComp \/ comp'.pc = "acquire" \/ CompactMerge
        \/ \E pc \in {"merge", "rename", "syncdir"} : comp' = [comp EXCEPT !.pc = pc]
      BY <1>8 DEF Compact, CompactBegin, CompactAcquire, CompactMergeFails,
         CompactWriteTmp, CompactWriteTmpFails, CompactRename, CompactRenameFails,
         CompactOrphan, CompactRaced, CompGoto, EndCompact, IdleComp
  <2>2. CompactMerge => comp'.pc = "create"
      BY <1>0 DEF CompactMerge, CompType
  <2>3. comp' = IdleComp => comp'.pc = "idle"
      BY DEF IdleComp
  <2>4. (\E pc \in {"merge", "rename", "syncdir"} : comp' = [comp EXCEPT !.pc = pc])
            => comp'.pc \in {"merge", "rename", "syncdir"}
      BY <1>0 DEF CompType
  <2> QED
      BY <2>1, <2>2, <2>3, <2>4
<1>9. (\E r \in Reader : Get(r)) \/ CloseBegin \/ CloseTables \/ UNCHANGED vars
          => UNCHANGED <<comp, unsynced>>
    BY GetKeeps DEF CloseBegin, CloseTables, vars, disk, dir
<1>10. Open \/ Exit \/ Kill \/ PowerLoss => comp'.pc = "idle"
  <2>1. Exit \/ Kill \/ PowerLoss => comp' = IdleComp
      BY DEF Exit, Kill, PowerLoss, LoseHandle
  <2> QED
      BY <2>1 DEF Open, Modes, IdleComp
<1>11. CASE UNCHANGED <<comp, unsynced>>
    BY <1>11 DEF InputsDurable
<1> QED
    BY <1>1, <1>2, <1>3, <1>4, <1>5, <1>6, <1>7, <1>8, <1>9, <1>10, <1>11 DEF Next

LEMMA FilesOpenStep ==
    ASSUME ListInv, [Next]_vars
    PROVE  FilesOpen'
<1> USE DEF ListInv, TypeOK
<1>0. /\ comp \in CompType /\ comp.inputs \in Seq(Table) /\ sstables \in Seq(Table)
      /\ comp.table \in Table /\ writer.table \in Table /\ reader \in [Reader -> ReaderType]
    BY DEF CallTypeOK, CompType, WriterType, HandleTypeOK
<1>1. CASE FlushInstall
  <2>1. /\ opened' = opened \cup {writer.table} /\ writer.table \in files
        /\ sstables' = Append(sstables, writer.table)
        /\ UNCHANGED <<files, reader, comp>>
      BY <1>1 DEF FlushInstall, WriterAt, FlushFresh, Flushing, disk, dir
  <2>2. \A i \in DOMAIN sstables' : sstables'[i] = writer.table
                                    \/ sstables'[i] \in Range(sstables)
      BY <1>0, <2>1, AppendProperties DEF Range
  <2>3. Range(sstables') \subseteq opened'
      BY <2>1, <2>2 DEF FilesOpen, Range
  <2> QED
      BY <2>1, <2>3 DEF FilesOpen
<1>2. CASE Write /\ ~FlushInstall
  <2>1. UNCHANGED <<comp, reader, sstables, opened>> /\ files \subseteq files'
      BY <1>2, WriteKeeps, WriteFrame
  <2> QED
      BY <2>1 DEF FilesOpen
<1>3. CASE CompactAcquire
  <2>1. UNCHANGED <<files, opened, sstables, reader>>
      BY <1>3 DEF CompactAcquire, disk, dir, handle
  <2>2. CASE IsPrefixOf(comp.inputs, sstables)
    <3>1. comp'.inputs = comp.inputs
        BY <1>0, <1>3, <2>2 DEF CompactAcquire, CompGoto, CompType
    <3>2. Range(comp.inputs) \subseteq Range(sstables)
        BY <1>0, <2>2 DEF IsPrefixOf, Range
    <3> QED
        BY <2>1, <3>1, <3>2 DEF FilesOpen
  <2>3. CASE ~IsPrefixOf(comp.inputs, sstables)
    <3>1. comp'.pc = "idle"
        BY <1>3, <2>3 DEF CompactAcquire, EndCompact, IdleComp
    <3> QED
        BY <2>1, <3>1 DEF FilesOpen
  <2> QED
      BY <2>2, <2>3
<1>4. CASE CompactOpen
  <2>1. /\ opened' = opened \cup {comp.table} /\ comp.table \in files /\ comp'.pc = "swap"
        /\ UNCHANGED <<files, sstables, reader>>
      BY <1>0, <1>4 DEF CompactOpen, CompAt, CompGoto, CompType, MergedNext, disk, dir
  <2> QED
      BY <2>1 DEF FilesOpen
<1>5. CASE CompactSwap
  <2>1. /\ comp.pc = "swap" /\ comp'.pc = "cleanup" /\ UNCHANGED <<files, opened, reader>>
      BY <1>0, <1>5 DEF CompactSwap, CompAt, CompGoto, CompType, disk, dir
  <2>2. Range(sstables') \subseteq Range(sstables) \cup {comp.table}
    <3>1. Len(comp.inputs) \in 0 .. Len(sstables)
        BY <1>0, <1>5 DEF CompactSwap, IsPrefixOf
    <3> DEFINE n == Len(comp.inputs)
    <3>2. /\ Len(sstables') = 1 + Len(sstables) - n /\ sstables' \in Seq(Table)
          /\ sstables'[1] = comp.table
          /\ \A i \in 2 .. 1 + Len(sstables) - n : sstables'[i] = sstables[n + i - 1]
        BY <1>0, <1>5, <3>1, SwapInFacts DEF CompactSwap
    <3>3. DOMAIN sstables' = 1 .. 1 + Len(sstables) - n /\ DOMAIN sstables = 1 .. Len(sstables)
        BY <1>0, <3>2, ListFacts
    <3>n. n \in Nat /\ Len(sstables) \in Nat /\ n <= Len(sstables)
        BY <1>0, <3>1
    <3> HIDE DEF n
    <3>4. \A i \in 1 .. 1 + Len(sstables) - n :
              \/ i = 1
              \/ i \in 2 .. 1 + Len(sstables) - n /\ n + i - 1 \in 1 .. Len(sstables)
        BY <3>n
    <3> QED
        BY <3>2, <3>3, <3>4 DEF Range
  <2> QED
      BY <2>1, <2>2 DEF FilesOpen, MergedNext
<1>6. CASE CompactRaced
  <2>1. /\ comp.pc = "swap" /\ comp'.pc = "idle" /\ opened' = opened \ {comp.table}
        /\ files \ {comp.table} \subseteq files' /\ UNCHANGED <<sstables, reader>>
      BY <1>6 DEF CompactRaced, CompAt, EndCompact, IdleComp
  <2>2. comp.table \notin Range(sstables)
      BY <2>1, MergedNotListed DEF Merged
  <2>3. \A r \in Reader : reader[r].pc = "read" => comp.table \notin Range(reader[r].tables)
      BY <2>1 DEF MergedNext
  <2> QED
      BY <2>1, <2>2, <2>3 DEF FilesOpen
<1>7. CASE CompactCleanup
  <2> DEFINE t == Head(comp.inputs)
  <2>1. /\ comp.pc = "cleanup" /\ ~Held(t) /\ opened' = opened \ {t}
        /\ UNCHANGED <<sstables, reader>>
      BY <1>7 DEF CompactCleanup, CompAt
  <2>2. /\ files \ {t} \subseteq files' /\ comp'.pc \in {"idle", "cleanup"}
        /\ t \in Range(comp.inputs)
      BY <1>7, CleanupFacts
  <2>3. t \notin Range(sstables)
      BY <2>1, <2>2 DEF CleanupApart
  <2>4. \A r \in Reader : reader[r].pc = "read" => t \notin Range(reader[r].tables)
      BY <2>1 DEF Held
  <2> QED
      BY <2>1, <2>2, <2>3, <2>4 DEF FilesOpen
<1>8. ASSUME Compact, ~CompactAcquire, ~CompactOpen, ~CompactSwap, ~CompactRaced,
             ~CompactCleanup
      PROVE  FilesOpen'
  <2>1. UNCHANGED <<opened, sstables, reader>> /\ files \subseteq files'
      BY <1>8 DEF Compact, CompactBegin, CompactMerge, CompactMergeFails, CompactWriteTmp,
         CompactWriteTmpFails, CompactRename, CompactRenameFails, CompactSyncDir,
         CompactOrphan, handle, disk, dir
  <2>2. comp'.pc # "merge"
    <3>1. \/ comp' = IdleComp \/ comp'.pc = "acquire" \/ CompactMerge
          \/ \E pc \in {"rename", "syncdir", "open"} : comp' = [comp EXCEPT !.pc = pc]
        BY <1>8 DEF Compact, CompactBegin, CompactMergeFails, CompactWriteTmp,
           CompactWriteTmpFails, CompactRename, CompactRenameFails, CompactSyncDir,
           CompactOrphan, CompGoto, EndCompact, IdleComp
    <3>2. CompactMerge => comp'.pc = "create"
        BY <1>0 DEF CompactMerge, CompType
    <3>3. comp' = IdleComp => comp'.pc = "idle"
        BY DEF IdleComp
    <3>4. (\E pc \in {"rename", "syncdir", "open"} : comp' = [comp EXCEPT !.pc = pc])
              => comp'.pc \in {"rename", "syncdir", "open"}
        BY <1>0 DEF CompType
    <3> QED
        BY <3>1, <3>2, <3>3, <3>4
  <2> QED
      BY <2>1, <2>2 DEF FilesOpen
<1>9. CASE \E r \in Reader : Get(r)
  <2>1. UNCHANGED <<comp, opened, sstables, files>>
      BY <1>9, GetKeeps DEF handle, disk, dir
  <2>2. PICK r \in Reader : Get(r)
      BY <1>9
  <2>3. \/ reader'[r].pc # "read"
        \/ reader'[r].pc = "read" /\ reader'[r].tables = sstables
      BY <1>0, <2>2, GetReads
  <2>4. \A q \in Reader : q # r => reader'[q] = reader[q]
      BY <1>0, <2>2 DEF Get, GetMemtable, GetTables, GetRead, GetReadFails, GetReturn
  <2> QED
      BY <2>1, <2>3, <2>4 DEF FilesOpen
<1>10. CASE Open
  <2>1. opened' = files' /\ UNCHANGED <<comp, reader>>
      BY <1>10 DEF Open, LoadSSTables
  <2>2. Range(sstables') = files
    <3>1. files \in SUBSET Table /\ IsFiniteSet(files)
        BY DEF DiskTypeOK, FiniteDisk
    <3> QED
        BY <1>10, <3>1, LoadOrdersFacts DEF Open, LoadSSTables
  <2>3. files' = files
      BY <1>10 DEF Open, LoadSSTables
  <2>4. comp.pc = "idle" /\ \A r \in Reader : reader[r].pc = "idle"
      BY <1>10 DEF Open, Modes
  <2> QED
      BY <2>1, <2>2, <2>3, <2>4 DEF FilesOpen
<1>11. CASE CloseTables
  <2>1. /\ UNCHANGED <<comp, reader, files>> /\ opened' = opened \ Range(sstables)
        /\ sstables' = <<>> /\ \A t \in Range(sstables) : ~Held(t)
      BY <1>11 DEF CloseTables, disk, dir
  <2>2. Range(sstables') = {}
      BY <2>1 DEF Range
  <2>3. /\ comp.pc = "merge" => Range(comp.inputs) \cap Range(sstables) = {}
        /\ \A r \in Reader : reader[r].pc = "read" =>
              Range(reader[r].tables) \cap Range(sstables) = {}
      BY <2>1 DEF Held
  <2> QED
      BY <2>1, <2>2, <2>3 DEF FilesOpen
<1>12. CASE LoseHandle
  <2>1. /\ opened' = {} /\ Range(sstables') = {} /\ comp'.pc = "idle"
        /\ \A r \in Reader : reader'[r].pc = "idle"
      BY <1>12 DEF LoseHandle, Range, IdleComp, IdleReader
  <2> QED
      BY <2>1 DEF FilesOpen
<1>13. CASE CloseBegin \/ UNCHANGED vars
  <2>1. UNCHANGED <<comp, reader, files, opened, sstables>>
      BY <1>13 DEF CloseBegin, vars, disk, dir, handle
  <2> QED
      BY <2>1 DEF FilesOpen
<1>14. Exit \/ Kill \/ PowerLoss => LoseHandle
    BY DEF Exit, Kill, PowerLoss
<1> QED
    BY <1>1, <1>2, <1>3, <1>4, <1>5, <1>6, <1>7, <1>8, <1>9, <1>10, <1>11, <1>12, <1>13, <1>14
       DEF Next

----------------------------------------------------------------------------
LEMMA InitListInv == Init => ListInv
<1> SUFFICES ASSUME Init PROVE ListInv
    OBVIOUS
<1> USE DEF Init
<1>e. <<>> \in Seq(Record) /\ <<>> \in Seq(Table)
    OBVIOUS
<1>1. DiskTypeOK
    BY <1>e DEF DiskTypeOK
<1>2. HandleTypeOK
  <2>1. sstables \in Seq(Table) /\ lastSeq \in Nat /\ memBytes \in Int
      BY <1>e
  <2>2. walBroken \in BOOLEAN /\ opened \in SUBSET Table /\ memtable \in Contents
      BY EntryTypes
  <2>3. up \in {"down", "open", "closing", "closed"}
      OBVIOUS
  <2> QED
      BY <2>1, <2>2, <2>3 DEF HandleTypeOK
<1>3. CallTypeOK
  <2>1. IdleWriter \in WriterType /\ IdleWriter.pc = "idle"
      BY EntryTypes DEF IdleWriter, WriterType, WriterPCs
  <2>2. IdleComp \in CompType
      BY <1>e, EntryTypes DEF IdleComp, CompType, CompPCs
  <2>3. IdleReader \in ReaderType /\ IdleReader.pc = "idle"
      BY <1>e, EntryTypes DEF IdleReader, ReaderType, ReaderPCs
  <2> QED
      BY <2>1, <2>2, <2>3 DEF CallTypeOK
<1>4. HistoryTypeOK
    BY DEF HistoryTypeOK
<1>5. FiniteDisk
    BY FS_EmptySet DEF FiniteDisk
<1>6. Modes
    BY DEF Modes, IdleWriter, IdleComp, IdleReader
<1>7. ListOrder
    BY DEF ListOrder, Ascending
<1>8. FlushFresh /\ InputsLive /\ MergedNext /\ CleanupApart /\ InputsDurable
    BY DEF FlushFresh, Flushing, InputsLive, Merging, MergedNext, Merged, CleanupApart,
           InputsDurable, IdleWriter, IdleComp
<1>9. FilesOpen
  <2>1. Range(sstables) = {}
      BY DEF Range
  <2> QED
      BY <2>1 DEF FilesOpen, IdleComp, IdleReader
<1> QED
    BY <1>1, <1>2, <1>3, <1>4, <1>5, <1>6, <1>7, <1>8, <1>9 DEF ListInv, TypeOK

LEMMA ListInvStep == ListInv /\ [Next]_vars => ListInv'
<1> SUFFICES ASSUME ListInv, [Next]_vars PROVE ListInv'
    OBVIOUS
<1>1. TypeOK'
  <2>1. CallTypeOK'
      BY WriterTypeStep, CompTypeStep, ReaderTypeStep DEF CallTypeOK
  <2> QED
      BY <2>1, DiskTypeStep, HandleTypeStep, HistoryTypeStep DEF TypeOK
<1> QED
    BY <1>1, FiniteDiskStep, ModesStep, ListOrderStep, FlushFreshStep, InputsLiveStep,
       MergedNextStep, CleanupApartStep, InputsDurableStep, FilesOpenStep DEF ListInv

\* In every reachable state, for any number of keys, readers and calls: the
\* table list in memory, the handles and the directory fit together as
\* ListInv says.
THEOREM ListConsistent == Spec => []ListInv
<1>1. Init => ListInv
    BY InitListInv
<1>2. ListInv /\ [Next]_vars => ListInv'
    BY ListInvStep
<1> QED
    BY <1>1, <1>2, PTL DEF Spec

\* Every variable keeps its type, and what waits for an fsync of the directory
\* is still in it.
THEOREM TypeCorrect == Spec => []TypeOK
<1>1. ListInv => TypeOK
    BY DEF ListInv
<1> QED
    BY <1>1, ListConsistent, PTL

\* The reference counts of acquireTables are enough: neither the removal of
\* compacted tables nor Close closes a file that a Get or a merge is reading.
THEOREM UsedTablesAreOpen == Spec => []HeldTablesOpen
<1>1. ListInv => HeldTablesOpen
    BY DEF ListInv, FilesOpen, HeldTablesOpen
<1> QED
    BY <1>1, ListConsistent, PTL

\* The list that Get searches from the back stays sorted by tableOlder through
\* flushes and compactions, as it is after a restart.
THEOREM TablesAreOrdered == Spec => []ListOrder
<1>1. ListInv => ListOrder
    BY DEF ListInv
<1> QED
    BY <1>1, ListConsistent, PTL
=============================================================================
