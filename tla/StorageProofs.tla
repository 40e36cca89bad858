--------------------------- MODULE StorageProofs ----------------------------
(***************************************************************************)
(* Theorems about what is beside the engine: the handles on one directory, *)
(* listings and topics, for any number of handles, writes, tables, keys    *)
(* and pages and topics of any length; and that the parts of Storage run   *)
(* apart.                                                                  *)
(***************************************************************************)
EXTENDS Storage, FiniteSetTheorems, SequenceTheorems, WellFoundedInduction, TLAPS

----------------------------------------------------------------------------
(* Order.                                                                  *)

LEMMA LargestOf ==
    ASSUME NEW S, S \subseteq Nat, IsFiniteSet(S), S # {}
    PROVE  \E m \in S : \A i \in S : i <= m
<1> DEFINE Bigger(i) == {j \in S : j > i}
           T == {Cardinality(Bigger(i)) : i \in S}
<1>1. \A i \in S : IsFiniteSet(Bigger(i)) /\ Cardinality(Bigger(i)) \in Nat
  <2> TAKE i \in S
  <2>1. Bigger(i) \in SUBSET S
    OBVIOUS
  <2> QED BY <2>1, FS_Subset, FS_CardinalityType
<1>2. T \subseteq Nat /\ T # {}
  BY <1>1
<1>3. PICK c \in T : \A n \in T : ~(<<n, c>> \in OpToRel(<, Nat))
  <2> HIDE DEF T
  <2> QED BY <1>2, NatLessThanWellFounded, WFMin
<1>4. PICK m \in S : c = Cardinality(Bigger(m))
  OBVIOUS
<1>5. \A i \in S : i <= m
  <2> SUFFICES ASSUME NEW i \in S, ~(i <= m) PROVE FALSE
    OBVIOUS
  <2>1. \A j \in S : j \in Nat
    OBVIOUS
  <2>2. /\ \A j \in S : j > i => j > m
        /\ i > m /\ ~(i > i)
    BY <2>1
  <2>3. Bigger(i) \in SUBSET Bigger(m) /\ Bigger(m) # Bigger(i)
    BY <2>2
  <2> HIDE DEF Bigger
  <2>4. Cardinality(Bigger(i)) <= Cardinality(Bigger(m)) /\ Cardinality(Bigger(i)) # Cardinality(Bigger(m))
    BY <2>3, <1>1, FS_Subset
  <2> DEFINE a == Cardinality(Bigger(i))
             b == Cardinality(Bigger(m))
  <2>5. a \in T /\ a \in Nat /\ b \in Nat
    BY <1>1
  <2>6. a <= b /\ a # b
    BY <2>4
  <2>7. ~(<<a, b>> \in OpToRel(<, Nat))
    BY <1>3, <1>4, <2>5
  <2> HIDE DEF a, b
  <2>8. a < b
    BY <2>5, <2>6
  <2> QED BY <2>5, <2>7, <2>8 DEF OpToRel
<1> QED BY <1>5

\* In a finite set with a strict order, as many are below an element as its
\* place among them says, and every place is taken.
LEMMA Ranks ==
    ASSUME NEW S, IsFiniteSet(S), NEW R,
           \A a \in S : <<a, a>> \notin R,
           \A a, b \in S : a # b => <<a, b>> \in R \/ <<b, a>> \in R,
           \A a, b, c \in S : <<a, b>> \in R /\ <<b, c>> \in R => <<a, c>> \in R
    PROVE  /\ Cardinality(S) \in Nat
           /\ \A i \in 1 .. Cardinality(S) :
                 \E t \in S : Cardinality({u \in S : <<u, t>> \in R}) = i - 1
           /\ \A t \in S : /\ Cardinality({u \in S : <<u, t>> \in R}) \in Nat
                           /\ Cardinality({u \in S : <<u, t>> \in R}) + 1 \in 1 .. Cardinality(S)
           /\ \A t, v \in S : Cardinality({u \in S : <<u, t>> \in R})
                                 < Cardinality({u \in S : <<u, v>> \in R}) => <<t, v>> \in R
           /\ \A t, v \in S : <<t, v>> \in R =>
                 Cardinality({u \in S : <<u, t>> \in R}) # Cardinality({u \in S : <<u, v>> \in R})
<1> DEFINE Below(t) == {u \in S : <<u, t>> \in R}
           n == Cardinality(S)
<1>0. n \in Nat
  BY FS_CardinalityType
<1>1. ASSUME NEW t \in S
      PROVE  Cardinality(Below(t)) \in Nat /\ Cardinality(Below(t)) < n
  <2>1. Below(t) \in SUBSET S /\ t \notin Below(t)
    OBVIOUS
  <2> HIDE DEF Below
  <2>2. /\ Cardinality(Below(t)) \in Nat /\ Cardinality(Below(t)) <= n
        /\ Cardinality(Below(t)) # n
    BY <2>1, FS_Subset, FS_CardinalityType
  <2> QED BY <1>0, <2>2
<1>2. ASSUME NEW t \in S, NEW v \in S, <<t, v>> \in R
      PROVE  Cardinality(Below(t)) < Cardinality(Below(v))
  <2>1. Below(t) \in SUBSET Below(v) /\ t \in Below(v) /\ t \notin Below(t) /\ Below(v) \in SUBSET S
    BY <1>2
  <2> HIDE DEF Below
  <2>2. IsFiniteSet(Below(v))
    BY <2>1, FS_Subset
  <2>3. /\ Cardinality(Below(t)) <= Cardinality(Below(v))
        /\ Cardinality(Below(t)) # Cardinality(Below(v))
    BY <2>1, <2>2, FS_Subset
  <2> QED BY <1>1, <2>3
<1>3. ASSUME NEW t \in S, NEW v \in S, Cardinality(Below(t)) < Cardinality(Below(v))
      PROVE  <<t, v>> \in R
  <2>1. t # v
    <3> SUFFICES ASSUME t = v PROVE FALSE
      OBVIOUS
    <3>1. Cardinality(Below(t)) < Cardinality(Below(t)) /\ Cardinality(Below(t)) \in Nat
      BY <1>1, <1>3
    <3> QED BY <3>1
  <2>2. ~(<<v, t>> \in R)
    <3> SUFFICES ASSUME <<v, t>> \in R PROVE FALSE
      OBVIOUS
    <3>1. Cardinality(Below(v)) < Cardinality(Below(t))
      BY <1>2
    <3> HIDE DEF Below
    <3> QED BY <1>1, <1>3, <3>1
  <2> QED BY <2>1, <2>2
<1>4. ASSUME NEW i \in 1 .. n PROVE \E t \in S : Cardinality(Below(t)) = i - 1
  <2> DEFINE f == [t \in S |-> Cardinality(Below(t))]
             T == 0 .. n - 1
  <2>1. f \in [S -> T]
    <3> SUFFICES ASSUME NEW t \in S PROVE Cardinality(Below(t)) \in T
      OBVIOUS
    <3> HIDE DEF Below
    <3> QED BY <1>0, <1>1
  <2>2. \A t, v \in S : f[t] = f[v] => t = v
    <3> SUFFICES ASSUME NEW t \in S, NEW v \in S, t # v PROVE f[t] # f[v]
      OBVIOUS
    <3>1. \/ Cardinality(Below(t)) < Cardinality(Below(v))
          \/ Cardinality(Below(v)) < Cardinality(Below(t))
      BY <1>2, ZenonT(60)
    <3> HIDE DEF Below
    <3> QED BY <1>1, <3>1
  <2>3. f \in Injection(S, T)
    <3> HIDE DEF f, T
    <3> QED BY <2>1, <2>2 DEF Injection, IsInjective
  <2>4. IsFiniteSet(T) /\ Cardinality(T) = n
    <3>1. 0 \in Int /\ n - 1 \in Int
      BY <1>0
    <3>2. IsFiniteSet(0 .. n - 1) /\ Cardinality(0 .. n - 1) = IF 0 > n - 1 THEN 0 ELSE n - 1 - 0 + 1
      BY <3>1, FS_Interval
    <3> QED BY <1>0, <3>2
  <2> HIDE DEF T
  <2>5. f \in Surjection(S, T)
    <3> HIDE DEF f
    <3> QED BY <2>3, <2>4, FS_Injection
  <2>6. i - 1 \in T
    BY <1>0 DEF T
  <2>7. PICK t \in S : f[t] = i - 1
    <3> HIDE DEF f
    <3> QED BY <2>5, <2>6 DEF Surjection
  <2> QED BY <2>7
<1>5. \A t \in S : Cardinality(Below(t)) \in Nat /\ Cardinality(Below(t)) + 1 \in 1 .. n
  <2> HIDE DEF Below
  <2> QED BY <1>0, <1>1
<1>6. \A t, v \in S : <<t, v>> \in R => Cardinality(Below(t)) # Cardinality(Below(v))
  <2> SUFFICES ASSUME NEW t \in S, NEW v \in S, <<t, v>> \in R
               PROVE  Cardinality(Below(t)) # Cardinality(Below(v))
    OBVIOUS
  <2> HIDE DEF Below
  <2> QED BY <1>1, <1>2
<1> QED BY <1>0, <1>3, <1>4, <1>5, <1>6

LEMMA SmallestOf ==
    ASSUME NEW S, S \subseteq Nat, S # {}
    PROVE  \E m \in S : \A i \in S : m <= i
<1>1. PICK m \in S : \A n \in S : ~(<<n, m>> \in OpToRel(<, Nat))
  BY NatLessThanWellFounded, WFMin
<1>2. ASSUME NEW i \in S PROVE m <= i
  <2>1. m \in Nat /\ i \in Nat /\ ~(<<i, m>> \in OpToRel(<, Nat))
    BY <1>1
  <2> QED BY <2>1 DEF OpToRel
<1> QED BY <1>2

----------------------------------------------------------------------------
(* The directory lock.                                                     *)

TableOfDir == [name : Nat \X BOOLEAN, ids : SUBSET Nat]

Tabs(q) == {q[i] : i \in DOMAIN q}

Held(q) == UNION {q[i].ids : i \in DOMAIN q}

OneFileAName(S) == \A t, u \in S : t.name = u.name => t = u

LEMMA DirCardinality == \A S : Dir!Cardinality(S) = Cardinality(S)
BY DEF Dir!Cardinality, Cardinality

\* Sorting a directory's tables keeps them all, each once.
LEMMA LoadOrderFacts ==
    ASSUME NEW S, S \subseteq TableOfDir, IsFiniteSet(S), OneFileAName(S)
    PROVE  /\ Dir!LoadOrder(S) \in Seq(TableOfDir)
           /\ Tabs(Dir!LoadOrder(S)) = S
           /\ \A t \in S : LET q == Dir!LoadOrder(S) IN t.name[1] <= q[Len(q)].name[1]
<1> DEFINE R == {p \in S \X S : Dir!Older(p[1], p[2])}
           n == Cardinality(S)
           place(t) == Cardinality({u \in S : <<u, t>> \in R})
<1>1. \A t \in S : t.name[1] \in Nat /\ t.name[2] \in BOOLEAN /\ t.name = <<t.name[1], t.name[2]>>
  BY DEF TableOfDir
<1>2. \A a \in S : <<a, a>> \notin R
  BY <1>1 DEF Dir!Older
<1>3. \A a, b \in S : a # b => <<a, b>> \in R \/ <<b, a>> \in R
  BY <1>1 DEF Dir!Older, OneFileAName
<1>4. \A a, b, c \in S : <<a, b>> \in R /\ <<b, c>> \in R => <<a, c>> \in R
  BY <1>1 DEF Dir!Older
<1>5. /\ n \in Nat
      /\ \A i \in 1 .. n : \E t \in S : place(t) = i - 1
      /\ \A t \in S : place(t) \in Nat /\ place(t) + 1 \in 1 .. n
      /\ \A t, v \in S : place(t) < place(v) => <<t, v>> \in R
      /\ \A t, v \in S : <<t, v>> \in R => place(t) # place(v)
  <2> HIDE DEF R
  <2> QED BY <1>2, <1>3, <1>4, Ranks
<1>6. \A t \in S : {u \in S : Dir!Older(u, t)} = {u \in S : <<u, t>> \in R}
  OBVIOUS
<1> DEFINE q == Dir!LoadOrder(S)
<1>7. q = [i \in 1 .. n |-> CHOOSE t \in S : place(t) = i - 1]
  <2> DEFINE here(i) == CHOOSE t \in S : place(t) = i - 1
             there(i) == CHOOSE t \in S : Dir!Cardinality({u \in S : Dir!Older(u, t)}) = i - 1
  <2>1. ASSUME NEW i PROVE there(i) = here(i)
    <3>1. \A t \in S : Dir!Cardinality({u \in S : Dir!Older(u, t)}) = place(t)
      BY <1>6, DirCardinality
    <3> HIDE DEF place
    <3> QED BY <3>1
  <2>2. q = [i \in 1 .. Dir!Cardinality(S) |-> there(i)]
    BY DEF Dir!LoadOrder
  <2>3. Dir!Cardinality(S) = n
    BY DirCardinality
  <2>4. q = [i \in 1 .. n |-> here(i)]
    <3> HIDE DEF here, there, q, n
    <3> QED BY <2>1, <2>2, <2>3
  <2> HIDE DEF place, q, n
  <2> QED BY <2>4
<1> HIDE DEF q, place, R
<1>8. /\ q \in [1 .. n -> S]
      /\ \A i \in 1 .. n : place(q[i]) = i - 1
  <2>1. ASSUME NEW i \in 1 .. n
        PROVE  q[i] \in S /\ place(q[i]) = i - 1
    BY <1>5, <1>7
  <2> QED BY <1>7, <2>1
<1>9. q \in Seq(S) /\ Len(q) = n /\ DOMAIN q = 1 .. n
  BY <1>5, <1>8
<1>10. ASSUME NEW t \in S PROVE t \in Tabs(q)
  <2> DEFINE k == place(t) + 1
  <2>1. k \in 1 .. n /\ q[k] \in S /\ place(q[k]) = place(t)
    <3>1. place(t) \in Nat /\ k \in 1 .. n
      BY <1>5
    <3>2. q[k] \in S /\ place(q[k]) = k - 1
      BY <1>8, <3>1
    <3> QED BY <3>1, <3>2
  <2>2. place(t) = place(q[k]) => t = q[k]
    BY <1>3, <1>5, <1>8, <2>1
  <2> QED BY <1>9, <2>1, <2>2 DEF Tabs
<1>11. Tabs(q) = S
  BY <1>8, <1>9, <1>10 DEF Tabs
<1>12. ASSUME NEW t \in S PROVE t.name[1] <= q[n].name[1]
  <2>1. n \in 1 .. n /\ place(t) \in Nat /\ place(t) + 1 \in 1 .. n
    <3>1. place(t) + 1 \in 1 .. n /\ place(t) \in Nat
      BY <1>5
    <3> QED BY <1>5, <3>1
  <2>2. q[n] \in S /\ place(q[n]) = n - 1
    BY <1>8, <2>1
  <2>3. CASE t = q[n]
    BY <1>1, <2>3
  <2>4. CASE <<t, q[n]>> \in R
    <3>1. Dir!Older(t, q[n])
      BY <2>4 DEF R
    <3> QED BY <1>1, <2>2, <3>1 DEF Dir!Older
  <2>5. CASE <<q[n], t>> \in R
    <3>1. place(q[n]) # place(t)
      BY <1>5, <2>2, <2>5
    <3>2. place(t) < place(q[n])
      BY <1>5, <2>1, <2>2, <3>1
    <3> QED BY <1>5, <2>2, <2>4, <3>2
  <2> QED BY <1>3, <2>2, <2>3, <2>4, <2>5
<1> QED BY <1>9, <1>11, <1>12 DEF q

\* The largest number in a directory's names.
LEMMA LargestNumber ==
    ASSUME NEW S, S \subseteq TableOfDir, IsFiniteSet(S)
    PROVE  LET last == Dir!Max({0} \cup {t.name[1] : t \in S}) IN
           /\ last \in Nat
           /\ \A t \in S : t.name[1] <= last
           /\ last = 0 \/ \E t \in S : t.name[1] = last
<1> DEFINE N == {t.name[1] : t \in S}
           f == [t \in S |-> t.name[1]]
<1>1. N \subseteq Nat
  BY DEF TableOfDir
<1>2. IsFiniteSet(N)
  <2>1. f \in Surjection(S, N)
    BY DEF Surjection
  <2> HIDE DEF f, N
  <2> QED BY <2>1, FS_Surjection
<1>3. IsFiniteSet({0} \cup N)
  <2> HIDE DEF N
  <2>1. IsFiniteSet(N \cup {0}) /\ N \cup {0} = {0} \cup N
    BY <1>2, FS_AddElement
  <2> QED BY <2>1
<1> HIDE DEF N
<1>4. PICK m \in {0} \cup N : \A i \in {0} \cup N : i <= m
  <2> DEFINE M == {0} \cup N
  <2>1. M \subseteq Nat /\ M # {} /\ IsFiniteSet(M)
    BY <1>1, <1>3
  <2> HIDE DEF M
  <2>2. \E m \in M : \A i \in M : i <= m
    BY <2>1, LargestOf
  <2> QED BY <2>2 DEF M
<1>5. \E x \in {0} \cup N : \A y \in {0} \cup N : x >= y
  BY <1>1, <1>4
<1> DEFINE last == Dir!Max({0} \cup N)
<1>6. last \in {0} \cup N /\ \A y \in {0} \cup N : last >= y
  BY <1>5 DEF Dir!Max
<1> HIDE DEF last
<1>7. last \in Nat /\ \A y \in N : y <= last
  <2>1. last \in Nat
    BY <1>1, <1>6
  <2>2. ASSUME NEW y \in N PROVE y <= last
    <3>1. y \in Nat /\ last >= y
      BY <1>1, <1>6
    <3> QED BY <2>1, <3>1
  <2> QED BY <2>1, <2>2
<1>8. (\A t \in S : t.name[1] <= last) /\ (last = 0 \/ \E t \in S : t.name[1] = last)
  BY <1>6, <1>7 DEF N
<1> QED BY <1>7, <1>8 DEF N, last

\* A flush puts a table at the end of the list.
LEMMA AtTheEnd ==
    ASSUME NEW q \in Seq(TableOfDir), NEW t \in TableOfDir
    PROVE  /\ Append(q, t) \in Seq(TableOfDir)
           /\ Tabs(Append(q, t)) = Tabs(q) \cup {t}
           /\ Held(Append(q, t)) = Held(q) \cup t.ids
           /\ \A p \in Seq(TableOfDir) : Dir!IsPrefix(p, q) =>
                 /\ Dir!IsPrefix(p, Append(q, t))
                 /\ \A i \in DOMAIN Append(q, t) : i > Len(p) =>
                       (i \in DOMAIN q /\ Append(q, t)[i] = q[i]) \/ Append(q, t)[i] = t
<1> DEFINE r == Append(q, t)
           n == Len(q)
<1>1. /\ r \in Seq(TableOfDir) /\ n \in Nat /\ Len(r) = n + 1
      /\ DOMAIN q = 1 .. n /\ DOMAIN r = 1 .. n + 1
      /\ r[n + 1] = t
      /\ \A i \in 1 .. n : r[i] = q[i]
  OBVIOUS
<1>2. ASSUME NEW p \in Seq(TableOfDir), Dir!IsPrefix(p, q)
      PROVE  Dir!IsPrefix(p, r)
  <2>1. Len(p) \in Nat /\ Len(p) <= n /\ SubSeq(p, 1, Len(p)) = SubSeq(q, 1, Len(p))
    BY <1>2 DEF Dir!IsPrefix
  <2>2. SubSeq(q, 1, Len(p)) = SubSeq(r, 1, Len(p))
    BY <1>1, <2>1
  <2> HIDE DEF r, n
  <2> QED BY <1>1, <2>1, <2>2 DEF Dir!IsPrefix
<1> HIDE DEF r, n
<1>3. \A i \in DOMAIN r : (i \in DOMAIN q /\ r[i] = q[i]) \/ (i = n + 1 /\ r[i] = t)
  BY <1>1
<1>4. Tabs(r) = Tabs(q) \cup {t}
  BY <1>1, <1>3 DEF Tabs
<1>5. Held(r) = Held(q) \cup t.ids
  <2>1. ASSUME NEW y \in Held(r) PROVE y \in Held(q) \cup t.ids
    <3>1. PICK i \in DOMAIN r : y \in r[i].ids
      BY DEF Held
    <3> QED BY <1>3, <3>1 DEF Held
  <2>2. ASSUME NEW y \in Held(q) \cup t.ids PROVE y \in Held(r)
    <3>1. CASE y \in Held(q)
      <4>1. PICK i \in DOMAIN q : y \in q[i].ids
        BY <3>1 DEF Held
      <4>2. i \in DOMAIN r /\ r[i] = q[i]
        BY <1>1
      <4> QED BY <4>1, <4>2 DEF Held
    <3>2. CASE y \in t.ids
      <4>1. n + 1 \in DOMAIN r
        BY <1>1
      <4> QED BY <1>1, <3>2, <4>1 DEF Held
    <3> QED BY <3>1, <3>2
  <2> QED BY <2>1, <2>2
<1> QED BY <1>1, <1>2, <1>3, <1>4, <1>5 DEF r

\* Compact puts a table in the place of the first of the list.
LEMMA InTheirPlace ==
    ASSUME NEW q \in Seq(TableOfDir), NEW p \in Seq(TableOfDir), NEW t \in TableOfDir,
           Dir!IsPrefix(p, q)
    PROVE  LET r == <<t>> \o SubSeq(q, Len(p) + 1, Len(q)) IN
           /\ r \in Seq(TableOfDir) /\ Len(r) = Len(q) - Len(p) + 1
           /\ Held(q) \subseteq Held(p) \cup Held(r)
           /\ t.ids \subseteq Held(r)
           /\ \A i \in DOMAIN r :
                 \/ i = 1 /\ r[i] = t
                 \/ i > 1 /\ i + Len(p) - 1 \in DOMAIN q /\ r[i] = q[i + Len(p) - 1]
           /\ \A i \in DOMAIN p : i \in DOMAIN q /\ q[i] = p[i]
<1> DEFINE r == <<t>> \o SubSeq(q, Len(p) + 1, Len(q))
           n == Len(p)
           k == Len(q)
<1>1. /\ n \in Nat /\ k \in Nat /\ n <= k /\ DOMAIN p = 1 .. n /\ DOMAIN q = 1 .. k
      /\ SubSeq(p, 1, n) = SubSeq(q, 1, n)
  BY DEF Dir!IsPrefix
<1>2. \A i \in 1 .. n : p[i] = q[i]
  <2> TAKE i \in 1 .. n
  <2>1. SubSeq(p, 1, n)[i] = p[i] /\ SubSeq(q, 1, n)[i] = q[i]
    BY <1>1
  <2> QED BY <1>1, <2>1
<1>3. /\ r \in Seq(TableOfDir) /\ Len(r) = k - n + 1 /\ r[1] = t
      /\ DOMAIN r = 1 .. k - n + 1
      /\ \A i \in 2 .. k - n + 1 : r[i] = q[n + i - 1]
  <2> DEFINE s == SubSeq(q, n + 1, k)
  <2>1. /\ s \in Seq(TableOfDir) /\ Len(s) = k - n
        /\ \A i \in 1 .. k - n : s[i] = q[n + i]
    <3> HIDE DEF n, k
    <3>0. k = Len(q)
      BY DEF k
    <3>1. s \in Seq(TableOfDir)
      BY <1>1, <3>0
    <3>2. Len(s) = k - n
      <4>1. Len(s) = IF n + 1 <= k THEN k - (n + 1) + 1 ELSE 0
        BY <1>1, <3>0
      <4>2. CASE n + 1 <= k
        BY <1>1, <4>1, <4>2
      <4>3. CASE ~(n + 1 <= k)
        BY <1>1, <4>1, <4>3
      <4> HIDE DEF s
      <4> QED BY <4>2, <4>3
    <3>3. \A i \in 1 .. k - n : s[i] = q[n + i]
      BY <1>1, <3>0
    <3> QED BY <3>1, <3>2, <3>3
  <2>2. r = <<t>> \o s
    OBVIOUS
  <2> HIDE DEF s, r, n, k
  <2>3. /\ r \in Seq(TableOfDir) /\ Len(r) = k - n + 1 /\ r[1] = t
        /\ DOMAIN r = 1 .. k - n + 1
    <3>1. <<t>> \in Seq(TableOfDir) /\ Len(<<t>>) = 1 /\ <<t>>[1] = t
      OBVIOUS
    <3>2. r \in Seq(TableOfDir)
      BY <2>1, <2>2, <3>1
    <3>3. Len(r) = 1 + (k - n)
      <4>1. Len(<<t>> \o s) = Len(<<t>>) + Len(s)
        BY <2>1, <3>1
      <4> QED BY <2>1, <2>2, <3>1, <4>1
    <3>4. r[1] = t
      BY <2>1, <2>2, <3>1
    <3> QED BY <1>1, <3>2, <3>3, <3>4
  <2>4. ASSUME NEW i \in 2 .. k - n + 1 PROVE r[i] = q[n + i - 1]
    <3>1. i - 1 \in 1 .. k - n /\ r[i] = s[i - 1]
      BY <1>1, <2>1, <2>2
    <3>2. s[i - 1] = q[n + (i - 1)] /\ n + (i - 1) = n + i - 1
      BY <1>1, <2>1, <3>1
    <3> QED BY <3>1, <3>2
  <2> QED BY <2>3, <2>4
<1> HIDE DEF r, n, k
<1>4. ASSUME NEW i \in DOMAIN r
      PROVE  (i = 1 /\ r[i] = t) \/ (i > 1 /\ i + n - 1 \in DOMAIN q /\ r[i] = q[i + n - 1])
  <2>1. CASE i = 1
    BY <1>3, <2>1
  <2>2. CASE i # 1
    <3>0. i \in 1 .. k - n + 1
      BY <1>3
    <3>1. i \in 2 .. k - n + 1 /\ n + i - 1 = i + n - 1 /\ i + n - 1 \in 1 .. k /\ i > 1
      BY <1>1, <2>2, <3>0
    <3> QED BY <1>1, <1>3, <3>1
  <2> QED BY <2>1, <2>2
<1>5. 1 \in DOMAIN r
  BY <1>1, <1>3
<1>6. ASSUME NEW i \in DOMAIN q
      PROVE  \/ i \in DOMAIN p /\ q[i] = p[i]
             \/ i - n + 1 \in DOMAIN r /\ r[i - n + 1] = q[i]
  <2>1. CASE i <= n
    BY <1>1, <1>2, <2>1
  <2>2. CASE ~(i <= n)
    <3>1. i - n + 1 \in 2 .. k - n + 1 /\ n + (i - n + 1) - 1 = i
      BY <1>1, <2>2
    <3>2. i - n + 1 \in DOMAIN r
      BY <1>1, <1>3, <3>1
    <3> QED BY <1>3, <3>1, <3>2
  <2> QED BY <2>1, <2>2
<1>7. Held(q) \subseteq Held(p) \cup Held(r)
  <2> SUFFICES ASSUME NEW y \in Held(q) PROVE y \in Held(p) \cup Held(r)
    OBVIOUS
  <2>1. PICK i \in DOMAIN q : y \in q[i].ids
    BY DEF Held
  <2> QED BY <1>6, <2>1 DEF Held
<1>8. t.ids \subseteq Held(r)
  BY <1>3, <1>5 DEF Held
<1>9. \A i \in DOMAIN p : i \in DOMAIN q /\ q[i] = p[i]
  BY <1>1, <1>2
<1> QED BY <1>3, <1>4, <1>7, <1>8, <1>9 DEF r, n, k

----------------------------------------------------------------------------
(* The invariant.  A name is doomed when a file of that name is to be      *)
(* removed: by the Compact that has just made it, if it is raced, or as an *)
(* input of one that cleans up.  The files that keep the writes are the    *)
(* others.                                                                 *)

DirStates == {"idle", "stat", "write", "rename", "swap", "cleanup"}

DirHandles ==
    [Handle -> [open : BOOLEAN, mem : SUBSET Nat, list : Seq(TableOfDir), last : Nat]]

DirComps == [Handle -> [pc : DirStates, inputs : Seq(TableOfDir), table : TableOfDir]]

DirTyped ==
    /\ files \subseteq TableOfDir /\ IsFiniteSet(files)
    /\ wal \subseteq Nat
    /\ sets \in Nat
    /\ handles \in DirHandles
    /\ comp \in DirComps

\* The inputs that a Compact has still to remove.
Pending(g) == IF comp[g].pc = "cleanup" THEN Tabs(comp[g].inputs) ELSE {}

Doomed(name) ==
    \E g \in Handle :
        \/ comp[g].pc = "swap" /\ comp[g].table.name = name
        \/ \E t \in Pending(g) : t.name = name

Base == {t \in files : ~Doomed(t.name)}

\* An open handle has the lock, memory that agrees with the directory, and a
\* number no table on its list or to be removed is above.
HandleOK(h) ==
    IF handles[h].open
    THEN LET q == handles[h].list
             last == handles[h].last
         IN  /\ lock = h
             /\ handles[h].mem = wal
             /\ 1 .. sets \subseteq wal \cup Held(q)
             /\ \A t \in Tabs(q) : t.name[1] <= last
             /\ q # <<>> => q[Len(q)].name[1] = last
             /\ \A g \in Handle : \A t \in Pending(g) : t.name[1] <= last
    ELSE handles[h].list = <<>>

\* The merged table holds what its inputs hold, and is named as newer.
Merged(h) ==
    Dir!AtWork(h) =>
        /\ comp[h].table.ids = Held(comp[h].inputs)
        /\ comp[h].table.name[2]
        /\ Len(comp[h].inputs) > 1
        /\ \A t \in Tabs(comp[h].inputs) : t.name[1] < comp[h].table.name[1]

\* While its handle is open, the list starts with the inputs, and behind them
\* are tables flushed meanwhile; what others remove is older.
StillFirst(h) ==
    LET p == comp[h].inputs
        q == handles[h].list
        number == comp[h].table.name[1]
    IN  handles[h].open /\ Dir!AtWork(h) =>
            /\ Dir!IsPrefix(p, q)
            /\ number <= handles[h].last + 1
            /\ \A i \in DOMAIN q : i > Len(p) =>
                  q[i] \in files /\ ~q[i].name[2] /\ number <= q[i].name[1]
            /\ \A g \in Handle : \A t \in Pending(g) : t.name[1] < number
            /\ comp[h].pc = "swap" => comp[h].table \in files

\* Between the look and the rename no file gets the merged table's name.
NameIsFree(h) ==
    comp[h].pc \in {"write", "rename"} => \A t \in files : t.name # comp[h].table.name

\* A .tmp file of that name is the one this Compact wrote.
OwnTmp(h) ==
    comp[h].pc = "rename" => \A t \in tmps : t.name = comp[h].table.name => t = comp[h].table

\* What is removed is older than a table that stays.
Outlived(h) ==
    comp[h].pc = "cleanup" =>
        /\ comp[h].inputs # <<>>
        /\ \E v \in Base : \A t \in Pending(h) : t.name[1] < v.name[1]

CompactOK(h) == Merged(h) /\ StillFirst(h) /\ NameIsFree(h) /\ OwnTmp(h) /\ Outlived(h)

NamesDiffer ==
    \A g, h \in Handle :
        Dir!AtWork(g) /\ Dir!AtWork(h) /\ comp[g].table.name = comp[h].table.name => g = h

DirInv ==
    /\ DirTyped
    /\ OneFileAName(files)
    /\ 1 .. sets \subseteq wal \cup UNION {t.ids : t \in Base}
    /\ NamesDiffer
    /\ \A h \in Handle : HandleOK(h) /\ CompactOK(h)

LEMMA NoneHeldByNone == Held(<<>>) = {} /\ Tabs(<<>>) = {}
BY DEF Held, Tabs

LEMMA ClosedAndIdle ==
    /\ Dir!Closed \in [open : BOOLEAN, mem : SUBSET Nat, list : Seq(TableOfDir), last : Nat]
    /\ Dir!IdleComp \in [pc : DirStates, inputs : Seq(TableOfDir), table : TableOfDir]
<1>1. <<>> \in Seq(TableOfDir)
  OBVIOUS
<1>2. [name |-> <<0, FALSE>>, ids |-> {}] \in TableOfDir
  BY DEF TableOfDir
<1> QED BY <1>1, <1>2 DEF Dir!Closed, Dir!IdleComp, DirStates

\* A handle that is open is the only one.
LEMMA OneIsOpen ==
    ASSUME DirInv, NEW g \in Handle, NEW h \in Handle, handles[g].open, handles[h].open
    PROVE  g = h
BY DEF DirInv, HandleOK

LEMMA Goes ==
    ASSUME comp \in DirComps, NEW h \in Handle, NEW pc \in DirStates, Dir!CompGoto(h, pc)
    PROVE  /\ comp' \in DirComps
           /\ \A g \in Handle \ {h} : comp'[g] = comp[g]
           /\ comp'[h].pc = pc
           /\ comp'[h].inputs = comp[h].inputs /\ comp'[h].table = comp[h].table
BY DEF DirComps, Dir!CompGoto

LEMMA Ends ==
    ASSUME comp \in DirComps, NEW h \in Handle, Dir!EndCompact(h)
    PROVE  comp' \in DirComps /\ comp'[h].pc = "idle" /\ \A g \in Handle \ {h} : comp'[g] = comp[g]
<1>1. comp'[h] = Dir!IdleComp /\ comp' \in DirComps /\ \A g \in Handle \ {h} : comp'[g] = comp[g]
  BY ClosedAndIdle DEF DirComps, Dir!EndCompact
<1> QED BY <1>1 DEF Dir!IdleComp

\* Compacts that start nothing doom nothing.
LEMMA LessDoomed ==
    ASSUME \A g \in Handle : Pending(g)' \subseteq Pending(g),
           NEW name,
           \A g \in Handle : comp'[g].pc = "swap" /\ comp'[g].table.name = name =>
                                comp[g].pc = "swap" /\ comp[g].table.name = name,
           Doomed(name)'
    PROVE  Doomed(name)
<1>1. PICK g \in Handle : \/ comp'[g].pc = "swap" /\ comp'[g].table.name = name
                          \/ \E t \in Pending(g)' : t.name = name
  BY DEF Doomed
<1>2. CASE comp'[g].pc = "swap" /\ comp'[g].table.name = name
  BY <1>2 DEF Doomed
<1>3. CASE \E t \in Pending(g)' : t.name = name
  BY <1>3 DEF Doomed
<1> QED BY <1>1, <1>2, <1>3

\* What is left to show of a step that writes nothing, opens nothing, and starts
\* no Compact and no clean-up: the files that keep the writes stay, what goes is
\* doomed, and the names of those at work stay free.
LEMMA QuietStep ==
    ASSUME DirInv, DirTyped', OneFileAName(files)', UNCHANGED <<wal, sets>>,
           \A g \in Handle :
              IF handles'[g].open
              THEN handles[g].open /\ handles'[g] = handles[g] /\ lock' = g
              ELSE handles'[g].list = <<>>,
           \A g \in Handle : Pending(g)' \subseteq Pending(g),
           \A g \in Handle : Dir!AtWork(g)' =>
              Dir!AtWork(g) /\ comp'[g].inputs = comp[g].inputs /\ comp'[g].table = comp[g].table,
           \A g \in Handle : comp'[g].pc = "cleanup" =>
              comp[g].pc = "cleanup" /\ comp'[g].inputs # <<>>,
           \A g \in Handle : comp'[g].pc = "swap" => comp[g].pc = "swap" \/ comp[g].table \in files',
           \A g \in Handle : NameIsFree(g)' /\ OwnTmp(g)',
           Base \subseteq Base',
           \A u \in files \ files' : \E g \in Handle :
              \/ ~handles[g].open /\ comp[g].pc = "swap" /\ comp[g].table.name = u.name
              \/ \E t \in Pending(g) : t.name = u.name
    PROVE  DirInv'
<1>1. 1 .. sets' \subseteq wal' \cup UNION {t.ids : t \in Base'}
  BY DEF DirInv
<1>2. NamesDiffer'
  BY DEF DirInv, NamesDiffer
<1>3. ASSUME NEW h \in Handle PROVE HandleOK(h)'
  <2>1. CASE handles'[h].open
    BY <2>1 DEF DirInv, HandleOK
  <2>2. CASE ~handles'[h].open
    BY <2>2 DEF HandleOK
  <2> QED BY <2>1, <2>2
<1>4. ASSUME NEW h \in Handle PROVE Merged(h)'
  BY DEF DirInv, CompactOK, Merged
<1>5. ASSUME NEW h \in Handle PROVE StillFirst(h)'
  <2> SUFFICES ASSUME handles'[h].open, Dir!AtWork(h)' PROVE StillFirst(h)'
    BY DEF StillFirst
  <2> DEFINE p == comp[h].inputs
             q == handles[h].list
             t == comp[h].table
  <2>1. /\ handles[h].open /\ Dir!AtWork(h) /\ handles'[h] = handles[h]
        /\ comp'[h].inputs = p /\ comp'[h].table = t
        /\ Merged(h) /\ StillFirst(h) /\ t \in TableOfDir /\ q \in Seq(TableOfDir)
    BY DEF DirInv, CompactOK, DirTyped, DirComps, DirHandles
  <2>2. /\ Dir!IsPrefix(p, q)
        /\ t.name[1] <= handles[h].last + 1
        /\ \A i \in DOMAIN q : i > Len(p) =>
              q[i] \in files /\ ~q[i].name[2] /\ t.name[1] <= q[i].name[1]
        /\ \A g \in Handle : \A u \in Pending(g) : u.name[1] < t.name[1]
        /\ comp[h].pc = "swap" => t \in files
    BY <2>1 DEF StillFirst
  <2>3. ASSUME NEW u \in files, t.name[1] <= u.name[1], u = t \/ ~u.name[2]
        PROVE  u \in files'
    <3> SUFFICES ASSUME u \notin files' PROVE FALSE
      OBVIOUS
    <3>1. PICK g \in Handle : \/ ~handles[g].open /\ comp[g].pc = "swap" /\ comp[g].table.name = u.name
                              \/ \E v \in Pending(g) : v.name = u.name
      OBVIOUS
    <3>2. CASE ~handles[g].open /\ comp[g].pc = "swap" /\ comp[g].table.name = u.name
      <4>1. Dir!AtWork(g) /\ Merged(g)
        BY <3>2 DEF Dir!AtWork, DirInv, CompactOK
      <4>2. u.name[2]
        BY <3>2, <4>1 DEF Merged
      <4>3. u = t
        BY <2>3, <4>2
      <4> QED BY <2>1, <3>2, <4>1, <4>3 DEF DirInv, NamesDiffer
    <3>3. CASE \E v \in Pending(g) : v.name = u.name
      <4>1. u.name[1] < t.name[1]
        BY <2>2, <3>3
      <4>2. u.name[1] \in Nat /\ t.name[1] \in Nat
        BY <2>1 DEF DirInv, DirTyped, TableOfDir
      <4> QED BY <2>3, <4>1, <4>2
    <3> QED BY <3>1, <3>2, <3>3
  <2>4. comp'[h].pc = "swap" => t \in files'
    <3>1. t.name[1] <= t.name[1]
      BY <2>1 DEF TableOfDir
    <3> QED BY <2>2, <2>3, <3>1
  <2>5. \A i \in DOMAIN q : i > Len(p) =>
              q[i] \in files' /\ ~q[i].name[2] /\ t.name[1] <= q[i].name[1]
    BY <2>2, <2>3
  <2>6. \A g \in Handle : \A u \in Pending(g)' : u.name[1] < t.name[1]
    BY <2>2
  <2> HIDE DEF p, q, t
  <2>7. handles'[h].list = q /\ handles'[h].last = handles[h].last
    BY <2>1 DEF q
  <2> QED BY <2>1, <2>2, <2>4, <2>5, <2>6, <2>7 DEF StillFirst
<1>6. ASSUME NEW h \in Handle PROVE Outlived(h)'
  <2> SUFFICES ASSUME comp'[h].pc = "cleanup" PROVE Outlived(h)'
    BY DEF Outlived
  <2>1. comp[h].pc = "cleanup" /\ comp'[h].inputs # <<>>
    OBVIOUS
  <2>2. PICK v \in Base : \A t \in Pending(h) : t.name[1] < v.name[1]
    BY <2>1 DEF DirInv, CompactOK, Outlived
  <2>3. v \in Base' /\ \A t \in Pending(h)' : t.name[1] < v.name[1]
    BY <2>2
  <2> QED BY <2>1, <2>3 DEF Outlived
<1> QED BY <1>1, <1>2, <1>3, <1>4, <1>5, <1>6 DEF DirInv, CompactOK

\* A Compact that only goes on, or gives up, with its handle as it was.
LEMMA GoesOnStep ==
    ASSUME DirInv, NEW h \in Handle, UNCHANGED <<lock, handles, wal, sets>>, comp' \in DirComps,
           \A g \in Handle \ {h} : comp'[g] = comp[g],
           Pending(h)' \subseteq Pending(h),
           Dir!AtWork(h)' =>
              Dir!AtWork(h) /\ comp'[h].inputs = comp[h].inputs /\ comp'[h].table = comp[h].table,
           comp'[h].pc = "cleanup" => comp[h].pc = "cleanup" /\ comp'[h].inputs # <<>>,
           comp'[h].pc = "swap" =>
              /\ comp[h].pc = "swap" \/ comp[h].table \in files'
              /\ \A t \in Base : t.name # comp[h].table.name,
           files' \subseteq TableOfDir, IsFiniteSet(files'), OneFileAName(files)',
           \A g \in Handle : NameIsFree(g)' /\ OwnTmp(g)',
           Base \subseteq files',
           \A u \in files \ files' :
              \/ ~handles[h].open /\ comp[h].pc = "swap" /\ comp[h].table.name = u.name
              \/ \E t \in Pending(h) : t.name = u.name
    PROVE  DirInv'
<1>1. DirTyped'
  BY DEF DirInv, DirTyped
<1>2. ASSUME NEW g \in Handle
      PROVE  /\ IF handles'[g].open
                THEN handles[g].open /\ handles'[g] = handles[g] /\ lock' = g
                ELSE handles'[g].list = <<>>
             /\ Pending(g)' \subseteq Pending(g)
             /\ Dir!AtWork(g)' =>
                  Dir!AtWork(g) /\ comp'[g].inputs = comp[g].inputs /\ comp'[g].table = comp[g].table
             /\ comp'[g].pc = "cleanup" => comp[g].pc = "cleanup" /\ comp'[g].inputs # <<>>
             /\ comp'[g].pc = "swap" => comp[g].pc = "swap" \/ comp[g].table \in files'
  <2>1. HandleOK(g)
    BY DEF DirInv
  <2>2. IF handles'[g].open
        THEN handles[g].open /\ handles'[g] = handles[g] /\ lock' = g
        ELSE handles'[g].list = <<>>
    BY <2>1 DEF HandleOK
  <2>3. CASE g = h
    BY <2>2, <2>3
  <2>4. CASE g # h
    <3>1. comp'[g] = comp[g]
      BY <2>4
    <3>2. CompactOK(g)
      BY DEF DirInv
    <3>3. Pending(g)' = Pending(g) /\ (Dir!AtWork(g)' <=> Dir!AtWork(g))
      BY <3>1 DEF Pending, Dir!AtWork
    <3> QED BY <2>2, <3>1, <3>2, <3>3 DEF CompactOK, Outlived
  <2> QED BY <2>3, <2>4
<1>3. Base \subseteq Base'
  <2> SUFFICES ASSUME NEW t \in Base, Doomed(t.name)' PROVE FALSE
    BY DEF Base
  <2>1. ~Doomed(t.name)
    BY DEF Base
  <2>2. ASSUME NEW g \in Handle, comp'[g].pc = "swap", comp'[g].table.name = t.name
        PROVE  comp[g].pc = "swap" /\ comp[g].table.name = t.name
    <3>1. CASE g # h
      BY <2>2, <3>1
    <3>2. CASE g = h
      BY <2>2, <3>2 DEF Dir!AtWork
    <3> QED BY <3>1, <3>2
  <2> DEFINE name == t.name
  <2>3. ~Doomed(name) /\ Doomed(name)'
    BY <2>1
  <2>4. \A g \in Handle : comp'[g].pc = "swap" /\ comp'[g].table.name = name =>
                                comp[g].pc = "swap" /\ comp[g].table.name = name
    BY <2>2
  <2> HIDE DEF name
  <2>5. Doomed(name)
    BY <1>2, <2>3, <2>4, LessDoomed
  <2> QED BY <2>3, <2>5
<1>4. \A u \in files \ files' : \E g \in Handle :
         \/ ~handles[g].open /\ comp[g].pc = "swap" /\ comp[g].table.name = u.name
         \/ \E t \in Pending(g) : t.name = u.name
  OBVIOUS
<1> QED BY <1>1, <1>2, <1>3, <1>4, QuietStep

\* What a Compact of h is and was.
LEMMA Unpacked ==
    ASSUME DirInv, NEW h \in Handle
    PROVE  /\ comp \in DirComps /\ handles \in DirHandles
           /\ comp[h].table \in TableOfDir /\ comp[h].inputs \in Seq(TableOfDir)
           /\ comp[h].pc \in DirStates
           /\ Merged(h) /\ StillFirst(h) /\ NameIsFree(h) /\ OwnTmp(h) /\ Outlived(h)
           /\ files \subseteq TableOfDir /\ IsFiniteSet(files) /\ OneFileAName(files)
           /\ Base \subseteq files
BY DEF DirInv, DirTyped, DirComps, CompactOK, Base

LEMMA StatStep == ASSUME DirInv, NEW h \in Handle, Dir!Stat(h) PROVE DirInv'
<1>1. comp[h].pc = "stat" /\ UNCHANGED <<lock, files, tmps, wal, handles, sets>>
  BY DEF Dir!Stat, Dir!CompAt
<1>2. /\ comp' \in DirComps
      /\ \A g \in Handle \ {h} : comp'[g] = comp[g]
      /\ \/ comp'[h].pc = "idle"
         \/ /\ comp'[h].pc = "write" /\ \A t \in files : t.name # comp[h].table.name
            /\ comp'[h].inputs = comp[h].inputs /\ comp'[h].table = comp[h].table
  <2>1. CASE comp[h].table.name \in Dir!Names(files)
    BY <2>1, Ends, Unpacked DEF Dir!Stat
  <2>2. CASE comp[h].table.name \notin Dir!Names(files)
    <3>1. Dir!CompGoto(h, "write") /\ \A t \in files : t.name # comp[h].table.name
      BY <2>2 DEF Dir!Stat, Dir!Names
    <3> QED BY <3>1, Goes, Unpacked DEF DirStates
  <2> QED BY <2>1, <2>2
<1>3. ASSUME NEW g \in Handle PROVE NameIsFree(g)' /\ OwnTmp(g)'
  <2>1. CASE g # h
    BY <1>1, <1>2, <2>1, Unpacked DEF NameIsFree, OwnTmp
  <2>2. CASE g = h
    BY <1>1, <1>2, <2>2 DEF NameIsFree, OwnTmp
  <2> QED BY <2>1, <2>2
<1>4. Pending(h)' \subseteq Pending(h)
  BY <1>2 DEF Pending
<1>5. Dir!AtWork(h)' =>
         Dir!AtWork(h) /\ comp'[h].inputs = comp[h].inputs /\ comp'[h].table = comp[h].table
  BY <1>1, <1>2 DEF Dir!AtWork
<1> QED BY <1>1, <1>2, <1>3, <1>4, <1>5, Unpacked, GoesOnStep DEF OneFileAName

LEMMA WriteTmpStep == ASSUME DirInv, NEW h \in Handle, Dir!WriteTmp(h) PROVE DirInv'
<1> DEFINE t == comp[h].table
<1>1. comp[h].pc = "write" /\ UNCHANGED <<lock, files, wal, handles, sets>>
  BY DEF Dir!WriteTmp, Dir!CompAt
<1>2. /\ comp' \in DirComps
      /\ \A g \in Handle \ {h} : comp'[g] = comp[g]
      /\ \/ comp'[h].pc = "idle" /\ tmps' \subseteq tmps
         \/ /\ comp'[h].pc = "rename"
            /\ \A u \in tmps : u.name # t.name
            /\ tmps' = tmps \cup {t}
            /\ comp'[h].inputs = comp[h].inputs /\ comp'[h].table = t
  <2>1. CASE t.name \in Dir!Names(tmps)
    BY <2>1, Ends, Unpacked DEF Dir!WriteTmp
  <2>2. CASE t.name \notin Dir!Names(tmps)
    <3>1. /\ Dir!CompGoto(h, "rename") /\ \A u \in tmps : u.name # t.name
          /\ tmps' = tmps \cup {t}
      BY <2>2 DEF Dir!WriteTmp, Dir!Names
    <3>2. "rename" \in DirStates
      BY DEF DirStates
    <3> HIDE DEF t
    <3> QED BY <3>1, <3>2, Goes, Unpacked DEF t
  <2> QED BY <2>1, <2>2
<1>3. ASSUME NEW g \in Handle PROVE NameIsFree(g)' /\ OwnTmp(g)'
  <2>1. CASE g # h
    <3>1. /\ comp'[g] = comp[g] /\ NameIsFree(g) /\ OwnTmp(g)
          /\ \A u \in tmps' : u \in tmps \/ u = t
      BY <1>2, <2>1, Unpacked
    <3>2. comp[g].pc = "rename" => comp[g].table.name # t.name
      BY <1>1, <2>1 DEF DirInv, NamesDiffer, Dir!AtWork
    <3> QED BY <1>1, <3>1, <3>2 DEF NameIsFree, OwnTmp
  <2>2. CASE g = h
    <3>1. NameIsFree(h)
      BY Unpacked
    <3> QED BY <1>1, <1>2, <2>2, <3>1 DEF NameIsFree, OwnTmp
  <2> QED BY <2>1, <2>2
<1>4. Pending(h)' \subseteq Pending(h)
  BY <1>2 DEF Pending
<1>5. Dir!AtWork(h)' =>
         Dir!AtWork(h) /\ comp'[h].inputs = comp[h].inputs /\ comp'[h].table = comp[h].table
  BY <1>1, <1>2 DEF Dir!AtWork
<1> HIDE DEF t
<1> QED BY <1>1, <1>2, <1>3, <1>4, <1>5, Unpacked, GoesOnStep DEF OneFileAName

LEMMA RenameStep == ASSUME DirInv, NEW h \in Handle, Dir!Rename(h) PROVE DirInv'
<1> DEFINE t == comp[h].table
<1>1. comp[h].pc = "rename" /\ UNCHANGED <<lock, wal, handles, sets>> /\ tmps' \subseteq tmps
  BY DEF Dir!Rename, Dir!CompAt
<1>2. /\ t \in TableOfDir
      /\ \A u \in files : u.name # t.name
      /\ \A u \in tmps : u.name = t.name => u = t
      /\ files \subseteq TableOfDir /\ IsFiniteSet(files) /\ OneFileAName(files) /\ Base \subseteq files
  BY <1>1, Unpacked DEF NameIsFree, OwnTmp
<1>3. /\ comp' \in DirComps
      /\ \A g \in Handle \ {h} : comp'[g] = comp[g]
      /\ \/ comp'[h].pc = "idle" /\ files' = files
         \/ /\ comp'[h].pc = "swap" /\ files' = files \cup {t}
            /\ comp'[h].inputs = comp[h].inputs /\ comp'[h].table = t
  <2>1. CASE t.name \notin Dir!Names(tmps)
    BY <2>1, Ends, Unpacked DEF Dir!Rename
  <2>2. CASE t.name \in Dir!Names(tmps)
    <3>1. Dir!Named(files, t.name) = {} /\ Dir!Named(tmps, t.name) = {t}
      BY <1>2, <2>2 DEF Dir!Named, Dir!Names
    <3>2. /\ Dir!CompGoto(h, "swap")
          /\ files' = (files \ Dir!Named(files, t.name)) \cup Dir!Named(tmps, t.name)
      BY <2>2 DEF Dir!Rename
    <3>3. files' = files \cup {t}
      BY <3>1, <3>2
    <3>4. "swap" \in DirStates
      BY DEF DirStates
    <3> HIDE DEF t
    <3> QED BY <3>2, <3>3, <3>4, Goes, Unpacked DEF t
  <2> QED BY <2>1, <2>2
<1>4. ASSUME NEW g \in Handle PROVE NameIsFree(g)' /\ OwnTmp(g)'
  <2>1. CASE g # h
    <3>1. /\ comp'[g] = comp[g] /\ NameIsFree(g) /\ OwnTmp(g)
          /\ \A u \in files' : u \in files \/ u = t
      BY <1>3, <2>1, Unpacked
    <3>2. comp[g].pc \in {"write", "rename"} => comp[g].table.name # t.name
      BY <1>1, <2>1 DEF DirInv, NamesDiffer, Dir!AtWork
    <3> QED BY <1>1, <3>1, <3>2 DEF NameIsFree, OwnTmp
  <2>2. CASE g = h
    BY <1>3, <2>2 DEF NameIsFree, OwnTmp
  <2> QED BY <2>1, <2>2
<1>5. Pending(h)' \subseteq Pending(h)
  BY <1>3 DEF Pending
<1>6. Dir!AtWork(h)' =>
         Dir!AtWork(h) /\ comp'[h].inputs = comp[h].inputs /\ comp'[h].table = comp[h].table
  BY <1>1, <1>3 DEF Dir!AtWork
<1> HIDE DEF t
<1>7. files' \subseteq TableOfDir /\ IsFiniteSet(files') /\ OneFileAName(files)' /\ files \subseteq files'
  <2>1. IsFiniteSet(files \cup {t})
    BY <1>2, FS_AddElement
  <2> QED BY <1>2, <1>3, <2>1 DEF OneFileAName
<1>8. comp'[h].pc = "swap" => t \in files' /\ \A u \in Base : u.name # t.name
  BY <1>2, <1>3
<1> QED BY <1>1, <1>2, <1>3, <1>4, <1>5, <1>6, <1>7, <1>8, GoesOnStep DEF t

\* Files that go are doomed.
LEMMA RemovalStep ==
    ASSUME DirInv, NEW h \in Handle, NEW name,
           UNCHANGED <<lock, tmps, handles, wal, sets>>,
           files' = files \ Dir!Named(files, name),
           \/ ~handles[h].open /\ comp[h].pc = "swap" /\ comp[h].table.name = name
           \/ \E t \in Pending(h) : t.name = name,
           comp' \in DirComps, \A g \in Handle \ {h} : comp'[g] = comp[g],
           Pending(h)' \subseteq Pending(h),
           comp'[h].pc = "idle" \/ (comp[h].pc = "cleanup" /\ comp'[h].pc = "cleanup" /\ comp'[h].inputs # <<>>)
    PROVE  DirInv'
<1>1. Doomed(name)
  BY DEF Doomed
<1>2. Base \subseteq files'
  BY <1>1 DEF Base, Dir!Named
<1>3. files' \in SUBSET files /\ \A u \in files \ files' : u.name = name
  BY DEF Dir!Named
<1>4. files' \subseteq TableOfDir /\ IsFiniteSet(files') /\ OneFileAName(files)'
  <2>1. IsFiniteSet(files')
    BY <1>3, Unpacked, FS_Subset
  <2> QED BY <1>3, <2>1, Unpacked DEF OneFileAName
<1>5. ASSUME NEW g \in Handle PROVE NameIsFree(g)' /\ OwnTmp(g)'
  <2>1. CASE g # h
    <3>1. comp'[g] = comp[g] /\ NameIsFree(g) /\ OwnTmp(g)
      BY <2>1, Unpacked
    <3> QED BY <1>3, <3>1 DEF NameIsFree, OwnTmp
  <2>2. CASE g = h
    BY <2>2 DEF NameIsFree, OwnTmp
  <2> QED BY <2>1, <2>2
<1>6. ~Dir!AtWork(h)'
  BY DEF Dir!AtWork
<1>7. \A u \in files \ files' :
         \/ ~handles[h].open /\ comp[h].pc = "swap" /\ comp[h].table.name = u.name
         \/ \E t \in Pending(h) : t.name = u.name
  BY <1>3
<1>8. comp'[h].pc # "swap"
  OBVIOUS
<1> QED BY <1>2, <1>4, <1>5, <1>6, <1>7, <1>8, GoesOnStep

LEMMA RacedStep == ASSUME DirInv, NEW h \in Handle, Dir!Raced(h) PROVE DirInv'
<1>1. /\ comp[h].pc = "swap" /\ ~Dir!IsPrefix(comp[h].inputs, handles[h].list)
      /\ files' = files \ Dir!Named(files, comp[h].table.name) /\ Dir!EndCompact(h)
      /\ UNCHANGED <<lock, tmps, handles, wal, sets>>
  BY DEF Dir!Raced, Dir!CompAt
<1>2. ~handles[h].open
  BY <1>1, Unpacked DEF StillFirst, Dir!AtWork
<1>3. comp' \in DirComps /\ comp'[h].pc = "idle" /\ \A g \in Handle \ {h} : comp'[g] = comp[g]
  BY <1>1, Ends, Unpacked
<1>4. Pending(h)' \subseteq Pending(h)
  BY <1>3 DEF Pending
<1> QED BY <1>1, <1>2, <1>3, <1>4, RemovalStep

LEMMA CleanupStep == ASSUME DirInv, NEW h \in Handle, Dir!Cleanup(h) PROVE DirInv'
<1> DEFINE p == comp[h].inputs
<1>1. /\ comp[h].pc = "cleanup"
      /\ files' = files \ Dir!Named(files, Head(p).name)
      /\ IF Len(p) > 1 THEN comp' = [comp EXCEPT ![h].inputs = Tail(@)] ELSE Dir!EndCompact(h)
      /\ UNCHANGED <<lock, tmps, handles, wal, sets>>
  BY DEF Dir!Cleanup, Dir!CompAt
<1>2. p \in Seq(TableOfDir) /\ p # <<>> /\ comp \in DirComps
  BY <1>1, Unpacked DEF Outlived
<1>3. 1 \in DOMAIN p /\ Head(p) = p[1]
  <2> HIDE DEF p
  <2> QED BY <1>2
<1>4. \E t \in Pending(h) : t.name = Head(p).name
  BY <1>1, <1>3 DEF Pending, Tabs
<1>5. CASE Len(p) > 1
  <2>1. /\ Tail(p) \in Seq(TableOfDir) /\ Tail(p) # <<>>
        /\ \A i \in DOMAIN Tail(p) : i + 1 \in DOMAIN p /\ Tail(p)[i] = p[i + 1]
    <3> HIDE DEF p
    <3>1. Tail(p) \in Seq(TableOfDir) /\ Len(Tail(p)) = Len(p) - 1 /\ Len(p) \in Nat
      BY <1>2
    <3>2. \A i \in 1 .. Len(p) - 1 : i + 1 \in DOMAIN p /\ Tail(p)[i] = p[i + 1]
      BY <1>2, <3>1
    <3>3. DOMAIN Tail(p) = 1 .. Len(p) - 1 /\ Len(Tail(p)) > 0
      BY <1>5, <3>1
    <3>4. Tail(p) # <<>>
      <4>1. \A s \in Seq(TableOfDir) : Len(s) > 0 => s # <<>>
        OBVIOUS
      <4> QED BY <3>1, <3>3, <4>1
    <3> QED BY <3>1, <3>2, <3>3, <3>4
  <2>2. /\ comp' \in DirComps /\ \A g \in Handle \ {h} : comp'[g] = comp[g]
        /\ comp'[h].pc = "cleanup" /\ comp'[h].inputs = Tail(p)
    BY <1>1, <1>2, <1>5, <2>1, ZenonT(40) DEF DirComps
  <2>3. Tabs(Tail(p)) \subseteq Tabs(p)
    BY <2>1 DEF Tabs
  <2>4. Pending(h)' \subseteq Pending(h)
    BY <1>1, <2>2, <2>3 DEF Pending
  <2> HIDE DEF p
  <2> QED BY <1>1, <1>4, <2>1, <2>2, <2>4, RemovalStep
<1>6. CASE ~(Len(p) > 1)
  <2>1. comp' \in DirComps /\ comp'[h].pc = "idle" /\ \A g \in Handle \ {h} : comp'[g] = comp[g]
    BY <1>1, <1>2, <1>6, Ends
  <2>2. Pending(h)' \subseteq Pending(h)
    BY <2>1 DEF Pending
  <2> HIDE DEF p
  <2> QED BY <1>1, <1>4, <2>1, <2>2, RemovalStep
<1> QED BY <1>5, <1>6

LEMMA DirInit == ASSUME Dir!Init, Dir!DirLockAssumption PROVE DirInv /\ clash = FALSE
<1> USE DEF Dir!Init
<1>1. DirTyped
  BY ClosedAndIdle, FS_EmptySet DEF DirTyped, DirHandles, DirComps
<1>2. \A h \in Handle : ~handles[h].open /\ handles[h].list = <<>> /\ comp[h].pc = "idle"
  BY DEF Dir!Closed, Dir!IdleComp
<1>3. OneFileAName(files) /\ 1 .. sets \subseteq wal \cup UNION {t.ids : t \in Base} /\ NamesDiffer
  BY <1>2 DEF OneFileAName, NamesDiffer, Dir!AtWork
<1>4. \A h \in Handle : HandleOK(h) /\ CompactOK(h)
  BY <1>2 DEF HandleOK, CompactOK, Merged, StillFirst, NameIsFree, OwnTmp, Outlived, Dir!AtWork
<1> QED BY <1>1, <1>3, <1>4 DEF DirInv

\* Steps of a handle that leave Compacts and what they remove as they were.
LEMMA SameWork ==
    ASSUME comp' = comp
    PROVE  /\ \A g \in Handle : Pending(g)' = Pending(g) /\ (Dir!AtWork(g)' <=> Dir!AtWork(g))
           /\ \A name : Doomed(name)' <=> Doomed(name)
BY DEF Pending, Doomed, Dir!AtWork

LEMMA OpenStep ==
    ASSUME DirInv, Dir!DirLockAssumption, NEW h \in Handle, Dir!Open(h)
    PROVE  DirInv'
<1> DEFINE q == Dir!LoadOrder(files)
           last == Dir!Max({0} \cup {t.name[1] : t \in files})
           r == [open |-> TRUE, mem |-> wal, list |-> q, last |-> last]
<1>1. /\ ~handles[h].open /\ comp[h].pc = "idle" /\ lock = Nobody /\ lock' = h /\ tmps' = {}
      /\ handles' = [handles EXCEPT ![h] = r]
      /\ UNCHANGED <<files, wal, comp, sets>>
  BY DEF Dir!Open, Dir!LockFile
<1>2. \A g \in Handle : ~handles[g].open /\ handles[g].list = <<>>
  <2> SUFFICES ASSUME NEW g \in Handle PROVE ~handles[g].open /\ handles[g].list = <<>>
    OBVIOUS
  <2>1. HandleOK(g)
    BY DEF DirInv
  <2> QED BY <1>1, <2>1 DEF HandleOK, Dir!DirLockAssumption
<1>3. /\ q \in Seq(TableOfDir) /\ Tabs(q) = files
      /\ \A t \in files : t.name[1] <= q[Len(q)].name[1]
      /\ last \in Nat
      /\ \A t \in files : t.name[1] <= last
      /\ last = 0 \/ \E t \in files : t.name[1] = last
  BY Unpacked, LoadOrderFacts, LargestNumber
<1>4. /\ r \in [open : BOOLEAN, mem : SUBSET Nat, list : Seq(TableOfDir), last : Nat]
      /\ r.open /\ r.mem = wal /\ r.list = q /\ r.last = last
  <2> HIDE DEF q, last
  <2> QED BY <1>3 DEF DirInv, DirTyped
<1> HIDE DEF q, last, r
<1>5. handles' \in DirHandles /\ handles'[h] = r /\ \A g \in Handle \ {h} : handles'[g] = handles[g]
  BY <1>1, <1>4, Unpacked DEF DirHandles
<1>6. DirTyped' /\ OneFileAName(files)' /\ NamesDiffer'
  BY <1>1, <1>5, SameWork DEF DirInv, DirTyped, OneFileAName, NamesDiffer
<1>7. Base' = Base
  BY <1>1, SameWork DEF Base
<1>8. 1 .. sets' \subseteq wal' \cup UNION {t.ids : t \in Base'}
  BY <1>1, <1>7 DEF DirInv
<1>9. HandleOK(h)'
  <2>1. 1 .. sets \subseteq wal \cup Held(q)
    <3>1. \A t \in Base : t \in Tabs(q)
      BY <1>3, Unpacked
    <3>2. \A t \in Base : t.ids \subseteq Held(q)
      BY <3>1 DEF Tabs, Held
    <3> QED BY <3>2 DEF DirInv
  <2>2. q # <<>> => q[Len(q)].name[1] = last
    <3> SUFFICES ASSUME q # <<>> PROVE q[Len(q)].name[1] = last
      OBVIOUS
    <3>1. Len(q) \in DOMAIN q
      BY <1>3
    <3>2. q[Len(q)] \in files
      BY <1>3, <3>1 DEF Tabs
    <3>3. PICK n \in Nat : n = q[Len(q)].name[1] /\ n <= last
      BY <1>3, <3>2, Unpacked DEF TableOfDir
    <3>4. last <= n
      BY <1>3, <3>3
    <3> QED BY <1>3, <3>3, <3>4
  <2>3. ASSUME NEW g \in Handle, NEW t \in Pending(g) PROVE t.name[1] <= last
    <3>1. comp[g].pc = "cleanup" /\ Outlived(g)
      BY <2>3, Unpacked DEF Pending
    <3>2. PICK v \in files : t.name[1] < v.name[1]
      BY <2>3, <3>1, Unpacked DEF Outlived
    <3>3. t \in TableOfDir
      BY <2>3, <3>1, Unpacked DEF Pending, Tabs
    <3>4. PICK m \in Nat, n \in Nat : m = t.name[1] /\ n = v.name[1]
      BY <3>2, <3>3, Unpacked DEF TableOfDir
    <3>5. m < n /\ n <= last
      BY <1>3, <3>2, <3>4
    <3> QED BY <1>3, <3>4, <3>5
  <2>4. /\ handles'[h].open /\ handles'[h].mem = wal' /\ handles'[h].list = q
        /\ handles'[h].last = last /\ lock' = h /\ sets' = sets /\ wal' = wal
    BY <1>1, <1>4, <1>5
  <2>5. \A g \in Handle : Pending(g)' = Pending(g)
    BY <1>1, SameWork
  <2> QED BY <1>3, <2>1, <2>2, <2>3, <2>4, <2>5 DEF HandleOK
<1>10. ASSUME NEW g \in Handle, g # h PROVE HandleOK(g)'
  BY <1>2, <1>5, <1>10 DEF HandleOK
<1>11. ASSUME NEW g \in Handle PROVE CompactOK(g)'
  <2>1. Merged(g)' /\ NameIsFree(g)' /\ OwnTmp(g)'
    BY <1>1, Unpacked, SameWork DEF Merged, NameIsFree, OwnTmp
  <2>2. Outlived(g)'
    BY <1>1, <1>7, Unpacked, SameWork DEF Outlived
  <2>3. StillFirst(g)'
    BY <1>1, <1>2, <1>5 DEF StillFirst, Dir!AtWork
  <2> QED BY <2>1, <2>2, <2>3 DEF CompactOK
<1> QED BY <1>6, <1>8, <1>9, <1>10, <1>11 DEF DirInv

LEMMA SetStep == ASSUME DirInv, NEW h \in Handle, Dir!Set(h) PROVE DirInv'
<1>1. /\ handles[h].open
      /\ sets' = sets + 1 /\ wal' = wal \cup {sets + 1}
      /\ handles' = [handles EXCEPT ![h].mem = @ \cup {sets + 1}]
      /\ UNCHANGED <<lock, files, tmps, comp>>
  BY DEF Dir!Set
<1>2. /\ handles'[h].open = handles[h].open /\ handles'[h].list = handles[h].list
      /\ handles'[h].last = handles[h].last
      /\ handles'[h].mem = handles[h].mem \cup {sets + 1}
      /\ \A g \in Handle \ {h} : handles'[g] = handles[g]
  BY <1>1, Unpacked DEF DirHandles
<1>3. sets + 1 \in Nat /\ 1 .. sets + 1 = 1 .. sets \cup {sets + 1}
  BY DEF DirInv, DirTyped
<1>4. DirTyped' /\ OneFileAName(files)' /\ NamesDiffer'
  BY <1>1, <1>3, SameWork DEF DirInv, DirTyped, DirHandles, OneFileAName, NamesDiffer
<1>5. Base' = Base
  BY <1>1, SameWork DEF Base
<1>6. 1 .. sets' \subseteq wal' \cup UNION {t.ids : t \in Base'}
  BY <1>1, <1>3, <1>5 DEF DirInv
<1>7. HandleOK(h)'
  <2>1. HandleOK(h)
    BY DEF DirInv
  <2> QED BY <1>1, <1>2, <1>3, <2>1, SameWork DEF HandleOK
<1>8. ASSUME NEW g \in Handle, g # h PROVE HandleOK(g)'
  <2>1. ~handles[g].open /\ HandleOK(g)
    BY <1>1, <1>8, OneIsOpen DEF DirInv
  <2> QED BY <1>2, <1>8, <2>1 DEF HandleOK
<1>9. ASSUME NEW g \in Handle PROVE CompactOK(g)'
  <2>1. Merged(g)' /\ NameIsFree(g)' /\ OwnTmp(g)'
    BY <1>1, Unpacked, SameWork DEF Merged, NameIsFree, OwnTmp
  <2>2. Outlived(g)'
    BY <1>1, <1>5, Unpacked, SameWork DEF Outlived
  <2>3. /\ handles'[g].open = handles[g].open /\ handles'[g].list = handles[g].list
        /\ handles'[g].last = handles[g].last
    BY <1>2
  <2>4. StillFirst(g)'
    BY <1>1, <2>3, Unpacked, SameWork DEF StillFirst
  <2> QED BY <2>1, <2>2, <2>4 DEF CompactOK
<1> QED BY <1>4, <1>6, <1>7, <1>8, <1>9 DEF DirInv

LEMMA FlushStep == ASSUME DirInv, NEW h \in Handle, Dir!Flush(h) PROVE DirInv'
<1> DEFINE t == [name |-> <<handles[h].last + 1, FALSE>>, ids |-> handles[h].mem]
           q == handles[h].list
           last == handles[h].last
<1>1. /\ handles[h].open
      /\ Dir!Named(files \cup tmps, t.name) = {}
      /\ files' = files \cup {t} /\ wal' = {}
      /\ handles' = [handles EXCEPT ![h].mem = {}, ![h].last = @ + 1, ![h].list = Append(@, t)]
      /\ UNCHANGED <<lock, tmps, comp, sets>>
  BY DEF Dir!Flush
<1>2. /\ handles \in DirHandles /\ last \in Nat /\ q \in Seq(TableOfDir)
      /\ handles[h].mem \subseteq Nat
  BY Unpacked DEF DirHandles
<1>3. /\ lock = h /\ handles[h].mem = wal
      /\ 1 .. sets \subseteq wal \cup Held(q)
      /\ \A u \in Tabs(q) : u.name[1] <= last
      /\ \A g \in Handle : \A u \in Pending(g) : u.name[1] <= last
  <2>1. HandleOK(h)
    BY DEF DirInv
  <2> QED BY <1>1, <2>1 DEF HandleOK
<1>4. /\ t \in TableOfDir /\ t.ids = wal /\ ~t.name[2] /\ t.name[1] = last + 1
      /\ \A u \in files : u.name # t.name
  <2>1. last + 1 \in Nat /\ handles[h].mem \in SUBSET Nat
    BY <1>2
  <2>2. t \in TableOfDir
    <3>1. \A n \in Nat, s \in SUBSET Nat : [name |-> <<n, FALSE>>, ids |-> s] \in TableOfDir
      BY DEF TableOfDir
    <3> QED BY <2>1, <3>1
  <2>3. t.ids = wal /\ ~t.name[2] /\ t.name[1] = last + 1
    BY <1>3
  <2> HIDE DEF t
  <2> QED BY <1>1, <2>2, <2>3 DEF Dir!Named
<1>5. /\ handles'[h].open /\ handles'[h].mem = {}
      /\ handles'[h].list = Append(q, t) /\ handles'[h].last = last + 1
      /\ \A g \in Handle \ {h} : handles'[g] = handles[g]
  BY <1>1, <1>2 DEF DirHandles
<1> HIDE DEF t, q
<1>6. /\ Append(q, t) \in Seq(TableOfDir)
      /\ Tabs(Append(q, t)) = Tabs(q) \cup {t}
      /\ Held(Append(q, t)) = Held(q) \cup t.ids
      /\ \A p \in Seq(TableOfDir) : Dir!IsPrefix(p, q) =>
            /\ Dir!IsPrefix(p, Append(q, t))
            /\ \A i \in DOMAIN Append(q, t) : i > Len(p) =>
                  (i \in DOMAIN q /\ Append(q, t)[i] = q[i]) \/ Append(q, t)[i] = t
  BY <1>2, <1>4, AtTheEnd
<1>7. DirTyped'
  <2>1. IsFiniteSet(files')
    BY <1>1, FS_AddElement, Unpacked
  <2>2. handles' \in DirHandles
    <3> DEFINE rec == [open : BOOLEAN, mem : SUBSET Nat, list : Seq(TableOfDir), last : Nat]
               r == [open |-> handles[h].open, mem |-> {}, list |-> Append(q, t), last |-> last + 1]
    <3>1. handles[h] \in rec
      BY <1>2 DEF DirHandles
    <3>2. handles'[h] = r
      <4>1. handles'[h] = [handles[h] EXCEPT !.mem = {}, !.last = @ + 1, !.list = Append(q, t)]
        BY <1>1, <1>2 DEF DirHandles, q
      <4> QED BY <3>1, <4>1
    <3>3. r \in rec
      <4>1. handles[h].open \in BOOLEAN /\ last + 1 \in Nat /\ {} \in SUBSET Nat
        BY <1>2, <3>1
      <4> HIDE DEF last
      <4> QED BY <1>6, <4>1
    <3>4. \A g \in Handle : handles'[g] \in rec
      <4> HIDE DEF r, rec
      <4> QED BY <1>2, <1>5, <3>2, <3>3 DEF DirHandles, rec
    <3>5. handles' = [g \in Handle |-> handles'[g]]
      BY <1>1, <1>2 DEF DirHandles
    <3> HIDE DEF r
    <3> QED BY <3>4, <3>5 DEF DirHandles
  <2> QED BY <1>1, <1>4, <2>1, <2>2 DEF DirInv, DirTyped
<1>8. OneFileAName(files)' /\ NamesDiffer'
  BY <1>1, <1>4, SameWork DEF DirInv, OneFileAName, NamesDiffer
<1>9. ~Doomed(t.name)
  <2> SUFFICES ASSUME Doomed(t.name) PROVE FALSE
    OBVIOUS
  <2>1. PICK g \in Handle : \/ comp[g].pc = "swap" /\ comp[g].table.name = t.name
                            \/ \E u \in Pending(g) : u.name = t.name
    BY DEF Doomed
  <2>2. CASE comp[g].pc = "swap" /\ comp[g].table.name = t.name
    BY <1>4, <2>2, Unpacked DEF Merged, Dir!AtWork
  <2>3. CASE \E u \in Pending(g) : u.name = t.name
    <3>1. last + 1 <= last
      BY <1>3, <1>4, <2>3
    <3> QED BY <1>2, <3>1
  <2> QED BY <2>1, <2>2, <2>3
<1>10. Base' = Base \cup {t}
  BY <1>1, <1>9, SameWork DEF Base
<1>11. 1 .. sets' \subseteq wal' \cup UNION {u.ids : u \in Base'}
  BY <1>1, <1>4, <1>10 DEF DirInv
<1>12. HandleOK(h)'
  <2>1. 1 .. sets \subseteq Held(Append(q, t))
    BY <1>3, <1>4, <1>6
  <2>2. \A u \in Tabs(Append(q, t)) : u.name[1] <= last + 1
    <3>1. ASSUME NEW u \in Tabs(q) PROVE u.name[1] <= last + 1
      <4>1. PICK n \in Nat : n = u.name[1]
        <5>1. u \in TableOfDir
          BY <1>2 DEF Tabs
        <5> QED BY <5>1 DEF TableOfDir
      <4>2. n <= last
        BY <1>3, <4>1
      <4> QED BY <1>2, <4>1, <4>2
    <3>2. t.name[1] <= last + 1
      BY <1>2, <1>4
    <3> QED BY <1>6, <3>1, <3>2
  <2>3. Append(q, t)[Len(Append(q, t))] = t
    <3>1. Len(Append(q, t)) = Len(q) + 1 /\ Append(q, t)[Len(q) + 1] = t
      BY <1>2, <1>4
    <3> QED BY <3>1
  <2>4. \A g \in Handle : \A u \in Pending(g)' : u.name[1] <= last + 1
    <3> SUFFICES ASSUME NEW g \in Handle, NEW u \in Pending(g) PROVE u.name[1] <= last + 1
      BY <1>1, SameWork
    <3>1. PICK n \in Nat : n = u.name[1]
      <4>1. u \in TableOfDir
        BY Unpacked DEF Pending, Tabs
      <4> QED BY <4>1 DEF TableOfDir
    <3>2. n <= last
      BY <1>3, <3>1
    <3> QED BY <1>2, <3>1, <3>2
  <2> QED BY <1>1, <1>3, <1>4, <1>5, <2>1, <2>2, <2>3, <2>4 DEF HandleOK
<1>13. ASSUME NEW g \in Handle, g # h PROVE HandleOK(g)'
  <2>1. ~handles[g].open /\ HandleOK(g)
    BY <1>1, <1>13, OneIsOpen DEF DirInv
  <2> QED BY <1>5, <1>13, <2>1 DEF HandleOK
<1>14. ASSUME NEW g \in Handle PROVE CompactOK(g)'
  <2>1. Merged(g)' /\ OwnTmp(g)'
    BY <1>1, Unpacked, SameWork DEF Merged, OwnTmp
  <2>2. NameIsFree(g)'
    BY <1>1, <1>4, Unpacked DEF NameIsFree, Merged, Dir!AtWork
  <2>3. Outlived(g)'
    BY <1>1, <1>10, Unpacked, SameWork DEF Outlived
  <2>4. StillFirst(g)'
    <3>1. CASE g # h
      <4>1. ~handles'[g].open
        BY <1>1, <1>5, <3>1, OneIsOpen
      <4> QED BY <4>1 DEF StillFirst
    <3>2. CASE g = h
      <4> SUFFICES ASSUME Dir!AtWork(h) PROVE StillFirst(h)'
        BY <1>1, <3>2, SameWork DEF StillFirst
      <4> DEFINE p == comp[h].inputs
                 number == comp[h].table.name[1]
      <4>1. /\ p \in Seq(TableOfDir) /\ number \in Nat
            /\ Dir!IsPrefix(p, q)
            /\ number <= last + 1
            /\ \A i \in DOMAIN q : i > Len(p) =>
                  q[i] \in files /\ ~q[i].name[2] /\ number <= q[i].name[1]
            /\ \A f \in Handle : \A u \in Pending(f) : u.name[1] < number
            /\ comp[h].pc = "swap" => comp[h].table \in files
        BY <1>1, Unpacked DEF StillFirst, q, TableOfDir
      <4> HIDE DEF p, number
      <4>2. number <= last + 1 + 1
        BY <1>2, <4>1
      <4>3. ASSUME NEW i \in DOMAIN Append(q, t), i > Len(p)
            PROVE  /\ Append(q, t)[i] \in files' /\ ~Append(q, t)[i].name[2]
                   /\ number <= Append(q, t)[i].name[1]
        BY <1>1, <1>4, <1>6, <4>1, <4>3
      <4>4. \A f \in Handle : \A u \in Pending(f)' : u.name[1] < number
        BY <1>1, <4>1, SameWork
      <4> QED BY <1>1, <1>5, <1>6, <4>1, <4>2, <4>3, <4>4 DEF StillFirst, p, number
    <3> QED BY <3>1, <3>2
  <2> QED BY <2>1, <2>2, <2>3, <2>4 DEF CompactOK
<1> QED BY <1>7, <1>8, <1>11, <1>12, <1>13, <1>14 DEF DirInv

\* A handle that ends is closed; its Compact goes on or ends with it.
LEMMA EndStep ==
    ASSUME DirInv, Dir!DirLockAssumption, NEW h \in Handle, Dir!Close(h) \/ Dir!Exit(h)
    PROVE  DirInv'
<1>1. /\ handles' = [handles EXCEPT ![h] = Dir!Closed]
      /\ comp' = comp \/ Dir!EndCompact(h)
      /\ lock' = IF handles[h].open THEN Nobody ELSE lock
      /\ UNCHANGED <<files, tmps, wal, sets>>
  BY DEF Dir!Close, Dir!Exit, Dir!EndCompact
<1>2. /\ handles' \in DirHandles /\ ~handles'[h].open /\ handles'[h].list = <<>>
      /\ \A g \in Handle \ {h} : handles'[g] = handles[g]
  <2>1. /\ handles' \in DirHandles /\ handles'[h] = Dir!Closed
        /\ \A g \in Handle \ {h} : handles'[g] = handles[g]
    BY <1>1, ClosedAndIdle, Unpacked DEF DirHandles
  <2> QED BY <2>1 DEF Dir!Closed
<1>3. /\ comp' \in DirComps /\ \A g \in Handle \ {h} : comp'[g] = comp[g]
      /\ comp'[h] = comp[h] \/ comp'[h].pc = "idle"
  <2>1. CASE comp' = comp
    BY <2>1, Unpacked
  <2>2. CASE Dir!EndCompact(h)
    BY <2>2, Ends, Unpacked
  <2> QED BY <1>1, <2>1, <2>2
<1>4. DirTyped' /\ OneFileAName(files)'
  BY <1>1, <1>2, <1>3 DEF DirInv, DirTyped, OneFileAName
<1>5. ASSUME NEW g \in Handle
      PROVE  IF handles'[g].open
             THEN handles[g].open /\ handles'[g] = handles[g] /\ lock' = g
             ELSE handles'[g].list = <<>>
  <2>1. CASE g = h
    BY <1>2, <2>1
  <2>2. CASE g # h
    <3>1. handles'[g] = handles[g] /\ HandleOK(g)
      BY <1>2, <2>2 DEF DirInv
    <3>2. CASE handles[g].open
      <4>1. ~handles[h].open
        BY <2>2, <3>2, OneIsOpen
      <4> QED BY <1>1, <3>1, <3>2, <4>1 DEF HandleOK
    <3>3. CASE ~handles[g].open
      BY <3>1, <3>3 DEF HandleOK
    <3> QED BY <3>2, <3>3
  <2> QED BY <2>1, <2>2
<1>6. ASSUME NEW g \in Handle PROVE comp'[g] = comp[g] \/ comp'[g].pc = "idle"
  BY <1>3
<1>7. ASSUME NEW g \in Handle
      PROVE  /\ Pending(g)' \subseteq Pending(g)
             /\ Dir!AtWork(g)' =>
                  Dir!AtWork(g) /\ comp'[g].inputs = comp[g].inputs /\ comp'[g].table = comp[g].table
             /\ comp'[g].pc = "cleanup" => comp[g].pc = "cleanup" /\ comp'[g].inputs # <<>>
             /\ comp'[g].pc = "swap" => comp[g].pc = "swap" /\ comp'[g].table = comp[g].table
             /\ NameIsFree(g)' /\ OwnTmp(g)'
  <2>1. CASE comp'[g] = comp[g]
    BY <1>1, <2>1, Unpacked DEF Pending, Dir!AtWork, Outlived, NameIsFree, OwnTmp
  <2>2. CASE comp'[g].pc = "idle"
    BY <2>2 DEF Pending, Dir!AtWork, NameIsFree, OwnTmp
  <2> QED BY <1>6, <2>1, <2>2
<1>8. Base \subseteq Base'
  <2> SUFFICES ASSUME NEW t \in Base, Doomed(t.name)' PROVE FALSE
    BY <1>1 DEF Base
  <2> DEFINE name == t.name
  <2>1. ~Doomed(name) /\ Doomed(name)'
    BY DEF Base
  <2> HIDE DEF name
  <2>2. Doomed(name)
    BY <1>7, <2>1, LessDoomed
  <2> QED BY <2>1, <2>2
<1>9. files \ files' = {}
  BY <1>1
<1> QED BY <1>1, <1>4, <1>5, <1>7, <1>8, <1>9, QuietStep

LEMMA MergeStep ==
    ASSUME DirInv, clash \in BOOLEAN, NEW h \in Handle, Dir!Merge(h), ~clash'
    PROVE  DirInv'
<1> DEFINE q == handles[h].list
           last == handles[h].last
           t == [name |-> <<q[Len(q)].name[1] + 1, TRUE>>, ids |-> UNION {q[i].ids : i \in DOMAIN q}]
           c == [pc |-> "stat", inputs |-> q, table |-> t]
<1>1. /\ handles[h].open /\ comp[h].pc = "idle" /\ Len(q) > 1
      /\ comp' = [comp EXCEPT ![h] = c]
      /\ \A g \in Handle : Dir!AtWork(g) => comp[g].table.name # t.name
      /\ UNCHANGED <<lock, files, tmps, wal, handles, sets>>
  BY DEF Dir!Merge, Dir!Last, Last, Dir!CompAt
<1>2. /\ comp \in DirComps /\ q \in Seq(TableOfDir) /\ last \in Nat
  BY Unpacked DEF DirHandles
<1>3. /\ q[Len(q)].name[1] = last
      /\ \A u \in Tabs(q) : u.name[1] <= last
      /\ \A g \in Handle : \A u \in Pending(g) : u.name[1] <= last
  <2>1. HandleOK(h)
    BY DEF DirInv
  <2>2. q # <<>>
    <3> HIDE DEF q
    <3> QED BY <1>1, <1>2
  <2> QED BY <1>1, <2>1, <2>2 DEF HandleOK
<1>4. t \in TableOfDir /\ t.ids = Held(q) /\ t.name[2] /\ t.name[1] = last + 1
  <2>1. t = [name |-> <<last + 1, TRUE>>, ids |-> Held(q)]
    BY <1>3 DEF Held
  <2>2. Held(q) \in SUBSET Nat
    <3> HIDE DEF q
    <3>1. ASSUME NEW i \in DOMAIN q PROVE q[i].ids \subseteq Nat
      <4>1. q[i] \in TableOfDir
        BY <1>2
      <4> QED BY <4>1 DEF TableOfDir
    <3> QED BY <3>1 DEF Held
  <2>3. \A n \in Nat, s \in SUBSET Nat : [name |-> <<n, TRUE>>, ids |-> s] \in TableOfDir
    BY DEF TableOfDir
  <2>4. last + 1 \in Nat
    BY <1>2
  <2> HIDE DEF t, last, q
  <2> QED BY <2>1, <2>2, <2>3, <2>4
<1>5. c \in [pc : DirStates, inputs : Seq(TableOfDir), table : TableOfDir]
  <2> HIDE DEF t, q
  <2> QED BY <1>2, <1>4 DEF DirStates
<1>6. c.pc = "stat" /\ c.inputs = q /\ c.table = t
  OBVIOUS
<1> HIDE DEF t, c
<1>7. /\ comp' \in DirComps /\ comp'[h] = c /\ \A g \in Handle \ {h} : comp'[g] = comp[g]
  BY <1>1, <1>2, <1>5 DEF DirComps
<1>8. DirTyped' /\ OneFileAName(files)'
  BY <1>1, <1>7 DEF DirInv, DirTyped, OneFileAName
<1>9. \A g \in Handle : Pending(g)' = Pending(g)
  BY <1>1, <1>6, <1>7 DEF Pending
<1>10. Base' = Base
  <2>1. \A g \in Handle : (comp'[g].pc = "swap" <=> comp[g].pc = "swap") /\ (g # h => comp'[g] = comp[g])
    BY <1>1, <1>6, <1>7
  <2>2. \A name : Doomed(name)' <=> Doomed(name)
    BY <1>1, <1>9, <2>1 DEF Doomed
  <2> QED BY <1>1, <2>2 DEF Base
<1>11. 1 .. sets' \subseteq wal' \cup UNION {u.ids : u \in Base'}
  BY <1>1, <1>10 DEF DirInv
<1>12. NamesDiffer'
  <2> SUFFICES ASSUME NEW f \in Handle, NEW g \in Handle, Dir!AtWork(f)', Dir!AtWork(g)',
                      comp'[f].table.name = comp'[g].table.name, f # g
               PROVE  FALSE
    BY DEF NamesDiffer
  <2>1. CASE f = h
    <3>1. comp'[g] = comp[g] /\ Dir!AtWork(g) /\ comp'[f].table = t
      BY <1>6, <1>7, <2>1 DEF Dir!AtWork
    <3> QED BY <1>1, <3>1
  <2>2. CASE g = h
    <3>1. comp'[f] = comp[f] /\ Dir!AtWork(f) /\ comp'[g].table = t
      BY <1>6, <1>7, <2>2 DEF Dir!AtWork
    <3> QED BY <1>1, <3>1
  <2>3. CASE f # h /\ g # h
    <3>1. comp'[f] = comp[f] /\ comp'[g] = comp[g] /\ Dir!AtWork(f) /\ Dir!AtWork(g)
      BY <1>7, <2>3 DEF Dir!AtWork
    <3> QED BY <3>1 DEF DirInv, NamesDiffer
  <2> QED BY <2>1, <2>2, <2>3
<1>13. ASSUME NEW g \in Handle PROVE HandleOK(g)'
  BY <1>1, <1>9 DEF DirInv, HandleOK
<1>14. CompactOK(h)'
  <2>1. comp'[h].pc = "stat" /\ comp'[h].inputs = q /\ comp'[h].table = t
    BY <1>6, <1>7
  <2>2. ASSUME NEW u \in TableOfDir, u.name[1] <= last PROVE u.name[1] < last + 1
    <3>1. u.name[1] \in Nat
      BY DEF TableOfDir
    <3> QED BY <1>2, <2>2, <3>1
  <2>3. Merged(h)'
    <3>1. \A u \in Tabs(q) : u.name[1] < t.name[1]
      <4> SUFFICES ASSUME NEW u \in Tabs(q) PROVE u.name[1] < t.name[1]
        OBVIOUS
      <4>1. u \in TableOfDir
        BY <1>2 DEF Tabs
      <4> QED BY <1>3, <1>4, <2>2, <4>1
    <3> QED BY <1>1, <1>4, <2>1, <3>1 DEF Merged
  <2>4. StillFirst(h)'
    <3>1. Dir!IsPrefix(q, q)
      BY <1>2 DEF Dir!IsPrefix
    <3>2. t.name[1] <= last + 1
      BY <1>2, <1>4
    <3>3. \A i \in DOMAIN q : ~(i > Len(q))
      BY <1>2
    <3>4. ASSUME NEW g \in Handle, NEW u \in Pending(g) PROVE u.name[1] < t.name[1]
      <4>1. u \in TableOfDir
        BY Unpacked DEF Pending, Tabs
      <4> QED BY <1>3, <1>4, <2>2, <4>1
    <3> QED BY <1>1, <1>9, <2>1, <3>1, <3>2, <3>3, <3>4 DEF StillFirst
  <2> QED BY <2>1, <2>3, <2>4 DEF CompactOK, NameIsFree, OwnTmp, Outlived
<1>15. ASSUME NEW g \in Handle, g # h PROVE CompactOK(g)'
  <2>1. comp'[g] = comp[g] /\ (Dir!AtWork(g)' <=> Dir!AtWork(g))
    BY <1>7, <1>15 DEF Dir!AtWork
  <2>2. Merged(g)' /\ NameIsFree(g)' /\ OwnTmp(g)'
    BY <1>1, <2>1, Unpacked DEF Merged, NameIsFree, OwnTmp
  <2>3. Outlived(g)'
    BY <1>9, <1>10, <2>1, Unpacked DEF Outlived
  <2>4. StillFirst(g)'
    <3>1. ~handles'[g].open
      BY <1>1, <1>15, OneIsOpen
    <3> QED BY <3>1 DEF StillFirst
  <2> QED BY <2>2, <2>3, <2>4 DEF CompactOK
<1> QED BY <1>8, <1>11, <1>12, <1>13, <1>14, <1>15, SMTT(30) DEF DirInv

LEMMA SwapStep == ASSUME DirInv, NEW h \in Handle, Dir!Swap(h) PROVE DirInv'
<1> DEFINE t == comp[h].table
           p == comp[h].inputs
           q == handles[h].list
           r == <<t>> \o SubSeq(q, Len(p) + 1, Len(q))
           number == t.name[1]
           last == handles[h].last
           newLast == Dir!Max({last, number})
<1>1. /\ comp[h].pc = "swap"
      /\ Dir!IsPrefix(p, q)
      /\ handles' = [handles EXCEPT ![h].list = r, ![h].last = newLast]
      /\ Dir!CompGoto(h, "cleanup")
      /\ UNCHANGED <<lock, files, tmps, wal, sets>>
  BY DEF Dir!Swap, Dir!CompAt
<1>2. /\ t \in TableOfDir /\ p \in Seq(TableOfDir) /\ q \in Seq(TableOfDir)
      /\ last \in Nat /\ number \in Nat
      /\ handles \in DirHandles /\ comp \in DirComps
      /\ handles[h] \in [open : BOOLEAN, mem : SUBSET Nat, list : Seq(TableOfDir), last : Nat]
  BY Unpacked DEF DirHandles, TableOfDir
<1>3. Merged(h) /\ StillFirst(h) /\ HandleOK(h) /\ Dir!AtWork(h)
  BY <1>1, Unpacked DEF DirInv, Dir!AtWork
<1>4. /\ t.ids = Held(p) /\ t.name[2] /\ Len(p) > 1
      /\ \A u \in Tabs(p) : u.name[1] < number
  BY <1>3 DEF Merged
<1>5. handles[h].open
  <2> SUFFICES ASSUME ~handles[h].open PROVE FALSE
    OBVIOUS
  <2>1. q = <<>>
    BY <1>3 DEF HandleOK
  <2> HIDE DEF p, q
  <2> QED BY <1>1, <1>2, <1>4, <2>1 DEF Dir!IsPrefix
<1>6. /\ lock = h /\ handles[h].mem = wal
      /\ 1 .. sets \subseteq wal \cup Held(q)
      /\ \A u \in Tabs(q) : u.name[1] <= last
      /\ q # <<>> => q[Len(q)].name[1] = last
      /\ \A g \in Handle : \A u \in Pending(g) : u.name[1] <= last
  BY <1>3, <1>5 DEF HandleOK
<1>7. /\ \A i \in DOMAIN q : i > Len(p) =>
            q[i] \in files /\ ~q[i].name[2] /\ number <= q[i].name[1]
      /\ \A g \in Handle : \A u \in Pending(g) : u.name[1] < number
      /\ t \in files
  BY <1>1, <1>3, <1>5 DEF StillFirst
<1>8. newLast \in Nat /\ last <= newLast /\ number <= newLast /\ (newLast = last \/ newLast = number)
  <2> HIDE DEF last, number
  <2>1. \E x \in {last, number} : \A y \in {last, number} : x >= y
    BY <1>2
  <2>2. newLast \in {last, number} /\ \A y \in {last, number} : newLast >= y
    BY <2>1 DEF Dir!Max
  <2> HIDE DEF newLast
  <2> QED BY <1>2, <2>2
<1>9. /\ comp' \in DirComps /\ \A g \in Handle \ {h} : comp'[g] = comp[g]
      /\ comp'[h].pc = "cleanup" /\ comp'[h].inputs = p /\ comp'[h].table = t
  BY <1>1, <1>2, Goes DEF DirStates
<1> HIDE DEF t, p, q, last, newLast
<1>10. /\ r \in Seq(TableOfDir) /\ Len(r) = Len(q) - Len(p) + 1
       /\ Held(q) \subseteq Held(p) \cup Held(r)
       /\ t.ids \subseteq Held(r)
       /\ \A i \in DOMAIN r :
             \/ i = 1 /\ r[i] = t
             \/ i > 1 /\ i + Len(p) - 1 \in DOMAIN q /\ r[i] = q[i + Len(p) - 1]
       /\ \A i \in DOMAIN p : i \in DOMAIN q /\ q[i] = p[i]
  BY <1>1, <1>2, InTheirPlace
<1> HIDE DEF r
<1>11. /\ handles' \in DirHandles
       /\ handles'[h].open /\ handles'[h].mem = wal /\ handles'[h].list = r /\ handles'[h].last = newLast
       /\ \A g \in Handle \ {h} : handles'[g] = handles[g]
  <2>1. handles'[h] = [handles[h] EXCEPT !.list = r, !.last = newLast]
    BY <1>1, <1>2 DEF DirHandles
  <2>2. PICK s \in [open : BOOLEAN, mem : SUBSET Nat, list : Seq(TableOfDir), last : Nat] :
           s = handles[h]
    BY <1>2
  <2>3. r \in Seq(TableOfDir) /\ newLast \in Nat
    BY <1>8, <1>10
  <2>4. handles'[h] = [s EXCEPT !.list = r, !.last = newLast]
    BY <2>1, <2>2
  <2>5. handles'[h] \in [open : BOOLEAN, mem : SUBSET Nat, list : Seq(TableOfDir), last : Nat]
    BY <2>3, <2>4
  <2>6. /\ handles'[h].list = r /\ handles'[h].last = newLast
        /\ handles'[h].open = s.open /\ handles'[h].mem = s.mem
    BY <2>4
  <2>7. handles'[h].open /\ handles'[h].mem = wal
    BY <1>5, <1>6, <2>2, <2>6
  <2> QED BY <1>1, <1>2, <2>5, <2>6, <2>7 DEF DirHandles
<1>12. DirTyped' /\ OneFileAName(files)'
  BY <1>1, <1>9, <1>11 DEF DirInv, DirTyped, OneFileAName
<1>13. Pending(h)' = Tabs(p) /\ \A g \in Handle \ {h} : Pending(g)' = Pending(g)
  BY <1>9 DEF Pending
<1>14. \A g \in Handle : \A u \in Pending(g)' : u.name[1] < number
  BY <1>4, <1>7, <1>13
<1>15. \A g \in Handle : Dir!AtWork(g)' => g # h /\ Dir!AtWork(g)
  BY <1>9 DEF Dir!AtWork
\* What is on the new list is on the disk to stay.
<1>16. ASSUME NEW u \in files, u = t \/ ~u.name[2], number <= u.name[1]
       PROVE  u \in Base'
  <2> SUFFICES ASSUME Doomed(u.name)' PROVE FALSE
    BY <1>1 DEF Base
  <2>1. PICK g \in Handle : \/ comp'[g].pc = "swap" /\ comp'[g].table.name = u.name
                            \/ \E v \in Pending(g)' : v.name = u.name
    BY DEF Doomed
  <2>2. CASE comp'[g].pc = "swap" /\ comp'[g].table.name = u.name
    <3>1. g # h /\ Dir!AtWork(g) /\ comp'[g] = comp[g] /\ Merged(g)
      BY <1>9, <2>2, Unpacked DEF Dir!AtWork
    <3>2. u = t
      BY <1>16, <2>2, <3>1 DEF Merged
    <3> QED BY <1>3, <2>2, <3>1, <3>2 DEF DirInv, NamesDiffer, t
  <2>3. CASE \E v \in Pending(g)' : v.name = u.name
    <3>1. u.name[1] < number
      BY <1>14, <2>3
    <3>2. u.name[1] \in Nat
      BY Unpacked DEF TableOfDir
    <3> QED BY <1>2, <1>16, <3>1, <3>2
  <2> QED BY <2>1, <2>2, <2>3
<1>17. t \in Base'
  BY <1>2, <1>7, <1>16
<1>18. Tabs(r) \subseteq Base'
  <2> SUFFICES ASSUME NEW i \in DOMAIN r PROVE r[i] \in Base'
    BY DEF Tabs
  <2>1. CASE r[i] = t
    BY <1>17, <2>1
  <2>2. CASE i > 1 /\ i + Len(p) - 1 \in DOMAIN q /\ r[i] = q[i + Len(p) - 1]
    <3>1. i + Len(p) - 1 > Len(p)
      <4>1. i \in Nat /\ Len(p) \in Nat
        BY <1>2, <1>10
      <4> QED BY <2>2, <4>1
    <3> QED BY <1>7, <1>16, <2>2, <3>1
  <2> QED BY <1>10, <2>1, <2>2
<1>19. 1 .. sets \subseteq wal \cup Held(r)
  BY <1>4, <1>6, <1>10
<1>20. 1 .. sets' \subseteq wal' \cup UNION {u.ids : u \in Base'}
  <2>1. Held(r) \subseteq UNION {u.ids : u \in Base'}
    <3>1. \A i \in DOMAIN r : r[i] \in Base'
      BY <1>18 DEF Tabs
    <3> QED BY <3>1 DEF Held
  <2> QED BY <1>1, <1>19, <2>1
<1>21. NamesDiffer'
  BY <1>9, <1>15 DEF DirInv, NamesDiffer
<1>22. HandleOK(h)'
  <2>1. \A u \in Tabs(r) : u.name[1] <= newLast
    <3> SUFFICES ASSUME NEW i \in DOMAIN r PROVE r[i].name[1] <= newLast
      BY DEF Tabs
    <3>1. CASE r[i] = t
      BY <1>8, <3>1
    <3>2. CASE i + Len(p) - 1 \in DOMAIN q /\ r[i] = q[i + Len(p) - 1]
      <4>1. r[i] \in Tabs(q) /\ r[i] \in TableOfDir
        BY <1>2, <3>2 DEF Tabs
      <4>2. PICK n \in Nat : n = r[i].name[1]
        BY <4>1 DEF TableOfDir
      <4>3. n <= last
        BY <1>6, <4>1, <4>2
      <4> QED BY <1>2, <1>8, <4>2, <4>3
    <3> QED BY <1>10, <3>1, <3>2
  <2>2. r[Len(r)].name[1] = newLast
    <3>1. Len(p) \in Nat /\ Len(q) \in Nat /\ Len(p) <= Len(q) /\ Len(q) \in DOMAIN q /\ q # <<>>
      <4>1. Len(p) \in Nat /\ Len(q) \in Nat /\ Len(p) <= Len(q) /\ DOMAIN q = 1 .. Len(q)
        BY <1>1, <1>2 DEF Dir!IsPrefix
      <4>2. Len(q) > 1
        BY <1>4, <4>1
      <4>3. \A s \in Seq(TableOfDir) : Len(s) > 1 => s # <<>>
        OBVIOUS
      <4> QED BY <1>2, <4>1, <4>2, <4>3
    <3>2. CASE Len(p) = Len(q)
      <4>1. Len(r) = 1 /\ r[1] = t
        <5>1. Len(r) = 1
          BY <1>10, <3>1, <3>2
        <5>2. 1 \in DOMAIN r
          BY <1>10, <5>1
        <5>3. (1 = 1 /\ r[1] = t) \/ (1 > 1 /\ r[1] = q[1 + Len(p) - 1])
          BY <1>10, <5>2
        <5> QED BY <5>1, <5>3
      <4>2. Len(p) \in DOMAIN p /\ q[Len(q)] = p[Len(p)]
        <5>1. Len(p) \in DOMAIN p
          BY <1>2, <1>4
        <5> QED BY <1>10, <3>2, <5>1
      <4>3. last < number
        <5>1. p[Len(p)] \in Tabs(p)
          BY <4>2 DEF Tabs
        <5> QED BY <1>4, <1>6, <3>1, <4>2, <5>1
      <4>4. newLast = number
        <5> HIDE DEF number
        <5> QED BY <1>2, <1>8, <4>3
      <4> QED BY <4>1, <4>4
    <3>3. CASE Len(p) # Len(q)
      <4>1. /\ Len(r) \in DOMAIN r /\ Len(r) > 1 /\ Len(r) + Len(p) - 1 = Len(q)
            /\ Len(q) > Len(p)
        <5>1. Len(r) = Len(q) - Len(p) + 1
          BY <1>10
        <5>2. Len(r) > 1 /\ Len(r) + Len(p) - 1 = Len(q) /\ Len(q) > Len(p) /\ Len(r) \in Nat
          BY <3>1, <3>3, <5>1
        <5>3. DOMAIN r = 1 .. Len(r)
          BY <1>10
        <5> QED BY <5>2, <5>3
      <4>2. r[Len(r)] = q[Len(q)]
        BY <1>10, <4>1
      <4>3. q[Len(q)].name[1] = last /\ number <= last
        BY <1>6, <1>7, <3>1, <4>1
      <4>4. newLast = last
        <5> HIDE DEF number
        <5> QED BY <1>2, <1>8, <4>3
      <4> QED BY <4>2, <4>3, <4>4
    <3> QED BY <3>2, <3>3
  <2>3. ASSUME NEW g \in Handle, NEW u \in Pending(g)' PROVE u.name[1] <= newLast
    <3>1. u \in TableOfDir
      <4>1. CASE g = h
        <5>1. u \in Tabs(p)
          BY <1>13, <2>3, <4>1
        <5> QED BY <1>2, <5>1 DEF Tabs
      <4>2. CASE g # h
        <5>1. u \in Pending(g)
          BY <1>13, <2>3, <4>2
        <5> QED BY <5>1, Unpacked DEF Pending, Tabs
      <4> QED BY <4>1, <4>2
    <3>2. PICK n \in Nat : n = u.name[1]
      BY <3>1 DEF TableOfDir
    <3>3. n < number
      BY <1>14, <3>2
    <3> HIDE DEF number
    <3> QED BY <1>2, <1>8, <3>2, <3>3
  <2> QED BY <1>1, <1>6, <1>11, <1>19, <2>1, <2>2, <2>3 DEF HandleOK
<1>23. ASSUME NEW g \in Handle, g # h PROVE HandleOK(g)'
  <2>1. ~handles[g].open /\ HandleOK(g)
    BY <1>5, <1>23, OneIsOpen DEF DirInv
  <2> QED BY <1>11, <1>23, <2>1 DEF HandleOK
<1>24. ASSUME NEW g \in Handle PROVE CompactOK(g)'
  <2>1. Merged(g)' /\ NameIsFree(g)' /\ OwnTmp(g)'
    <3>1. CASE g = h
      BY <1>9, <3>1 DEF Merged, NameIsFree, OwnTmp, Dir!AtWork
    <3>2. CASE g # h
      BY <1>1, <1>9, <3>2, Unpacked DEF Merged, NameIsFree, OwnTmp, Dir!AtWork
    <3> QED BY <3>1, <3>2
  <2>2. StillFirst(g)'
    <3>1. CASE g = h
      BY <1>15, <3>1 DEF StillFirst
    <3>2. CASE g # h
      <4>1. ~handles'[g].open
        BY <1>5, <1>11, <3>2, OneIsOpen
      <4> QED BY <4>1 DEF StillFirst
    <3> QED BY <3>1, <3>2
  <2>3. Outlived(g)'
    <3>1. comp'[g].pc = "cleanup" => comp'[g].inputs # <<>>
      <4>1. CASE g = h
        <5>1. \A s \in Seq(TableOfDir) : Len(s) > 1 => s # <<>>
          OBVIOUS
        <5> QED BY <1>2, <1>4, <1>9, <4>1, <5>1
      <4>2. CASE g # h
        BY <1>9, <4>2, Unpacked DEF Outlived
      <4> QED BY <4>1, <4>2
    <3>2. \A u \in Pending(g)' : u.name[1] < t.name[1]
      BY <1>14
    <3> QED BY <1>17, <3>1, <3>2 DEF Outlived
  <2> QED BY <2>1, <2>2, <2>3 DEF CompactOK
<1> QED BY <1>12, <1>20, <1>21, <1>22, <1>23, <1>24 DEF DirInv

\* The invariant of the handles, their lists, the directory and the compactions
\* in progress holds in every reachable state of DirLock in which no two of the
\* compactions have chosen one name, for any handles and bounds.
THEOREM DirInvHolds ==
    ASSUME Dir!DirLockAssumption
    PROVE  Dir!Spec => [](clash \in BOOLEAN /\ (~clash => DirInv))
<1> DEFINE Inv == clash \in BOOLEAN /\ (~clash => DirInv)
<1>1. Dir!Init => Inv
  BY DirInit
<1>2. Inv /\ [Dir!Next]_(Dir!vars) => Inv'
  <2> SUFFICES ASSUME Inv, [Dir!Next]_(Dir!vars) PROVE Inv'
    OBVIOUS
  <2>1. CASE UNCHANGED Dir!vars
    <3>1. UNCHANGED <<lock, files, tmps, wal, handles, comp, clash, sets>>
      BY <2>1 DEF Dir!vars
    <3>2. DirInv => DirInv'
      BY <3>1 DEF DirInv, DirTyped, OneFileAName, NamesDiffer, HandleOK, CompactOK, Merged, StillFirst,
                  NameIsFree, OwnTmp, Outlived, Base, Doomed, Pending, Dir!AtWork
    <3> QED BY <3>1, <3>2
  <2>2. ASSUME NEW h \in Handle, Dir!Merge(h) PROVE Inv'
    <3>1. clash' \in BOOLEAN /\ (~clash' => ~clash)
      BY <2>2, ZenonT(20) DEF Dir!Merge
    <3> QED BY <2>2, <3>1, MergeStep
  <2>3. ASSUME NEW h \in Handle,
               \/ Dir!Open(h) \/ Dir!Set(h) \/ Dir!Flush(h) \/ Dir!Close(h) \/ Dir!Exit(h)
               \/ Dir!Stat(h) \/ Dir!WriteTmp(h) \/ Dir!Rename(h) \/ Dir!Swap(h) \/ Dir!Raced(h)
               \/ Dir!Cleanup(h)
        PROVE  Inv'
    <3>1. clash' = clash
      BY <2>3, ZenonT(20) DEF Dir!Open, Dir!Set, Dir!Flush, Dir!Close, Dir!Exit, Dir!Stat, Dir!WriteTmp,
                  Dir!Rename, Dir!Swap, Dir!Raced, Dir!Cleanup
    <3>2. DirInv => DirInv'
      BY <2>3, OpenStep, SetStep, FlushStep, EndStep, StatStep, WriteTmpStep, RenameStep,
         SwapStep, RacedStep, CleanupStep
    <3> QED BY <3>1, <3>2
  <2> QED BY <2>1, <2>2, <2>3 DEF Dir!Next, Dir!Compact
<1> QED BY <1>1, <1>2, PTL DEF Dir!Spec

\* However many handles open, write, flush, compact, close and die on one
\* directory, also under Compacts of closed ones that are still at work, no write
\* is lost from it and an open handle sees them all, until two of the Compacts
\* have chosen one name for their tables (Open, lockFile, Compact and
\* errCompactionRaced).
THEOREM NoHandleLosesWrites ==
    ASSUME Dir!DirLockAssumption
    PROVE  Dir!Spec => []WritesAreKept
<1>1. clash \in BOOLEAN /\ (~clash => DirInv) => WritesAreKept
  <2> SUFFICES ASSUME DirInv PROVE Dir!NothingLost /\ Dir!HandleSeesAll
    BY DEF WritesAreKept, Dir!WritesAreKept
  <2>1. Dir!HandleSeesAll
    BY DEF DirInv, HandleOK, Held, Dir!HandleSeesAll
  <2>2. Dir!NothingLost
    <3>1. UNION {t.ids : t \in Base} \subseteq UNION {t.ids : t \in files}
      BY DEF Base
    <3> QED BY <3>1 DEF DirInv, Dir!NothingLost, Dir!Stored
  <2> QED BY <2>1, <2>2
<1> QED BY <1>1, DirInvHolds, PTL

----------------------------------------------------------------------------
(* Listings.                                                               *)

Contents == [Key -> {"value", "tombstone", "none"}]

ScanType ==
    [pc : {"idle", "take", "read", "more", "done"}, prefix : SUBSET Key,
     start : Nat, end : Nat, limit : Nat \ {0}, after : Nat,
     tables : Seq(Contents), visible : SUBSET Key, deleted : SUBSET Key,
     page : Seq(Key), listed : Seq(Key)]

ScanTyped ==
    /\ memtable \in Contents /\ sstables \in Seq(Contents)
    /\ scan \in ScanType
    /\ asOf \in SUBSET Key /\ ever \in SUBSET Key /\ always \in SUBSET Key

\* The keys that the history has are live now, and those live now it has.
LiveThroughout ==
    Listing => always \subseteq Live(memtable, sstables) /\ Live(memtable, sstables) \subseteq ever

LiveWhenTaken ==
    scan.pc \in {"read", "more", "done"} => always \subseteq asOf /\ asOf \subseteq ever

\* What was live when the lock was held is what has been gathered, and what
\* the tables that are left say of the keys nothing was heard of.
Gathered ==
    scan.pc = "read" =>
        /\ scan.visible \subseteq scan.prefix /\ scan.visible \cap scan.deleted = {}
        /\ \A k \in scan.prefix :
              k \in asOf <=>
                  \/ k \in scan.visible
                  \/ (k \notin scan.deleted /\ NewestOf(scan.tables, k) = "value")

\* The cursor is the last key listed.
CursorInPlace ==
    scan.pc \in {"take", "read", "more"} =>
        scan.after = IF scan.listed = <<>> THEN 0 ELSE scan.listed[Len(scan.listed)]

WithinBounds(k) == k >= scan.start /\ (scan.end = 0 \/ k < scan.end)

\* Up to the cursor nothing was left out that was there all the time.
NoneLeftOut ==
    scan.pc \in {"take", "read", "more"} =>
        \A k \in always \cap scan.prefix :
            WithinBounds(k) /\ k <= scan.after => k \in ToSet(scan.listed)

ScanInv ==
    /\ ScanTyped /\ LiveThroughout /\ LiveWhenTaken /\ Gathered
    /\ CursorInPlace /\ NoneLeftOut
    /\ PageIsExact /\ ListingIsFaithful

LEMMA NoKeys == Key \subseteq Nat /\ IsFiniteSet(Key) /\ Cardinality(Key) = MaxKey
<1>1. 1 \in Int /\ MaxKey \in Nat \ {0}
  BY ScanAssumption
<1>2. IsFiniteSet(1 .. MaxKey) /\ Cardinality(1 .. MaxKey) = IF 1 > MaxKey THEN 0 ELSE MaxKey - 1 + 1
  BY <1>1, FS_Interval
<1> QED BY <1>1, <1>2 DEF Key

\* What the newest of several tables says.
LEMMA NewestIsSaid ==
    ASSUME NEW ts \in Seq(Contents), NEW k \in Key
    PROVE  /\ NewestOf(<<>>, k) = "none"
           /\ NewestOf(ts, k) \in {"value", "tombstone", "none"}
           /\ \A c \in Contents :
                 NewestOf(Append(ts, c), k) = IF c[k] # "none" THEN c[k] ELSE NewestOf(ts, k)
<1> DEFINE at == {i \in DOMAIN ts : ts[i][k] # "none"}
           n == Len(ts)
<1>0. /\ n \in Nat /\ DOMAIN ts = 1 .. n
      /\ \A i \in DOMAIN ts : ts[i][k] \in {"value", "tombstone", "none"}
  BY DEF Contents
<1>1. NewestOf(<<>>, k) = "none"
  BY DEF NewestOf
<1>2. at # {} => Max(at) \in at
  <2>1. at \subseteq 1 .. n /\ at \subseteq Nat
    BY <1>0
  <2>2. IsFiniteSet(at)
    <3>1. IsFiniteSet(1 .. n)
      BY <1>0, FS_Interval
    <3> HIDE DEF at, n
    <3> QED BY <2>1, <3>1, FS_Subset
  <2> SUFFICES ASSUME at # {} PROVE Max(at) \in at
    OBVIOUS
  <2> HIDE DEF at
  <2>3. PICK m \in at : \A i \in at : i <= m
    BY <2>1, <2>2, LargestOf
  <2>4. \A i \in at : m >= i
    BY <2>1, <2>3
  <2> QED BY <2>4 DEF Max
<1>3. NewestOf(ts, k) = IF at = {} THEN "none" ELSE ts[Max(at)][k]
  BY DEF NewestOf
<1>4. NewestOf(ts, k) \in {"value", "tombstone", "none"}
  BY <1>0, <1>2, <1>3
<1>5. ASSUME NEW c \in Contents
      PROVE  NewestOf(Append(ts, c), k) = IF c[k] # "none" THEN c[k] ELSE NewestOf(ts, k)
  <2> DEFINE us == Append(ts, c)
             bt == {i \in DOMAIN us : us[i][k] # "none"}
  <2>1. /\ DOMAIN us = 1 .. n + 1 /\ us[n + 1] = c
        /\ \A i \in 1 .. n : us[i] = ts[i]
    BY <1>0
  <2>2. NewestOf(us, k) = IF bt = {} THEN "none" ELSE us[Max(bt)][k]
    BY DEF NewestOf
  <2> HIDE DEF us, n
  <2>3. CASE c[k] # "none"
    <3>1. n + 1 \in bt /\ \A i \in bt : i \in Nat /\ i <= n + 1
      BY <1>0, <2>1, <2>3
    <3> HIDE DEF bt
    <3>2. Max(bt) = n + 1
      <4>1. \A x \in bt : (\A i \in bt : x >= i) => x = n + 1
        BY <1>0, <3>1
      <4>2. \A i \in bt : n + 1 >= i
        BY <1>0, <3>1
      <4> QED BY <3>1, <4>1, <4>2 DEF Max
    <3> QED BY <2>1, <2>2, <2>3, <3>1, <3>2 DEF us
  <2>4. CASE c[k] = "none"
    <3>1. bt = at
      BY <1>0, <2>1, <2>4
    <3>2. at # {} => us[Max(at)] = ts[Max(at)]
      BY <1>0, <1>2, <2>1
    <3> HIDE DEF at, bt
    <3> QED BY <1>3, <2>2, <2>4, <3>1, <3>2 DEF us
  <2> QED BY <2>3, <2>4 DEF us
<1> QED BY <1>1, <1>4, <1>5

LEMMA LiveAre ==
    ASSUME NEW mem \in Contents, NEW ts \in Seq(Contents)
    PROVE  /\ Live(mem, ts) \subseteq Key
           /\ \A k \in Key : k \in Live(mem, ts) <=>
                 \/ mem[k] = "value"
                 \/ (mem[k] = "none" /\ NewestOf(ts, k) = "value")
<1>1. Live(mem, ts) \subseteq Key
  BY DEF Live
<1>2. ASSUME NEW k \in Key
      PROVE  k \in Live(mem, ts) <=>
                \/ mem[k] = "value"
                \/ (mem[k] = "none" /\ NewestOf(ts, k) = "value")
  <2>1. k \in Live(mem, ts) <=> NewestOf(Append(ts, mem), k) = "value"
    BY DEF Live
  <2>2. NewestOf(Append(ts, mem), k) = IF mem[k] # "none" THEN mem[k] ELSE NewestOf(ts, k)
    BY NewestIsSaid
  <2>3. mem[k] \in {"value", "tombstone", "none"}
    BY DEF Contents
  <2> QED BY <2>1, <2>2, <2>3
<1> QED BY <1>1, <1>2

\* Sorting keys keeps them all, each once and in order.
LEMMA SortedIs ==
    ASSUME NEW W, W \subseteq Key
    PROVE  /\ Sorted(W) \in Seq(W) /\ Len(Sorted(W)) = Cardinality(W) /\ Cardinality(W) \in Nat
           /\ \A i, j \in DOMAIN Sorted(W) : i < j => Sorted(W)[i] < Sorted(W)[j]
           /\ \A k \in W : \E i \in DOMAIN Sorted(W) : Sorted(W)[i] = k
<1> DEFINE R == {p \in W \X W : p[1] < p[2]}
           n == Cardinality(W)
           place(k) == Cardinality({j \in W : <<j, k>> \in R})
           q == Sorted(W)
<1>1. W \subseteq Nat /\ IsFiniteSet(W)
  BY NoKeys, FS_Subset
<1>2. /\ \A a \in W : <<a, a>> \notin R
      /\ \A a, b \in W : a # b => <<a, b>> \in R \/ <<b, a>> \in R
      /\ \A a, b, c \in W : <<a, b>> \in R /\ <<b, c>> \in R => <<a, c>> \in R
  BY <1>1
<1>3. /\ n \in Nat
      /\ \A i \in 1 .. n : \E t \in W : place(t) = i - 1
      /\ \A t \in W : place(t) \in Nat /\ place(t) + 1 \in 1 .. n
      /\ \A t, v \in W : place(t) < place(v) => <<t, v>> \in R
      /\ \A t, v \in W : <<t, v>> \in R => place(t) # place(v)
  <2> HIDE DEF R
  <2> QED BY <1>1, <1>2, Ranks
<1>4. q = [i \in 1 .. n |-> CHOOSE k \in W : place(k) = i - 1]
  <2>1. \A k \in W : {j \in W : j < k} = {j \in W : <<j, k>> \in R}
    OBVIOUS
  <2> DEFINE here(i) == CHOOSE k \in W : place(k) = i - 1
             there(i) == CHOOSE k \in W : Cardinality({j \in W : j < k}) = i - 1
  <2>2. ASSUME NEW i PROVE there(i) = here(i)
    <3>1. \A k \in W : Cardinality({j \in W : j < k}) = place(k)
      BY <2>1
    <3> HIDE DEF place
    <3> QED BY <3>1
  <2>3. q = [i \in 1 .. n |-> there(i)]
    BY DEF Sorted
  <2> HIDE DEF here, there, q, n
  <2>4. q = [i \in 1 .. n |-> here(i)]
    BY <2>2, <2>3
  <2> QED BY <2>4 DEF here
<1> HIDE DEF q, place, n, R
<1>5. /\ q \in [1 .. n -> W]
      /\ \A i \in 1 .. n : place(q[i]) = i - 1
  <2>1. ASSUME NEW i \in 1 .. n
        PROVE  q[i] \in W /\ place(q[i]) = i - 1
    BY <1>3, <1>4
  <2> QED BY <1>4, <2>1
<1>6. q \in Seq(W) /\ Len(q) = n /\ DOMAIN q = 1 .. n
  BY <1>3, <1>5
<1>7. ASSUME NEW i \in DOMAIN q, NEW j \in DOMAIN q, i < j PROVE q[i] < q[j]
  <2>1. q[i] \in W /\ q[j] \in W /\ place(q[i]) < place(q[j])
    <3>1. i \in Nat /\ j \in Nat /\ i \in 1 .. n /\ j \in 1 .. n
      BY <1>3, <1>6
    <3>2. q[i] \in W /\ q[j] \in W /\ place(q[i]) = i - 1 /\ place(q[j]) = j - 1
      BY <1>5, <3>1
    <3> QED BY <1>7, <3>1, <3>2
  <2>2. <<q[i], q[j]>> \in R
    BY <1>3, <2>1
  <2> QED BY <2>2 DEF R
<1>8. ASSUME NEW k \in W PROVE \E i \in DOMAIN q : q[i] = k
  <2> DEFINE i == place(k) + 1
  <2>1. i \in 1 .. n /\ place(k) \in Nat
    BY <1>3
  <2>2. q[i] \in W /\ place(q[i]) = i - 1
    BY <1>5, <2>1
  <2>3. place(q[i]) = place(k)
    BY <2>1, <2>2
  <2>4. q[i] = k
    <3> HIDE DEF i
    <3>1. q[i] \in W
      BY <2>2
    <3> QED BY <1>2, <1>3, <2>3, <3>1
  <2> QED BY <1>6, <2>1, <2>4
<1> QED BY <1>3, <1>6, <1>7, <1>8 DEF q, n

InOrder(s) == \A i, j \in DOMAIN s : i < j => s[i] < s[j]

\* Keys in order are no more than there are.
LEMMA InOrderIsShort ==
    ASSUME NEW s \in Seq(Key), InOrder(s)
    PROVE  Len(s) <= MaxKey
<1> DEFINE n == Len(s)
<1>1. n \in Nat /\ s \in [1 .. n -> Key] /\ DOMAIN s = 1 .. n
  OBVIOUS
<1>2. \A i, j \in 1 .. n : s[i] = s[j] => i = j
  <2> SUFFICES ASSUME NEW i \in 1 .. n, NEW j \in 1 .. n, s[i] = s[j], i # j PROVE FALSE
    OBVIOUS
  <2>1. i < j \/ j < i
    BY <1>1
  <2>2. s[i] < s[j] \/ s[j] < s[i]
    BY <1>1, <2>1 DEF InOrder
  <2>3. s[i] \in Nat /\ s[j] \in Nat
    BY <1>1, NoKeys
  <2> QED BY <2>2, <2>3
<1>3. s \in Injection(1 .. n, Key)
  <2> HIDE DEF n
  <2> QED BY <1>1, <1>2 DEF Injection, IsInjective
<1>4. Cardinality(1 .. n) <= Cardinality(Key)
  BY <1>3, NoKeys, FS_Injection
<1>5. IsFiniteSet(1 .. n) /\ Cardinality(1 .. n) = IF 1 > n THEN 0 ELSE n - 1 + 1
  BY <1>1, FS_Interval
<1>6. MaxKey \in Nat
  BY ScanAssumption
<1> HIDE DEF n
<1>7. n <= MaxKey
  BY <1>1, <1>4, <1>5, <1>6, NoKeys
<1> QED BY <1>7 DEF n

LEMMA ScanInit == ASSUME Init PROVE ScanInv
<1>1. /\ scan = IdleScan /\ memtable = Nothing /\ sstables = <<>>
      /\ asOf = {} /\ ever = {} /\ always = {}
  BY DEF Init
<1>2. ScanTyped
  <2>1. scan \in ScanType
    BY <1>1 DEF IdleScan, ScanType
  <2>2. memtable \in Contents /\ sstables \in Seq(Contents)
    BY <1>1 DEF Nothing, Contents
  <2> QED BY <1>1, <2>1, <2>2 DEF ScanTyped
<1>3. scan.pc = "idle" /\ scan.listed = <<>>
  BY <1>1 DEF IdleScan
<1>4. ListingIsFaithful
  BY <1>3 DEF ListingIsFaithful, ToSet
<1> QED BY <1>2, <1>3, <1>4
    DEF ScanInv, LiveThroughout, LiveWhenTaken, Gathered, CursorInPlace, NoneLeftOut, PageIsExact, Listing

\* The database changes while a listing goes on.
LEMMA ChangeStep ==
    ASSUME ScanInv, memtable' \in Contents, sstables' \in Seq(Contents), Observe, UNCHANGED scan
    PROVE  ScanInv'
<1>0. ScanTyped /\ scan' = scan /\ asOf' = asOf
  BY DEF ScanInv, Observe
<1>1. Live(memtable', sstables') \subseteq Key
  BY DEF Live
<1>2. ScanTyped'
  BY <1>0, <1>1 DEF ScanTyped, Observe
<1>3. always' \subseteq always /\ ever \subseteq ever'
  BY DEF Observe
<1>4. LiveThroughout'
  BY <1>0 DEF LiveThroughout, Observe, Listing
<1>5. LiveWhenTaken'
  BY <1>0, <1>3 DEF ScanInv, LiveWhenTaken
<1>6. Gathered' /\ CursorInPlace'
  BY <1>0 DEF ScanInv, Gathered, CursorInPlace
<1>7. NoneLeftOut'
  BY <1>0, <1>3 DEF ScanInv, NoneLeftOut, WithinBounds
<1>8. PageIsExact'
  BY <1>0 DEF ScanInv, PageIsExact
<1>9. ListingIsFaithful'
  BY <1>0, <1>3 DEF ScanInv, ListingIsFaithful
<1> QED BY <1>2, <1>4, <1>5, <1>6, <1>7, <1>8, <1>9 DEF ScanInv

LEMMA WriteStep ==
    ASSUME ScanInv, NEW k \in Key, NEW what \in {"value", "tombstone"}, Write(k, what)
    PROVE  ScanInv'
<1>1. memtable \in Contents /\ sstables \in Seq(Contents)
  BY DEF ScanInv, ScanTyped
<1>2. memtable' \in Contents
  BY <1>1 DEF Write, Contents
<1> QED BY <1>1, <1>2, ChangeStep DEF Write

LEMMA ListFlushStep == ASSUME ScanInv, Flush PROVE ScanInv'
<1>1. memtable \in Contents /\ sstables \in Seq(Contents)
  BY DEF ScanInv, ScanTyped
<1>2. memtable' \in Contents /\ sstables' \in Seq(Contents)
  BY <1>1 DEF Flush, Contents, Nothing
<1> QED BY <1>2, ChangeStep DEF Flush

LEMMA ListCompactStep == ASSUME ScanInv, NEW n \in DOMAIN sstables, Compact(n) PROVE ScanInv'
<1>1. memtable \in Contents /\ sstables \in Seq(Contents)
  BY DEF ScanInv, ScanTyped
<1>2. /\ SubSeq(sstables, 1, n) \in Seq(Contents)
      /\ SubSeq(sstables, n + 1, Len(sstables)) \in Seq(Contents)
  BY <1>1
<1>3. [k \in Key |-> NewestOf(SubSeq(sstables, 1, n), k)] \in Contents
  BY <1>2, NewestIsSaid DEF Contents
<1>4. sstables' \in Seq(Contents)
  <2> DEFINE m == [k \in Key |-> NewestOf(SubSeq(sstables, 1, n), k)]
             rest == SubSeq(sstables, n + 1, Len(sstables))
  <2>1. sstables' = <<m>> \o rest
    BY DEF Compact
  <2> HIDE DEF m, rest
  <2> QED BY <1>2, <1>3, <2>1 DEF m, rest
<1> QED BY <1>1, <1>4, ChangeStep DEF Compact

LEMMA AskStep ==
    ASSUME ScanInv, NEW p \in Prefix, NEW start \in Bound, NEW end \in Bound,
           NEW limit \in 1 .. MaxLimit, Ask(p, start, end, limit)
    PROVE  ScanInv'
<1>1. /\ memtable \in Contents /\ sstables \in Seq(Contents)
      /\ asOf \in SUBSET Key
      /\ memtable' = memtable /\ sstables' = sstables /\ asOf' = asOf
      /\ ever' = Live(memtable, sstables) /\ always' = Live(memtable, sstables)
  BY DEF ScanInv, ScanTyped, Ask, db
<1>2. p \subseteq Key /\ start \in Nat /\ end \in Nat /\ limit \in Nat \ {0}
  BY ScanAssumption DEF Key
<1>3. scan' = [pc |-> "take", prefix |-> p, start |-> start, end |-> end, limit |-> limit,
               after |-> 0, tables |-> <<>>, visible |-> {}, deleted |-> {}, page |-> <<>>,
               listed |-> <<>>]
  BY DEF Ask, IdleScan
<1>4. /\ scan' \in ScanType
      /\ scan'.pc = "take" /\ scan'.after = 0 /\ scan'.listed = <<>>
  BY <1>2, <1>3 DEF ScanType
<1>5. ScanTyped'
  BY <1>1, <1>4 DEF ScanTyped, Live
<1>6. LiveThroughout' /\ LiveWhenTaken'
  BY <1>1, <1>4 DEF LiveThroughout, LiveWhenTaken
<1>7. NoneLeftOut'
  <2>1. ASSUME NEW k \in Key, k <= 0 PROVE FALSE
    BY <2>1, ScanAssumption DEF Key
  <2> QED BY <1>4, <1>5, <2>1 DEF NoneLeftOut, ScanTyped
<1>8. ListingIsFaithful'
  BY <1>4 DEF ListingIsFaithful, ToSet
<1> QED BY <1>4, <1>5, <1>6, <1>7, <1>8 DEF ScanInv, Gathered, CursorInPlace, PageIsExact

LEMMA TakeStep == ASSUME ScanInv, Take PROVE ScanInv'
<1>1. /\ memtable \in Contents /\ sstables \in Seq(Contents)
      /\ scan \in ScanType /\ scan.pc = "take"
      /\ ever \in SUBSET Key /\ always \in SUBSET Key
      /\ memtable' = memtable /\ sstables' = sstables
      /\ ever' = ever /\ always' = always /\ asOf' = Live(memtable, sstables)
  BY DEF ScanInv, ScanTyped, Take, db
<1> DEFINE visible == Says(memtable, "value") \cap scan.prefix
           deleted == Says(memtable, "tombstone") \cap scan.prefix
<1>2. /\ scan'.pc = "read" /\ scan'.tables = sstables
      /\ scan'.visible = visible /\ scan'.deleted = deleted
      /\ scan'.prefix = scan.prefix /\ scan'.start = scan.start /\ scan'.end = scan.end
      /\ scan'.after = scan.after /\ scan'.listed = scan.listed
      /\ scan' = [pc |-> "read", prefix |-> scan.prefix, start |-> scan.start,
                  end |-> scan.end, limit |-> scan.limit, after |-> scan.after,
                  tables |-> sstables, visible |-> visible, deleted |-> deleted,
                  page |-> scan.page, listed |-> scan.listed]
  BY <1>1 DEF Take, ScanType
<1>3. visible \subseteq Key /\ deleted \subseteq Key
  BY DEF Says
<1>4. ScanTyped'
  <2>1. scan' \in ScanType
    <3> HIDE DEF visible, deleted
    <3> QED BY <1>1, <1>2, <1>3 DEF ScanType
  <2> QED BY <1>1, <2>1 DEF ScanTyped, Live
<1>5. LiveThroughout' /\ LiveWhenTaken'
  BY <1>1, <1>2 DEF ScanInv, LiveThroughout, LiveWhenTaken, Listing
<1>6. Gathered'
  <2>1. scan.prefix \subseteq Key
    BY <1>1 DEF ScanType
  <2>2. ASSUME NEW k \in scan.prefix
        PROVE  k \in asOf' <=> \/ k \in visible
                               \/ (k \notin deleted /\ NewestOf(sstables, k) = "value")
    <3>1. k \in asOf' <=> \/ memtable[k] = "value"
                          \/ (memtable[k] = "none" /\ NewestOf(sstables, k) = "value")
      BY <1>1, <2>1, LiveAre
    <3>2. memtable[k] \in {"value", "tombstone", "none"} /\ k \in Key
      BY <1>1, <2>1 DEF Contents
    <3>3. k \in visible <=> memtable[k] = "value"
      BY <3>2 DEF Says
    <3>4. k \in deleted <=> memtable[k] = "tombstone"
      BY <3>2 DEF Says
    <3> HIDE DEF visible, deleted
    <3> QED BY <3>1, <3>2, <3>3, <3>4
  <2>3. visible \subseteq scan.prefix /\ visible \cap deleted = {}
    BY DEF Says
  <2> HIDE DEF visible, deleted
  <2> QED BY <1>2, <2>2, <2>3 DEF Gathered
<1>7. CursorInPlace' /\ NoneLeftOut'
  BY <1>1, <1>2 DEF ScanInv, CursorInPlace, NoneLeftOut, WithinBounds
<1>8. PageIsExact'
  BY <1>2 DEF PageIsExact
<1>9. ListingIsFaithful'
  BY <1>1, <1>2 DEF ScanInv, ListingIsFaithful
<1> QED BY <1>4, <1>5, <1>6, <1>7, <1>8, <1>9 DEF ScanInv

LEMMA ReadStep == ASSUME ScanInv, ReadTable PROVE ScanInv'
<1>1. /\ memtable \in Contents /\ sstables \in Seq(Contents)
      /\ scan \in ScanType /\ scan.pc = "read" /\ scan.tables # <<>>
      /\ memtable' = memtable /\ sstables' = sstables
      /\ ever' = ever /\ always' = always /\ asOf' = asOf
      /\ ever \in SUBSET Key /\ always \in SUBSET Key /\ asOf \in SUBSET Key
  BY DEF ScanInv, ScanTyped, ReadTable, db, history
<1>2. PICK older \in Seq(Contents), t \in Contents :
         /\ scan.tables = Append(older, t)
         /\ Front(scan.tables) = older /\ Last(scan.tables) = t
  <2>1. scan.tables \in Seq(Contents) /\ Len(scan.tables) \in Nat /\ Len(scan.tables) >= 1
    BY <1>1 DEF ScanType
  <2> DEFINE q == scan.tables
  <2> HIDE DEF q
  <2>2. /\ SubSeq(q, 1, Len(q) - 1) \in Seq(Contents) /\ q[Len(q)] \in Contents
        /\ q = Append(SubSeq(q, 1, Len(q) - 1), q[Len(q)])
    BY <2>1 DEF q
  <2> QED BY <2>2 DEF Front, Last, q
<1> DEFINE deleted == scan.deleted \cup ((Says(t, "tombstone") \cap scan.prefix) \ scan.visible)
           visible == scan.visible \cup ((Says(t, "value") \cap scan.prefix) \ deleted)
<1>3. /\ scan'.pc = "read" /\ scan'.tables = older
      /\ scan'.visible = visible /\ scan'.deleted = deleted
      /\ scan'.prefix = scan.prefix /\ scan'.start = scan.start /\ scan'.end = scan.end
      /\ scan'.after = scan.after /\ scan'.listed = scan.listed
      /\ scan' = [pc |-> "read", prefix |-> scan.prefix, start |-> scan.start,
                  end |-> scan.end, limit |-> scan.limit, after |-> scan.after,
                  tables |-> older, visible |-> visible, deleted |-> deleted,
                  page |-> scan.page, listed |-> scan.listed]
  <2>1. scan' = [[scan EXCEPT !.deleted = deleted, !.visible = visible] EXCEPT !.tables = older]
    BY <1>2 DEF ReadTable, Absorb
  <2> HIDE DEF deleted, visible
  <2> QED BY <1>1, <2>1 DEF ScanType
<1>4. ScanTyped'
  <2>1. visible \subseteq Key /\ deleted \subseteq Key
    BY <1>1 DEF Says, ScanType
  <2>2. scan' \in ScanType
    <3> HIDE DEF visible, deleted
    <3> QED BY <1>1, <1>2, <1>3, <2>1 DEF ScanType
  <2> QED BY <1>1, <2>2 DEF ScanTyped
<1>5. LiveThroughout' /\ LiveWhenTaken'
  BY <1>1, <1>3 DEF ScanInv, LiveThroughout, LiveWhenTaken, Listing
<1>6. Gathered'
  <2>0. /\ scan.visible \subseteq scan.prefix /\ scan.visible \cap scan.deleted = {}
        /\ \A k \in scan.prefix :
              k \in asOf <=>
                  \/ k \in scan.visible
                  \/ (k \notin scan.deleted /\ NewestOf(scan.tables, k) = "value")
    BY <1>1 DEF ScanInv, Gathered
  <2>1. ASSUME NEW k \in scan.prefix
        PROVE  k \in asOf <=> \/ k \in visible
                              \/ (k \notin deleted /\ NewestOf(older, k) = "value")
    <3>1. k \in Key
      BY <1>1 DEF ScanType
    <3>2. t[k] \in {"value", "tombstone", "none"}
      BY <3>1 DEF Contents
    <3>3. NewestOf(scan.tables, k) = IF t[k] # "none" THEN t[k] ELSE NewestOf(older, k)
      BY <1>2, <3>1, NewestIsSaid
    <3>4. k \in deleted <=> (k \in scan.deleted \/ (t[k] = "tombstone" /\ k \notin scan.visible))
      BY <3>1 DEF Says
    <3>5. k \in visible <=> (k \in scan.visible \/ (t[k] = "value" /\ k \notin deleted))
      BY <3>1 DEF Says
    <3> HIDE DEF visible, deleted
    <3>6. ~(k \in scan.visible /\ k \in scan.deleted)
      BY <2>0
    <3> QED BY <2>0, <3>2, <3>3, <3>4, <3>5, <3>6
  <2>2. visible \subseteq scan.prefix /\ visible \cap deleted = {}
    BY <2>0 DEF Says
  <2> HIDE DEF visible, deleted
  <2> QED BY <1>1, <1>3, <2>1, <2>2 DEF Gathered
<1>7. CursorInPlace' /\ NoneLeftOut'
  BY <1>1, <1>3 DEF ScanInv, CursorInPlace, NoneLeftOut, WithinBounds
<1>8. PageIsExact'
  BY <1>3 DEF PageIsExact
<1>9. ListingIsFaithful'
  BY <1>1, <1>3 DEF ScanInv, ListingIsFaithful
<1> QED BY <1>4, <1>5, <1>6, <1>7, <1>8, <1>9 DEF ScanInv

\* A listing that ends, with an error or not.
LEMMA EndListing ==
    ASSUME ScanInv, scan' = IdleScan, UNCHANGED <<db, history>>
    PROVE  ScanInv'
<1>1. /\ memtable \in Contents /\ sstables \in Seq(Contents)
      /\ memtable' = memtable /\ sstables' = sstables
      /\ ever' = ever /\ always' = always /\ asOf' = asOf
      /\ ever \in SUBSET Key /\ always \in SUBSET Key /\ asOf \in SUBSET Key
  BY DEF ScanInv, ScanTyped, db, history
<1>2. scan' \in ScanType /\ scan'.pc = "idle" /\ scan'.listed = <<>>
  BY DEF IdleScan, ScanType
<1>3. ScanTyped'
  BY <1>1, <1>2 DEF ScanTyped
<1>4. ListingIsFaithful'
  BY <1>2 DEF ListingIsFaithful, ToSet
<1> QED BY <1>2, <1>3, <1>4
    DEF ScanInv, LiveThroughout, LiveWhenTaken, Gathered, CursorInPlace, NoneLeftOut, PageIsExact, Listing

LEMMA AskAgainStep == ASSUME ScanInv, AskAgain PROVE ScanInv'
<1>1. /\ memtable \in Contents /\ sstables \in Seq(Contents)
      /\ scan \in ScanType /\ scan.pc = "more"
      /\ memtable' = memtable /\ sstables' = sstables
      /\ ever' = ever /\ always' = always /\ asOf' = asOf
      /\ ever \in SUBSET Key /\ always \in SUBSET Key /\ asOf \in SUBSET Key
  BY DEF ScanInv, ScanTyped, AskAgain, db, history
<1>2. /\ scan' \in ScanType /\ scan'.pc = "take"
      /\ scan'.prefix = scan.prefix /\ scan'.start = scan.start /\ scan'.end = scan.end
      /\ scan'.after = scan.after /\ scan'.listed = scan.listed
  BY <1>1 DEF AskAgain, ScanType
<1>3. ScanTyped'
  BY <1>1, <1>2 DEF ScanTyped
<1>4. LiveThroughout' /\ LiveWhenTaken' /\ Gathered' /\ PageIsExact'
  BY <1>1, <1>2 DEF ScanInv, LiveThroughout, LiveWhenTaken, Gathered, PageIsExact, Listing
<1>5. CursorInPlace' /\ NoneLeftOut'
  BY <1>1, <1>2 DEF ScanInv, CursorInPlace, NoneLeftOut, WithinBounds
<1>6. ListingIsFaithful'
  BY <1>1, <1>2 DEF ScanInv, ListingIsFaithful
<1> QED BY <1>3, <1>4, <1>5, <1>6 DEF ScanInv

LEMMA PageStep == ASSUME ScanInv, Page PROVE ScanInv'
<1>1. /\ memtable \in Contents /\ sstables \in Seq(Contents)
      /\ scan \in ScanType /\ scan.pc = "read" /\ scan.tables = <<>>
      /\ memtable' = memtable /\ sstables' = sstables
      /\ ever' = ever /\ always' = always /\ asOf' = asOf
      /\ ever \in SUBSET Key /\ always \in SUBSET Key /\ asOf \in SUBSET Key
  BY DEF ScanInv, ScanTyped, Page, db, history
<1>2. /\ scan.limit \in Nat \ {0} /\ scan.after \in Nat /\ scan.visible \subseteq Key
      /\ scan.listed \in Seq(Key) /\ scan.prefix \subseteq Key /\ Len(scan.listed) \in Nat
      /\ scan.start \in Nat /\ scan.end \in Nat
      /\ MaxKey \in Nat /\ \A k \in Key : k \in Nat
  BY <1>1, ScanAssumption, NoKeys DEF ScanType
<1>3. scan.visible = asOf \cap scan.prefix
  <2>1. \A k \in scan.prefix : NewestOf(scan.tables, k) # "value"
    BY <1>1, <1>2, NewestIsSaid
  <2> QED BY <1>1, <2>1 DEF ScanInv, Gathered
<1>4. PICK W : W = Wanted(scan.visible)
  OBVIOUS
<1>5. W = {k \in asOf \cap scan.prefix : WithinBounds(k) /\ k > scan.after}
  BY <1>3, <1>4 DEF Wanted, Behind, WithinBounds
<1>6. PICK found : found = Sorted(W)
  OBVIOUS
<1>7. /\ found \in Seq(W) /\ Len(found) = Cardinality(W) /\ Cardinality(W) \in Nat
      /\ \A i, j \in DOMAIN found : i < j => found[i] < found[j]
      /\ \A k \in W : \E i \in DOMAIN found : found[i] = k
  <2>1. W \subseteq Key
    BY <1>2, <1>5
  <2> QED BY <1>6, <2>1, SortedIs
<1>8. PICK m : m = Min({scan.limit, Len(found)})
  OBVIOUS
<1>9. m \in Nat /\ m = IF scan.limit <= Cardinality(W) THEN scan.limit ELSE Cardinality(W)
  <2> DEFINE a == scan.limit
             b == Cardinality(W)
  <2>1. a \in Nat /\ b \in Nat /\ m = Min({a, b})
    BY <1>2, <1>7, <1>8
  <2> HIDE DEF a, b
  <2>2. Min({a, b}) = IF a <= b THEN a ELSE b
    BY <2>1 DEF Min
  <2> QED BY <2>1, <2>2 DEF a, b
<1>10. PICK page : page = SubSeq(found, 1, m)
  OBVIOUS
<1>11. /\ page \in Seq(W) /\ Len(page) = m /\ DOMAIN page = 1 .. m
       /\ \A i \in 1 .. m : page[i] = found[i] /\ i \in DOMAIN found
  <2>1. m <= Len(found)
    BY <1>2, <1>7, <1>9
  <2> QED BY <1>7, <1>9, <1>10, <2>1
<1>12. PICK listed : listed = scan.listed \o page
  OBVIOUS
<1> DEFINE n == Len(scan.listed)
<1>13. /\ listed \in Seq(Key) /\ Len(listed) = n + m /\ DOMAIN listed = 1 .. n + m
       /\ \A i \in 1 .. n : listed[i] = scan.listed[i] /\ i \in DOMAIN listed
       /\ \A i \in 1 .. m : listed[n + i] = page[i] /\ n + i \in DOMAIN listed
  <2>1. page \in Seq(Key)
    BY <1>2, <1>5, <1>11
  <2>2. Len(listed) = n + m
    <3>1. \A q \in Seq(Key) : Len(q \o page) = Len(q) + Len(page)
      BY <2>1
    <3> QED BY <1>2, <1>11, <1>12, <3>1
  <2> QED BY <1>2, <1>9, <1>11, <1>12, <2>1, <2>2, SMTT(30)
<1> HIDE DEF n
<1>14. n \in Nat /\ n = Len(scan.listed) /\ DOMAIN scan.listed = 1 .. n
  BY <1>2 DEF n
<1>15. n > 0 => scan.after = scan.listed[n]
  BY <1>1, <1>14 DEF ScanInv, CursorInPlace
<1>16. n = 0 => scan.after = 0
  <2>1. n = 0 => scan.listed = <<>>
    <3>1. \A q \in Seq(Key) : Len(q) = 0 => q = <<>>
      OBVIOUS
    <3> QED BY <1>2, <1>14, <3>1
  <2> QED BY <1>1, <2>1 DEF ScanInv, CursorInPlace
<1>17. ASSUME NEW i \in 1 .. m
       PROVE  /\ page[i] \in W /\ page[i] \in Key /\ page[i] \in Nat /\ page[i] > scan.after
              /\ page[i] \in asOf /\ page[i] \in scan.prefix /\ WithinBounds(page[i])
  <2>1. page[i] \in W
    BY <1>11
  <2> QED BY <1>2, <1>5, <2>1
<1>18. \A i \in DOMAIN listed : i \in 1 .. n \/ \E j \in 1 .. m : i = n + j
  <2> SUFFICES ASSUME NEW i \in DOMAIN listed, i \notin 1 .. n PROVE \E j \in 1 .. m : i = n + j
    OBVIOUS
  <2>1. i \in Nat /\ i > n /\ i <= n + m
    BY <1>9, <1>13, <1>14
  <2>2. i - n \in 1 .. m /\ i = n + (i - n)
    BY <1>9, <1>14, <2>1
  <2> QED BY <2>2
<1>19. \A i, j \in 1 .. n : i < j => scan.listed[i] < scan.listed[j]
  BY <1>14 DEF ScanInv, ListingIsFaithful
<1>20. InOrder(listed)
  <2> SUFFICES ASSUME NEW i \in DOMAIN listed, NEW j \in DOMAIN listed, i < j
               PROVE  listed[i] < listed[j]
    BY DEF InOrder
  <2>1. CASE i \in 1 .. n /\ j \in 1 .. n
    BY <1>13, <1>19, <2>1
  <2>2. ASSUME NEW v \in 1 .. m, i \in 1 .. n, j = n + v
        PROVE  listed[i] < listed[j]
    <3>1. listed[i] = scan.listed[i] /\ listed[j] = page[v]
      BY <1>13, <2>2
    <3>2. n \in 1 .. n /\ (i = n \/ i < n)
      BY <1>14, <2>2
    <3>3. scan.listed[i] = scan.after \/ scan.listed[i] < scan.after
      BY <1>14, <1>15, <1>19, <2>2, <3>2
    <3>4. scan.listed[i] \in Nat
      BY <1>2, <1>14, <2>2
    <3> QED BY <1>2, <1>17, <3>1, <3>3, <3>4
  <2>3. ASSUME NEW u \in 1 .. m, NEW v \in 1 .. m, i = n + u, j = n + v
        PROVE  listed[i] < listed[j]
    <3>1. u < v
      BY <1>9, <1>14, <2>3
    <3>2. listed[i] = found[u] /\ listed[j] = found[v] /\ u \in DOMAIN found /\ v \in DOMAIN found
      BY <1>11, <1>13, <2>3
    <3> QED BY <1>7, <3>1, <3>2
  <2>4. ASSUME NEW u \in 1 .. m, i = n + u, j \in 1 .. n
        PROVE  FALSE
    BY <1>9, <1>14, <2>4
  <2> QED BY <1>18, <2>1, <2>2, <2>3, <2>4
<1>21. n + m <= MaxKey
  BY <1>13, <1>20, InOrderIsShort
<1>22. Upto(MaxKey + 1, listed) = listed
  <2>1. Min({MaxKey + 1, n + m}) = n + m
    <3> DEFINE a == MaxKey + 1
               b == n + m
    <3>1. a \in Nat /\ b \in Nat /\ b <= a
      BY <1>2, <1>9, <1>14, <1>21, SMTT(30)
    <3> HIDE DEF a, b
    <3>2. Min({a, b}) = b
      BY <3>1 DEF Min
    <3> QED BY <3>2 DEF a, b
  <2>2. SubSeq(listed, 1, Len(listed)) = listed
    BY <1>13
  <2> QED BY <1>13, <2>1, <2>2 DEF Upto
<1>23. page = Upto(scan.limit, found)
  BY <1>8, <1>10 DEF Upto
<1> DEFINE more == Cardinality(W) > scan.limit
           after == IF more THEN Last(page) ELSE 0
<1>24. scan' = [scan EXCEPT !.page = page, !.listed = listed,
                            !.pc = IF more THEN "more" ELSE "done", !.after = after]
  BY <1>4, <1>6, <1>7, <1>12, <1>22, <1>23, ZenonT(60) DEF Page
<1>25. /\ scan'.pc = IF more THEN "more" ELSE "done"
       /\ scan'.after = after /\ scan'.listed = listed /\ scan'.page = page
       /\ scan'.prefix = scan.prefix /\ scan'.start = scan.start /\ scan'.end = scan.end
       /\ scan'.limit = scan.limit
       /\ scan' = [pc |-> IF more THEN "more" ELSE "done", prefix |-> scan.prefix,
                   start |-> scan.start, end |-> scan.end, limit |-> scan.limit,
                   after |-> after, tables |-> scan.tables, visible |-> scan.visible,
                   deleted |-> scan.deleted, page |-> page, listed |-> listed]
  <2> HIDE DEF more, after
  <2> QED BY <1>1, <1>24 DEF ScanType
<1>26. more => m = scan.limit /\ m > 0 /\ after = page[m] /\ after = listed[n + m] /\ n + m > 0
  <2> SUFFICES ASSUME more
               PROVE  m = scan.limit /\ m > 0 /\ after = page[m] /\ after = listed[n + m] /\ n + m > 0
    OBVIOUS
  <2>1. m = scan.limit /\ m > 0 /\ m \in 1 .. m
    BY <1>2, <1>7, <1>9
  <2>2. after = page[m]
    BY <1>11 DEF Last
  <2> HIDE DEF more, after
  <2>3. listed[n + m] = page[m]
    BY <1>13, <2>1
  <2>4. n + m > 0
    BY <1>9, <1>14, <2>1
  <2> QED BY <2>1, <2>2, <2>3, <2>4
<1>27. ~more => m = Cardinality(W)
  BY <1>2, <1>7, <1>9
<1>28. after \in Nat
  <2>1. CASE more
    <3>1. m \in 1 .. m
      BY <1>9, <1>26, <2>1
    <3> HIDE DEF more, after
    <3> QED BY <1>17, <1>26, <2>1, <3>1
  <2>2. CASE ~more
    BY <2>2
  <2> QED BY <2>1, <2>2
<1> HIDE DEF more, after
<1>29. ScanTyped'
  <2>1. page \in Seq(Key)
    BY <1>2, <1>5, <1>11
  <2>2. scan' \in ScanType
    BY <1>1, <1>13, <1>25, <1>28, <2>1 DEF ScanType
  <2> QED BY <1>1, <2>2 DEF ScanTyped
<1>30. scan'.pc \in {"more", "done"}
  BY <1>25
<1>31. LiveThroughout' /\ LiveWhenTaken' /\ Gathered'
  BY <1>1, <1>30 DEF ScanInv, LiveThroughout, LiveWhenTaken, Gathered, Listing
<1>32. CursorInPlace'
  <2> SUFFICES ASSUME more PROVE scan'.after = IF listed = <<>> THEN 0 ELSE listed[Len(listed)]
    BY <1>25 DEF CursorInPlace
  <2>1. listed # <<>>
    BY <1>13, <1>26
  <2> QED BY <1>13, <1>25, <1>26, <2>1
<1>33. \A k \in scan.prefix : WithinBounds(k)' <=> WithinBounds(k)
  BY <1>25 DEF WithinBounds
\* A key that is due is listed, unless the page is full before it.
<1>34. ASSUME NEW k \in W, ~more \/ k <= after
       PROVE  \E i \in 1 .. m : page[i] = k
  <2>1. PICK i \in DOMAIN found : found[i] = k
    BY <1>7
  <2>2. DOMAIN found = 1 .. Cardinality(W) /\ i \in Nat /\ k \in Nat
    BY <1>2, <1>5, <1>7
  <2>3. i <= m
    <3>1. CASE ~more
      BY <1>27, <2>2, <3>1
    <3>2. CASE more /\ k <= after
      <4> SUFFICES ASSUME ~(i <= m) PROVE FALSE
        OBVIOUS
      <4>1. m \in 1 .. m /\ m < i
        BY <1>9, <1>26, <2>2, <3>2
      <4>2. found[m] < found[i] /\ page[m] = found[m]
        BY <1>7, <1>11, <4>1
      <4> QED BY <1>17, <1>26, <2>1, <2>2, <3>2, <4>1, <4>2
    <3> QED BY <1>34, <3>1, <3>2
  <2> QED BY <1>11, <2>1, <2>2, <2>3
<1>35. ASSUME NEW k \in always \cap scan.prefix, WithinBounds(k), ~more \/ k <= after
       PROVE  k \in ToSet(listed)
  <2>1. CASE k <= scan.after
    <3>1. k \in ToSet(scan.listed)
      BY <1>1, <1>35, <2>1 DEF ScanInv, NoneLeftOut
    <3>2. PICK i \in DOMAIN scan.listed : scan.listed[i] = k
      BY <3>1 DEF ToSet
    <3> QED BY <1>13, <1>14, <3>2 DEF ToSet
  <2>2. CASE ~(k <= scan.after)
    <3>1. k \in W
      <4>1. k \in asOf /\ k \in Nat
        BY <1>1, <1>2 DEF ScanInv, LiveWhenTaken
      <4>2. k > scan.after
        BY <1>2, <2>2, <4>1
      <4> QED BY <1>5, <1>35, <4>1, <4>2
    <3>2. PICK i \in 1 .. m : page[i] = k
      BY <1>34, <1>35, <3>1
    <3> QED BY <1>13, <3>2 DEF ToSet
  <2> QED BY <2>1, <2>2
<1>36. NoneLeftOut'
  <2> SUFFICES ASSUME more, NEW k \in always \cap scan.prefix, WithinBounds(k), k <= after
               PROVE  k \in ToSet(listed)
    BY <1>1, <1>25, <1>33 DEF NoneLeftOut
  <2> QED BY <1>35
<1>37. ListingIsFaithful'
  <2>1. \A i, j \in DOMAIN scan'.listed : i < j => scan'.listed[i] < scan'.listed[j]
    BY <1>20, <1>25 DEF InOrder
  <2>2. ToSet(scan'.listed) \subseteq ever'
    <3> SUFFICES ASSUME NEW i \in DOMAIN listed PROVE listed[i] \in ever
      BY <1>1, <1>25 DEF ToSet
    <3>1. CASE i \in 1 .. n
      <4>1. scan.listed[i] \in ever
        BY <1>14, <3>1 DEF ScanInv, ListingIsFaithful, ToSet
      <4> QED BY <1>13, <3>1, <4>1
    <3>2. ASSUME NEW j \in 1 .. m, i = n + j PROVE listed[i] \in ever
      <4>1. asOf \subseteq ever
        BY <1>1 DEF ScanInv, LiveWhenTaken
      <4> QED BY <1>13, <1>17, <3>2, <4>1
    <3> QED BY <1>18, <3>1, <3>2
  <2>3. ASSUME scan'.pc = "done", NEW k \in always' \cap scan'.prefix,
               k >= scan'.start /\ (scan'.end = 0 \/ k < scan'.end)
        PROVE  k \in ToSet(scan'.listed)
    <3>1. ~more
      BY <1>25, <2>3
    <3>2. k \in always \cap scan.prefix /\ WithinBounds(k)
      BY <1>1, <1>25, <2>3 DEF WithinBounds
    <3> QED BY <1>25, <1>35, <3>1, <3>2
  <2> QED BY <2>1, <2>2, <2>3 DEF ListingIsFaithful
<1>38. PageIsExact'
  <2>1. (IF Len(listed) > Len(page) THEN listed[Len(listed) - Len(page)] ELSE 0) = scan.after
    <3>1. Len(listed) = n + m /\ Len(page) = m /\ n + m - m = n /\ (n + m > m <=> n > 0)
      BY <1>9, <1>11, <1>13, <1>14
    <3>2. CASE n > 0
      <4>1. listed[n] = scan.listed[n]
        BY <1>13, <1>14, <3>2
      <4>2. Len(listed) > Len(page) /\ Len(listed) - Len(page) = n
        <5>1. Len(listed) = n + m /\ Len(page) = m /\ n \in Nat /\ m \in Nat
          BY <1>9, <1>11, <1>13, <1>14
        <5> HIDE DEF n
        <5> QED BY <3>2, <5>1
      <4> QED BY <1>15, <3>2, <4>1, <4>2
    <3>3. CASE ~(n > 0)
      <4>1. n = 0
        BY <1>14, <3>3
      <4> QED BY <1>16, <3>1, <3>3, <4>1
    <3> QED BY <3>2, <3>3
  <2>2. {k \in asOf' \cap scan'.prefix :
            k > scan.after /\ k >= scan'.start /\ (scan'.end = 0 \/ k < scan'.end)} = W
    BY <1>1, <1>5, <1>25 DEF WithinBounds
  <2>3. ToSet(page) \subseteq W
    BY <1>11, <1>17 DEF ToSet
  <2>4. ASSUME NEW k \in W \ ToSet(page), NEW l \in ToSet(page) PROVE k > l
    <3>1. PICK j \in DOMAIN found : found[j] = k
      BY <1>7
    <3>2. PICK i \in 1 .. m : page[i] = l
      BY <1>11 DEF ToSet
    <3>3. j \notin 1 .. m
      BY <1>11, <2>4, <3>1 DEF ToSet
    <3>4. j \in Nat /\ i \in Nat /\ j >= 1 /\ i <= m
      BY <1>7, <1>9
    <3>5. i < j
      BY <1>9, <3>3, <3>4
    <3>6. found[i] < found[j] /\ found[i] = l
      BY <1>7, <1>11, <3>1, <3>2, <3>5
    <3>7. k \in Nat /\ l \in Nat
      BY <1>2, <1>5, <1>17, <3>2
    <3> QED BY <3>1, <3>6, <3>7
  <2>5. Len(page) = Min({scan.limit, Cardinality(W)})
    BY <1>7, <1>8, <1>11
  <2>6. scan'.pc = "more" <=> Cardinality(W) > scan.limit
    BY <1>25 DEF more
  <2> QED BY <1>25, <2>1, <2>2, <2>3, <2>4, <2>5, <2>6 DEF PageIsExact
<1> QED BY <1>29, <1>31, <1>32, <1>36, <1>37, <1>38 DEF ScanInv

\* The invariant of the listings holds in every reachable state of Scan, for
\* any keys, prefixes, bounds and page sizes.
THEOREM ScanInvHolds == Spec => []ScanInv
<1>1. Init => ScanInv
  BY ScanInit
<1>2. ScanInv /\ [Next]_vars => ScanInv'
  <2> SUFFICES ASSUME ScanInv, [Next]_vars PROVE ScanInv'
    OBVIOUS
  <2>1. ASSUME NEW k \in Key, NEW what \in {"value", "tombstone"}, Write(k, what) PROVE ScanInv'
    BY <2>1, WriteStep
  <2>2. CASE Flush
    BY <2>2, ListFlushStep
  <2>3. ASSUME NEW n \in DOMAIN sstables, Compact(n) PROVE ScanInv'
    BY <2>3, ListCompactStep
  <2>4. ASSUME NEW p \in Prefix, NEW start \in Bound, NEW end \in Bound,
               NEW limit \in 1 .. MaxLimit, Ask(p, start, end, limit)
        PROVE  ScanInv'
    BY <2>4, AskStep
  <2>5. CASE Take
    BY <2>5, TakeStep
  <2>6. CASE ReadTable
    BY <2>6, ReadStep
  <2>7. CASE ReadFails
    BY <2>7, EndListing DEF ReadFails
  <2>8. CASE Page
    BY <2>8, PageStep
  <2>9. CASE AskAgain
    BY <2>9, AskAgainStep
  <2>10. CASE Finish
    BY <2>10, EndListing DEF Finish
  <2>11. CASE UNCHANGED vars
    <3>1. /\ memtable' = memtable /\ sstables' = sstables /\ scan' = scan
          /\ asOf' = asOf /\ ever' = ever /\ always' = always
      BY <2>11 DEF vars, db, history
    <3> QED BY <3>1 DEF ScanInv, ScanTyped, LiveThroughout, LiveWhenTaken, Gathered, CursorInPlace,
                        NoneLeftOut, WithinBounds, PageIsExact, ListingIsFaithful, Listing
  <2> QED BY <2>1, <2>2, <2>3, <2>4, <2>5, <2>6, <2>7, <2>8, <2>9, <2>10, <2>11 DEF Next, ScanStep
<1> QED BY <1>1, <1>2, PTL DEF Spec

\* Every page is what was live at the one moment of its lock, behind the cursor
\* and up to the limit; the pages together have their keys in order and each
\* once, and leave out none that was there all the time, whatever is written,
\* flushed and merged between the pages and between the tables of one page.
THEOREM ListingsHoldWhatIsThere == Spec => []ListingsAreRight
<1>1. ScanInv => ListingsAreRight
  BY DEF ScanInv, ListingsAreRight
<1> QED BY <1>1, ScanInvHolds, PTL

----------------------------------------------------------------------------
(* Topics.                                                                 *)

LEMMA TopicCardinality == \A S : Topic!Cardinality(S) = Cardinality(S)
BY DEF Topic!Cardinality, Cardinality

\* The n-th of the numbers in E, counted from 0.
Nth(E, n) == CHOOSE e \in E : Cardinality({x \in E : x < e}) = n

LEMMA NthIs ==
    ASSUME NEW E, E \subseteq Nat, IsFiniteSet(E)
    PROVE  /\ Cardinality(E) \in Nat
           /\ \A n \in 0 .. Cardinality(E) - 1 : Nth(E, n) \in E
           /\ \A m, n \in 0 .. Cardinality(E) - 1 : m < n => Nth(E, m) < Nth(E, n)
           /\ \A e \in E : /\ Cardinality({x \in E : x < e}) \in 0 .. Cardinality(E) - 1
                           /\ Nth(E, Cardinality({x \in E : x < e})) = e
<1> DEFINE R == {p \in E \X E : p[1] < p[2]}
           place(e) == Cardinality({x \in E : <<x, e>> \in R})
           N == Cardinality(E)
<1>1. /\ \A a \in E : <<a, a>> \notin R
      /\ \A a, b \in E : a # b => <<a, b>> \in R \/ <<b, a>> \in R
      /\ \A a, b, c \in E : <<a, b>> \in R /\ <<b, c>> \in R => <<a, c>> \in R
  OBVIOUS
<1>2. /\ N \in Nat
      /\ \A i \in 1 .. N : \E t \in E : place(t) = i - 1
      /\ \A t \in E : place(t) \in Nat /\ place(t) + 1 \in 1 .. N
      /\ \A t, v \in E : place(t) < place(v) => <<t, v>> \in R
      /\ \A t, v \in E : <<t, v>> \in R => place(t) # place(v)
  <2> HIDE DEF R
  <2> QED BY <1>1, Ranks
<1>3. \A e \in E : Cardinality({x \in E : x < e}) = place(e)
  <2>1. \A e \in E : {x \in E : x < e} = {x \in E : <<x, e>> \in R}
    OBVIOUS
  <2> QED BY <2>1
<1>a. \A t, v \in E : place(t) = place(v) => t = v
  <2> HIDE DEF place, R
  <2> QED BY <1>1, <1>2
<1>b. \A t, v \in E : place(t) < place(v) => t < v
  <2> HIDE DEF place
  <2> QED BY <1>2
<1>4. \A n : Nth(E, n) = CHOOSE e \in E : place(e) = n
  <2> HIDE DEF place
  <2> QED BY <1>3 DEF Nth
<1> HIDE DEF place, R, N
<1>5. ASSUME NEW n \in 0 .. N - 1 PROVE Nth(E, n) \in E /\ place(Nth(E, n)) = n
  <2>1. n + 1 \in 1 .. N /\ (n + 1) - 1 = n
    BY <1>2
  <2>2. \E e \in E : place(e) = n
    BY <1>2, <2>1
  <2> QED BY <1>4, <2>2
<1>6. ASSUME NEW m \in 0 .. N - 1, NEW n \in 0 .. N - 1, m < n PROVE Nth(E, m) < Nth(E, n)
  BY <1>5, <1>6, <1>b
<1>7. ASSUME NEW e \in E PROVE place(e) \in 0 .. N - 1 /\ Nth(E, place(e)) = e
  <2>1. place(e) \in 0 .. N - 1
    BY <1>2
  <2>2. Nth(E, place(e)) \in E /\ place(Nth(E, place(e))) = place(e)
    BY <1>5, <2>1
  <2> QED BY <1>a, <2>1, <2>2
<1> QED BY <1>2, <1>3, <1>5, <1>6, <1>7 DEF N

\* Where the segments of s end: between them, and at its ends.
EndsOf(s) == Topic!Colons(s) \cup {0, Len(s) + 1}

ColonsIn(s) == Cardinality(Topic!Colons(s))

LEMMA EndsAre ==
    ASSUME NEW A, NEW s \in Seq(A)
    PROVE  /\ Len(s) \in Nat /\ ColonsIn(s) \in Nat /\ Topic!Cardinality(Topic!Colons(s)) = ColonsIn(s)
           /\ IsFiniteSet(EndsOf(s)) /\ Cardinality(EndsOf(s)) = ColonsIn(s) + 2
           /\ EndsOf(s) \subseteq 0 .. Len(s) + 1
           /\ Nth(EndsOf(s), 0) = 0 /\ Nth(EndsOf(s), ColonsIn(s) + 1) = Len(s) + 1
           /\ \A i \in 0 .. ColonsIn(s) + 1 : Nth(EndsOf(s), i) \in EndsOf(s) /\ Nth(EndsOf(s), i) \in 0 .. Len(s) + 1
           /\ \A i, j \in 0 .. ColonsIn(s) + 1 : i < j => Nth(EndsOf(s), i) < Nth(EndsOf(s), j)
<1> DEFINE C == Topic!Colons(s)
           l == Len(s)
           E == EndsOf(s)
<1>1. l \in Nat /\ DOMAIN s = 1 .. l
  OBVIOUS
<1>2. C \in SUBSET (1 .. l)
  BY <1>1 DEF Topic!Colons
<1>3. IsFiniteSet(1 .. l)
  BY <1>1, FS_Interval
<1> HIDE DEF C, l
<1>4. IsFiniteSet(C) /\ Cardinality(C) \in Nat
  BY <1>2, <1>3, FS_Subset, FS_CardinalityType
<1>5. E = (C \cup {0}) \cup {l + 1}
  BY DEF EndsOf, C, l
<1>6. 0 \notin C /\ l + 1 \notin C \cup {0}
  BY <1>1, <1>2
<1>7. IsFiniteSet(C \cup {0}) /\ Cardinality(C \cup {0}) = Cardinality(C) + 1
  BY <1>4, <1>6, FS_AddElement
<1>8. IsFiniteSet((C \cup {0}) \cup {l + 1}) /\ Cardinality((C \cup {0}) \cup {l + 1}) = Cardinality(C \cup {0}) + 1
  BY <1>6, <1>7, FS_AddElement
<1>9. IsFiniteSet(E) /\ Cardinality(E) = Cardinality(C) + 2 /\ E \subseteq 0 .. l + 1 /\ E \subseteq Nat
  BY <1>1, <1>2, <1>4, <1>5, <1>7, <1>8
<1> DEFINE n == Cardinality(C)
<1>10. 0 \in E /\ {x \in E : x < 0} = {}
  BY <1>1, <1>5, <1>9
<1>11. l + 1 \in E /\ {x \in E : x < l + 1} = C \cup {0}
  <2>1. \A x \in C \cup {0} : x < l + 1
    BY <1>1, <1>2
  <2>2. ~(l + 1 < l + 1)
    BY <1>1
  <2> HIDE DEF E
  <2> QED BY <1>5, <2>1, <2>2
<1> HIDE DEF E, n
<1>12. Cardinality({x \in E : x < 0}) = 0 /\ Cardinality({x \in E : x < l + 1}) = n + 1
  BY <1>7, <1>10, <1>11, FS_EmptySet DEF n
<1>13. Nth(E, 0) = 0 /\ Nth(E, n + 1) = l + 1
  BY <1>9, <1>10, <1>11, <1>12, NthIs
<1>14. 0 .. Cardinality(E) - 1 = 0 .. n + 1
  BY <1>4, <1>9 DEF n
<1>15. /\ \A i \in 0 .. n + 1 : Nth(E, i) \in E
       /\ \A i, j \in 0 .. n + 1 : i < j => Nth(E, i) < Nth(E, j)
  BY <1>9, <1>14, NthIs
<1> QED BY <1>1, <1>4, <1>9, <1>13, <1>15, TopicCardinality DEF ColonsIn, C, l, n, E

\* A segment is what is between two ends.
LEMMA SegmentIs ==
    ASSUME NEW A, NEW s \in Seq(A), NEW i \in 0 .. ColonsIn(s)
    PROVE  /\ Topic!Segment(s, i) = SubSeq(s, Nth(EndsOf(s), i) + 1, Nth(EndsOf(s), i + 1) - 1)
           /\ Topic!Segment(s, i) \in Seq(A)
           /\ Len(Topic!Segment(s, i)) = Nth(EndsOf(s), i + 1) - 1 - Nth(EndsOf(s), i)
           /\ \A p \in Nat : Nth(EndsOf(s), i) < p /\ p < Nth(EndsOf(s), i + 1) =>
                 p \in 1 .. Len(s) /\ Topic!Segment(s, i)[p - Nth(EndsOf(s), i)] = s[p]
<1>1. PICK a \in Nat, b \in Nat, l \in Nat :
         /\ a = Nth(EndsOf(s), i) /\ b = Nth(EndsOf(s), i + 1) /\ a < b /\ b <= l + 1 /\ l = Len(s)
  <2>1. ColonsIn(s) \in Nat /\ Len(s) \in Nat
    BY EndsAre
  <2>2. i \in 0 .. ColonsIn(s) + 1 /\ i + 1 \in 0 .. ColonsIn(s) + 1 /\ i < i + 1
    BY <2>1
  <2>3. /\ Nth(EndsOf(s), i) < Nth(EndsOf(s), i + 1)
        /\ Nth(EndsOf(s), i) \in 0 .. Len(s) + 1 /\ Nth(EndsOf(s), i + 1) \in 0 .. Len(s) + 1
    BY <2>2, EndsAre
  <2> QED BY <2>1, <2>3
<1>2. Topic!Segment(s, i) = SubSeq(s, a + 1, b - 1)
  <2>1. Topic!Segment(s, i) = SubSeq(s, Nth(EndsOf(s), i) + 1, Nth(EndsOf(s), i + 1) - 1)
    BY TopicCardinality, Zenon DEF Topic!Segment, Nth, EndsOf
  <2> QED BY <1>1, <2>1
<1>3. /\ SubSeq(s, a + 1, b - 1) \in Seq(A) /\ Len(SubSeq(s, a + 1, b - 1)) = b - 1 - a
      /\ \A p \in Nat : a < p /\ p < b => p \in 1 .. l /\ SubSeq(s, a + 1, b - 1)[p - a] = s[p]
  <2>1. ASSUME NEW m \in 1 .. l + 1, NEW n \in m - 1 .. l
        PROVE  /\ SubSeq(s, m, n) \in Seq(A) /\ Len(SubSeq(s, m, n)) = n - m + 1
               /\ \A v \in 1 .. n - m + 1 : SubSeq(s, m, n)[v] = s[m + v - 1]
    <3>1. m \in Int /\ n \in Int /\ \A v \in m .. n : s[v] \in A
      BY <1>1
    <3> QED BY <3>1, SubSeqProperties
  <2>2. PICK m \in 1 .. l + 1 : m = a + 1
    BY <1>1
  <2>3. PICK n \in m - 1 .. l : n = b - 1
    BY <1>1, <2>2
  <2>4. PICK q \in Seq(A) : /\ q = SubSeq(s, a + 1, b - 1) /\ Len(q) = n - m + 1
                            /\ \A v \in 1 .. n - m + 1 : q[v] = s[m + v - 1]
    BY <2>1, <2>2, <2>3
  <2>5. ASSUME NEW p \in Nat, a < p, p < b PROVE p \in 1 .. l /\ q[p - a] = s[p]
    <3>1. n - m + 1 = b - 1 - a /\ m = a + 1 /\ b <= l + 1 /\ a \in Nat /\ b \in Nat /\ l \in Nat
      <4>1. \A x, y \in Nat : (y - 1) - (x + 1) + 1 = y - 1 - x
        OBVIOUS
      <4> QED BY <1>1, <2>2, <2>3, <4>1
    <3>2. \A x, y, z, w \in Nat : x < w /\ w < y /\ y <= z + 1 =>
             w - x \in 1 .. y - 1 - x /\ (x + 1) + (w - x) - 1 = w /\ w \in 1 .. z
      OBVIOUS
    <3>3. p - a \in 1 .. n - m + 1 /\ m + (p - a) - 1 = p /\ p \in 1 .. l
      BY <2>5, <3>1, <3>2
    <3> QED BY <2>4, <3>3
  <2>6. Len(q) = b - 1 - a
    BY <2>2, <2>3, <2>4
  <2> QED BY <2>4, <2>5, <2>6
<1> QED BY <1>1, <1>2, <1>3

PrefixOf(s, t) == Len(s) <= Len(t) /\ \A p \in 1 .. Len(s) : t[p] = s[p]

LEMMA PrefixIs ==
    ASSUME NEW A, NEW s \in Seq(A), NEW t \in Seq(A)
    PROVE  Topic!IsPrefix(s, t) <=> PrefixOf(s, t)
<1>1. CASE Len(s) <= Len(t)
  <2>1. PICK k \in Nat : k = Len(s) /\ k <= Len(t)
    BY <1>1
  <2>2. SubSeq(s, 1, k) = s /\ DOMAIN s = 1 .. k
    BY <2>1
  <2>3. PICK q \in Seq(A) : q = SubSeq(t, 1, k) /\ Len(q) = k /\ \A p \in 1 .. k : q[p] = t[p]
    <3>1. 1 \in Int /\ k \in Int /\ \A p \in 1 .. k : t[p] \in A
      BY <2>1
    <3>2. /\ SubSeq(t, 1, k) \in Seq(A) /\ Len(SubSeq(t, 1, k)) = IF 1 <= k THEN k - 1 + 1 ELSE 0
          /\ \A p \in 1 .. k - 1 + 1 : SubSeq(t, 1, k)[p] = t[1 + p - 1]
      BY <3>1, SubSeqProperties
    <3>3. k - 1 + 1 = k /\ (1 <= k \/ k = 0) /\ \A p \in 1 .. k : 1 + p - 1 = p
      BY <2>1
    <3> QED BY <3>2, <3>3
  <2>4. q = s <=> \A p \in 1 .. k : t[p] = s[p]
    BY <2>1, <2>3
  <2>5. Topic!IsPrefix(s, t) <=> SubSeq(s, 1, k) = SubSeq(t, 1, k)
    BY <1>1, <2>1 DEF Topic!IsPrefix
  <2> QED BY <1>1, <2>1, <2>2, <2>3, <2>4, <2>5 DEF PrefixOf
<1>2. CASE ~(Len(s) <= Len(t))
  BY <1>2 DEF Topic!IsPrefix, PrefixOf
<1> QED BY <1>1, <1>2

\* Either the same segments and no more, or a colon where the next begin.
Above(s, t) == PrefixOf(s, t) /\ (Len(s) = Len(t) \/ (Len(s) < Len(t) /\ t[Len(s) + 1] = ":"))

LEMMA AboveIs ==
    ASSUME NEW A, NEW s \in Seq(A), NEW t \in Seq(A)
    PROVE  Above(s, t) <=> s = t \/ Topic!Parent(s, t)
<1>1. PrefixOf(s, t) /\ Len(s) = Len(t) <=> s = t
  BY DEF PrefixOf
<1>2. Topic!Parent(s, t) <=> PrefixOf(s, t) /\ Len(s) < Len(t) /\ t[Len(s) + 1] = ":"
  <2>1. Len(s) < Len(t) <=> Len(t) > Len(s)
    OBVIOUS
  <2> QED BY <2>1, PrefixIs DEF Topic!Parent
<1>3. Above(s, t) <=> (PrefixOf(s, t) /\ Len(s) = Len(t)) \/ (PrefixOf(s, t) /\ Len(s) < Len(t) /\ t[Len(s) + 1] = ":")
  BY Zenon DEF Above
<1> QED BY <1>1, <1>2, <1>3, Zenon

\* Whoever is above t has its first ends.
LEMMA SameEnds ==
    ASSUME NEW A, NEW s \in Seq(A), NEW t \in Seq(A), Above(s, t)
    PROVE  /\ ColonsIn(s) <= ColonsIn(t)
           /\ \A i \in 0 .. ColonsIn(s) + 1 : Nth(EndsOf(t), i) = Nth(EndsOf(s), i)
<1>1. PICK k \in Nat, l \in Nat :
         /\ k = Len(s) /\ l = Len(t) /\ DOMAIN s = 1 .. k /\ DOMAIN t = 1 .. l /\ k <= l
         /\ \A p \in 1 .. k : t[p] = s[p]
         /\ k = l \/ (k < l /\ t[k + 1] = ":")
  BY DEF Above, PrefixOf
<1>2. EndsOf(s) = {e \in EndsOf(t) : e <= k + 1}
  <2>1. \A e : e \in EndsOf(s) <=> e = 0 \/ e = k + 1 \/ (e \in 1 .. k /\ s[e] = ":")
    BY <1>1 DEF EndsOf, Topic!Colons
  <2>2. \A e : e \in EndsOf(t) <=> e = 0 \/ e = l + 1 \/ (e \in 1 .. l /\ t[e] = ":")
    BY <1>1 DEF EndsOf, Topic!Colons
  <2>3. ASSUME NEW e \in EndsOf(s) PROVE e \in EndsOf(t) /\ e <= k + 1
    <3>1. CASE e = 0
      BY <1>1, <2>2, <3>1
    <3>2. CASE e = k + 1
      <4>1. k = l \/ k + 1 \in 1 .. l
        BY <1>1
      <4> QED BY <1>1, <2>2, <3>2, <4>1
    <3>3. CASE e \in 1 .. k /\ s[e] = ":"
      <4>1. e \in 1 .. l /\ e <= k + 1
        BY <1>1, <3>3
      <4> QED BY <1>1, <2>2, <3>3, <4>1
    <3> QED BY <2>1, <3>1, <3>2, <3>3
  <2>4. ASSUME NEW e \in EndsOf(t), e <= k + 1 PROVE e \in EndsOf(s)
    <3>1. CASE e = 0
      BY <2>1, <3>1
    <3>2. CASE e = l + 1
      <4>1. k = l
        BY <1>1, <2>4, <3>2
      <4> QED BY <2>1, <3>2, <4>1
    <3>3. CASE e \in 1 .. l /\ t[e] = ":"
      <4>1. e = k + 1 \/ e \in 1 .. k
        BY <1>1, <2>4, <3>3
      <4> QED BY <1>1, <2>1, <3>3, <4>1
    <3> QED BY <2>2, <3>1, <3>2, <3>3
  <2> QED BY <2>3, <2>4
<1>3. /\ IsFiniteSet(EndsOf(s)) /\ IsFiniteSet(EndsOf(t)) /\ Cardinality(EndsOf(s)) = ColonsIn(s) + 2
      /\ Cardinality(EndsOf(t)) = ColonsIn(t) + 2 /\ ColonsIn(s) \in Nat /\ ColonsIn(t) \in Nat
      /\ EndsOf(s) \subseteq Nat /\ EndsOf(t) \subseteq Nat
  <2>1. EndsOf(s) \subseteq 0 .. Len(s) + 1 /\ EndsOf(t) \subseteq 0 .. Len(t) + 1
    BY EndsAre
  <2> QED BY <2>1, EndsAre
<1>4. ColonsIn(s) <= ColonsIn(t)
  <2>1. EndsOf(s) \in SUBSET EndsOf(t)
    BY <1>2
  <2>2. Cardinality(EndsOf(s)) <= Cardinality(EndsOf(t))
    BY <1>3, <2>1, FS_Subset
  <2> QED BY <1>3, <2>2
<1>5. ASSUME NEW i \in 0 .. ColonsIn(s) + 1 PROVE Nth(EndsOf(t), i) = Nth(EndsOf(s), i)
  <2>1. PICK e : e = Nth(EndsOf(s), i)
    OBVIOUS
  <2>2. e \in EndsOf(s) /\ e \in EndsOf(t) /\ e \in Nat /\ e <= k + 1
    BY <1>2, <1>3, <2>1, EndsAre
  <2>3. Cardinality({x \in EndsOf(s) : x < e}) = i
    <3>1. PICK c : c = Cardinality({x \in EndsOf(s) : x < e})
      OBVIOUS
    <3>2. c \in 0 .. ColonsIn(s) + 1 /\ Nth(EndsOf(s), c) = e
      <4>1. c \in 0 .. Cardinality(EndsOf(s)) - 1 /\ Nth(EndsOf(s), c) = e
        BY <1>3, <2>2, <3>1, NthIs
      <4> QED BY <1>3, <4>1
    <3>3. c \in Nat /\ i \in Nat
      BY <1>3, <3>2
    <3>4. ~(c < i) /\ ~(i < c)
      <4>1. \A u, v \in 0 .. ColonsIn(s) + 1 : u < v => Nth(EndsOf(s), u) < Nth(EndsOf(s), v)
        BY EndsAre
      <4>2. ~(e < e)
        BY <2>2
      <4> QED BY <2>1, <3>2, <4>1, <4>2
    <3>5. c = i
      BY <3>3, <3>4
    <3> QED BY <3>1, <3>5
  <2>4. {x \in EndsOf(t) : x < e} = {x \in EndsOf(s) : x < e}
    <3>1. \A x \in EndsOf(t) : x < e => x <= k + 1
      BY <1>3, <2>2
    <3> QED BY <1>2, <3>1
  <2>5. Nth(EndsOf(t), Cardinality({x \in EndsOf(t) : x < e})) = e
    BY <1>3, <2>2, NthIs
  <2> QED BY <2>1, <2>3, <2>4, <2>5
<1> QED BY <1>4, <1>5

LEMMA AboveSegments ==
    ASSUME NEW A, NEW s \in Seq(A), NEW t \in Seq(A), Above(s, t)
    PROVE  Topic!SegmentPrefix(s, t)
<1>1. /\ ColonsIn(s) \in Nat /\ ColonsIn(t) \in Nat /\ ColonsIn(s) <= ColonsIn(t)
      /\ Topic!Cardinality(Topic!Colons(s)) = ColonsIn(s) /\ Topic!Cardinality(Topic!Colons(t)) = ColonsIn(t)
  BY SameEnds, EndsAre
<1>2. ASSUME NEW i \in 0 .. ColonsIn(s) PROVE Topic!Segment(s, i) = Topic!Segment(t, i)
  <2>1. i \in 0 .. ColonsIn(t) /\ i \in 0 .. ColonsIn(s) + 1 /\ i + 1 \in 0 .. ColonsIn(s) + 1
    BY <1>1
  <2>2. PICK a : a = Nth(EndsOf(s), i) /\ a = Nth(EndsOf(t), i)
    BY <2>1, SameEnds
  <2>3. PICK b : b = Nth(EndsOf(s), i + 1) /\ b = Nth(EndsOf(t), i + 1)
    BY <2>1, SameEnds
  <2>4. PICK x \in Seq(A) : x = Topic!Segment(s, i)
    BY SegmentIs
  <2>5. PICK y \in Seq(A) : y = Topic!Segment(t, i)
    BY <2>1, SegmentIs
  <2>6. Len(x) = b - 1 - a /\ \A p \in Nat : a < p /\ p < b => p \in 1 .. Len(s) /\ x[p - a] = s[p]
    BY <2>2, <2>3, <2>4, SegmentIs
  <2>7. Len(y) = b - 1 - a /\ \A p \in Nat : a < p /\ p < b => y[p - a] = t[p]
    BY <2>1, <2>2, <2>3, <2>5, SegmentIs
  <2>8. a \in Nat /\ b \in Nat
    <3>1. a \in 0 .. Len(s) + 1 /\ b \in 0 .. Len(s) + 1
      BY <2>1, <2>2, <2>3, EndsAre
    <3> QED BY <3>1
  <2>9. ASSUME NEW v \in 1 .. b - 1 - a PROVE x[v] = y[v]
    <3>1. PICK p \in Nat : p = a + v /\ a < p /\ p < b /\ p - a = v
      <4>1. \A q, r \in Nat : \A u \in 1 .. r - 1 - q : q + u \in Nat /\ q < q + u /\ q + u < r /\ (q + u) - q = u
        OBVIOUS
      <4> QED BY <2>8, <4>1
    <3>2. x[v] = s[p] /\ y[v] = t[p] /\ p \in 1 .. Len(s)
      BY <2>6, <2>7, <3>1
    <3> QED BY <3>2 DEF Above, PrefixOf
  <2>10. x = y
    <3>1. Len(x) = Len(y) /\ \A v \in 1 .. Len(x) : x[v] = y[v]
      BY <2>6, <2>7, <2>9
    <3> QED BY <3>1, SeqEqual
  <2> QED BY <2>4, <2>5, <2>10
<1> QED BY <1>1, <1>2, Zenon DEF Topic!SegmentPrefix

LEMMA SegmentsAbove ==
    ASSUME NEW A, NEW s \in Seq(A), NEW t \in Seq(A), Topic!SegmentPrefix(s, t)
    PROVE  Above(s, t)
<1> DEFINE a(i) == Nth(EndsOf(s), i)
           b(i) == Nth(EndsOf(t), i)
           n == ColonsIn(s)
           k == Len(s)
           l == Len(t)
<1>1. /\ n \in Nat /\ ColonsIn(t) \in Nat /\ n <= ColonsIn(t) /\ k \in Nat /\ l \in Nat
      /\ \A i \in 0 .. n : Topic!Segment(s, i) = Topic!Segment(t, i)
  BY EndsAre DEF Topic!SegmentPrefix
<1>2. /\ a(0) = 0 /\ b(0) = 0 /\ a(n + 1) = k + 1
      /\ \A i \in 0 .. n + 1 : a(i) \in EndsOf(s) /\ a(i) \in 0 .. k + 1
      /\ \A i, j \in 0 .. n + 1 : i < j => a(i) < a(j)
      /\ \A i \in 0 .. ColonsIn(t) + 1 : b(i) \in EndsOf(t) /\ b(i) \in 0 .. l + 1
  BY EndsAre
<1>3. \A i \in 0 .. n + 1 : i \in 0 .. ColonsIn(t) + 1
  BY <1>1
<1>4. \A i \in 0 .. n : i \in 0 .. ColonsIn(t) /\ i \in 0 .. n + 1 /\ i + 1 \in 0 .. n + 1 /\ i < i + 1
  BY <1>1
<1>5. \A e : e \in EndsOf(s) <=> e = 0 \/ e = k + 1 \/ (e \in 1 .. k /\ s[e] = ":")
  BY DEF EndsOf, Topic!Colons
<1>6. \A e : e \in EndsOf(t) <=> e = 0 \/ e = l + 1 \/ (e \in 1 .. l /\ t[e] = ":")
  BY DEF EndsOf, Topic!Colons
<1>7. ASSUME NEW i \in 0 .. n
      PROVE  /\ Len(Topic!Segment(s, i)) = a(i + 1) - 1 - a(i)
             /\ Len(Topic!Segment(s, i)) = b(i + 1) - 1 - b(i)
             /\ \A p \in Nat : a(i) < p /\ p < a(i + 1) => Topic!Segment(s, i)[p - a(i)] = s[p]
             /\ \A p \in Nat : b(i) < p /\ p < b(i + 1) =>
                   p \in 1 .. l /\ Topic!Segment(s, i)[p - b(i)] = t[p]
  <2>1. i \in 0 .. ColonsIn(t) /\ Topic!Segment(s, i) = Topic!Segment(t, i)
    BY <1>1, <1>4
  <2>2. /\ Len(Topic!Segment(s, i)) = a(i + 1) - 1 - a(i)
        /\ \A p \in Nat : a(i) < p /\ p < a(i + 1) => Topic!Segment(s, i)[p - a(i)] = s[p]
    BY SegmentIs
  <2>3. /\ Len(Topic!Segment(t, i)) = b(i + 1) - 1 - b(i)
        /\ \A p \in Nat : b(i) < p /\ p < b(i + 1) =>
              p \in 1 .. l /\ Topic!Segment(t, i)[p - b(i)] = t[p]
    BY <2>1, SegmentIs
  <2> HIDE DEF a, b
  <2> QED BY <2>1, <2>2, <2>3
<1> HIDE DEF a, b, n, k, l
<1> DEFINE Bad == {i \in 0 .. n + 1 : a(i) # b(i)}
<1>8. Bad = {}
  <2> SUFFICES ASSUME Bad # {} PROVE FALSE
    OBVIOUS
  <2>1. PICK j \in Bad : \A i \in Bad : j <= i
    <3>1. Bad \subseteq Nat
      BY <1>1
    <3> HIDE DEF Bad
    <3> QED BY <3>1, SmallestOf
  <2>2. j \in 0 .. n + 1 /\ a(j) # b(j)
    OBVIOUS
  <2>3. j # 0
    BY <1>2, <2>2
  <2>4. PICK i \in 0 .. n : i + 1 = j /\ ~(j <= i) /\ i \in 0 .. n + 1
    <3>1. j - 1 \in 0 .. n /\ (j - 1) + 1 = j /\ ~(j <= j - 1) /\ j - 1 \in 0 .. n + 1
      BY <1>1, <2>2, <2>3
    <3> HIDE DEF Bad
    <3> QED BY <3>1
  <2>5. a(i) = b(i)
    <3>1. i \notin Bad
      <4> HIDE DEF Bad
      <4> QED BY <2>1, <2>4
    <3> QED BY <2>4, <3>1
  <2>6. a(i + 1) - 1 - a(i) = b(i + 1) - 1 - b(i)
    BY <1>7
  <2>7. PICK u \in Nat, v \in Nat, w \in Nat : u = a(i) /\ v = a(i + 1) /\ w = b(i + 1)
    <3>1. a(i) \in 0 .. k + 1 /\ a(i + 1) \in 0 .. k + 1 /\ b(i + 1) \in 0 .. l + 1
      BY <1>2, <1>3, <1>4
    <3> QED BY <3>1
  <2>8. v - 1 - u = w - 1 - u
    BY <2>5, <2>6, <2>7
  <2>9. v = w
    BY <2>8
  <2> QED BY <2>2, <2>4, <2>7, <2>9
<1>9. \A i \in 0 .. n + 1 : b(i) = a(i)
  BY <1>8
<1>10. k + 1 \in EndsOf(t) /\ k <= l
  <2>1. n + 1 \in 0 .. n + 1
    BY <1>1
  <2>2. b(n + 1) = k + 1 /\ b(n + 1) \in EndsOf(t) /\ b(n + 1) \in 0 .. l + 1
    BY <1>2, <1>3, <1>9, <2>1
  <2> QED BY <1>1, <2>2
<1>11. ASSUME NEW p \in 1 .. k PROVE t[p] = s[p]
  <2> DEFINE NotBefore == {m \in 0 .. n + 1 : p <= a(m)}
  <2>1. PICK m \in NotBefore : \A i \in NotBefore : m <= i
    <3>1. NotBefore \subseteq Nat
      BY <1>1
    <3>2. n + 1 \in NotBefore
      <4>1. n + 1 \in 0 .. n + 1 /\ p <= k + 1
        BY <1>1
      <4> QED BY <1>2, <4>1
    <3> HIDE DEF NotBefore
    <3> QED BY <3>1, <3>2, SmallestOf
  <2>2. m \in 0 .. n + 1 /\ p <= a(m) /\ p \in Nat /\ p >= 1
    BY <1>1
  <2>3. m # 0
    BY <1>2, <2>2
  <2>4. PICK i \in 0 .. n : i + 1 = m /\ ~(m <= i) /\ i \in 0 .. n + 1
    <3>1. m - 1 \in 0 .. n /\ (m - 1) + 1 = m /\ ~(m <= m - 1) /\ m - 1 \in 0 .. n + 1
      BY <1>1, <2>2, <2>3
    <3> HIDE DEF NotBefore
    <3> QED BY <3>1
  <2>5. ~(p <= a(i))
    <3>1. i \notin NotBefore
      <4> HIDE DEF NotBefore
      <4> QED BY <2>1, <2>4
    <3> QED BY <2>4, <3>1
  <2>6. PICK u \in Nat, v \in Nat : /\ u = a(i) /\ v = a(i + 1) /\ u = b(i) /\ v = b(i + 1)
                                    /\ u < p /\ p <= v
    <3>1. a(i) \in Nat /\ a(i + 1) \in Nat
      <4>1. a(i) \in 0 .. k + 1 /\ a(i + 1) \in 0 .. k + 1
        BY <1>2, <1>4
      <4> QED BY <4>1
    <3>2. a(i) < p
      BY <2>2, <2>5, <3>1
    <3> QED BY <1>4, <1>9, <2>2, <2>4, <3>1, <3>2
  <2>7. CASE p < v
    <3>1. Topic!Segment(s, i)[p - u] = s[p] /\ Topic!Segment(s, i)[p - u] = t[p]
      BY <1>7, <2>2, <2>6, <2>7
    <3> QED BY <3>1
  <2>8. CASE p = v
    <3>1. p \in EndsOf(s) /\ p \in EndsOf(t)
      BY <1>2, <1>3, <1>4, <2>6, <2>8
    <3>2. p # 0 /\ p # k + 1 /\ p # l + 1
      BY <1>1, <1>10
    <3> QED BY <1>5, <1>6, <3>1, <3>2
  <2> QED BY <2>2, <2>6, <2>7, <2>8
<1>12. k = l \/ (k < l /\ t[k + 1] = ":")
  <2>1. k + 1 # 0 /\ (k + 1 = l + 1 => k = l) /\ (k + 1 \in 1 .. l => k < l)
    BY <1>1
  <2> QED BY <1>6, <1>10, <2>1
<1>13. PrefixOf(s, t)
  BY <1>10, <1>11 DEF PrefixOf, k, l
<1> QED BY <1>12, <1>13, Zenon DEF Above, k, l

\* matches does what is said of segments.
LEMMA MatchesAre ==
    ASSUME NEW A, NEW s \in Seq(A), NEW t \in Seq(A)
    PROVE  Topic!matches(s, t) <=>
              IF s # <<>> /\ Topic!Last(s) = "*" THEN Topic!IsPrefix(Topic!Front(s), t)
              ELSE Topic!SegmentPrefix(s, t)
<1>1. CASE ~(s # <<>> /\ Topic!Last(s) = "*")
  <2>1. s # <<"*">>
    <3>1. <<"*">> # <<>> /\ Topic!Last(<<"*">>) = "*"
      BY DEF Topic!Last
    <3> QED BY <1>1, <3>1
  <2>2. ~Topic!Wildcard(s, t)
    BY <1>1 DEF Topic!Wildcard
  <2>3. Topic!matches(s, t) <=> s = t \/ Topic!Parent(s, t)
    BY <2>1, <2>2 DEF Topic!matches
  <2>4. Topic!SegmentPrefix(s, t) <=> Above(s, t)
    BY AboveSegments, SegmentsAbove
  <2>5. Above(s, t) <=> s = t \/ Topic!Parent(s, t)
    BY AboveIs
  <2> QED BY <1>1, <2>3, <2>4, <2>5
<1>2. CASE s # <<>> /\ Topic!Last(s) = "*"
  <2>1. PICK k \in Nat : k = Len(s) /\ k >= 1 /\ s[k] = "*" /\ DOMAIN s = 1 .. k
    BY <1>2 DEF Topic!Last
  <2>2. PICK f \in Seq(A) : /\ f = Topic!Front(s) /\ Len(f) = k - 1
                            /\ \A p \in 1 .. k - 1 : f[p] = s[p]
    <3>1. 1 \in Int /\ k - 1 \in Int /\ \A p \in 1 .. k - 1 : s[p] \in A
      BY <2>1
    <3>2. /\ SubSeq(s, 1, k - 1) \in Seq(A)
          /\ Len(SubSeq(s, 1, k - 1)) = IF 1 <= k - 1 THEN k - 1 - 1 + 1 ELSE 0
          /\ \A p \in 1 .. k - 1 - 1 + 1 : SubSeq(s, 1, k - 1)[p] = s[1 + p - 1]
      BY <3>1, SubSeqProperties
    <3>3. k - 1 - 1 + 1 = k - 1 /\ (1 <= k - 1 \/ k - 1 = 0) /\ \A p \in 1 .. k - 1 : 1 + p - 1 = p
      BY <2>1
    <3>4. Topic!Front(s) = SubSeq(s, 1, k - 1)
      BY <2>1 DEF Topic!Front
    <3>5. /\ SubSeq(s, 1, k - 1) \in Seq(A) /\ Len(SubSeq(s, 1, k - 1)) = k - 1
          /\ \A p \in 1 .. k - 1 : SubSeq(s, 1, k - 1)[p] = s[p]
      BY <3>2, <3>3
    <3> QED BY <3>4, <3>5
  <2>3. PrefixOf(s, t) => PrefixOf(f, t)
    <3>1. k - 1 \in Nat /\ k - 1 <= k /\ \A p \in 1 .. k - 1 : p \in 1 .. k
      BY <2>1
    <3>2. Len(t) \in Nat
      OBVIOUS
    <3> QED BY <2>1, <2>2, <3>1, <3>2 DEF PrefixOf
  <2>4. Topic!Parent(s, t) \/ s = t => PrefixOf(s, t)
    BY AboveIs DEF Above
  <2>5. CASE k = 1
    <3>1. s = <<"*">>
      BY <2>1, <2>5
    <3>2. PrefixOf(f, t)
      BY <2>2, <2>5 DEF PrefixOf
    <3>3. Topic!matches(s, t)
      BY <3>1 DEF Topic!matches
    <3> QED BY <1>2, <2>2, <3>2, <3>3, PrefixIs
  <2>6. CASE k # 1
    <3>1. s # <<"*">> /\ Len(s) > 1
      BY <2>1, <2>6
    <3>2. Topic!Wildcard(s, t) <=> PrefixOf(f, t)
      BY <1>2, <2>2, <3>1, PrefixIs DEF Topic!Wildcard
    <3>3. Topic!matches(s, t) <=> PrefixOf(f, t)
      BY <2>3, <2>4, <3>1, <3>2 DEF Topic!matches
    <3> QED BY <1>2, <2>2, <3>3, PrefixIs
  <2> QED BY <2>5, <2>6
<1> QED BY <1>1, <1>2

\* A subscription gets the events of the topics that begin with its segments,
\* for every alphabet and every length of a topic, though the code compares
\* characters.
THEOREM TopicsMatchBySegments == Topic!Spec => []MatchesBySegments
<1> DEFINE Typed == sub \in Seq(Topic!Alphabet) /\ topic \in Seq(Topic!Alphabet)
<1>1. Topic!Init => Typed
  BY DEF Topic!Init
<1>2. Typed /\ [Topic!Next]_(Topic!vars) => Typed'
  <2> SUFFICES ASSUME Typed, [Topic!Next]_(Topic!vars) PROVE Typed'
    OBVIOUS
  <2>1. \A A : \A s \in Seq(A) : \A x \in A : Append(s, x) \in Seq(A)
    OBVIOUS
  <2>2. CASE UNCHANGED Topic!vars
    BY <2>2 DEF Topic!vars, Topic!Alphabet
  <2>3. ASSUME NEW ch \in Topic!Alphabet, Topic!TypeSub(ch) PROVE Typed'
    <3>1. sub' = Append(sub, ch) /\ topic' = topic
      BY <2>3 DEF Topic!TypeSub
    <3> QED BY <2>1, <3>1 DEF Topic!Alphabet
  <2>4. ASSUME NEW ch \in Topic!Alphabet, Topic!TypeTopic(ch) PROVE Typed'
    <3>1. topic' = Append(topic, ch) /\ sub' = sub
      BY <2>4 DEF Topic!TypeTopic
    <3> QED BY <2>1, <3>1 DEF Topic!Alphabet
  <2> QED BY <2>2, <2>3, <2>4 DEF Topic!Next
<1>3. Typed => MatchesBySegments
  BY MatchesAre DEF MatchesBySegments, Topic!MatchesBySegments
<1> QED BY <1>1, <1>2, <1>3, PTL DEF Topic!Spec

----------------------------------------------------------------------------
(* The whole.                                                              *)

\* The parts run apart: the composition implements each of the five by itself,
\* so that what is proved of a part holds of the whole.
THEOREM StorageRunsApart ==
    StorageSpec => Spec /\ Table!Spec /\ Log!Spec /\ Dir!Spec /\ Topic!Spec
<1>1. StorageInit => Init /\ Table!Init /\ Log!Init /\ Dir!Init /\ Topic!Init
  BY DEF StorageInit
<1> DEFINE all == <<vars, tableVars, logVars, lockVars, topicVars>>
<1>2. [StorageNext]_all => [Next]_vars
  BY DEF StorageNext, ListingStep, TableStep, LogStep, DirStep, TopicStep
<1>3. [StorageNext]_all => [Table!Next]_(Table!vars)
  BY DEF StorageNext, ListingStep, TableStep, LogStep, DirStep, TopicStep, tableVars, Table!vars
<1>4. [StorageNext]_all => [Log!Next]_(Log!vars)
  BY DEF StorageNext, ListingStep, TableStep, LogStep, DirStep, TopicStep, logVars, Log!vars
<1>5. [StorageNext]_all => [Dir!Next]_(Dir!vars)
  BY DEF StorageNext, ListingStep, TableStep, LogStep, DirStep, TopicStep, lockVars, Dir!vars
<1>6. [StorageNext]_all => [Topic!Next]_(Topic!vars)
  BY DEF StorageNext, ListingStep, TableStep, LogStep, DirStep, TopicStep, topicVars, Topic!vars
<1> QED BY <1>1, <1>2, <1>3, <1>4, <1>5, <1>6, PTL
    DEF StorageSpec, Spec, Table!Spec, Log!Spec, Dir!Spec, Topic!Spec
=============================================================================
