---------------------------- MODULE FormatProofs ----------------------------
(***************************************************************************)
(* Theorems about the files below the engine: what a restart replays of    *)
(* the log, for any sizes of records and a crash at any moment, and what   *)
(* is read of a table file, for any records and any hash functions.        *)
(***************************************************************************)
EXTENDS StorageProofs

----------------------------------------------------------------------------
(* The log file.                                                           *)

HeadCell == [is : {"head"}, id : Nat, len : Nat]

BodyCell == [is : {"body"}, id : Nat]

Cell == HeadCell \cup BodyCell \cup {Log!Zero}

WholeAt(f, at) == at \in DOMAIN f /\ Log!Whole(f, at)

\* The cells at which whole records of f begin, one after the other from the
\* first on, and the cell behind the last of them.
Chain(f, c) ==
    /\ c \in Seq(Nat) /\ Len(c) >= 1 /\ c[1] = 1
    /\ \A i \in 1 .. Len(c) - 1 : WholeAt(f, c[i]) /\ c[i + 1] = c[i] + f[c[i]].len + 1

\* All of them: there is no whole record where the last one ends.
Full(f, c) == Chain(f, c) /\ ~WholeAt(f, c[Len(c)])

IdsOf(f, c) == [i \in 1 .. Len(c) - 1 |-> f[c[i]].id]

\* p is the beginning of f.
Begins(p, f) == Len(p) <= Len(f) /\ \A i \in 1 .. Len(p) : p[i] = f[i]

\* g is what may be left of f: shorter, and zero here and there.
Torn(g, f) == Len(g) <= Len(f) /\ \A i \in 1 .. Len(g) : g[i] = f[i] \/ g[i] = Log!Zero

LEMMA WholeIs ==
    ASSUME NEW f \in Seq(Cell), NEW at, WholeAt(f, at)
    PROVE  /\ at \in 1 .. Len(f) /\ at \in Nat
           /\ f[at] \in HeadCell /\ f[at].id \in Nat /\ f[at].len \in Nat
           /\ at + f[at].len <= Len(f)
           /\ \A i \in 1 .. f[at].len : f[at + i] = [is |-> "body", id |-> f[at].id]
<1>1. at \in 1 .. Len(f) /\ f[at] \in Cell /\ f[at].is = "head" /\ at + f[at].len <= Len(f)
      /\ \A i \in 1 .. f[at].len : f[at + i] = [is |-> "body", id |-> f[at].id]
  BY DEF WholeAt, Log!Whole
<1>2. f[at] \in HeadCell
  BY <1>1 DEF Cell, HeadCell, BodyCell, Log!Zero
<1> QED BY <1>1, <1>2 DEF HeadCell

\* A record is whole in every file that has all its cells.
LEMMA WholeStays ==
    ASSUME NEW f \in Seq(Cell), NEW g \in Seq(Cell), NEW at, WholeAt(f, at),
           at + f[at].len <= Len(g),
           \A i \in 1 .. Len(f) : i <= at + f[at].len => g[i] = f[i]
    PROVE  WholeAt(g, at) /\ g[at] = f[at]
<1>1. /\ at \in 1 .. Len(f) /\ at \in Nat /\ f[at].is = "head" /\ f[at].len \in Nat
      /\ at + f[at].len <= Len(f)
      /\ \A i \in 1 .. f[at].len : f[at + i] = [is |-> "body", id |-> f[at].id]
      /\ Len(f) \in Nat /\ Len(g) \in Nat
  BY WholeIs DEF HeadCell
<1>2. PICK k \in Nat : k = f[at].len
  BY <1>1
<1>3. at <= at + k /\ at \in 1 .. Len(g)
  BY <1>1, <1>2
<1>4. g[at] = f[at]
  BY <1>1, <1>2, <1>3
<1>5. ASSUME NEW i \in 1 .. k PROVE g[at + i] = f[at + i]
  <2>1. at + i \in 1 .. Len(f) /\ at + i <= at + k
    BY <1>1, <1>2
  <2> QED BY <1>2, <2>1
<1> QED BY <1>1, <1>2, <1>3, <1>4, <1>5 DEF WholeAt, Log!Whole

LEMMA ChainHas ==
    ASSUME NEW f \in Seq(Cell), NEW c, Chain(f, c)
    PROVE  /\ Len(c) \in Nat /\ Len(c) >= 1 /\ c \in Seq(Nat) /\ c[1] = 1
           /\ \A i \in 1 .. Len(c) - 1 : WholeAt(f, c[i]) /\ c[i + 1] = c[i] + f[c[i]].len + 1
           /\ \A i \in 1 .. Len(c) : c[i] \in Nat
<1>1. /\ Len(c) >= 1 /\ c \in Seq(Nat) /\ c[1] = 1
      /\ \A i \in 1 .. Len(c) - 1 : WholeAt(f, c[i]) /\ c[i + 1] = c[i] + f[c[i]].len + 1
  BY Zenon DEF Chain
<1>2. Len(c) \in Nat /\ \A i \in 1 .. Len(c) : c[i] \in Nat
  BY <1>1
<1> QED BY <1>1, <1>2

\* The positions of a chain are in the file, or just behind it.
LEMMA ChainIsIn ==
    ASSUME NEW f \in Seq(Cell), NEW c, Chain(f, c), NEW i \in 1 .. Len(c)
    PROVE  c[i] \in 1 .. Len(f) + 1
<1>0. c \in Seq(Nat) /\ Len(c) \in Nat /\ Len(f) \in Nat /\ i \in Nat
  BY DEF Chain
<1>1. CASE i = 1
  BY <1>0, <1>1 DEF Chain
<1>2. CASE i # 1
  <2>1. i - 1 \in 1 .. Len(c) - 1 /\ (i - 1) + 1 = i
    BY <1>0, <1>2
  <2> DEFINE j == i - 1
  <2>2. WholeAt(f, c[j]) /\ c[j + 1] = c[j] + f[c[j]].len + 1
    BY <2>1 DEF Chain
  <2> HIDE DEF j
  <2>3. c[j] \in 1 .. Len(f) /\ f[c[j]].len \in Nat /\ c[j] + f[c[j]].len <= Len(f)
    BY <2>2, WholeIs
  <2>4. c[j + 1] \in 1 .. Len(f) + 1
    BY <1>0, <2>2, <2>3, SMTT(30)
  <2> QED BY <2>1, <2>4 DEF j
<1> QED BY <1>1, <1>2

ReplayBody(f, r, at) ==
    IF at > Len(f) THEN [ids |-> <<>>, good |-> at - 1]
    ELSE IF ~Log!Whole(f, at) THEN [ids |-> <<>>, good |-> at - 1]
    ELSE [r[at + f[at].len + 1] EXCEPT !.ids = <<f[at].id>> \o @]

\* The recursion of replayWAL is well defined: it goes to the end of the file.
LEMMA ReplayRecursion ==
    ASSUME NEW f \in Seq(Cell)
    PROVE  \E r : /\ Log!Replay(f) = r[1]
                  /\ r = [at \in 1 .. Len(f) + 1 |-> ReplayBody(f, r, at)]
<1> DEFINE n == Len(f)
           Upper(m) == n + 2 - m .. n + 1
           Solves(g, m) == g = [at \in Upper(m) |-> ReplayBody(f, g, at)]
           Bad == {m \in 1 .. n + 1 : ~\E g : Solves(g, m)}
<1>0. n \in Nat
  OBVIOUS
<1>1. Bad = {}
  <2> SUFFICES ASSUME Bad # {} PROVE FALSE
    OBVIOUS
  <2>1. Bad \subseteq Nat
    BY <1>0
  <2>2. PICK m \in Bad : \A i \in Bad : m <= i
    <3> HIDE DEF Bad
    <3> QED BY <2>1, SmallestOf
  <2>3. m \in 1 .. n + 1 /\ ~\E g : Solves(g, m)
    OBVIOUS
  <2>4. PICK g : m # 1 => Solves(g, m - 1)
    <3>1. CASE m = 1
      BY <3>1
    <3>2. CASE m # 1
      <4>1. m - 1 \in 1 .. n + 1 /\ ~(m <= m - 1)
        BY <1>0, <2>3, <3>2
      <4>2. m - 1 \notin Bad
        <5> HIDE DEF Bad
        <5> QED BY <2>2, <4>1
      <4> HIDE DEF Solves
      <4> QED BY <4>1, <4>2
    <3> QED BY <3>1, <3>2
  <2> DEFINE first == n + 2 - m
             h == [at \in Upper(m) |-> IF at = first THEN ReplayBody(f, g, at) ELSE g[at]]
  <2>5. /\ first \in Nat /\ first \in Upper(m)
        /\ \A at \in Upper(m) : at \in Nat /\ (at = first \/ (at > first /\ m # 1 /\ at \in Upper(m - 1)))
    BY <1>0, <2>3
  <2>6. \A at \in Upper(m) : at > first => h[at] = g[at]
    BY <2>5
  <2>7. ASSUME NEW at \in Upper(m) PROVE ReplayBody(f, h, at) = ReplayBody(f, g, at)
    <3>1. CASE at > Len(f) \/ ~Log!Whole(f, at)
      BY <3>1, ZenonT(40) DEF ReplayBody
    <3>2. CASE ~(at > Len(f)) /\ Log!Whole(f, at)
      <4>1. at \in 1 .. n /\ at >= first /\ at \in Nat
        BY <1>0, <2>3, <2>5, <3>2
      <4>2. WholeAt(f, at)
        BY <3>2, <4>1 DEF WholeAt
      <4>3. f[at].len \in Nat /\ at + f[at].len <= n
        BY <4>2, WholeIs
      <4>4. at + f[at].len + 1 \in Upper(m) /\ at + f[at].len + 1 > first
        BY <1>0, <2>3, <2>5, <4>1, <4>3, SMTT(30)
      <4>5. h[at + f[at].len + 1] = g[at + f[at].len + 1]
        <5> HIDE DEF h
        <5> QED BY <2>6, <4>4
      <4> HIDE DEF h
      <4> QED BY <4>5 DEF ReplayBody
    <3> QED BY <3>1, <3>2, SMTT(30)
  <2>8. ASSUME NEW at \in Upper(m) PROVE h[at] = ReplayBody(f, g, at)
    <3>1. CASE at = first
      BY <3>1
    <3>2. CASE at # first
      <4>1. m # 1 /\ at \in Upper(m - 1) /\ h[at] = g[at]
        BY <2>5, <3>2
      <4>2. g = [x \in Upper(m - 1) |-> ReplayBody(f, g, x)]
        BY <2>4, <4>1
      <4> HIDE DEF h
      <4> QED BY <4>1, <4>2
    <3> QED BY <3>1, <3>2
  <2>9. Solves(h, m)
    <3>1. \A at \in Upper(m) : h[at] = ReplayBody(f, h, at)
      BY <2>7, <2>8
    <3>2. h = [at \in Upper(m) |-> h[at]]
      OBVIOUS
    <3> HIDE DEF h, Upper
    <3>3. h = [at \in Upper(m) |-> ReplayBody(f, h, at)]
      BY <3>1, <3>2
    <3> QED BY <3>3
  <2> QED BY <2>3, <2>9
<1>2. \E g : Solves(g, n + 1)
  <2>1. n + 1 \in 1 .. n + 1
    BY <1>0
  <2> HIDE DEF Solves
  <2> QED BY <1>1, <2>1
<1>3. Upper(n + 1) = 1 .. Len(f) + 1
  BY <1>0
<1> DEFINE from == CHOOSE r : r = [at \in 1 .. Len(f) + 1 |-> ReplayBody(f, r, at)]
<1>4. from = [at \in 1 .. Len(f) + 1 |-> ReplayBody(f, from, at)]
  <2>1. \E r : r = [at \in 1 .. Len(f) + 1 |-> ReplayBody(f, r, at)]
    BY <1>2, <1>3
  <2> QED BY <2>1
<1>5. Log!Replay(f) = from[1]
  BY DEF Log!Replay, ReplayBody
<1> QED BY <1>4, <1>5

\* replayWAL reads the records of the full chain, and the offset where it ends.
LEMMA ReplayReads ==
    ASSUME NEW f \in Seq(Cell), NEW c, Full(f, c)
    PROVE  /\ Log!Replay(f).ids = IdsOf(f, c)
           /\ Log!Replay(f).good = c[Len(c)] - 1
<1> DEFINE n == Len(c)
<1>0. /\ n \in Nat /\ n >= 1 /\ c \in Seq(Nat) /\ Len(f) \in Nat /\ c[1] = 1
      /\ Chain(f, c) /\ ~WholeAt(f, c[n])
      /\ \A i \in 1 .. n : c[i] \in 1 .. Len(f) + 1
      /\ \A i \in 1 .. n - 1 : WholeAt(f, c[i]) /\ c[i + 1] = c[i] + f[c[i]].len + 1
  <2>1. Chain(f, c) /\ ~WholeAt(f, c[n])
    BY DEF Full
  <2>2. \A i \in 1 .. Len(c) : c[i] \in 1 .. Len(f) + 1
    BY <2>1, ChainIsIn
  <2>3. Len(f) \in Nat
    OBVIOUS
  <2> QED BY <2>1, <2>2, <2>3, ChainHas
<1> HIDE DEF n
<1>1. PICK r : /\ Log!Replay(f) = r[1]
               /\ r = [at \in 1 .. Len(f) + 1 |-> ReplayBody(f, r, at)]
  BY ReplayRecursion
<1>f. \A at \in 1 .. Len(f) + 1 : r[at] = ReplayBody(f, r, at)
  BY <1>1
<1> DEFINE rest(m) == [k \in 1 .. m |-> f[c[n - m + k - 1]].id]
           read(m) == [ids |-> rest(m), good |-> c[n] - 1]
           Bad == {m \in 0 .. n - 1 : r[c[n - m]] # read(m)}
<1>2. r[c[n]] = read(0)
  <2>1. r[c[n]] = ReplayBody(f, r, c[n])
    <3>1. n \in 1 .. n
      BY <1>0
    <3> QED BY <1>0, <1>f, <3>1
  <2>2. c[n] > Len(f) \/ ~Log!Whole(f, c[n])
    BY <1>0 DEF WholeAt
  <2>3. rest(0) = <<>>
    BY <1>0
  <2> HIDE DEF rest
  <2> QED BY <2>1, <2>2, <2>3 DEF ReplayBody
<1>3. Bad = {}
  <2> SUFFICES ASSUME Bad # {} PROVE FALSE
    OBVIOUS
  <2>1. Bad \subseteq Nat
    BY <1>0
  <2>2. PICK m \in Bad : \A i \in Bad : m <= i
    <3> HIDE DEF Bad
    <3> QED BY <2>1, SmallestOf
  <2>3. m \in 0 .. n - 1 /\ r[c[n - m]] # read(m)
    OBVIOUS
  <2>4. m # 0
    <3>1. n - 0 = n
      BY <1>0
    <3> HIDE DEF read
    <3> QED BY <1>2, <2>3, <3>1
  <2>5. m - 1 \in 0 .. n - 1 /\ ~(m <= m - 1)
    BY <1>0, <2>3, <2>4
  <2>6. r[c[n - (m - 1)]] = read(m - 1)
    <3>1. m - 1 \notin Bad
      <4> HIDE DEF Bad
      <4> QED BY <2>2, <2>5
    <3> HIDE DEF read
    <3> QED BY <2>5, <3>1
  <2> DEFINE at == c[n - m]
             next == c[n - (m - 1)]
  <2>7. WholeAt(f, at) /\ next = at + f[at].len + 1 /\ at \in 1 .. Len(f)
    <3>1. n - m \in 1 .. n - 1 /\ (n - m) + 1 = n - (m - 1)
      <4>1. m \in 1 .. n - 1
        BY <1>0, <2>3, <2>4
      <4>2. PICK l \in Nat : l = n
        BY <1>0
      <4>3. PICK v \in Nat : v = m /\ v \in 1 .. l - 1
        BY <4>1, <4>2
      <4>4. l - v \in 1 .. l - 1 /\ (l - v) + 1 = l - (v - 1)
        BY <4>3
      <4> QED BY <4>2, <4>3, <4>4
    <3>2. WholeAt(f, c[n - m]) /\ c[(n - m) + 1] = c[n - m] + f[c[n - m]].len + 1
      BY <1>0, <3>1
    <3> QED BY <3>1, <3>2 DEF WholeAt
  <2> HIDE DEF at, next
  <2>8. r[at] = [r[next] EXCEPT !.ids = <<f[at].id>> \o @]
    <3>1. r[at] = ReplayBody(f, r, at) /\ ~(at > Len(f)) /\ Log!Whole(f, at)
      <4>1. at \in 1 .. Len(f) + 1 /\ ~(at > Len(f))
        BY <1>0, <2>7
      <4> QED BY <1>f, <2>7, <4>1 DEF WholeAt
    <3> QED BY <2>7, <3>1 DEF ReplayBody
  <2>9. r[at] = [ids |-> <<f[at].id>> \o rest(m - 1), good |-> c[n] - 1]
    <3>1. r[next] = [ids |-> rest(m - 1), good |-> c[n] - 1]
      BY <2>6 DEF next
    <3>2. \A x, y, w : [[ids |-> x, good |-> y] EXCEPT !.ids = w] = [ids |-> w, good |-> y]
      OBVIOUS
    <3> HIDE DEF rest
    <3>3. r[next].ids = rest(m - 1)
      BY <3>1
    <3> DEFINE w == <<f[at].id>> \o r[next].ids
    <3>4. r[at] = [r[next] EXCEPT !.ids = w]
      BY <2>8
    <3> HIDE DEF w
    <3>5. r[at] = [ids |-> w, good |-> c[n] - 1]
      BY <3>1, <3>2, <3>4
    <3> QED BY <3>3, <3>5 DEF w
  <2>10. <<f[at].id>> \o rest(m - 1) = rest(m)
    <3> DEFINE a == rest(m - 1)
               b == <<f[at].id>> \o a
    <3>1. m - 1 \in Nat /\ m \in Nat
      BY <1>0, <2>3, <2>4
    <3> DEFINE V == {f[c[n - (m - 1) + k - 1]].id : k \in 1 .. m - 1}
    <3>2. a \in Seq(V) /\ Len(a) = m - 1
      <4>1. a \in [1 .. m - 1 -> V]
        OBVIOUS
      <4> HIDE DEF a, V
      <4>2. PICK k \in Nat : k = m - 1
        BY <3>1
      <4>3. a \in [1 .. k -> V]
        BY <4>1, <4>2
      <4>4. a \in Seq(V)
        BY <4>3
      <4>5. Len(a) = k
        BY <4>3, <4>4
      <4> QED BY <4>2, <4>4, <4>5
    <3> HIDE DEF V
    <3>3. \A k \in 1 .. m - 1 : a[k] = f[c[n - (m - 1) + k - 1]].id
      OBVIOUS
    <3> HIDE DEF a
    <3>4. /\ Len(b) = m /\ DOMAIN b = 1 .. m /\ b[1] = f[at].id
          /\ \A k \in 2 .. m : b[k] = a[k - 1]
          /\ b = [k \in 1 .. m |-> b[k]]
      BY <3>1, <3>2
    <3> HIDE DEF b
    <3>5. ASSUME NEW k \in 1 .. m PROVE b[k] = f[c[n - m + k - 1]].id
      <4>1. CASE k = 1
        <5>1. n - m + 1 - 1 = n - m
          BY <1>0, <3>1
        <5> QED BY <3>4, <4>1, <5>1 DEF at
      <4>2. CASE k # 1
        <5>1. k \in 2 .. m /\ k - 1 \in 1 .. m - 1 /\ n - (m - 1) + (k - 1) - 1 = n - m + k - 1
          BY <1>0, <3>1, <4>2
        <5> QED BY <3>3, <3>4, <5>1
      <4> QED BY <4>1, <4>2
    <3>6. b = [k \in 1 .. m |-> f[c[n - m + k - 1]].id]
      BY <3>4, <3>5
    <3> QED BY <3>6 DEF a, b
  <2>11. r[at] = read(m)
    <3> HIDE DEF rest
    <3> QED BY <2>9, <2>10
  <2> HIDE DEF read
  <2> QED BY <2>3, <2>11 DEF at
<1>4. r[c[1]] = read(n - 1)
  <2>1. n - 1 \in 0 .. n - 1 /\ n - (n - 1) = 1
    BY <1>0
  <2>2. n - 1 \notin Bad
    BY <1>3
  <2> HIDE DEF read
  <2> QED BY <2>1, <2>2
<1>5. rest(n - 1) = IdsOf(f, c)
  <2>1. \A k \in 1 .. n - 1 : n - (n - 1) + k - 1 = k
    BY <1>0
  <2>2. \A k \in 1 .. n - 1 : f[c[n - (n - 1) + k - 1]].id = f[c[k]].id
    BY <2>1
  <2> QED BY <2>2 DEF IdsOf, n
<1> HIDE DEF rest
<1> QED BY <1>0, <1>1, <1>4, <1>5 DEF n

\* What is torn off a file is torn off its chain.
LEMMA TornChain ==
    ASSUME NEW f \in Seq(Cell), NEW g \in Seq(Cell), NEW c, Full(f, c), Torn(g, f)
    PROVE  \E d : /\ Full(g, d) /\ Len(d) <= Len(c)
                  /\ \A i \in 1 .. Len(d) : d[i] = c[i]
                  /\ \A i \in 1 .. Len(d) - 1 : g[d[i]] = f[c[i]]
<1> DEFINE n == Len(c)
           S == {i \in 1 .. n : ~WholeAt(g, c[i])}
<1>0. /\ n \in Nat /\ n >= 1 /\ c \in Seq(Nat) /\ c[1] = 1 /\ ~WholeAt(f, c[n])
      /\ \A i \in 1 .. n - 1 : WholeAt(f, c[i]) /\ c[i + 1] = c[i] + f[c[i]].len + 1
  BY DEF Full, Chain
<1>1. ASSUME NEW at, WholeAt(g, at) PROVE WholeAt(f, at) /\ g[at] = f[at]
  <2>1. /\ at \in 1 .. Len(g) /\ at \in Nat /\ g[at].is = "head" /\ g[at].len \in Nat
        /\ at + g[at].len <= Len(g)
        /\ \A i \in 1 .. g[at].len : g[at + i] = [is |-> "body", id |-> g[at].id]
    BY <1>1, WholeIs DEF HeadCell
  <2>2. Len(g) \in Nat /\ Len(f) \in Nat /\ Len(g) <= Len(f)
    BY DEF Torn
  <2>3. g[at] = f[at]
    BY <2>1 DEF Torn, Log!Zero
  <2>4. ASSUME NEW i \in 1 .. g[at].len PROVE f[at + i] = g[at + i]
    <3>1. at + i \in 1 .. Len(g)
      BY <2>1, <2>2
    <3>2. g[at + i].is = "body"
      BY <2>1
    <3>3. g[at + i] # Log!Zero
      BY <3>2 DEF Log!Zero
    <3> QED BY <3>1, <3>3 DEF Torn
  <2>5. at \in 1 .. Len(f) /\ at + f[at].len <= Len(f)
    BY <2>1, <2>2, <2>3
  <2> QED BY <2>1, <2>3, <2>4, <2>5 DEF WholeAt, Log!Whole
<1>2. n \in S
  BY <1>0, <1>1
<1>3. PICK j \in S : \A i \in S : j <= i
  <2>1. S \subseteq Nat
    BY <1>0
  <2> HIDE DEF S
  <2> QED BY <1>2, <2>1, SmallestOf
<1>4. j \in 1 .. n /\ ~WholeAt(g, c[j])
  OBVIOUS
<1>5. ASSUME NEW i \in 1 .. j - 1
      PROVE  i \in 1 .. n - 1 /\ WholeAt(g, c[i]) /\ g[c[i]] = f[c[i]]
  <2>1. i \in 1 .. n - 1 /\ i \in 1 .. n /\ ~(j <= i)
    BY <1>0, <1>4
  <2>2. i \notin S
    <3> HIDE DEF S
    <3> QED BY <1>3, <2>1
  <2> QED BY <1>1, <2>1, <2>2
<1> HIDE DEF n, S
<1> DEFINE d == SubSeq(c, 1, j)
<1>6. d \in Seq(Nat) /\ Len(d) = j /\ \A i \in 1 .. j : d[i] = c[i]
  BY <1>0, <1>4 DEF n
<1> HIDE DEF d
<1>7. Full(g, d)
  <2>1. j >= 1 /\ 1 \in 1 .. j /\ j \in 1 .. j
    BY <1>0, <1>4
  <2>2. ASSUME NEW i \in 1 .. j - 1
        PROVE  WholeAt(g, d[i]) /\ d[i + 1] = d[i] + g[d[i]].len + 1
    <3>1. i \in 1 .. j /\ i + 1 \in 1 .. j
      BY <1>0, <1>4
    <3> QED BY <1>0, <1>5, <1>6, <3>1
  <2> QED BY <1>0, <1>4, <1>6, <2>1, <2>2 DEF Full, Chain
<1>8. \A i \in 1 .. Len(d) - 1 : g[d[i]] = f[c[i]]
  <2> SUFFICES ASSUME NEW i \in 1 .. j - 1 PROVE g[d[i]] = f[c[i]]
    BY <1>6
  <2>1. i \in 1 .. j
    BY <1>0, <1>4
  <2> QED BY <1>5, <1>6, <2>1
<1> QED BY <1>0, <1>4, <1>6, <1>7, <1>8, SMTT(30) DEF n

\* What begins a file begins its chain.
LEMMA ChainInFull ==
    ASSUME NEW p \in Seq(Cell), NEW f \in Seq(Cell), Begins(p, f),
           NEW d, Chain(p, d), NEW c, Full(f, c)
    PROVE  /\ Len(d) <= Len(c)
           /\ \A i \in 1 .. Len(d) : d[i] = c[i]
           /\ \A i \in 1 .. Len(d) - 1 : p[d[i]] = f[c[i]]
<1> DEFINE n == Len(c)
           m == Len(d)
<1>0. /\ n \in Nat /\ n >= 1 /\ c[1] = 1 /\ ~WholeAt(f, c[n])
      /\ \A i \in 1 .. n - 1 : c[i + 1] = c[i] + f[c[i]].len + 1
      /\ m \in Nat /\ m >= 1 /\ d[1] = 1
      /\ \A i \in 1 .. m - 1 : WholeAt(p, d[i]) /\ d[i + 1] = d[i] + p[d[i]].len + 1
  BY DEF Full, Chain
<1>1. ASSUME NEW at, WholeAt(p, at) PROVE WholeAt(f, at) /\ p[at] = f[at]
  <2>1. at + p[at].len <= Len(p) /\ at \in Nat /\ p[at].len \in Nat
    BY <1>1, WholeIs
  <2>2. Len(p) \in Nat /\ Len(f) \in Nat /\ Len(p) <= Len(f) /\ \A i \in 1 .. Len(p) : f[i] = p[i]
    BY DEF Begins
  <2>3. at + p[at].len <= Len(f)
    BY <2>1, <2>2
  <2> QED BY <1>1, <2>2, <2>3, WholeStays
<1> DEFINE S == {i \in 1 .. m : ~(i <= n /\ d[i] = c[i])}
<1>2. S = {}
  <2> SUFFICES ASSUME S # {} PROVE FALSE
    OBVIOUS
  <2>1. PICK j \in S : \A i \in S : j <= i
    <3>1. S \subseteq Nat
      BY <1>0
    <3> HIDE DEF S
    <3> QED BY <3>1, SmallestOf
  <2>2. j \in 1 .. m /\ ~(j <= n /\ d[j] = c[j])
    OBVIOUS
  <2>3. j # 1
    BY <1>0, <2>2
  <2> DEFINE i == j - 1
  <2>4. i \in 1 .. m - 1 /\ i \in 1 .. m /\ i + 1 = j /\ ~(j <= i) /\ i \in Nat
    BY <1>0, <2>2, <2>3
  <2> HIDE DEF i, n, m
  <2>5. i <= n /\ d[i] = c[i]
    <3>1. i \notin S
      <4> HIDE DEF S
      <4> QED BY <2>1, <2>4
    <3> QED BY <2>4, <3>1
  <2>6. WholeAt(f, c[i]) /\ p[c[i]] = f[c[i]] /\ d[i + 1] = d[i] + p[d[i]].len + 1
    BY <1>0, <1>1, <2>4, <2>5
  <2>7. i # n
    BY <1>0, <2>6
  <2>8. i \in 1 .. n - 1 /\ j <= n
    BY <1>0, <2>4, <2>5, <2>7
  <2>9. d[j] = c[j]
    BY <1>0, <2>4, <2>5, <2>6, <2>8
  <2> QED BY <2>2, <2>8, <2>9
<1>3. \A i \in 1 .. m : i <= n /\ d[i] = c[i]
  BY <1>2
<1>4. m <= n
  BY <1>0, <1>3
<1>5. ASSUME NEW i \in 1 .. m - 1 PROVE p[d[i]] = f[c[i]]
  <2>1. i \in 1 .. m
    BY <1>0
  <2>2. WholeAt(p, d[i]) /\ d[i] = c[i]
    BY <1>0, <1>3, <2>1
  <2> QED BY <1>1, <2>2
<1> QED BY <1>3, <1>4, <1>5

\* g is f and one record more.
Continues(g, f, id, n) ==
    /\ Len(g) = Len(f) + n + 1
    /\ \A i \in 1 .. Len(f) : g[i] = f[i]
    /\ g[Len(f) + 1] = [is |-> "head", id |-> id, len |-> n]
    /\ \A i \in 1 .. n : g[Len(f) + 1 + i] = [is |-> "body", id |-> id]

LEMMA CellsAre ==
    ASSUME NEW id \in Nat, NEW n \in Nat
    PROVE  /\ Log!Cells(id, n) \in Seq(Cell) /\ Len(Log!Cells(id, n)) = n + 1
           /\ Log!Cells(id, n)[1] = [is |-> "head", id |-> id, len |-> n]
           /\ \A i \in 1 .. n : Log!Cells(id, n)[i + 1] = [is |-> "body", id |-> id]
<1> DEFINE cells == Log!Cells(id, n)
<1>1. /\ cells \in Seq(Cell) /\ Len(cells) = n + 1
      /\ cells[1] = [is |-> "head", id |-> id, len |-> n]
      /\ \A i \in 1 .. n : cells[i + 1] = [is |-> "body", id |-> id]
  <2> DEFINE head == [is |-> "head", id |-> id, len |-> n]
             body == [is |-> "body", id |-> id]
             bodies == [i \in 1 .. n |-> body]
  <2>1. head \in Cell /\ body \in Cell
    BY DEF Cell, HeadCell, BodyCell
  <2>2. cells = <<head>> \o bodies
    BY DEF Log!Cells
  <2> HIDE DEF head, body, cells
  <2>3. bodies \in Seq(Cell) /\ Len(bodies) = n /\ \A i \in 1 .. n : bodies[i] = body
    BY <2>1
  <2> HIDE DEF bodies
  <2>4. <<head>> \in Seq(Cell) /\ Len(<<head>>) = 1
    BY <2>1
  <2>5. cells \in Seq(Cell) /\ Len(cells) = n + 1 /\ cells[1] = head
    BY <2>2, <2>3, <2>4
  <2>6. \A i \in 1 .. n : cells[i + 1] = body
    BY <2>2, <2>3, <2>4
  <2> QED BY <2>5, <2>6 DEF head, body
<1> QED BY <1>1

LEMMA Continued ==
    ASSUME NEW f \in Seq(Cell), NEW id \in Nat, NEW n \in Nat
    PROVE  f \o Log!Cells(id, n) \in Seq(Cell) /\ Continues(f \o Log!Cells(id, n), f, id, n)
<1>1. PICK q \in Seq(Cell) : q = Log!Cells(id, n)
  BY CellsAre
<1>2. /\ Len(q) = n + 1 /\ q[1] = [is |-> "head", id |-> id, len |-> n]
      /\ \A i \in 1 .. n : q[i + 1] = [is |-> "body", id |-> id]
  BY <1>1, CellsAre
<1>3. /\ f \o q \in Seq(Cell) /\ Len(f \o q) = Len(f) + Len(q) /\ Len(f) \in Nat
      /\ \A i \in 1 .. Len(f) : (f \o q)[i] = f[i]
      /\ \A i \in 1 .. Len(q) : (f \o q)[Len(f) + i] = q[i]
  OBVIOUS
<1>4. PICK g \in Seq(Cell) : g = f \o q
  BY <1>3
<1>5. /\ Len(g) = Len(f) + Len(q) /\ Len(f) \in Nat
      /\ \A i \in 1 .. Len(f) : g[i] = f[i]
      /\ \A i \in 1 .. Len(q) : g[Len(f) + i] = q[i]
  BY <1>3, <1>4
<1>6. Len(g) = Len(f) + n + 1
  BY <1>2, <1>5
<1>7. g[Len(f) + 1] = q[1]
  BY <1>2, <1>5
<1>8. ASSUME NEW i \in 1 .. n PROVE g[Len(f) + 1 + i] = q[i + 1]
  <2>1. i + 1 \in 1 .. Len(q) /\ Len(f) + (i + 1) = Len(f) + 1 + i
    BY <1>2, <1>5
  <2> QED BY <1>5, <2>1
<1>9. Continues(g, f, id, n)
  BY <1>2, <1>5, <1>6, <1>7, <1>8 DEF Continues
<1> QED BY <1>1, <1>3, <1>4, <1>9

\* A record written behind the last whole one continues the chain.
LEMMA AppendChain ==
    ASSUME NEW f \in Seq(Cell), NEW c, Full(f, c), c[Len(c)] = Len(f) + 1,
           NEW id \in Nat, NEW n \in Nat \ {0}, NEW g \in Seq(Cell), Continues(g, f, id, n)
    PROVE  \E d : /\ Full(g, d) /\ d[Len(d)] = Len(g) + 1 /\ Len(d) = Len(c) + 1
                  /\ \A i \in 1 .. Len(c) - 1 : g[d[i]] = f[c[i]]
                  /\ g[d[Len(c)]].id = id /\ g[d[Len(c)]].len = n
<1> DEFINE l == Len(f)
<1>1. l \in Nat /\ n \in Nat
  OBVIOUS
<1>2. /\ Len(g) = l + n + 1
      /\ \A i \in 1 .. l : g[i] = f[i]
      /\ \A i \in 1 .. n : g[l + 1 + i] = [is |-> "body", id |-> id]
  BY ZenonT(20) DEF Continues
<1>3. g[l + 1] = [is |-> "head", id |-> id, len |-> n]
  BY ZenonT(20) DEF Continues
<1>4. g[l + 1].is = "head" /\ g[l + 1].id = id /\ g[l + 1].len = n
  BY <1>3
<1>5. WholeAt(g, l + 1)
  <2> HIDE DEF l
  <2>1. PICK k \in Nat : k = l
    BY <1>1
  <2>2. k + 1 \in 1 .. Len(g) /\ k + 1 + n <= Len(g)
    BY <1>1, <1>2, <2>1
  <2>3. k + 1 \in DOMAIN g
    BY <2>2
  <2> QED BY <1>2, <1>4, <2>1, <2>2, <2>3 DEF WholeAt, Log!Whole
<1> DEFINE m == Len(c)
           d == Append(c, l + n + 2)
<1>6. /\ m \in Nat /\ m >= 1 /\ c \in Seq(Nat) /\ c[1] = 1 /\ c[m] = l + 1
      /\ \A i \in 1 .. m - 1 : WholeAt(f, c[i]) /\ c[i + 1] = c[i] + f[c[i]].len + 1
  BY DEF Full, Chain
<1>7. d \in Seq(Nat) /\ Len(d) = m + 1 /\ d[m + 1] = l + n + 2 /\ \A i \in 1 .. m : d[i] = c[i]
  BY <1>1, <1>6
<1> HIDE DEF l, m, d
<1>8. ASSUME NEW i \in 1 .. m - 1
      PROVE  WholeAt(g, d[i]) /\ g[d[i]] = f[c[i]] /\ d[i + 1] = d[i] + g[d[i]].len + 1
  <2>1. i \in 1 .. m /\ i + 1 \in 1 .. m
    BY <1>6
  <2>2. WholeAt(f, c[i]) /\ c[i] + f[c[i]].len <= Len(f) /\ c[i] \in Nat /\ f[c[i]].len \in Nat
    BY <1>6, WholeIs
  <2>3. c[i] + f[c[i]].len <= Len(g)
    <3>1. Len(f) <= Len(g) /\ Len(f) \in Nat /\ Len(g) \in Nat
      BY <1>1, <1>2 DEF l
    <3> QED BY <2>2, <3>1
  <2>4. WholeAt(g, c[i]) /\ g[c[i]] = f[c[i]]
    <3>1. PICK at : at = c[i]
      OBVIOUS
    <3>2. WholeAt(f, at) /\ at + f[at].len <= Len(g)
      BY <2>2, <2>3, <3>1
    <3>3. \A v \in 1 .. Len(f) : v <= at + f[at].len => g[v] = f[v]
      BY <1>2 DEF l
    <3>4. WholeAt(g, at) /\ g[at] = f[at]
      BY <1>2, <3>2, <3>3, WholeStays
    <3> QED BY <3>1, <3>4
  <2> QED BY <1>6, <1>7, <2>1, <2>4
<1>9. WholeAt(g, d[m]) /\ d[m + 1] = d[m] + g[d[m]].len + 1 /\ g[d[m]].id = id /\ g[d[m]].len = n
  <2>1. m \in 1 .. m
    BY <1>6
  <2>2. d[m] = l + 1
    BY <1>6, <1>7, <2>1
  <2>3. d[m + 1] = l + 1 + n + 1
    BY <1>1, <1>7
  <2> QED BY <1>4, <1>5, <2>2, <2>3
<1>10. Full(g, d)
  <2>1. ASSUME NEW i \in 1 .. m
        PROVE  WholeAt(g, d[i]) /\ d[i + 1] = d[i] + g[d[i]].len + 1
    <3>1. i = m \/ i \in 1 .. m - 1
      BY <1>6
    <3> QED BY <1>8, <1>9, <3>1
  <2>2. ~WholeAt(g, d[m + 1])
    <3>1. d[m + 1] \notin 1 .. Len(g)
      BY <1>1, <1>2, <1>7
    <3> QED BY <3>1 DEF WholeAt
  <2>3. d[1] = 1 /\ Len(d) >= 1 /\ Len(d) - 1 = m
    <3>1. 1 \in 1 .. m
      BY <1>6
    <3>2. d[1] = 1
      BY <1>6, <1>7, <3>1
    <3> QED BY <1>6, <1>7, <3>2
  <2> QED BY <1>7, <2>1, <2>2, <2>3 DEF Full, Chain
<1>11. d[Len(d)] = Len(g) + 1
  BY <1>1, <1>2, <1>7
<1> QED BY <1>7, <1>8, <1>9, <1>10, <1>11 DEF m

LEMMA LessWithMore == \A x, y, z \in Nat : x + y + 1 <= z => x <= z
  OBVIOUS

\* No record of a chain begins behind the end of it.
LEMMA ChainGrows ==
    ASSUME NEW f \in Seq(Cell), NEW c, Chain(f, c), NEW i \in 1 .. Len(c)
    PROVE  c[i] <= c[Len(c)]
<1> DEFINE n == Len(c)
           Bad == {m \in 0 .. n - 1 : ~(c[n - m] <= c[n])}
<1>0. /\ n \in Nat /\ c \in Seq(Nat)
      /\ \A k \in 1 .. n - 1 : WholeAt(f, c[k]) /\ c[k + 1] = c[k] + f[c[k]].len + 1
      /\ \A k \in 1 .. n : c[k] \in Nat
  <2> HIDE DEF Bad
  <2>1. /\ c \in Seq(Nat)
        /\ \A k \in 1 .. Len(c) - 1 : WholeAt(f, c[k]) /\ c[k + 1] = c[k] + f[c[k]].len + 1
    BY DEF Chain
  <2>2. Len(c) \in Nat /\ \A k \in 1 .. Len(c) : c[k] \in Nat
    BY <2>1
  <2> QED BY <2>1, <2>2
<1>1. Bad = {}
  <2> SUFFICES ASSUME Bad # {} PROVE FALSE
    OBVIOUS
  <2>1. PICK m \in Bad : \A k \in Bad : m <= k
    <3>1. Bad \subseteq Nat
      BY <1>0
    <3> HIDE DEF Bad
    <3> QED BY <3>1, SmallestOf
  <2>2. m \in 0 .. n - 1 /\ ~(c[n - m] <= c[n])
    OBVIOUS
  <2> HIDE DEF n
  <2>3. m # 0
    <3>1. n \in 1 .. n /\ n - 0 = n
      <4>1. PICK l \in Nat : l = n
        BY <1>0
      <4>2. l \in 1 .. l /\ l - 0 = l
        BY <2>2, <4>1
      <4> QED BY <4>1, <4>2
    <3>2. c[n] \in Nat
      BY <1>0, <3>1
    <3> QED BY <2>2, <3>1, <3>2
  <2> DEFINE k == n - m
  <2>4. m - 1 \in 0 .. n - 1 /\ ~(m <= m - 1) /\ n - (m - 1) = k + 1 /\ k \in 1 .. n - 1 /\ k + 1 \in 1 .. n
    <3>1. m \in 1 .. n - 1
      BY <1>0, <2>2, <2>3
    <3> HIDE DEF Bad
    <3> QED BY <1>0, <3>1
  <2> HIDE DEF k
  <2>5. c[k + 1] <= c[n]
    <3>1. m - 1 \notin Bad
      <4> HIDE DEF Bad
      <4> QED BY <2>1, <2>4
    <3> QED BY <2>4, <3>1
  <2>6. f[c[k]].len \in Nat /\ c[k + 1] = c[k] + f[c[k]].len + 1 /\ c[k] \in Nat /\ c[n] \in Nat
    <3>1. WholeAt(f, c[k]) /\ c[k + 1] = c[k] + f[c[k]].len + 1
      BY <1>0, <2>4
    <3>2. k \in 1 .. n /\ n \in 1 .. n
      BY <1>0, <2>4
    <3> QED BY <1>0, <3>1, <3>2, WholeIs
  <2>7. c[k] <= c[n]
    <3>1. PICK a \in Nat, b \in Nat, v \in Nat : a = c[k] /\ b = c[n] /\ v = f[c[k]].len
      BY <2>6
    <3>2. a + v + 1 <= b
      BY <2>5, <2>6, <3>1
    <3>3. a <= b
      BY <3>1, <3>2, LessWithMore, Zenon
    <3> QED BY <3>1, <3>3
  <2> QED BY <2>2, <2>7 DEF k
<1>2. n - i \in 0 .. n - 1 /\ n - (n - i) = i
  BY <1>0
<1>3. c[n - (n - i)] <= c[n]
  <2>1. n - i \notin Bad
    BY <1>1
  <2> QED BY <1>2, <2>1
<1> QED BY <1>2, <1>3

\* A file that is cut where its last whole record ends keeps its chain.
LEMMA CutAtEnd ==
    ASSUME NEW f \in Seq(Cell), NEW c, Full(f, c),
           NEW g \in Seq(Cell), Begins(g, f), Len(g) = c[Len(c)] - 1
    PROVE  /\ Full(g, c)
           /\ \A i \in 1 .. Len(c) - 1 : g[c[i]] = f[c[i]]
<1> DEFINE n == Len(c)
           e == c[n] - 1
<1>0. /\ n \in Nat /\ n >= 1 /\ c \in Seq(Nat) /\ c[1] = 1 /\ Chain(f, c)
      /\ \A i \in 1 .. n - 1 : WholeAt(f, c[i]) /\ c[i + 1] = c[i] + f[c[i]].len + 1
      /\ \A i \in 1 .. n : c[i] \in Nat
      /\ Len(f) \in Nat
  <2>1. Chain(f, c)
    BY DEF Full
  <2>2. Len(f) \in Nat
    OBVIOUS
  <2> QED BY <2>1, <2>2, ChainHas
<1>1. \A i \in 1 .. n : c[i] \in 1 .. Len(f) + 1 /\ c[i] <= c[n]
  BY <1>0, ChainIsIn, ChainGrows
<1> HIDE DEF n
<1>2. e \in 0 .. Len(f) /\ e + 1 = c[n]
  <2>1. n \in 1 .. n
    BY <1>0
  <2>2. c[n] \in 1 .. Len(f) + 1
    BY <1>1, <2>1
  <2>3. PICK a \in Nat, l \in Nat : a = c[n] /\ l = Len(f) /\ a \in 1 .. l + 1
    BY <1>0, <2>1, <2>2
  <2>4. a - 1 \in 0 .. l /\ (a - 1) + 1 = a
    BY <2>3
  <2> QED BY <2>3, <2>4
<1>3. Len(g) = e
  BY DEF n
<1> HIDE DEF e
<1>4. /\ Len(g) = e /\ Len(g) \in Nat
      /\ \A i \in 1 .. e : g[i] = f[i]
  BY <1>3 DEF Begins
<1>5. ASSUME NEW i \in 1 .. n - 1
      PROVE  WholeAt(g, c[i]) /\ g[c[i]] = f[c[i]]
  <2>1. i + 1 \in 1 .. n
    BY <1>0
  <2>2. WholeAt(f, c[i]) /\ c[i] \in Nat /\ f[c[i]].len \in Nat
    BY <1>0, WholeIs
  <2>3. c[i] + f[c[i]].len <= e
    <3>1. c[i + 1] <= c[n] /\ c[i + 1] = c[i] + f[c[i]].len + 1
      BY <1>0, <1>1, <2>1
    <3>2. PICK a \in Nat, k \in Nat : a = c[i] /\ k = f[c[i]].len
      BY <2>2
    <3>3. a + k + 1 <= e + 1 /\ e \in Nat
      BY <1>0, <1>2, <3>1, <3>2
    <3> QED BY <3>2, <3>3
  <2>4. \A v \in 1 .. Len(f) : v <= c[i] + f[c[i]].len => g[v] = f[v]
    <3>1. PICK b \in Nat : b = c[i] + f[c[i]].len
      BY <2>2
    <3>2. \A v \in 1 .. Len(f) : v <= b => v \in 1 .. e
      BY <1>0, <1>2, <2>3, <3>1
    <3> QED BY <1>4, <3>1, <3>2
  <2>5. PICK at : at = c[i]
    OBVIOUS
  <2>6. WholeAt(f, at) /\ at + f[at].len <= Len(g)
    BY <1>4, <2>2, <2>3, <2>5
  <2>7. \A v \in 1 .. Len(f) : v <= at + f[at].len => g[v] = f[v]
    BY <2>4, <2>5
  <2>8. WholeAt(g, at) /\ g[at] = f[at]
    BY <1>4, <2>6, <2>7, WholeStays
  <2> QED BY <2>5, <2>8
<1>6. ~WholeAt(g, c[n])
  <2>1. c[n] \notin 1 .. Len(g)
    BY <1>2, <1>4
  <2> QED BY <1>4, <2>1 DEF WholeAt
<1>7. Full(g, c)
  BY <1>0, <1>5, <1>6 DEF Full, Chain, n
<1> QED BY <1>5, <1>7 DEF n

\* The records of the chain are in the order in which they were written, up to
\* number R.
Sound(f, c, R) ==
    /\ Full(f, c)
    /\ \A i, j \in 1 .. Len(c) - 1 : i < j => f[c[i]].id < f[c[j]].id
    /\ \A i \in 1 .. Len(c) - 1 : f[c[i]].id \in 1 .. R /\ f[c[i]].len \in 1 .. MaxBody

Told(f, c) == {f[c[i]].id : i \in 1 .. Len(c) - 1}

LogTyped ==
    /\ file \in Seq(Cell) /\ durable \in Seq(Cell)
    /\ handle \in {"down", "open", "writing", "broken"} /\ position \in Nat
    /\ replayed \in Seq(Nat) /\ acked \in Seq(Nat)
    /\ inflight \in Nat /\ records \in Nat

\* What was fsynced is at the beginning of the file, and the handle writes
\* behind it.
DurableBegins ==
    /\ Begins(durable, file)
    /\ handle = "open" => position = Len(file)
    /\ handle = "writing" => Len(durable) <= position /\ position <= Len(file)

\* The file has the records in order; unless the handle is broken or down,
\* there is nothing behind them.
FileInOrder ==
    \E c :
        /\ Sound(file, c, records)
        /\ handle \in {"open", "writing"} =>
              c[Len(c)] = Len(file) + 1 /\ Log!ToSet(replayed) \subseteq Told(file, c)
        /\ handle = "writing" => inflight \in Told(file, c)

\* The memtable has what was acknowledged, and what it has is in order.
MemtableInOrder ==
    /\ InOrder(replayed) /\ InOrder(acked)
    /\ Log!ToSet(replayed) \subseteq 1 .. records
    /\ handle # "down" => Log!ToSet(acked) \subseteq Log!ToSet(replayed)
    /\ handle = "writing" => inflight = records /\ records \notin Log!ToSet(replayed)

AckedAreDurable == \E d : Chain(durable, d) /\ Log!ToSet(acked) \subseteq Told(durable, d)

WalInv == LogTyped /\ DurableBegins /\ FileInOrder /\ MemtableInOrder /\ AckedAreDurable

LEMMA EmptyFile == Full(<<>>, <<1>>) /\ Told(<<>>, <<1>>) = {}
  BY DEF Full, Chain, WholeAt, Told

LEMMA LogInit == ASSUME Log!Init PROVE WalInv
<1>1. /\ file = <<>> /\ durable = <<>> /\ handle = "down" /\ position = 0
      /\ replayed = <<>> /\ acked = <<>> /\ inflight = 0 /\ records = 0
  BY DEF Log!Init
<1>2. LogTyped /\ DurableBegins
  BY <1>1 DEF LogTyped, DurableBegins, Begins
<1>3. Sound(file, <<1>>, records)
  BY <1>1, EmptyFile DEF Sound
<1>4. MemtableInOrder
  BY <1>1 DEF MemtableInOrder, InOrder, Log!ToSet
<1>5. AckedAreDurable
  <2>1. Chain(durable, <<1>>) /\ Log!ToSet(acked) = {}
    BY <1>1, EmptyFile DEF Full, Log!ToSet
  <2> QED BY <2>1 DEF AckedAreDurable
<1> QED BY <1>1, <1>2, <1>3, <1>4, <1>5 DEF WalInv, FileInOrder

\* What is left of a file is sound if the file was.
LEMMA TornIsSound ==
    ASSUME NEW f \in Seq(Cell), NEW g \in Seq(Cell), Torn(g, f), NEW c, NEW R, Sound(f, c, R)
    PROVE  \E d : Sound(g, d, R)
<1>1. PICK d : /\ Full(g, d) /\ Len(d) <= Len(c)
               /\ \A i \in 1 .. Len(d) : d[i] = c[i]
               /\ \A i \in 1 .. Len(d) - 1 : g[d[i]] = f[c[i]]
  BY TornChain DEF Sound
<1>2. Len(c) \in Nat /\ Len(d) \in Nat
  BY <1>1 DEF Sound, Full, Chain
<1>3. \A i \in 1 .. Len(d) - 1 : i \in 1 .. Len(c) - 1
  BY <1>1, <1>2
<1> QED BY <1>1, <1>3 DEF Sound

\* What was durably told is told by every file that begins with it.
LEMMA ToldStays ==
    ASSUME NEW p \in Seq(Cell), NEW f \in Seq(Cell), Begins(p, f),
           NEW d, Chain(p, d), NEW c, Full(f, c)
    PROVE  Told(p, d) \subseteq Told(f, c)
<1>1. /\ Len(d) <= Len(c) /\ Len(d) \in Nat /\ Len(c) \in Nat
      /\ \A i \in 1 .. Len(d) - 1 : p[d[i]] = f[c[i]]
  <2>1. Len(d) <= Len(c) /\ \A i \in 1 .. Len(d) - 1 : p[d[i]] = f[c[i]]
    BY ChainInFull
  <2>2. Len(d) \in Nat
    BY ChainHas
  <2>3. Len(c) \in Nat
    BY ChainHas DEF Full
  <2> QED BY <2>1, <2>2, <2>3
<1>2. \A i \in 1 .. Len(d) - 1 : i \in 1 .. Len(c) - 1
  BY <1>1
<1> QED BY <1>1, <1>2 DEF Told

LEMMA BeginningChain ==
    ASSUME NEW p \in Seq(Cell), NEW f \in Seq(Cell), Begins(p, f), NEW d, Chain(p, d)
    PROVE  Chain(f, d) /\ Told(f, d) = Told(p, d)
<1>1. ASSUME NEW i \in 1 .. Len(d) - 1
      PROVE  WholeAt(f, d[i]) /\ f[d[i]] = p[d[i]]
  <2>1. PICK at : at = d[i]
    OBVIOUS
  <2>2. WholeAt(p, at) /\ at \in Nat /\ p[at].len \in Nat /\ at + p[at].len <= Len(p)
    BY <2>1, WholeIs DEF Chain
  <2>3. Len(p) \in Nat /\ Len(f) \in Nat /\ Len(p) <= Len(f) /\ \A v \in 1 .. Len(p) : f[v] = p[v]
    BY DEF Begins
  <2>4. at + p[at].len <= Len(f)
    BY <2>2, <2>3
  <2>5. WholeAt(f, at) /\ f[at] = p[at]
    BY <2>2, <2>3, <2>4, WholeStays
  <2> QED BY <2>1, <2>5
<1> QED BY <1>1 DEF Chain, Told

\* Steps that leave a file of which only the undurable may be missing.
LEMMA WentDown ==
    ASSUME WalInv, handle' = "down", position' \in Nat, replayed' = <<>>, inflight' \in Nat,
           UNCHANGED <<acked, records>>, file' \in Seq(Cell), Torn(file', file),
           Begins(durable, file'), durable' = durable \/ durable' = file'
    PROVE  WalInv'
<1>1. /\ file \in Seq(Cell) /\ durable \in Seq(Cell) /\ acked \in Seq(Nat) /\ records \in Nat
      /\ acked' = acked /\ records' = records /\ file' \in Seq(Cell)
  BY DEF WalInv, LogTyped
<1>2. LogTyped'
  BY <1>1 DEF LogTyped
<1>3. DurableBegins'
  BY <1>1 DEF DurableBegins, Begins
<1>4. FileInOrder'
  <2>1. PICK c : Sound(file, c, records)
    BY DEF WalInv, FileInOrder
  <2>2. \E d : Sound(file', d, records)
    BY <1>1, <2>1, TornIsSound
  <2> QED BY <1>1, <2>2 DEF FileInOrder
<1>5. MemtableInOrder'
  BY <1>1 DEF WalInv, MemtableInOrder, InOrder, Log!ToSet
<1>6. AckedAreDurable'
  <2>1. PICK d : Chain(durable, d) /\ Log!ToSet(acked) \subseteq Told(durable, d)
    BY DEF WalInv, AckedAreDurable
  <2>2. Chain(file', d) /\ Told(file', d) = Told(durable, d)
    BY <1>1, <2>1, BeginningChain
  <2> QED BY <1>1, <2>1, <2>2 DEF AckedAreDurable
<1> QED BY <1>2, <1>3, <1>4, <1>5, <1>6 DEF WalInv

LEMMA KillStep == ASSUME WalInv, Log!Kill PROVE WalInv'
<1>1. /\ file \in Seq(Cell) /\ durable \in Seq(Cell) /\ position \in Nat /\ Len(file) \in Nat
      /\ Begins(durable, file) /\ Len(durable) \in Nat
      /\ handle = "writing" => Len(durable) <= position /\ position <= Len(file)
  BY DEF WalInv, LogTyped, DurableBegins
<1>2. PICK m \in 0 .. Len(file) : /\ file' = SubSeq(file, 1, m) /\ Len(durable) <= m
  <2>1. CASE handle = "writing"
    <3>1. PICK m \in position .. Len(file) : file' = SubSeq(file, 1, m)
      BY <2>1, SMTT(30) DEF Log!Kill
    <3> QED BY <1>1, <2>1, <3>1
  <2>2. CASE handle # "writing"
    <3>1. file' = file
      BY <2>2 DEF Log!Kill
    <3>2. SubSeq(file, 1, Len(file)) = file
      BY <1>1
    <3>3. Len(durable) <= Len(file) /\ Len(file) \in 0 .. Len(file)
      BY <1>1 DEF Begins
    <3> QED BY <3>1, <3>2, <3>3
  <2> QED BY <2>1, <2>2
<1>3. file' \in Seq(Cell) /\ Len(file') = m /\ \A i \in 1 .. m : file'[i] = file[i]
  BY <1>1, <1>2
<1>4. Torn(file', file) /\ Begins(durable, file')
  BY <1>1, <1>2, <1>3 DEF Torn, Begins
<1>5. /\ handle' = "down" /\ position' = 0 /\ replayed' = <<>> /\ inflight' = 0
      /\ UNCHANGED <<acked, records>> /\ durable' = durable
  BY DEF Log!Kill, Log!Down
<1> QED BY <1>3, <1>4, <1>5, WentDown

LEMMA PowerLossStep == ASSUME WalInv, Log!PowerLoss PROVE WalInv'
<1>1. /\ file \in Seq(Cell) /\ durable \in Seq(Cell) /\ Len(file) \in Nat
      /\ Begins(durable, file) /\ Len(durable) \in Nat /\ Len(durable) <= Len(file)
  BY DEF WalInv, LogTyped, DurableBegins, Begins
<1>2. PICK m \in Len(durable) .. Len(file), kept \in SUBSET (Len(durable) + 1 .. Len(file)) :
         file' = [i \in 1 .. m |-> IF i <= Len(durable) \/ i \in kept THEN file[i] ELSE Log!Zero]
  BY DEF Log!PowerLoss
<1>3. m \in Nat /\ \A i \in 1 .. m : i \in 1 .. Len(file) /\ file[i] \in Cell
  BY <1>1
<1>4. /\ file' \in Seq(Cell) /\ Len(file') = m
      /\ \A i \in 1 .. m : file'[i] = IF i <= Len(durable) \/ i \in kept THEN file[i] ELSE Log!Zero
  <2>1. file' \in [1 .. m -> Cell]
    BY <1>2, <1>3 DEF Cell
  <2>2. file' \in Seq(Cell)
    BY <1>3, <2>1
  <2>3. Len(file') = m
    BY <1>3, <2>1, <2>2
  <2> QED BY <1>2, <2>2, <2>3
<1>5. Torn(file', file)
  BY <1>1, <1>3, <1>4 DEF Torn
<1>6. Begins(durable, file')
  <2>1. ASSUME NEW i \in 1 .. Len(durable) PROVE durable[i] = file'[i]
    <3>1. i \in 1 .. m /\ i <= Len(durable)
      BY <1>1, <1>3
    <3> QED BY <1>1, <1>4, <3>1 DEF Begins
  <2> QED BY <1>1, <1>3, <1>4, <2>1 DEF Begins
<1>7. /\ handle' = "down" /\ position' = 0 /\ replayed' = <<>> /\ inflight' = 0
      /\ UNCHANGED <<acked, records>> /\ durable' = file'
  BY DEF Log!PowerLoss, Log!Down
<1> QED BY <1>4, <1>5, <1>6, <1>7, WentDown

LEMMA LogOpenStep == ASSUME WalInv, Log!Open PROVE WalInv'
<1>1. /\ file \in Seq(Cell) /\ durable \in Seq(Cell) /\ Len(file) \in Nat
      /\ Begins(durable, file) /\ acked \in Seq(Nat) /\ records \in Nat /\ inflight \in Nat
      /\ handle' = "open" /\ acked' = acked /\ inflight' = inflight /\ records' = records
  BY DEF WalInv, LogTyped, DurableBegins, Log!Open
<1>2. PICK c : Sound(file, c, records)
  BY DEF WalInv, FileInOrder
<1>3. PICK good : good = c[Len(c)] - 1
  OBVIOUS
<1>4. Log!Replay(file).ids = IdsOf(file, c) /\ Log!Replay(file).good = good
  BY <1>1, <1>2, <1>3, ReplayReads DEF Sound
<1>5. /\ file' = SubSeq(file, 1, good) /\ replayed' = IdsOf(file, c) /\ position' = good
      /\ durable' = IF good < Len(file) THEN file' ELSE durable
  BY <1>4 DEF Log!Open, Log!DropTail
<1>6. /\ file' \in Seq(Cell) /\ Len(file') = good /\ Len(file') <= Len(file) /\ Full(file', c)
      /\ \A i \in 1 .. Len(file') : file'[i] = file[i]
      /\ \A i \in 1 .. Len(c) - 1 : file'[c[i]] = file[c[i]]
  <2>1. PICK g : g = file'
    OBVIOUS
  <2>2. Full(file, c) /\ Chain(file, c) /\ Len(c) \in 1 .. Len(c)
    BY <1>2 DEF Sound, Full, Chain
  <2>3. c[Len(c)] \in 1 .. Len(file) + 1
    BY <1>1, <2>2, ChainIsIn
  <2>4. good \in 0 .. Len(file)
    BY <1>1, <1>3, <2>3
  <2>5. ASSUME NEW k \in 0 .. Len(file)
        PROVE  /\ SubSeq(file, 1, k) \in Seq(Cell) /\ Len(SubSeq(file, 1, k)) = k /\ k <= Len(file)
               /\ \A i \in 1 .. k : SubSeq(file, 1, k)[i] = file[i]
    BY <1>1
  <2>6. g \in Seq(Cell) /\ Len(g) = good /\ Len(g) <= Len(file) /\ \A i \in 1 .. Len(g) : g[i] = file[i]
    BY <1>5, <2>1, <2>4, <2>5
  <2>7. Begins(g, file) /\ Len(g) = c[Len(c)] - 1
    BY <1>3, <2>6 DEF Begins
  <2>8. Full(g, c) /\ \A i \in 1 .. Len(c) - 1 : g[c[i]] = file[c[i]]
    BY <1>1, <2>2, <2>6, <2>7, CutAtEnd
  <2> QED BY <2>1, <2>6, <2>8
<1>7. good \in Nat /\ c[Len(c)] = good + 1 /\ Len(c) \in Nat /\ c \in Seq(Nat) /\ Len(c) >= 1
  <2>1. c \in Seq(Nat) /\ Len(c) \in Nat /\ Len(c) >= 1
    BY <1>2 DEF Sound, Full, Chain
  <2>2. c[Len(c)] \in Nat /\ good \in Nat
    BY <1>6, <2>1
  <2> QED BY <1>3, <2>1, <2>2
<1>8. Sound(file', c, records)
  BY <1>2, <1>6 DEF Sound
<1>9. /\ replayed' \in Seq(Nat) /\ Log!ToSet(replayed') = Told(file, c)
      /\ InOrder(replayed') /\ Log!ToSet(replayed') \subseteq 1 .. records
      /\ Told(file', c) = Told(file, c)
  <2>1. PICK n \in Nat : n = Len(c) - 1
    BY <1>7
  <2>2. replayed' = [i \in 1 .. n |-> file[c[i]].id]
    BY <1>5, <2>1 DEF IdsOf
  <2>3. \A i \in 1 .. n : file[c[i]].id \in 1 .. records /\ file[c[i]].id \in Nat
    BY <1>1, <1>2, <2>1 DEF Sound
  <2>4. replayed' \in Seq(Nat) /\ DOMAIN replayed' = 1 .. n /\ \A i \in 1 .. n : replayed'[i] = file[c[i]].id
    BY <2>2, <2>3
  <2>5. InOrder(replayed')
    BY <1>2, <2>1, <2>4 DEF Sound, InOrder
  <2>6. Log!ToSet(replayed') = {file[c[i]].id : i \in 1 .. n}
    BY <2>4 DEF Log!ToSet
  <2>7. Told(file, c) = {file[c[i]].id : i \in 1 .. n}
    BY <2>1 DEF Told
  <2>8. Told(file', c) = Told(file, c)
    BY <1>6 DEF Told
  <2>9. Log!ToSet(replayed') \subseteq 1 .. records
    BY <2>3, <2>6
  <2> QED BY <2>4, <2>5, <2>6, <2>7, <2>8, <2>9
<1>10. Begins(durable', file') /\ durable' \in Seq(Cell)
  <2>1. CASE good < Len(file)
    BY <1>5, <1>6, <1>7, <2>1 DEF Begins
  <2>2. CASE ~(good < Len(file))
    <3>1. good = Len(file) /\ durable' = durable
      BY <1>1, <1>5, <1>6, <1>7, <2>2
    <3>2. file' = file
      BY <1>1, <1>5, <3>1
    <3> QED BY <1>1, <3>1, <3>2
  <2> QED BY <2>1, <2>2
<1>11. Log!ToSet(acked) \subseteq Told(file, c)
  <2>1. PICK d : Chain(durable, d) /\ Log!ToSet(acked) \subseteq Told(durable, d)
    BY DEF WalInv, AckedAreDurable
  <2>2. Told(durable, d) \subseteq Told(file, c)
    BY <1>1, <1>2, <2>1, ToldStays DEF Sound
  <2> QED BY <2>1, <2>2
<1>12. AckedAreDurable'
  <2>1. CASE good < Len(file)
    <3>1. Chain(durable', c) /\ Told(durable', c) = Told(file, c)
      BY <1>5, <1>6, <1>9, <2>1 DEF Full
    <3> QED BY <1>1, <1>11, <3>1 DEF AckedAreDurable
  <2>2. CASE ~(good < Len(file))
    BY <1>1, <1>5, <2>2 DEF WalInv, AckedAreDurable
  <2> QED BY <2>1, <2>2
<1>13. LogTyped'
  BY <1>1, <1>5, <1>6, <1>7, <1>9, <1>10 DEF LogTyped
<1>14. DurableBegins'
  BY <1>1, <1>5, <1>6, <1>10 DEF DurableBegins
<1>15. FileInOrder'
  BY <1>1, <1>6, <1>7, <1>8, <1>9 DEF FileInOrder
<1>16. MemtableInOrder'
  BY <1>1, <1>9, <1>11 DEF WalInv, MemtableInOrder
<1> QED BY <1>12, <1>13, <1>14, <1>15, <1>16 DEF WalInv

\* What appendWAL gives to the system is a record behind the file.
LEMMA WrittenBehind ==
    ASSUME WalInv, handle = "open", NEW n \in Nat
    PROVE  /\ SubSeq(file, 1, position) = file
           /\ file \o Log!Cells(records + 1, n) \in Seq(Cell)
           /\ Continues(file \o Log!Cells(records + 1, n), file, records + 1, n)
<1>1. file \in Seq(Cell) /\ position = Len(file) /\ records \in Nat
  BY DEF WalInv, LogTyped, DurableBegins
<1>2. SubSeq(file, 1, position) = file
  BY <1>1
<1>3. PICK id \in Nat : id = records + 1
  BY <1>1
<1>4. /\ file \o Log!Cells(id, n) \in Seq(Cell)
      /\ Continues(file \o Log!Cells(id, n), file, id, n)
  BY <1>1, Continued
<1> QED BY <1>2, <1>3, <1>4

\* The file while a record is written behind the others, or after it.
LEMMA Written ==
    ASSUME WalInv, handle = "open", Log!LogFileAssumption, NEW n \in 1 .. MaxBody,
           NEW g \in Seq(Cell), Continues(g, file, records + 1, n)
    PROVE  /\ Len(g) = Len(file) + n + 1 /\ Begins(file, g) /\ Begins(durable, g)
           /\ \E d : /\ Sound(g, d, records + 1) /\ d[Len(d)] = Len(g) + 1
                     /\ Log!ToSet(replayed) \subseteq Told(g, d) /\ records + 1 \in Told(g, d)
<1>1. /\ file \in Seq(Cell) /\ durable \in Seq(Cell) /\ Len(file) \in Nat /\ Len(durable) \in Nat
      /\ Begins(durable, file) /\ records \in Nat /\ n \in Nat \ {0} /\ MaxBody \in Nat
  BY DEF WalInv, LogTyped, Log!LogFileAssumption, DurableBegins
<1>2. Len(g) = Len(file) + n + 1 /\ \A i \in 1 .. Len(file) : g[i] = file[i]
  BY ZenonT(20) DEF Continues
<1>3. PICK c : Sound(file, c, records) /\ c[Len(c)] = Len(file) + 1 /\ Log!ToSet(replayed) \subseteq Told(file, c)
  BY DEF WalInv, FileInOrder
<1>4. \E d : /\ Full(g, d) /\ d[Len(d)] = Len(g) + 1 /\ Len(d) = Len(c) + 1
             /\ \A i \in 1 .. Len(c) - 1 : g[d[i]] = file[c[i]]
             /\ g[d[Len(c)]].id = records + 1 /\ g[d[Len(c)]].len = n
  <2>1. PICK id \in Nat : id = records + 1
    BY <1>1
  <2>2. Full(file, c) /\ Continues(g, file, id, n)
    BY <1>3, <2>1 DEF Sound
  <2>3. \E d : /\ Full(g, d) /\ d[Len(d)] = Len(g) + 1 /\ Len(d) = Len(c) + 1
               /\ \A i \in 1 .. Len(c) - 1 : g[d[i]] = file[c[i]]
               /\ g[d[Len(c)]].id = id /\ g[d[Len(c)]].len = n
    BY <1>1, <1>3, <2>2, AppendChain
  <2> QED BY <2>1, <2>3
<1>b. Len(file) <= Len(g) /\ Begins(file, g)
  <2>1. PICK l \in Nat : l = Len(file)
    BY <1>1
  <2>2. n \in Nat
    BY <1>1
  <2>3. Len(file) <= Len(g)
    BY <1>2, <2>1, <2>2
  <2> QED BY <1>2, <2>3 DEF Begins
<1>r. /\ \A x : x \in 1 .. records => x \in 1 .. records + 1 /\ x < records + 1
      /\ records + 1 \in 1 .. records + 1 /\ n \in 1 .. MaxBody
  BY <1>1
<1>5. PICK d : /\ Full(g, d) /\ d[Len(d)] = Len(g) + 1 /\ Len(d) = Len(c) + 1
               /\ \A i \in 1 .. Len(c) - 1 : g[d[i]] = file[c[i]]
               /\ g[d[Len(c)]].id = records + 1 /\ g[d[Len(c)]].len = n
  BY <1>4
<1>6. PICK m \in Nat : m = Len(c) /\ m >= 1 /\ Len(d) - 1 = m
  BY <1>3, <1>5 DEF Sound, Full, Chain
<1>7. \A i \in 1 .. m : i \in 1 .. m - 1 \/ i = m
  BY <1>6
<1>8. /\ \A i \in 1 .. m - 1 : /\ g[d[i]].id = file[c[i]].id /\ g[d[i]].len = file[c[i]].len
                                /\ file[c[i]].id \in 1 .. records /\ file[c[i]].len \in 1 .. MaxBody
      /\ \A i, j \in 1 .. m - 1 : i < j => file[c[i]].id < file[c[j]].id
  BY <1>3, <1>5, <1>6 DEF Sound
<1>a. g[d[m]].id = records + 1 /\ g[d[m]].len = n
  BY <1>5, <1>6
<1>9. \A i \in 1 .. m : g[d[i]].id \in 1 .. records + 1 /\ g[d[i]].len \in 1 .. MaxBody
  <2> SUFFICES ASSUME NEW i \in 1 .. m
               PROVE  g[d[i]].id \in 1 .. records + 1 /\ g[d[i]].len \in 1 .. MaxBody
    OBVIOUS
  <2>1. CASE i \in 1 .. m - 1
    <3>1. g[d[i]].id \in 1 .. records /\ g[d[i]].len \in 1 .. MaxBody
      BY <1>8, <2>1
    <3> QED BY <1>r, <3>1
  <2>2. CASE i = m
    BY <1>r, <1>a, <2>2
  <2> QED BY <1>7, <2>1, <2>2
<1>10. \A i, j \in 1 .. m : i < j => g[d[i]].id < g[d[j]].id
  <2> SUFFICES ASSUME NEW i \in 1 .. m, NEW j \in 1 .. m, i < j PROVE g[d[i]].id < g[d[j]].id
    OBVIOUS
  <2>1. i \in 1 .. m - 1
    BY <1>6
  <2>2. CASE j \in 1 .. m - 1
    BY <1>8, <2>1, <2>2
  <2>3. CASE j = m
    <3>1. g[d[i]].id \in 1 .. records
      BY <1>8, <2>1
    <3> QED BY <1>r, <1>a, <2>3, <3>1
  <2> QED BY <1>7, <2>2, <2>3
<1>11. Sound(g, d, records + 1)
  BY <1>5, <1>6, <1>9, <1>10 DEF Sound
<1>12. Told(file, c) \subseteq Told(g, d) /\ records + 1 \in Told(g, d)
  <2>1. \A i \in 1 .. m - 1 : i \in 1 .. m
    BY <1>6
  <2>2. m \in 1 .. m
    BY <1>6
  <2>3. Told(file, c) = {file[c[i]].id : i \in 1 .. m - 1}
    BY <1>6 DEF Told
  <2>4. Told(g, d) = {g[d[i]].id : i \in 1 .. m}
    BY <1>6 DEF Told
  <2>5. \A i \in 1 .. m - 1 : file[c[i]].id = g[d[i]].id
    BY <1>8
  <2> QED BY <1>a, <2>1, <2>2, <2>3, <2>4, <2>5
<1>13. Begins(durable, g)
  <2>1. Len(durable) <= Len(file) /\ \A i \in 1 .. Len(durable) : durable[i] = file[i]
    BY <1>1 DEF Begins
  <2>2. PICK k \in Nat, l \in Nat, m2 \in Nat : k = Len(durable) /\ l = Len(file) /\ m2 = Len(g)
    BY <1>1
  <2>3. k <= m2 /\ \A i \in 1 .. k : i \in 1 .. l
    BY <1>b, <2>1, <2>2
  <2> QED BY <1>2, <2>1, <2>2, <2>3 DEF Begins
<1> QED BY <1>2, <1>3, <1>b, <1>5, <1>11, <1>12, <1>13

LEMMA AppendStep ==
    ASSUME WalInv, Log!LogFileAssumption, NEW n \in 1 .. MaxBody, Log!appendWAL(n)
    PROVE  WalInv'
<1>1. /\ handle = "open" /\ handle' = "writing" /\ records' = records + 1 /\ inflight' = records + 1
      /\ file' = SubSeq(file, 1, position) \o Log!Cells(records + 1, n)
      /\ durable' = durable /\ position' = position /\ replayed' = replayed /\ acked' = acked
  BY DEF Log!appendWAL
<1>n. n \in Nat
  BY DEF Log!LogFileAssumption
<1>2. PICK g \in Seq(Cell) : g = file' /\ Continues(g, file, records + 1, n)
  <2>1. file' = file \o Log!Cells(records + 1, n)
    BY <1>1, <1>n, WrittenBehind
  <2> QED BY <1>1, <1>n, <2>1, WrittenBehind
<1>3. /\ Len(g) = Len(file) + n + 1 /\ Begins(file, g) /\ Begins(durable, g)
      /\ \E d : /\ Sound(g, d, records + 1) /\ d[Len(d)] = Len(g) + 1
                /\ Log!ToSet(replayed) \subseteq Told(g, d) /\ records + 1 \in Told(g, d)
  BY <1>1, <1>2, Written
<1>4. /\ records \in Nat /\ position \in Nat /\ position = Len(file) /\ Begins(durable, file)
      /\ durable \in Seq(Cell) /\ replayed \in Seq(Nat) /\ acked \in Seq(Nat)
      /\ Log!ToSet(replayed) \subseteq 1 .. records /\ n \in Nat
  BY <1>1 DEF WalInv, LogTyped, DurableBegins, MemtableInOrder
<1>5. LogTyped'
  BY <1>1, <1>2, <1>3, <1>4 DEF LogTyped
<1>6. DurableBegins'
  <2>1. Len(durable) <= position /\ position <= Len(g)
    BY <1>3, <1>4 DEF Begins
  <2> QED BY <1>1, <1>2, <1>3, <2>1 DEF DurableBegins
<1>7. FileInOrder'
  BY <1>1, <1>2, <1>3 DEF FileInOrder
<1>8. MemtableInOrder'
  <2>1. Log!ToSet(replayed) \subseteq 1 .. records + 1 /\ records + 1 \notin Log!ToSet(replayed)
    BY <1>4
  <2>2. InOrder(replayed) /\ InOrder(acked) /\ Log!ToSet(acked) \subseteq Log!ToSet(replayed)
    BY <1>1 DEF WalInv, MemtableInOrder
  <2> QED BY <1>1, <2>1, <2>2 DEF MemtableInOrder
<1>9. AckedAreDurable'
  BY <1>1 DEF WalInv, AckedAreDurable
<1> QED BY <1>5, <1>6, <1>7, <1>8, <1>9 DEF WalInv

LEMMA AppendFailsStep ==
    ASSUME WalInv, Log!LogFileAssumption, NEW n \in 1 .. MaxBody, Log!appendWALFails(n)
    PROVE  WalInv'
<1>1. /\ handle = "open" /\ handle' = "broken" /\ records' = records + 1 /\ inflight' = inflight
      /\ durable' = durable /\ position' = position /\ replayed' = replayed /\ acked' = acked
  BY DEF Log!appendWALFails
<1>2. PICK cells : cells = Log!Cells(records + 1, n)
  OBVIOUS
<1>3. PICK m \in 0 .. n : file' = SubSeq(file, 1, position) \o SubSeq(cells, 1, m)
  BY <1>2 DEF Log!appendWALFails
<1>n. n \in Nat
  BY DEF Log!LogFileAssumption
<1>4. PICK g \in Seq(Cell) : /\ g = file \o cells /\ SubSeq(file, 1, position) = file
                             /\ Continues(g, file, records + 1, n)
  BY <1>1, <1>2, <1>n, WrittenBehind
<1>5. /\ Len(g) = Len(file) + n + 1 /\ Begins(file, g) /\ Begins(durable, g)
      /\ \E d : Sound(g, d, records + 1)
  BY <1>1, <1>4, Written
<1>6. /\ records \in Nat /\ position \in Nat /\ position = Len(file) /\ Begins(durable, file)
      /\ file \in Seq(Cell) /\ durable \in Seq(Cell) /\ replayed \in Seq(Nat) /\ acked \in Seq(Nat)
      /\ Log!ToSet(replayed) \subseteq 1 .. records /\ n \in Nat /\ inflight \in Nat /\ m \in Nat
  BY <1>1 DEF WalInv, LogTyped, DurableBegins, MemtableInOrder
<1>7. file' = SubSeq(g, 1, Len(file) + m)
  <2>1. file' = file \o SubSeq(cells, 1, m)
    BY <1>3, <1>4
  <2>2. cells \in Seq(Cell) /\ Len(cells) = n + 1
    <3>1. PICK id \in Nat : id = records + 1
      BY <1>6
    <3> QED BY <1>2, <1>6, <3>1, CellsAre
  <2>3. ASSUME NEW a \in Seq(Cell), NEW b \in Seq(Cell), NEW k \in 0 .. Len(b)
        PROVE  a \o SubSeq(b, 1, k) = SubSeq(a \o b, 1, Len(a) + k)
    <3>1. Len(a) \in Nat /\ Len(b) \in Nat /\ k \in Nat
      OBVIOUS
    <3> DEFINE c == SubSeq(b, 1, k)
               x == a \o c
               y == a \o b
               z == SubSeq(y, 1, Len(a) + k)
    <3>2. c \in Seq(Cell) /\ Len(c) = k /\ \A i \in 1 .. k : c[i] = b[i]
      OBVIOUS
    <3> HIDE DEF c
    <3>3. /\ x \in Seq(Cell) /\ Len(x) = Len(a) + k
          /\ \A i \in 1 .. Len(a) + k : x[i] = IF i <= Len(a) THEN a[i] ELSE c[i - Len(a)]
      <4>1. /\ x \in Seq(Cell) /\ Len(x) = Len(a) + Len(c)
            /\ \A i \in 1 .. Len(a) + Len(c) : x[i] = IF i <= Len(a) THEN a[i] ELSE c[i - Len(a)]
        BY <3>1, <3>2
      <4> HIDE DEF x
      <4> QED BY <3>2, <4>1
    <3>4. /\ y \in Seq(Cell) /\ Len(y) = Len(a) + Len(b)
          /\ \A i \in 1 .. Len(a) + Len(b) : y[i] = IF i <= Len(a) THEN a[i] ELSE b[i - Len(a)]
      BY <3>1
    <3> HIDE DEF x, y
    <3>5. z \in Seq(Cell) /\ Len(z) = Len(a) + k /\ \A i \in 1 .. Len(a) + k : z[i] = y[i]
      BY <3>1, <3>4
    <3> HIDE DEF z
    <3>6. ASSUME NEW i \in 1 .. Len(a) + k PROVE x[i] = z[i]
      <4>1. i \in 1 .. Len(a) + Len(b) /\ (i <= Len(a) \/ i - Len(a) \in 1 .. k)
        BY <3>1
      <4> QED BY <3>2, <3>3, <3>4, <3>5, <4>1
    <3>7. x = z
      BY <3>1, <3>3, <3>5, <3>6
    <3> QED BY <3>7 DEF x, y, z, c
  <2>4. m \in 0 .. Len(cells)
    BY <1>6, <2>2
  <2> QED BY <1>4, <1>6, <2>1, <2>2, <2>3, <2>4
<1>8. /\ file' \in Seq(Cell) /\ Len(file') = Len(file) + m /\ Len(file') <= Len(g)
      /\ \A i \in 1 .. Len(file') : file'[i] = g[i]
  <2>1. PICK k \in 0 .. Len(g) : k = Len(file) + m
    <3>1. PICK l \in Nat : l = Len(file)
      BY <1>6
    <3>2. Len(g) = l + n + 1 /\ l + m \in 0 .. l + n + 1
      BY <1>5, <1>6, <3>1
    <3> QED BY <3>1, <3>2
  <2> QED BY <1>5, <1>7, <2>1
<1>9. Torn(file', g)
  BY <1>8 DEF Torn
<1>10. Begins(durable, file')
  <2>1. Len(durable) \in Nat /\ Len(file) \in Nat /\ Len(durable) <= Len(file)
    BY <1>6 DEF Begins
  <2>2. \A i \in 1 .. Len(durable) : i \in 1 .. Len(file')
    BY <1>6, <1>8, <2>1
  <2> QED BY <1>5, <1>6, <1>8, <2>1, <2>2 DEF Begins
<1>11. LogTyped'
  BY <1>1, <1>6, <1>8 DEF LogTyped
<1>12. DurableBegins'
  BY <1>1, <1>10 DEF DurableBegins
<1>13. FileInOrder'
  <2>1. PICK d : Sound(g, d, records + 1)
    BY <1>5
  <2>2. \E e : Sound(file', e, records + 1)
    BY <1>5, <1>8, <1>9, <2>1, TornIsSound
  <2> QED BY <1>1, <2>2 DEF FileInOrder
<1>14. MemtableInOrder'
  <2>1. Log!ToSet(replayed) \subseteq 1 .. records + 1
    BY <1>6
  <2>2. InOrder(replayed) /\ InOrder(acked) /\ Log!ToSet(acked) \subseteq Log!ToSet(replayed)
    BY <1>1 DEF WalInv, MemtableInOrder
  <2> QED BY <1>1, <2>1, <2>2 DEF MemtableInOrder
<1>15. AckedAreDurable'
  BY <1>1 DEF WalInv, AckedAreDurable
<1> QED BY <1>11, <1>12, <1>13, <1>14, <1>15 DEF WalInv
LEMMA SyncStep == ASSUME WalInv, Log!Sync PROVE WalInv'
<1>1. /\ handle = "writing" /\ handle' = "open" /\ durable' = file /\ position' = Len(file)
      /\ replayed' = replayed \o <<inflight>> /\ acked' = acked \o <<inflight>>
      /\ inflight' = 0 /\ file' = file /\ records' = records
  BY DEF Log!Sync
<1>2. /\ file \in Seq(Cell) /\ durable \in Seq(Cell) /\ replayed \in Seq(Nat) /\ acked \in Seq(Nat)
      /\ records \in Nat /\ inflight = records /\ Begins(durable, file)
      /\ InOrder(replayed) /\ InOrder(acked)
      /\ Log!ToSet(replayed) \subseteq 1 .. records /\ records \notin Log!ToSet(replayed)
      /\ Log!ToSet(acked) \subseteq Log!ToSet(replayed) /\ Len(file) \in Nat
  BY <1>1 DEF WalInv, LogTyped, DurableBegins, MemtableInOrder
<1>3. PICK c : /\ Sound(file, c, records) /\ c[Len(c)] = Len(file) + 1
               /\ Log!ToSet(replayed) \subseteq Told(file, c) /\ inflight \in Told(file, c)
  BY <1>1 DEF WalInv, FileInOrder
<1>4. ASSUME NEW q \in Seq(Nat), InOrder(q), Log!ToSet(q) \subseteq 1 .. records,
             records \notin Log!ToSet(q)
      PROVE  /\ q \o <<records>> \in Seq(Nat) /\ InOrder(q \o <<records>>)
             /\ Log!ToSet(q \o <<records>>) = Log!ToSet(q) \cup {records}
  <2>1. PICK n \in Nat : n = Len(q)
    OBVIOUS
  <2>2. PICK r \in Seq(Nat) : /\ r = q \o <<records>> /\ Len(r) = n + 1 /\ r[n + 1] = records
                              /\ \A i \in 1 .. n : r[i] = q[i]
    <3>1. ASSUME NEW x \in Nat
          PROVE  /\ q \o <<x>> \in Seq(Nat) /\ Len(q \o <<x>>) = Len(q) + 1
                 /\ (q \o <<x>>)[Len(q) + 1] = x /\ \A i \in 1 .. Len(q) : (q \o <<x>>)[i] = q[i]
      OBVIOUS
    <3>2. records \in Nat
      BY <1>2
    <3> QED BY <2>1, <3>1, <3>2
  <2>3. Len(r) = n + 1 /\ r[n + 1] = records /\ \A i \in 1 .. n : r[i] = q[i]
    BY <2>2
  <2>4. \A i \in 1 .. n + 1 : i \in 1 .. n \/ i = n + 1
    BY <2>1
  <2>5. \A i \in 1 .. n : q[i] \in Log!ToSet(q)
    BY <2>1 DEF Log!ToSet
  <2>6. \A i \in 1 .. n : q[i] < records
    <3>1. \A x \in 1 .. records : x # records => x < records
      BY <1>2
    <3> QED BY <1>4, <2>5, <3>1
  <2>a. \A i, j \in 1 .. n : i < j => q[i] < q[j]
    <3>1. DOMAIN q = 1 .. n
      BY <2>1
    <3> QED BY <1>4, <3>1 DEF InOrder
  <2>7. InOrder(r)
    <3> SUFFICES ASSUME NEW i \in 1 .. n + 1, NEW j \in 1 .. n + 1, i < j PROVE r[i] < r[j]
      BY <2>3 DEF InOrder
    <3>1. i \in 1 .. n
      BY <2>1
    <3>2. CASE j \in 1 .. n
      <4>1. q[i] < q[j]
        BY <2>a, <3>1, <3>2
      <4>2. r[i] = q[i] /\ r[j] = q[j]
        BY <2>3, <3>1, <3>2
      <4> QED BY <4>1, <4>2
    <3>3. CASE j = n + 1
      BY <2>3, <2>6, <3>1, <3>3
    <3> QED BY <2>4, <3>2, <3>3
  <2>8. Log!ToSet(r) = {r[i] : i \in 1 .. n + 1} /\ Log!ToSet(q) = {q[i] : i \in 1 .. n}
    <3>1. DOMAIN r = 1 .. n + 1 /\ DOMAIN q = 1 .. n
      BY <2>1, <2>3
    <3> QED BY <3>1, Zenon DEF Log!ToSet
  <2>9. \A i \in 1 .. n : i \in 1 .. n + 1
    BY <2>1
  <2>10. n + 1 \in 1 .. n + 1
    BY <2>1
  <2>11. Log!ToSet(r) = Log!ToSet(q) \cup {records}
    BY <2>3, <2>4, <2>8, <2>9, <2>10
  <2> QED BY <2>2, <2>7, <2>11
<1>5. /\ replayed' \in Seq(Nat) /\ acked' \in Seq(Nat) /\ InOrder(replayed') /\ InOrder(acked')
      /\ Log!ToSet(replayed') = Log!ToSet(replayed) \cup {records}
      /\ Log!ToSet(acked') = Log!ToSet(acked) \cup {records}
  <2>1. Log!ToSet(acked) \subseteq 1 .. records /\ records \notin Log!ToSet(acked)
    BY <1>2
  <2> QED BY <1>1, <1>2, <1>4, <2>1
<1>6. records >= 1
  <2>1. \A x \in Told(file, c) : x \in 1 .. records
    BY <1>3 DEF Told, Sound
  <2> QED BY <1>2, <1>3, <2>1
<1>7. LogTyped'
  BY <1>1, <1>2, <1>5 DEF LogTyped
<1>8. DurableBegins'
  BY <1>1, <1>2 DEF DurableBegins, Begins
<1>9. Log!ToSet(replayed') \subseteq Told(file, c)
  BY <1>2, <1>3, <1>5
<1>10. FileInOrder'
  BY <1>1, <1>3, <1>9 DEF FileInOrder
<1>11. MemtableInOrder'
  <2>1. Log!ToSet(replayed') \subseteq 1 .. records
    BY <1>2, <1>5, <1>6
  <2> QED BY <1>1, <1>2, <1>5, <2>1 DEF MemtableInOrder
<1>12. AckedAreDurable'
  <2>1. Chain(file, c) /\ Log!ToSet(acked') \subseteq Told(file, c)
    BY <1>2, <1>3, <1>5 DEF Sound, Full
  <2> QED BY <1>1, <2>1 DEF AckedAreDurable
<1> QED BY <1>7, <1>8, <1>10, <1>11, <1>12 DEF WalInv

LEMMA SyncFailsStep == ASSUME WalInv, Log!SyncFails PROVE WalInv'
<1>1. /\ handle = "writing" /\ handle' = "open" /\ position' = Len(file) /\ inflight' = 0
      /\ UNCHANGED <<file, durable, replayed, acked, records>>
  BY DEF Log!SyncFails
<1>2. LogTyped'
  BY <1>1 DEF WalInv, LogTyped
<1>3. DurableBegins'
  BY <1>1 DEF WalInv, DurableBegins
<1>4. FileInOrder'
  <2>1. PICK c : /\ Sound(file, c, records) /\ c[Len(c)] = Len(file) + 1
                 /\ Log!ToSet(replayed) \subseteq Told(file, c)
    BY <1>1 DEF WalInv, FileInOrder
  <2> QED BY <1>1, <2>1 DEF FileInOrder
<1>5. MemtableInOrder'
  BY <1>1 DEF WalInv, MemtableInOrder
<1>6. AckedAreDurable'
  BY <1>1 DEF WalInv, AckedAreDurable
<1> QED BY <1>2, <1>3, <1>4, <1>5, <1>6 DEF WalInv

LEMMA WalNext == ASSUME Log!LogFileAssumption, WalInv, [Log!Next]_(Log!vars) PROVE WalInv'
<1>1. CASE Log!Open
  BY <1>1, LogOpenStep
<1>2. ASSUME NEW n \in 1 .. MaxBody, Log!appendWAL(n) PROVE WalInv'
  BY <1>2, AppendStep
<1>3. ASSUME NEW n \in 1 .. MaxBody, Log!appendWALFails(n) PROVE WalInv'
  BY <1>3, AppendFailsStep
<1>4. CASE Log!Sync
  BY <1>4, SyncStep
<1>5. CASE Log!SyncFails
  BY <1>5, SyncFailsStep
<1>6. CASE Log!Kill
  BY <1>6, KillStep
<1>7. CASE Log!PowerLoss
  BY <1>7, PowerLossStep
<1>8. CASE UNCHANGED Log!vars
  BY <1>8 DEF Log!vars, WalInv, LogTyped, DurableBegins, FileInOrder, MemtableInOrder, AckedAreDurable
<1> QED BY <1>1, <1>2, <1>3, <1>4, <1>5, <1>6, <1>7, <1>8 DEF Log!Next

\* The invariant of the log file, for every length of a body and every number
\* of records and crashes.
THEOREM WalInvHolds == Log!Spec => []WalInv
<1>1. Log!LogFileAssumption
  BY StorageAssumption
<1>2. Log!Init => WalInv
  BY LogInit
<1>3. WalInv /\ [Log!Next]_(Log!vars) => WalInv'
  BY <1>1, WalNext
<1> QED BY <1>2, <1>3, PTL DEF Log!Spec

\* A whole record of a file is the cells that appendWAL wrote for it.
LEMMA WholeIsWritten ==
    ASSUME NEW f \in Seq(Cell), NEW at, WholeAt(f, at), NEW n, n = f[at].len
    PROVE  at + n <= Len(f) /\ SubSeq(f, at, at + n) = Log!Cells(f[at].id, n)
<1>1. /\ at \in 1 .. Len(f) /\ at \in Nat /\ f[at] \in HeadCell /\ n \in Nat /\ at + n <= Len(f)
      /\ \A i \in 1 .. n : f[at + i] = [is |-> "body", id |-> f[at].id]
      /\ Len(f) \in Nat
  BY WholeIs
<1>2. PICK id \in Nat : id = f[at].id
  BY WholeIs
<1>3. f[at] = [is |-> "head", id |-> id, len |-> n]
  BY <1>1, <1>2 DEF HeadCell
<1>4. PICK q \in Seq(Cell) : q = Log!Cells(id, n)
  BY <1>1, <1>2, CellsAre
<1>5. /\ Len(q) = n + 1 /\ q[1] = [is |-> "head", id |-> id, len |-> n]
      /\ \A i \in 1 .. n : q[i + 1] = [is |-> "body", id |-> id]
  BY <1>1, <1>4, CellsAre, SMTT(30)
<1>6. PICK s \in Seq(Cell) : /\ s = SubSeq(f, at, at + n) /\ Len(s) = n + 1
                             /\ \A i \in 1 .. n + 1 : s[i] = f[at + i - 1]
  <2>1. ASSUME NEW a \in 1 .. Len(f), NEW b \in a .. Len(f)
        PROVE  /\ SubSeq(f, a, b) \in Seq(Cell) /\ Len(SubSeq(f, a, b)) = b - a + 1
               /\ \A i \in 1 .. b - a + 1 : SubSeq(f, a, b)[i] = f[a + i - 1]
    BY <1>1
  <2>2. PICK b \in at .. Len(f) : b = at + n
    BY <1>1
  <2>3. b - at + 1 = n + 1
    BY <1>1, <2>2
  <2>4. PICK s \in Seq(Cell) : /\ s = SubSeq(f, at, b) /\ Len(s) = b - at + 1
                               /\ \A i \in 1 .. b - at + 1 : s[i] = f[at + i - 1]
    BY <1>1, <2>1
  <2>5. Len(s) = n + 1 /\ \A i \in 1 .. n + 1 : s[i] = f[at + i - 1]
    BY <2>3, <2>4
  <2> QED BY <2>2, <2>4, <2>5
<1>7. ASSUME NEW i \in 1 .. n + 1 PROVE s[i] = q[i]
  <2>1. CASE i = 1
    <3>1. at + i - 1 = at
      BY <1>1, <2>1
    <3> QED BY <1>3, <1>5, <1>6, <2>1, <3>1
  <2>2. CASE i # 1
    <3>1. PICK k \in 1 .. n : i = k + 1
      <4>1. i - 1 \in 1 .. n /\ i = (i - 1) + 1
        BY <1>1, <2>2
      <4> QED BY <4>1
    <3>2. at + i - 1 = at + k
      BY <1>1, <3>1
    <3>3. s[i] = f[at + k]
      BY <1>6, <3>2
    <3> QED BY <1>1, <1>2, <1>5, <3>1, <3>3
  <2> QED BY <2>1, <2>2
<1>8. s = q
  <2>1. PICK l \in Nat : l = n + 1
    BY <1>1
  <2>2. Len(s) = l /\ Len(q) = l /\ \A i \in 1 .. l : s[i] = q[i]
    BY <1>5, <1>6, <1>7, <2>1
  <2>3. DOMAIN s = 1 .. l /\ DOMAIN q = 1 .. l
    BY <2>2
  <2> QED BY <2>2, <2>3
<1> QED BY <1>1, <1>2, <1>4, <1>6, <1>8

LEMMA MemtableHasTheAcked == ASSUME WalInv PROVE Log!AckedAreReplayed
<1> SUFFICES ASSUME handle # "down"
             PROVE  \E at \in [DOMAIN acked -> DOMAIN replayed] :
                       /\ \A i \in DOMAIN acked : replayed[at[i]] = acked[i]
                       /\ \A i, j \in DOMAIN acked : i < j => at[i] < at[j]
  BY DEF Log!AckedAreReplayed
<1>1. /\ replayed \in Seq(Nat) /\ acked \in Seq(Nat) /\ InOrder(replayed) /\ InOrder(acked)
      /\ Log!ToSet(acked) \subseteq Log!ToSet(replayed)
  BY DEF WalInv, LogTyped, MemtableInOrder
<1>2. \A i \in DOMAIN acked : \E m \in DOMAIN replayed : replayed[m] = acked[i]
  <2> SUFFICES ASSUME NEW i \in DOMAIN acked PROVE \E m \in DOMAIN replayed : replayed[m] = acked[i]
    OBVIOUS
  <2>1. acked[i] \in Log!ToSet(replayed)
    BY <1>1 DEF Log!ToSet
  <2> QED BY <2>1 DEF Log!ToSet
<1> DEFINE at == [i \in DOMAIN acked |-> CHOOSE m \in DOMAIN replayed : replayed[m] = acked[i]]
<1>3. /\ at \in [DOMAIN acked -> DOMAIN replayed]
      /\ \A i \in DOMAIN acked : at[i] \in DOMAIN replayed /\ replayed[at[i]] = acked[i]
  BY <1>2
<1> HIDE DEF at
<1>4. ASSUME NEW i \in DOMAIN acked, NEW j \in DOMAIN acked, i < j PROVE at[i] < at[j]
  <2>1. PICK a \in Nat, b \in Nat : a = at[i] /\ b = at[j] /\ a \in DOMAIN replayed /\ b \in DOMAIN replayed
    BY <1>1, <1>3
  <2>2. PICK v \in Nat, w \in Nat : v = acked[i] /\ w = acked[j] /\ v < w
    BY <1>1, <1>4 DEF InOrder
  <2>3. replayed[a] = v /\ replayed[b] = w
    BY <1>3, <2>1, <2>2
  <2>4. ~(b < a)
    <3>1. b < a => w < v
      BY <1>1, <2>1, <2>3 DEF InOrder
    <3> QED BY <2>2, <3>1
  <2>5. a # b
    BY <2>2, <2>3
  <2> QED BY <2>1, <2>4, <2>5
<1> QED BY <1>3, <1>4

LEMMA MemtableIsWhole == ASSUME WalInv PROVE Log!OnlyWholeRecords
<1>1. /\ file \in Seq(Cell) /\ replayed \in Seq(Nat)
      /\ \A i, j \in DOMAIN replayed : i < j => replayed[i] < replayed[j]
  BY DEF WalInv, LogTyped, MemtableInOrder, InOrder
<1>2. ASSUME handle = "open", NEW i \in DOMAIN replayed
      PROVE  \E at \in DOMAIN file, n \in 1 .. MaxBody :
                /\ at + n <= Len(file)
                /\ SubSeq(file, at, at + n) = Log!Cells(replayed[i], n)
  <2>1. PICK c : Sound(file, c, records) /\ Log!ToSet(replayed) \subseteq Told(file, c)
    BY <1>2 DEF WalInv, FileInOrder
  <2>2. replayed[i] \in Told(file, c)
    BY <1>2, <2>1 DEF Log!ToSet
  <2>3. PICK k \in 1 .. Len(c) - 1 : replayed[i] = file[c[k]].id
    BY <2>2 DEF Told
  <2>4. PICK at : at = c[k]
    OBVIOUS
  <2>5. PICK n \in 1 .. MaxBody : n = file[at].len
    BY <2>1, <2>4 DEF Sound
  <2>6. WholeAt(file, at)
    BY <2>1, <2>4 DEF Sound, Full, Chain
  <2>7. at + n <= Len(file) /\ SubSeq(file, at, at + n) = Log!Cells(replayed[i], n)
    <3>1. file \in Seq(Cell) /\ WholeAt(file, at) /\ n = file[at].len
      BY <1>1, <2>5, <2>6
    <3>2. at + n <= Len(file) /\ SubSeq(file, at, at + n) = Log!Cells(file[at].id, n)
      BY <3>1, WholeIsWritten
    <3> QED BY <2>3, <2>4, <3>2
  <2> QED BY <2>6, <2>7 DEF WholeAt
<1> QED BY <1>1, <1>2 DEF Log!OnlyWholeRecords

\* What a restart replays is what was acknowledged and nothing that is not
\* whole, whatever kills, power failures and failed writes came before.
THEOREM TheLogIsReplayedExactly == Log!Spec => []ReplayIsExact
<1>1. WalInv => ReplayIsExact
  BY MemtableHasTheAcked, MemtableIsWhole DEF ReplayIsExact, Log!ReplayIsExact
<1> QED BY <1>1, WalInvHolds, PTL

----------------------------------------------------------------------------
(* Table files.                                                            *)

\* The concatenations of the beginnings of q.
Concats(q, h) ==
    /\ DOMAIN h = 0 .. Len(q) /\ h[0] = <<>>
    /\ \A j \in 1 .. Len(q) : h[j] = h[j - 1] \o q[j]

\* The same of sequences of members of S.
ConcatsOf(S, q, h) ==
    q \in Seq(Seq(S)) /\ Concats(q, h) /\ \A j \in 0 .. Len(q) : h[j] \in Seq(S)

LEMMA ConcatsExist ==
    ASSUME NEW S, NEW q \in Seq(Seq(S))
    PROVE  \E h : ConcatsOf(S, q, h)
<1> DEFINE k == Len(q)
           Good(h, m) == /\ DOMAIN h = 0 .. m /\ h[0] = <<>>
                         /\ \A j \in 1 .. m : h[j] = h[j - 1] \o q[j]
                         /\ \A j \in 0 .. m : h[j] \in Seq(S)
           Bad == {m \in 0 .. k : ~\E h : Good(h, m)}
<1>1. k \in Nat /\ \A j \in 1 .. k : q[j] \in Seq(S)
  OBVIOUS
<1> HIDE DEF k
<1>2. Bad = {}
  <2> SUFFICES ASSUME Bad # {} PROVE FALSE
    OBVIOUS
  <2>1. PICK m \in Bad : \A i \in Bad : m <= i
    <3>1. \A i \in 0 .. k : i \in Nat
      BY <1>1
    <3> HIDE DEF Good
    <3>2. Bad \subseteq Nat
      BY <3>1
    <3> HIDE DEF Bad
    <3> QED BY <3>2, SmallestOf
  <2>2. m \in 0 .. k /\ ~\E h : Good(h, m)
    OBVIOUS
  <2>3. m # 0
    <3> SUFFICES ASSUME m = 0 PROVE FALSE
      OBVIOUS
    <3>1. PICK h : h = [j \in 0 .. 0 |-> <<>>]
      OBVIOUS
    <3>2. <<>> \in Seq(S) /\ 1 .. 0 = {} /\ \A j \in 0 .. 0 : j = 0
      OBVIOUS
    <3>3. Good(h, 0)
      BY <3>1, <3>2
    <3> QED BY <2>2, <3>3
  <2>4. PICK l \in 0 .. k : /\ l + 1 = m /\ ~(m <= l) /\ m \in 1 .. k
                            /\ \A j \in 1 .. m : (j \in 1 .. l \/ j = m) /\ j # 0
                            /\ \A j \in 0 .. m : j \in 0 .. l \/ j = m
                            /\ \A j \in 1 .. l : j \in 0 .. l /\ j - 1 \in 0 .. l /\ j # m /\ j - 1 # m
                            /\ m - 1 = l /\ l \in 0 .. l /\ l # m /\ 0 \in 0 .. l /\ 0 # m
                            /\ \A j \in 0 .. l : j \in 0 .. m /\ j # m
                            /\ m \in 0 .. m
    <3>1. m - 1 \in 0 .. k /\ m \in 1 .. k
      BY <1>1, <2>2, <2>3
    <3> HIDE DEF Bad
    <3>2. PICK l \in 0 .. k : l = m - 1
      BY <3>1
    <3>3. l + 1 = m /\ ~(m <= l) /\ l \in Nat /\ m \in Nat
      BY <1>1, <3>1, <3>2
    <3> QED BY <3>1, <3>3
  <2>5. PICK h : Good(h, l)
    <3>1. l \notin Bad
      <4> HIDE DEF Bad
      <4> QED BY <2>1, <2>4
    <3> HIDE DEF Good
    <3> QED BY <3>1
  <2>6. PICK g : g = [j \in 0 .. m |-> IF j = m THEN h[l] \o q[m] ELSE h[j]]
    OBVIOUS
  <2>7. g[m] = h[l] \o q[m] /\ \A j \in 0 .. l : g[j] = h[j]
    BY <2>4, <2>6
  <2>8. h[l] \o q[m] \in Seq(S)
    BY <1>1, <2>4, <2>5, ConcatProperties
  <2>9. Good(g, m)
    <3>1. DOMAIN g = 0 .. m /\ g[0] = <<>>
      BY <2>4, <2>5, <2>6, <2>7
    <3>2. ASSUME NEW j \in 1 .. m PROVE g[j] = g[j - 1] \o q[j]
      <4>1. CASE j = m
        BY <2>4, <2>7, <4>1
      <4>2. CASE j # m
        BY <2>4, <2>5, <2>7, <4>2
      <4> QED BY <4>1, <4>2
    <3>3. ASSUME NEW j \in 0 .. m PROVE g[j] \in Seq(S)
      BY <2>4, <2>5, <2>7, <2>8
    <3> QED BY <3>1, <3>2, <3>3
  <2> HIDE DEF Good
  <2> QED BY <2>2, <2>9
<1>3. \E h : Good(h, k)
  <2>1. k \in 0 .. k
    BY <1>1
  <2> HIDE DEF Good
  <2> QED BY <1>2, <2>1
<1> QED BY <1>3 DEF Concats, ConcatsOf, k

\* FlattenSeq concatenates.
LEMMA FlattenIs ==
    ASSUME NEW S, NEW q \in Seq(Seq(S)), NEW h, Concats(q, h), NEW j \in 0 .. Len(q)
    PROVE  Table!FlattenSeq(SubSeq(q, 1, j)) = h[j]
<1>1. PICK p \in Seq(Seq(S)) : p = SubSeq(q, 1, j) /\ Len(p) = j /\ \A i \in 1 .. j : p[i] = q[i]
  <2>1. 1 \in Int /\ j \in Int /\ \A p \in 1 .. j : q[p] \in Seq(S)
    OBVIOUS
  <2>2. /\ SubSeq(q, 1, j) \in Seq(Seq(S)) /\ Len(SubSeq(q, 1, j)) = IF 1 <= j THEN j - 1 + 1 ELSE 0
        /\ \A p \in 1 .. j - 1 + 1 : SubSeq(q, 1, j)[p] = q[1 + p - 1]
    BY <2>1, SubSeqProperties
  <2>3. j - 1 + 1 = j /\ (1 <= j \/ j = 0) /\ \A p \in 1 .. j : 1 + p - 1 = p
    OBVIOUS
  <2> QED BY <2>2, <2>3
<1>2. CASE j = 0
  <2>1. p = <<>> /\ Len(p) = 0
    BY <1>1, <1>2
  <2>2. Table!FlattenSeq(p) = p
    BY <2>1 DEF Table!FlattenSeq
  <2> QED BY <1>1, <1>2, <2>1, <2>2 DEF Concats
<1>3. CASE j # 0
  <2> DEFINE Body(g, i) == IF i = 1 THEN p[i] ELSE g[i - 1] \o p[i]
             Solves(g) == g = [i \in 1 .. j |-> Body(g, i)]
             flat == CHOOSE g : Solves(g)
  <2>0. /\ j \in Nat /\ j \in 1 .. j /\ 1 - 1 = 0 /\ 1 \in 1 .. Len(q)
        /\ \A i \in 1 .. j : i # 1 => i - 1 \in 1 .. j
        /\ \A i \in 1 .. j : i \in 1 .. Len(q)
    BY <1>3
  <2>1. h[1] = q[1] /\ \A i \in 1 .. j : i # 1 => h[i] = h[i - 1] \o q[i]
    <3>1. q[1] \in Seq(S) /\ h[0] = <<>> /\ h[1] = h[0] \o q[1]
      <4>1. q[1] \in Seq(S)
        BY <2>0
      <4>2. h[0] = <<>> /\ h[1] = h[1 - 1] \o q[1]
        BY <2>0, Zenon DEF Concats
      <4> QED BY <2>0, <4>1, <4>2
    <3>2. <<>> \o q[1] = q[1]
      BY <3>1, ConcatEmptySeq
    <3> QED BY <2>0, <3>1, <3>2 DEF Concats
  <2>2. \E g : Solves(g)
    <3>1. PICK g : g = [i \in 1 .. j |-> h[i]]
      OBVIOUS
    <3>2. \A i \in 1 .. j : h[i] = Body(g, i)
      BY <1>1, <2>0, <2>1, <3>1
    <3>3. Solves(g)
      <4> HIDE DEF Body
      <4> QED BY <3>1, <3>2
    <3> QED BY <3>3
  <2>3. Solves(flat)
    <3> HIDE DEF Solves
    <3> QED BY <2>2
  <2>4. \A i \in 1 .. j : flat[i] = Body(flat, i)
    <3> HIDE DEF flat, Body
    <3> QED BY <2>3
  <2>5. Table!FlattenSeq(p) = flat[j]
    <3>1. Len(p) = j /\ j # 0
      BY <1>1, <1>3
    <3> QED BY <3>1 DEF Table!FlattenSeq
  <2> HIDE DEF flat
  <2> DEFINE Bad == {i \in 1 .. j : flat[i] # h[i]}
  <2>6. Bad = {}
    <3> SUFFICES ASSUME Bad # {} PROVE FALSE
      OBVIOUS
    <3>1. PICK m \in Bad : \A i \in Bad : m <= i
      <4>1. Bad \subseteq Nat
        OBVIOUS
      <4> HIDE DEF Bad
      <4> QED BY <4>1, SmallestOf
    <3>2. m \in 1 .. j /\ flat[m] # h[m]
      OBVIOUS
    <3>3. flat[m] = Body(flat, m)
      BY <2>4, <3>2
    <3>4. m # 1
      BY <1>1, <2>1, <3>2, <3>3
    <3>5. m - 1 \in 1 .. j /\ ~(m <= m - 1)
      BY <2>0, <3>2, <3>4
    <3>6. flat[m - 1] = h[m - 1]
      <4>1. m - 1 \notin Bad
        <5> HIDE DEF Bad
        <5> QED BY <3>1, <3>5
      <4> QED BY <3>5, <4>1
    <3> QED BY <1>1, <2>1, <3>2, <3>3, <3>4, <3>6
  <2>7. flat[j] = h[j]
    BY <2>0, <2>6
  <2> QED BY <1>1, <2>5, <2>7
<1> QED BY <1>2, <1>3

LEMMA ConcatsGrow ==
    ASSUME NEW S, NEW q, NEW h, ConcatsOf(S, q, h), NEW i \in 0 .. Len(q), NEW j \in i .. Len(q)
    PROVE  Len(h[i]) <= Len(h[j]) /\ \A v \in 1 .. Len(h[i]) : h[j][v] = h[i][v]
<1> DEFINE k == Len(q)
           a == h[i]
           Has(m) == Len(a) <= Len(h[m]) /\ \A v \in 1 .. Len(a) : h[m][v] = a[v]
           Bad == {m \in i .. k : ~Has(m)}
<1>1. /\ k \in Nat /\ i \in Nat /\ i \in i .. k /\ a \in Seq(S) /\ Len(a) \in Nat /\ j \in i .. k
      /\ \A m \in i .. k : m \in 0 .. k
  BY DEF ConcatsOf
<1>2. Has(i)
  BY <1>1
<1>3. \A m \in 1 .. k : h[m] = h[m - 1] \o q[m] /\ q[m] \in Seq(S)
  <2>1. \A m \in 1 .. k : q[m] \in Seq(S)
    BY DEF ConcatsOf
  <2>2. \A m \in 1 .. k : h[m] = h[m - 1] \o q[m]
    BY Zenon DEF Concats, ConcatsOf
  <2> QED BY <2>1, <2>2
<1>4. \A m \in 0 .. k : h[m] \in Seq(S) /\ Len(h[m]) \in Nat
  BY DEF ConcatsOf
<1> HIDE DEF k, a
<1>5. Bad = {}
  <2> SUFFICES ASSUME Bad # {} PROVE FALSE
    OBVIOUS
  <2>1. PICK m \in Bad : \A n \in Bad : m <= n
    <3>1. \A n \in i .. k : n \in Nat
      BY <1>1
    <3> HIDE DEF Has
    <3>2. Bad \subseteq Nat
      BY <3>1
    <3> HIDE DEF Bad
    <3> QED BY <3>2, SmallestOf
  <2>2. m \in i .. k /\ ~Has(m)
    OBVIOUS
  <2>3. m # i
    <3> HIDE DEF Has
    <3> QED BY <1>2, <2>2
  <2>4. m - 1 \in i .. k /\ ~(m <= m - 1) /\ m \in 1 .. k /\ m - 1 \in 0 .. k
    BY <1>1, <2>2, <2>3
  <2>5. Has(m - 1)
    <3>1. m - 1 \notin Bad
      <4> HIDE DEF Bad
      <4> QED BY <2>1, <2>4
    <3> HIDE DEF Has
    <3> QED BY <2>4, <3>1
  <2>6. PICK b \in Seq(S) : b = h[m - 1]
    BY <1>4, <2>4
  <2>7. PICK c \in Seq(S) : c = q[m]
    BY <1>3, <2>4
  <2>8. h[m] = b \o c
    BY <1>3, <2>4, <2>6, <2>7
  <2>9. /\ Len(b \o c) = Len(b) + Len(c)
        /\ \A v \in 1 .. Len(b) + Len(c) : (b \o c)[v] = IF v <= Len(b) THEN b[v] ELSE c[v - Len(b)]
    BY ConcatProperties
  <2>10. Len(a) <= Len(b) /\ \A v \in 1 .. Len(a) : b[v] = a[v]
    BY <2>5, <2>6
  <2>11. Len(b) \in Nat /\ Len(c) \in Nat
    OBVIOUS
  <2>12. Len(a) <= Len(b \o c)
    BY <1>1, <2>9, <2>10, <2>11
  <2>13. \A v \in 1 .. Len(a) : v <= Len(b) /\ v \in 1 .. Len(b) + Len(c)
    BY <1>1, <2>10, <2>11
  <2>14. \A v \in 1 .. Len(a) : (b \o c)[v] = a[v]
    BY <2>9, <2>10, <2>13
  <2> QED BY <2>2, <2>8, <2>12, <2>14
<1>6. Has(j)
  <2> HIDE DEF Has
  <2> QED BY <1>1, <1>5
<1> QED BY <1>6 DEF a

\* Where the j-th piece of q is in the whole.
PieceAt(q, h, j) ==
    \E x, y \in Nat : /\ x = Len(h[j - 1]) /\ y = Len(q[j]) /\ Len(h[j]) = x + y
                      /\ \A v \in 1 .. y : h[Len(q)][x + v] = q[j][v]

LEMMA PieceIs ==
    ASSUME NEW S, NEW q, NEW h, ConcatsOf(S, q, h), NEW j \in 1 .. Len(q)
    PROVE  PieceAt(q, h, j)
<1>1. PICK k \in Nat : k = Len(q)
  BY DEF ConcatsOf
<1>2. j \in 0 .. k /\ j - 1 \in 0 .. k /\ k \in j .. k /\ j \in 1 .. k
  BY <1>1
<1>3. PICK b \in Seq(S) : b = h[j - 1]
  BY <1>1, <1>2 DEF ConcatsOf
<1>4. PICK c \in Seq(S) : c = q[j]
  BY <1>1, <1>2 DEF ConcatsOf
<1>5. h[j] = b \o c
  BY <1>1, <1>2, <1>3, <1>4 DEF Concats, ConcatsOf
<1>6. /\ Len(b \o c) = Len(b) + Len(c)
      /\ \A v \in 1 .. Len(b) + Len(c) : (b \o c)[v] = IF v <= Len(b) THEN b[v] ELSE c[v - Len(b)]
  BY ConcatProperties
<1>7. Len(h[j]) <= Len(h[k]) /\ \A v \in 1 .. Len(h[j]) : h[k][v] = h[j][v]
  <2>1. j \in 0 .. Len(q) /\ Len(q) \in j .. Len(q)
    BY <1>1, <1>2
  <2>2. Len(h[j]) <= Len(h[Len(q)]) /\ \A v \in 1 .. Len(h[j]) : h[Len(q)][v] = h[j][v]
    BY <2>1, ConcatsGrow
  <2> QED BY <1>1, <2>1, <2>2
<1>8. ASSUME NEW v \in 1 .. Len(c) PROVE h[k][Len(b) + v] = c[v]
  <2>1. PICK x \in Nat, y \in Nat : x = Len(b) /\ y = Len(c)
    OBVIOUS
  <2>2. \A w \in 1 .. y : x + w \in 1 .. x + y /\ ~(x + w <= x) /\ (x + w) - x = w
    BY <2>1
  <2>3. (b \o c)[x + v] = c[v]
    BY <1>6, <2>1, <2>2
  <2>4. x + v \in 1 .. Len(h[j])
    BY <1>5, <1>6, <2>1, <2>2
  <2> QED BY <1>5, <1>7, <2>1, <2>3, <2>4
<1>9. PICK x, y \in Nat : x = Len(b) /\ y = Len(c)
  OBVIOUS
<1>10. x = Len(h[j - 1]) /\ y = Len(q[j]) /\ Len(h[j]) = x + y
  BY <1>3, <1>4, <1>5, <1>6, <1>9
<1>11. \A v \in 1 .. y : h[Len(q)][x + v] = q[j][v]
  BY <1>1, <1>4, <1>8, <1>9
<1> QED BY <1>10, <1>11 DEF PieceAt

DataCell ==
    [is : {"record"}, tomb : BOOLEAN, klen : Nat, vlen : Nat]
      \cup [is : {"key"}, of : Nat] \cup [is : {"value"}, of : Nat]

\* The length of the value, as it is written.
ValueLen(r) == IF r.deleted THEN 0 ELSE r.len

LEMMA RecordIs ==
    ASSUME NEW r \in Table!Record
    PROVE  /\ r.key \in Nat /\ r.deleted \in BOOLEAN /\ r.len \in Nat
           /\ ValueLen(r) \in Nat /\ Table!KeyLen(r.key) \in Nat /\ Table!KeyLen(r.key) >= 1
           /\ r = [key |-> r.key, len |-> r.len, deleted |-> r.deleted]
<1>1. /\ MaxKey \in Nat /\ MaxValue \in Nat
  BY StorageAssumption DEF Table!TableFileAssumption
<1>2. r.key \in Nat /\ r.deleted \in BOOLEAN /\ r.len \in Nat
      /\ r = [key |-> r.key, len |-> r.len, deleted |-> r.deleted]
  BY <1>1 DEF Table!Record, Table!Key
<1>3. ASSUME NEW k \in Nat PROVE Table!KeyLen(k) \in Nat /\ Table!KeyLen(k) >= 1
  <2>1. k % 2 \in 0 .. 1
    OBVIOUS
  <2> QED BY <2>1 DEF Table!KeyLen
<1> QED BY <1>2, <1>3 DEF ValueLen

\* e is a of length A, and then b of length B.
Appended(S, e, a, A, b, B) ==
    /\ e \in Seq(S) /\ Len(e) = A + B
    /\ \A i \in 1 .. A : e[i] = a[i]
    /\ \A i \in 1 .. B : e[A + i] = b[i]

LEMMA AppendedIs ==
    ASSUME NEW S, NEW a \in Seq(S), NEW b \in Seq(S), NEW A \in Nat, A = Len(a),
           NEW B \in Nat, B = Len(b)
    PROVE  Appended(S, a \o b, a, A, b, B)
<1>1. /\ a \o b \in Seq(S) /\ Len(a \o b) = A + B
      /\ \A i \in 1 .. A + B : (a \o b)[i] = IF i <= A THEN a[i] ELSE b[i - A]
  BY ConcatProperties
<1>2. \A i \in 1 .. A : i \in 1 .. A + B /\ i <= A
  OBVIOUS
<1>3. \A i \in 1 .. B : A + i \in 1 .. A + B /\ ~(A + i <= A) /\ (A + i) - A = i
  OBVIOUS
<1>4. \A i \in 1 .. A : (a \o b)[i] = a[i]
  BY <1>1, <1>2
<1>5. \A i \in 1 .. B : (a \o b)[A + i] = b[i]
  BY <1>1, <1>3
<1> QED BY <1>1, <1>4, <1>5 DEF Appended

LEMMA RecordCellsAre ==
    ASSUME NEW r \in Table!Record, NEW K \in Nat, K = Table!KeyLen(r.key),
           NEW V \in Nat, V = ValueLen(r)
    PROVE  /\ Table!RecordCells(r) \in Seq(DataCell) /\ Len(Table!RecordCells(r)) = 1 + K + V
           /\ Table!RecordCells(r)[1] = [is |-> "record", tomb |-> r.deleted, klen |-> K, vlen |-> V]
           /\ \A i \in 1 .. K : Table!RecordCells(r)[1 + i] = [is |-> "key", of |-> r.key]
           /\ \A i \in 1 .. V : Table!RecordCells(r)[1 + K + i] = [is |-> "value", of |-> r.key]
<1>1. /\ r.key \in Nat /\ r.deleted \in BOOLEAN
  BY RecordIs
<1>2. PICK a \in Seq(DataCell) : /\ a = <<[is |-> "record", tomb |-> r.deleted, klen |-> K, vlen |-> V]>>
                                 /\ Len(a) = 1
                                 /\ a[1] = [is |-> "record", tomb |-> r.deleted, klen |-> K, vlen |-> V]
  <2>1. PICK x \in DataCell : x = [is |-> "record", tomb |-> r.deleted, klen |-> K, vlen |-> V]
    BY <1>1 DEF DataCell
  <2>2. <<x>> \in Seq(DataCell) /\ Len(<<x>>) = 1 /\ <<x>>[1] = x
    OBVIOUS
  <2> QED BY <2>1, <2>2
<1>3. ASSUME NEW n \in Nat, NEW x \in DataCell
      PROVE  \E b \in Seq(DataCell) : /\ b = [i \in 1 .. n |-> x] /\ Len(b) = n
                                       /\ \A i \in 1 .. n : b[i] = x
  <2>1. PICK b : b = [i \in 1 .. n |-> x]
    OBVIOUS
  <2>2. b \in Seq(DataCell) /\ Len(b) = n /\ \A i \in 1 .. n : b[i] = x
    BY <2>1
  <2> QED BY <2>1, <2>2
<1>4. PICK b \in Seq(DataCell) : /\ b = [i \in 1 .. K |-> [is |-> "key", of |-> r.key]] /\ Len(b) = K
                                 /\ \A i \in 1 .. K : b[i] = [is |-> "key", of |-> r.key]
  <2>1. PICK x \in DataCell : x = [is |-> "key", of |-> r.key]
    BY <1>1 DEF DataCell
  <2>2. \E b \in Seq(DataCell) : b = [i \in 1 .. K |-> x] /\ Len(b) = K /\ \A i \in 1 .. K : b[i] = x
    BY <1>3
  <2> QED BY <2>1, <2>2
<1>5. PICK c \in Seq(DataCell) : /\ c = [i \in 1 .. V |-> [is |-> "value", of |-> r.key]] /\ Len(c) = V
                                 /\ \A i \in 1 .. V : c[i] = [is |-> "value", of |-> r.key]
  <2>1. PICK x \in DataCell : x = [is |-> "value", of |-> r.key]
    BY <1>1 DEF DataCell
  <2>2. \E e \in Seq(DataCell) : e = [i \in 1 .. V |-> x] /\ Len(e) = V /\ \A i \in 1 .. V : e[i] = x
    BY <1>3
  <2> QED BY <2>1, <2>2
<1>6. Table!RecordCells(r) = (a \o b) \o c
  BY <1>2, <1>4, <1>5 DEF Table!RecordCells, ValueLen
<1>7. PICK d : d = a \o b
  OBVIOUS
<1>8. /\ d \in Seq(DataCell) /\ 1 + K = Len(d) /\ d[1] = a[1]
      /\ \A i \in 1 .. K : d[1 + i] = b[i]
  <2>1. 1 \in Nat /\ 1 \in 1 .. 1
    OBVIOUS
  <2>2. /\ a \o b \in Seq(DataCell) /\ Len(a \o b) = 1 + K
        /\ \A i \in 1 .. 1 : (a \o b)[i] = a[i]
        /\ \A i \in 1 .. K : (a \o b)[1 + i] = b[i]
    <3>1. Appended(DataCell, a \o b, a, 1, b, K)
      BY <1>2, <1>4, <2>1, AppendedIs
    <3> QED BY <3>1 DEF Appended
  <2> QED BY <1>7, <2>1, <2>2
<1>9. PICK e : e = d \o c
  OBVIOUS
<1>10. /\ e \in Seq(DataCell) /\ Len(e) = (1 + K) + V
       /\ \A i \in 1 .. 1 + K : e[i] = d[i]
       /\ \A i \in 1 .. V : e[(1 + K) + i] = c[i]
  <2>1. PICK N \in Nat : N = 1 + K
    OBVIOUS
  <2>2. /\ d \o c \in Seq(DataCell) /\ Len(d \o c) = N + V
        /\ \A i \in 1 .. N : (d \o c)[i] = d[i]
        /\ \A i \in 1 .. V : (d \o c)[N + i] = c[i]
    <3>1. N = Len(d) /\ V = Len(c) /\ d \in Seq(DataCell) /\ c \in Seq(DataCell)
      BY <1>5, <1>8, <2>1
    <3>2. Appended(DataCell, d \o c, d, N, c, V)
      BY <3>1, AppendedIs
    <3> QED BY <3>2 DEF Appended
  <2> QED BY <1>9, <2>1, <2>2
<1>12. 1 \in 1 .. 1 + K /\ \A i \in 1 .. K : 1 + i \in 1 .. 1 + K
  OBVIOUS
<1>11. Table!RecordCells(r) = e
  BY <1>6, <1>7, <1>9
<1>13. e[1] = a[1] /\ \A i \in 1 .. K : e[1 + i] = b[i]
  BY <1>8, <1>10, <1>12
<1>14. e[1] = [is |-> "record", tomb |-> r.deleted, klen |-> K, vlen |-> V]
  BY <1>2, <1>13
<1>15. \A i \in 1 .. K : e[1 + i] = [is |-> "key", of |-> r.key]
  BY <1>4, <1>13
<1>16. \A i \in 1 .. V : e[1 + K + i] = [is |-> "value", of |-> r.key]
  BY <1>5, <1>10
<1> QED BY <1>10, <1>11, <1>14, <1>15, <1>16

\* The records of the data section.
Pieces == [i \in DOMAIN recs |-> Table!RecordCells(recs[i])]

LEMMA PiecesAre ==
    ASSUME recs \in Seq(Table!Record), NEW n \in Nat, n = Len(recs)
    PROVE  /\ Pieces \in Seq(Seq(DataCell)) /\ Len(Pieces) = n
           /\ \A i \in 1 .. n : Pieces[i] = Table!RecordCells(recs[i]) /\ recs[i] \in Table!Record
<1>1. DOMAIN recs = 1 .. n /\ \A i \in 1 .. n : recs[i] \in Table!Record
  OBVIOUS
<1>2. ASSUME NEW i \in 1 .. n PROVE Table!RecordCells(recs[i]) \in Seq(DataCell)
  <2>1. PICK r \in Table!Record : r = recs[i]
    BY <1>1
  <2>2. PICK K \in Nat, V \in Nat : K = Table!KeyLen(r.key) /\ V = ValueLen(r)
    BY RecordIs
  <2> QED BY <2>1, <2>2, RecordCellsAre
<1>3. Pieces = [i \in 1 .. n |-> Table!RecordCells(recs[i])]
  BY <1>1 DEF Pieces
<1>4. \A i \in 1 .. n : Pieces[i] = Table!RecordCells(recs[i])
  BY <1>3
<1>5. Pieces \in [1 .. n -> Seq(DataCell)]
  BY <1>2, <1>3
<1>6. Pieces \in Seq(Seq(DataCell)) /\ Len(Pieces) = n
  BY <1>5
<1> QED BY <1>1, <1>4, <1>6

LEMMA DataCellsAre ==
    ASSUME recs \in Seq(Table!Record), NEW n \in Nat, n = Len(recs),
           NEW h, ConcatsOf(DataCell, Pieces, h), NEW j \in 0 .. n
    PROVE  Table!DataCells(SubSeq(recs, 1, j)) = h[j]
<1>1. /\ Pieces \in Seq(Seq(DataCell)) /\ Len(Pieces) = n
      /\ \A i \in 1 .. n : Pieces[i] = Table!RecordCells(recs[i]) /\ recs[i] \in Table!Record
  BY PiecesAre
<1>2. ASSUME NEW S, NEW q \in Seq(S), Len(q) = n
      PROVE  /\ SubSeq(q, 1, j) \in Seq(S) /\ Len(SubSeq(q, 1, j)) = j
             /\ \A i \in 1 .. j : SubSeq(q, 1, j)[i] = q[i]
  <2>0. \A p \in 1 .. j : p \in 1 .. Len(q)
    BY <1>2
  <2>1. 1 \in Int /\ j \in Int /\ \A p \in 1 .. j : q[p] \in S
    BY <2>0
  <2>2. /\ SubSeq(q, 1, j) \in Seq(S) /\ Len(SubSeq(q, 1, j)) = IF 1 <= j THEN j - 1 + 1 ELSE 0
        /\ \A p \in 1 .. j - 1 + 1 : SubSeq(q, 1, j)[p] = q[1 + p - 1]
    BY <2>1, SubSeqProperties
  <2>3. j - 1 + 1 = j /\ (1 <= j \/ j = 0) /\ \A p \in 1 .. j : 1 + p - 1 = p
    OBVIOUS
  <2> QED BY <2>2, <2>3
<1>3. PICK s \in Seq(Table!Record) : s = SubSeq(recs, 1, j) /\ Len(s) = j /\ \A i \in 1 .. j : s[i] = recs[i]
  BY <1>2
<1>4. PICK p \in Seq(Seq(DataCell)) : p = SubSeq(Pieces, 1, j) /\ Len(p) = j /\ \A i \in 1 .. j : p[i] = Pieces[i]
  BY <1>1, <1>2
<1>5. DOMAIN s = 1 .. j /\ DOMAIN p = 1 .. j /\ \A i \in 1 .. j : i \in 1 .. n
  BY <1>3, <1>4
<1>6. [i \in DOMAIN s |-> Table!RecordCells(s[i])] = p
  <2>1. \A i \in 1 .. j : Table!RecordCells(s[i]) = p[i]
    BY <1>1, <1>3, <1>4, <1>5
  <2>2. p = [i \in 1 .. j |-> p[i]]
    BY <1>5
  <2> QED BY <1>5, <2>1, <2>2
<1>7. Table!FlattenSeq(p) = h[j]
  <2>1. Pieces \in Seq(Seq(DataCell)) /\ Concats(Pieces, h) /\ j \in 0 .. Len(Pieces)
    BY <1>1 DEF ConcatsOf
  <2> QED BY <1>4, <2>1, FlattenIs
<1> QED BY <1>3, <1>6, <1>7 DEF Table!DataCells

\* The cells of record r from place o of the data section D.
HoldsRecord(D, o, r, K, V) ==
    /\ D[o] = [is |-> "record", tomb |-> r.deleted, klen |-> K, vlen |-> V]
    /\ \A v \in 1 .. K : D[o + v] = [is |-> "key", of |-> r.key]
    /\ \A v \in 1 .. V : D[o + K + v] = [is |-> "value", of |-> r.key]

\* The data section, and where each record is in it.
LEMMA DataSectionIs ==
    ASSUME recs \in Seq(Table!Record), NEW n \in Nat, n = Len(recs)
    PROVE  \E L \in Nat, D \in Seq(DataCell) :
              /\ Len(D) = L /\ D = Table!DataCells(recs)
              /\ Table!Offset(1) = 1 /\ Table!Offset(n + 1) = L + 1
              /\ \A i \in 1 .. n + 1 : Table!Offset(i) \in Nat /\ 1 <= Table!Offset(i) /\ Table!Offset(i) <= L + 1
              /\ \A i \in 1 .. n : \E K, V \in Nat :
                    /\ K = Table!KeyLen(recs[i].key) /\ 1 <= K /\ V = ValueLen(recs[i])
                    /\ Table!Offset(i + 1) = Table!Offset(i) + 1 + K + V
                    /\ HoldsRecord(D, Table!Offset(i), recs[i], K, V)
<1>1. /\ Pieces \in Seq(Seq(DataCell)) /\ Len(Pieces) = n
      /\ \A i \in 1 .. n : Pieces[i] = Table!RecordCells(recs[i]) /\ recs[i] \in Table!Record
  BY PiecesAre
<1>2. PICK h : ConcatsOf(DataCell, Pieces, h)
  BY <1>1, ConcatsExist
<1>3. \A j \in 0 .. n : Table!DataCells(SubSeq(recs, 1, j)) = h[j]
  BY <1>2, DataCellsAre
<1>4. \A j \in 0 .. n : h[j] \in Seq(DataCell) /\ Len(h[j]) \in Nat
  BY <1>1, <1>2 DEF ConcatsOf
<1>5. h[0] = <<>> /\ Len(h[0]) = 0
  <2>1. h[0] = <<>>
    BY <1>2, Zenon DEF ConcatsOf, Concats
  <2> QED BY <2>1
<1>6. \A i \in 1 .. n + 1 : Table!Offset(i) = 1 + Len(h[i - 1])
  <2>1. \A i \in 1 .. n + 1 : i - 1 \in 0 .. n
    OBVIOUS
  <2> QED BY <1>3, <2>1 DEF Table!Offset, Table!FirstOffset
<1>7. PICK D \in Seq(DataCell), L \in Nat : D = h[n] /\ L = Len(D)
  <2>1. n \in 0 .. n
    OBVIOUS
  <2> QED BY <1>4, <2>1
<1>8. D = Table!DataCells(recs)
  <2>1. SubSeq(recs, 1, n) = recs
    OBVIOUS
  <2>2. n \in 0 .. n
    OBVIOUS
  <2> QED BY <1>3, <1>7, <2>1, <2>2
<1>9. Table!Offset(1) = 1 /\ Table!Offset(n + 1) = L + 1
  <2>1. 1 \in 1 .. n + 1 /\ 1 - 1 = 0 /\ n + 1 \in 1 .. n + 1 /\ (n + 1) - 1 = n
    OBVIOUS
  <2>2. Table!Offset(1) = 1 + Len(h[0]) /\ Table!Offset(n + 1) = 1 + Len(h[n])
    BY <1>6, <2>1
  <2> QED BY <1>5, <1>7, <2>2
<1>10. ASSUME NEW i \in 1 .. n + 1
       PROVE  Table!Offset(i) \in Nat /\ 1 <= Table!Offset(i) /\ Table!Offset(i) <= L + 1
  <2>1. i - 1 \in 0 .. Len(Pieces) /\ Len(Pieces) \in i - 1 .. Len(Pieces) /\ i - 1 \in 0 .. n
    BY <1>1
  <2>2. Len(h[i - 1]) <= Len(h[Len(Pieces)])
    BY <1>2, <2>1, ConcatsGrow
  <2>3. PICK x \in Nat : x = Len(h[i - 1]) /\ x <= L
    BY <1>1, <1>4, <1>7, <2>1, <2>2
  <2> QED BY <1>6, <2>3
<1>11. ASSUME NEW i \in 1 .. n
       PROVE  \E K, V \in Nat :
                 /\ K = Table!KeyLen(recs[i].key) /\ 1 <= K /\ V = ValueLen(recs[i])
                 /\ Table!Offset(i + 1) = Table!Offset(i) + 1 + K + V
                 /\ HoldsRecord(D, Table!Offset(i), recs[i], K, V)
  <2>1. PICK r \in Table!Record : r = recs[i]
    BY <1>1
  <2>2. PICK K \in Nat, V \in Nat : K = Table!KeyLen(r.key) /\ V = ValueLen(r) /\ 1 <= K
    BY RecordIs
  <2>3. PICK c : c = Table!RecordCells(r)
    OBVIOUS
  <2>4. /\ c \in Seq(DataCell) /\ Len(c) = 1 + K + V
        /\ c[1] = [is |-> "record", tomb |-> r.deleted, klen |-> K, vlen |-> V]
        /\ \A v \in 1 .. K : c[1 + v] = [is |-> "key", of |-> r.key]
        /\ \A v \in 1 .. V : c[1 + K + v] = [is |-> "value", of |-> r.key]
    <3>1. /\ Table!RecordCells(r) \in Seq(DataCell) /\ Len(Table!RecordCells(r)) = 1 + K + V
          /\ Table!RecordCells(r)[1] = [is |-> "record", tomb |-> r.deleted, klen |-> K, vlen |-> V]
          /\ \A v \in 1 .. K : Table!RecordCells(r)[1 + v] = [is |-> "key", of |-> r.key]
          /\ \A v \in 1 .. V : Table!RecordCells(r)[1 + K + v] = [is |-> "value", of |-> r.key]
      BY <2>2, RecordCellsAre
    <3> QED BY <2>3, <3>1
  <2>5. i \in 1 .. Len(Pieces) /\ Pieces[i] = c
    BY <1>1, <2>1, <2>3
  <2>6. PICK x, y \in Nat :
           /\ x = Len(h[i - 1]) /\ y = Len(Pieces[i]) /\ Len(h[i]) = x + y
           /\ \A v \in 1 .. y : h[Len(Pieces)][x + v] = Pieces[i][v]
    <3>1. PieceAt(Pieces, h, i)
      BY <1>2, <2>5, PieceIs
    <3> QED BY <3>1 DEF PieceAt
  <2>7. i - 1 \in 0 .. n /\ i \in 0 .. n /\ i \in 1 .. n + 1 /\ i + 1 \in 1 .. n + 1 /\ (i + 1) - 1 = i
    OBVIOUS
  <2>8. y = 1 + K + V
    BY <2>4, <2>5, <2>6
  <2>9. Table!Offset(i) = 1 + x /\ Table!Offset(i + 1) = 1 + (x + (1 + K + V))
    BY <1>6, <2>6, <2>7, <2>8
  <2>10. \A v \in 1 .. 1 + K + V : D[x + v] = c[v]
    BY <1>1, <1>7, <2>5, <2>6, <2>8
  <2>11. PICK o \in Nat : o = Table!Offset(i) /\ o = 1 + x
    BY <2>9
  <2>12. /\ 1 \in 1 .. 1 + K + V /\ o = x + 1
         /\ \A v \in 1 .. K : 1 + v \in 1 .. 1 + K + V /\ o + v = x + (1 + v)
         /\ \A v \in 1 .. V : 1 + K + v \in 1 .. 1 + K + V /\ o + K + v = x + (1 + K + v)
    BY <2>11
  <2>13. /\ D[o] = c[1] /\ \A v \in 1 .. K : D[o + v] = c[1 + v]
         /\ \A v \in 1 .. V : D[o + K + v] = c[1 + K + v]
    BY <2>10, <2>12
  <2>14. HoldsRecord(D, o, r, K, V)
    BY <2>4, <2>13 DEF HoldsRecord
  <2>15. Table!Offset(i + 1) = o + 1 + K + V
    BY <2>9, <2>11
  <2> QED BY <2>1, <2>2, <2>11, <2>14, <2>15
<1> QED BY <1>7, <1>8, <1>9, <1>10, <1>11

IndexCell(i) == [is |-> "index", key |-> recs[i].key, offset |-> Table!Offset(i)]

\* f is the file of n records with the data section D of length L.
IsFile(f, n, L, D) ==
    /\ \E S : f \in Seq(S)
    /\ Len(f) = L + n + 3
    /\ f[1] = Table!HeaderCell(n)
    /\ \A p \in 1 .. L : f[1 + p] = D[p]
    /\ f[L + 2] = Table!BloomCell(recs)
    /\ \A i \in 1 .. n : f[L + 2 + i] = IndexCell(i)
    /\ f[L + n + 3] = [is |-> "footer", index |-> L + 2, bloom |-> L + 1]

LEMMA WrittenIs ==
    ASSUME recs \in Seq(Table!Record), NEW n \in Nat, n = Len(recs),
           NEW L \in Nat, NEW D \in Seq(DataCell), L = Len(D), D = Table!DataCells(recs),
           Table!Offset(n + 1) = L + 1
    PROVE  IsFile(Table!writeSSTable, n, L, D)
<1>1. PICK head, bloom, foot : /\ head = Table!HeaderCell(n) /\ bloom = Table!BloomCell(recs)
                               /\ foot = [is |-> "footer", index |-> L + 2, bloom |-> L + 1]
  OBVIOUS
<1>2. PICK S : /\ head \in S /\ bloom \in S /\ foot \in S /\ DataCell \subseteq S
               /\ \A i \in 1 .. n : IndexCell(i) \in S
  <2>1. PICK S : S = DataCell \cup {head, bloom, foot} \cup {IndexCell(i) : i \in 1 .. n}
    OBVIOUS
  <2>2. DataCell \subseteq S /\ \A i \in 1 .. n : IndexCell(i) \in S
    BY <2>1, Zenon
  <2>3. head \in S /\ bloom \in S /\ foot \in S
    BY <2>1, Zenon
  <2> QED BY <2>2, <2>3
<1>3. PICK x : x = [i \in 1 .. n |-> IndexCell(i)]
  OBVIOUS
<1>4. x \in Seq(S) /\ n = Len(x) /\ \A i \in 1 .. n : x[i] = IndexCell(i)
  BY <1>2, <1>3
<1>5. x = Table!IndexCells
  <2>1. DOMAIN recs = 1 .. n
    OBVIOUS
  <2> QED BY <1>3, <2>1 DEF Table!IndexCells, IndexCell
<1>6. D \in Seq(S)
  <2>1. \A i \in 1 .. L : D[i] \in S
    BY <1>2
  <2>2. PICK g : g = [i \in 1 .. L |-> D[i]]
    OBVIOUS
  <2>3. g = D
    BY <2>2
  <2>4. g \in [1 .. L -> S]
    BY <2>1, <2>2
  <2> QED BY <2>3, <2>4
<1>7. ASSUME NEW e \in S PROVE <<e>> \in Seq(S) /\ 1 = Len(<<e>>) /\ <<e>>[1] = e
  OBVIOUS
<1>8. PICK a, b, c : a = <<head>> /\ b = <<bloom>> /\ c = <<foot>>
  OBVIOUS
<1>9. /\ a \in Seq(S) /\ 1 = Len(a) /\ a[1] = head
      /\ b \in Seq(S) /\ 1 = Len(b) /\ b[1] = bloom
      /\ c \in Seq(S) /\ 1 = Len(c) /\ c[1] = foot
  BY <1>2, <1>7, <1>8
<1>10. Table!writeSSTable = (((a \o D) \o b) \o x) \o c
  <2>1. Table!Offset(Len(recs) + 1) = L + 1 /\ (L + 1) + 1 = L + 2
    OBVIOUS
  <2>2. Table!writeSSTable = (((<<Table!HeaderCell(Len(recs))>> \o Table!DataCells(recs)) \o <<Table!BloomCell(recs)>>)
           \o Table!IndexCells) \o <<[is |-> "footer", index |-> Table!Offset(Len(recs) + 1) + 1,
                                      bloom |-> Table!Offset(Len(recs) + 1)]>>
    BY DEF Table!writeSSTable
  <2> QED BY <1>1, <1>5, <1>8, <2>1, <2>2
<1>11. PICK l1 \in Nat, l2 \in Nat, l3 \in Nat : l1 = L + 1 /\ l2 = L + 2 /\ l3 = L + n + 2
  OBVIOUS
<1>12. PICK f1 : f1 = a \o D
  OBVIOUS
<1>13. f1 \in Seq(S) /\ l1 = Len(f1) /\ f1[1] = head /\ \A p \in 1 .. L : f1[1 + p] = D[p]
  <2>1. 1 \in Nat /\ 1 \in 1 .. 1
    OBVIOUS
  <2>2. /\ a \o D \in Seq(S) /\ Len(a \o D) = 1 + L /\ \A i \in 1 .. 1 : (a \o D)[i] = a[i]
        /\ \A i \in 1 .. L : (a \o D)[1 + i] = D[i]
    <3>1. a \in Seq(S) /\ D \in Seq(S) /\ 1 \in Nat /\ L \in Nat /\ 1 = Len(a) /\ L = Len(D)
      BY <1>6, <1>9, <2>1
    <3>2. Appended(S, a \o D, a, 1, D, L)
      BY <3>1, AppendedIs
    <3> QED BY <3>2 DEF Appended
  <2> QED BY <1>9, <1>11, <1>12, <2>1, <2>2
<1>14. PICK f2 : f2 = f1 \o b
  OBVIOUS
<1>15. f2 \in Seq(S) /\ l2 = Len(f2) /\ (\A i \in 1 .. l1 : f2[i] = f1[i]) /\ f2[L + 2] = bloom
  <2>1. 1 \in Nat /\ 1 \in 1 .. 1 /\ l1 + 1 = l2 /\ l1 + 1 = L + 2
    BY <1>11
  <2>2. /\ f1 \o b \in Seq(S) /\ Len(f1 \o b) = l1 + 1 /\ \A i \in 1 .. l1 : (f1 \o b)[i] = f1[i]
        /\ \A i \in 1 .. 1 : (f1 \o b)[l1 + i] = b[i]
    <3>1. f1 \in Seq(S) /\ b \in Seq(S) /\ l1 \in Nat /\ 1 \in Nat /\ l1 = Len(f1) /\ 1 = Len(b)
      BY <1>9, <1>13, <2>1
    <3>2. Appended(S, f1 \o b, f1, l1, b, 1)
      BY <3>1, AppendedIs
    <3> QED BY <3>2 DEF Appended
  <2> QED BY <1>9, <1>14, <2>1, <2>2
<1>16. PICK f3 : f3 = f2 \o x
  OBVIOUS
<1>17. /\ f3 \in Seq(S) /\ l3 = Len(f3) /\ \A i \in 1 .. l2 : f3[i] = f2[i]
       /\ \A i \in 1 .. n : f3[L + 2 + i] = IndexCell(i)
  <2>1. l2 + n = l3 /\ \A i \in 1 .. n : l2 + i = L + 2 + i
    BY <1>11
  <2>2. /\ f2 \o x \in Seq(S) /\ Len(f2 \o x) = l2 + n /\ \A i \in 1 .. l2 : (f2 \o x)[i] = f2[i]
        /\ \A i \in 1 .. n : (f2 \o x)[l2 + i] = x[i]
    <3>1. Appended(S, f2 \o x, f2, l2, x, n)
      BY <1>4, <1>15, AppendedIs
    <3> QED BY <3>1 DEF Appended
  <2> QED BY <1>4, <1>16, <2>1, <2>2
<1>18. PICK f : f = f3 \o c
  OBVIOUS
<1>19. f \in Seq(S) /\ Len(f) = L + n + 3 /\ (\A i \in 1 .. l3 : f[i] = f3[i]) /\ f[L + n + 3] = foot
  <2>1. 1 \in Nat /\ 1 \in 1 .. 1 /\ l3 + 1 = L + n + 3
    BY <1>11
  <2>2. /\ f3 \o c \in Seq(S) /\ Len(f3 \o c) = l3 + 1 /\ \A i \in 1 .. l3 : (f3 \o c)[i] = f3[i]
        /\ \A i \in 1 .. 1 : (f3 \o c)[l3 + i] = c[i]
    <3>1. f3 \in Seq(S) /\ c \in Seq(S) /\ l3 \in Nat /\ 1 \in Nat /\ l3 = Len(f3) /\ 1 = Len(c)
      BY <1>9, <1>17, <2>1
    <3>2. Appended(S, f3 \o c, f3, l3, c, 1)
      BY <3>1, AppendedIs
    <3> QED BY <3>2 DEF Appended
  <2> QED BY <1>9, <1>18, <2>1, <2>2
<1>20. /\ 1 \in 1 .. l1 /\ 1 \in 1 .. l2 /\ 1 \in 1 .. l3 /\ L + 2 \in 1 .. l2 /\ L + 2 \in 1 .. l3
       /\ \A p \in 1 .. L : 1 + p \in 1 .. l1 /\ 1 + p \in 1 .. l2 /\ 1 + p \in 1 .. l3
       /\ \A i \in 1 .. n : L + 2 + i \in 1 .. l3
  BY <1>11
<1>21. f[1] = head /\ \A p \in 1 .. L : f[1 + p] = D[p]
  BY <1>13, <1>15, <1>17, <1>19, <1>20
<1>22. f[L + 2] = bloom
  BY <1>15, <1>17, <1>19, <1>20
<1>23. \A i \in 1 .. n : f[L + 2 + i] = IndexCell(i)
  BY <1>17, <1>19, <1>20
<1>24. f = Table!writeSSTable
  BY <1>10, <1>12, <1>14, <1>16, <1>18
<1>25. IsFile(f, n, L, D)
  BY <1>1, <1>19, <1>21, <1>22, <1>23 DEF IsFile
<1> QED BY <1>24, <1>25

\* What is where in a file, with offsets from 0.
HasCells(f, n, L, D) ==
    /\ Table!CellAt(f, 0) = Table!HeaderCell(n)
    /\ \A p \in 1 .. L : Table!CellAt(f, p) = D[p]
    /\ Table!CellAt(f, L + 1) = Table!BloomCell(recs)
    /\ \A i \in 1 .. n : Table!CellAt(f, L + 1 + i) = IndexCell(i)
    /\ Table!Footer(f) = [is |-> "footer", index |-> L + 2, bloom |-> L + 1]
    /\ \A o \in Nat : Table!CellAt(f, o).is \in {"record", "key", "value"} => o \in 1 .. L

LEMMA FileCellsAre ==
    ASSUME NEW n \in Nat, NEW L \in Nat, NEW D \in Seq(DataCell), L = Len(D),
           NEW f, IsFile(f, n, L, D)
    PROVE  HasCells(f, n, L, D)
<1>1. DOMAIN f = 1 .. L + n + 3 /\ Len(f) = L + n + 3
  BY DEF IsFile
<1>2. \A o \in Nat : Table!CellAt(f, o) = IF o + 1 \in 1 .. L + n + 3 THEN f[o + 1] ELSE [is |-> "end"]
  BY <1>1 DEF Table!CellAt
<1>3. Table!CellAt(f, 0) = Table!HeaderCell(n)
  <2>1. 0 \in Nat /\ 0 + 1 = 1 /\ 1 \in 1 .. L + n + 3
    OBVIOUS
  <2> QED BY <1>2, <2>1 DEF IsFile
<1>4. \A p \in 1 .. L : Table!CellAt(f, p) = D[p]
  <2>1. \A p \in 1 .. L : p \in Nat /\ p + 1 = 1 + p /\ p + 1 \in 1 .. L + n + 3
    OBVIOUS
  <2> QED BY <1>2, <2>1 DEF IsFile
<1>5. Table!CellAt(f, L + 1) = Table!BloomCell(recs)
  <2>1. L + 1 \in Nat /\ (L + 1) + 1 = L + 2 /\ L + 2 \in 1 .. L + n + 3
    OBVIOUS
  <2> QED BY <1>2, <2>1 DEF IsFile
<1>6. \A i \in 1 .. n : Table!CellAt(f, L + 1 + i) = IndexCell(i)
  <2>1. \A i \in 1 .. n : L + 1 + i \in Nat /\ (L + 1 + i) + 1 = L + 2 + i /\ L + 2 + i \in 1 .. L + n + 3
    OBVIOUS
  <2> QED BY <1>2, <2>1 DEF IsFile
<1>7. Table!Footer(f) = [is |-> "footer", index |-> L + 2, bloom |-> L + 1]
  <2>1. Len(f) - 1 = L + n + 2 /\ L + n + 2 \in Nat /\ (L + n + 2) + 1 = L + n + 3 /\ L + n + 3 \in 1 .. L + n + 3
    BY <1>1
  <2>2. Table!CellAt(f, L + n + 2) = f[L + n + 3]
    BY <1>2, <2>1
  <2> QED BY <2>1, <2>2 DEF IsFile, Table!Footer
<1>8. \A p \in 1 .. L : D[p].is \in {"record", "key", "value"}
  <2>1. \A d \in DataCell : d.is \in {"record", "key", "value"}
    BY DEF DataCell
  <2> QED BY <2>1
<1>9. /\ Table!HeaderCell(n).is = "header" /\ Table!BloomCell(recs).is = "bloom"
      /\ \A i \in 1 .. n : IndexCell(i).is = "index"
  BY DEF Table!HeaderCell, Table!BloomCell, IndexCell
<1>10. ASSUME NEW p \in 1 .. L + n + 3
       PROVE  \/ p = 1 \/ p = L + 2 \/ p = L + n + 3
              \/ \E o \in 1 .. L : p = 1 + o
              \/ \E i \in 1 .. n : p = L + 2 + i
  <2>1. CASE p = 1 \/ p = L + 2 \/ p = L + n + 3
    BY <2>1
  <2>2. CASE p > 1 /\ p < L + 2
    <3>1. p - 1 \in 1 .. L /\ p = 1 + (p - 1)
      BY <2>2
    <3> QED BY <3>1
  <2>3. CASE p > L + 2 /\ p < L + n + 3
    <3>1. p - (L + 2) \in 1 .. n /\ p = L + 2 + (p - (L + 2))
      BY <2>3
    <3> QED BY <3>1
  <2> QED BY <2>1, <2>2, <2>3
<1>11. ASSUME NEW p \in 1 .. L + n + 3
       PROVE  f[p].is \in {"record", "key", "value"} => p - 1 \in 1 .. L
  <2>1. CASE p = 1
    BY <1>9, <2>1 DEF IsFile
  <2>2. CASE p = L + 2
    BY <1>9, <2>2 DEF IsFile
  <2>3. CASE p = L + n + 3
    BY <2>3 DEF IsFile
  <2>4. CASE \E o \in 1 .. L : p = 1 + o
    <3>1. PICK o \in 1 .. L : p = 1 + o
      BY <2>4
    <3>2. f[p] = D[o] /\ p - 1 = o
      BY <3>1 DEF IsFile
    <3> QED BY <1>8, <3>2
  <2>5. CASE \E i \in 1 .. n : p = L + 2 + i
    <3>1. PICK i \in 1 .. n : p = L + 2 + i
      BY <2>5
    <3>2. f[p] = IndexCell(i)
      BY <3>1 DEF IsFile
    <3> QED BY <1>9, <3>2
  <2> QED BY <1>10, <2>1, <2>2, <2>3, <2>4, <2>5
<1>12. ASSUME NEW o \in Nat, Table!CellAt(f, o).is \in {"record", "key", "value"} PROVE o \in 1 .. L
  <2>1. o + 1 \in 1 .. L + n + 3 /\ Table!CellAt(f, o) = f[o + 1]
    BY <1>2, <1>12
  <2>2. (o + 1) - 1 = o
    OBVIOUS
  <2> QED BY <1>11, <1>12, <2>1, <2>2
<1> QED BY <1>3, <1>4, <1>5, <1>6, <1>7, <1>12 DEF HasCells

\* What a reader finds where a record was written.
LEMMA RecordAtIs ==
    ASSUME NEW L \in Nat, NEW D \in Seq(DataCell), L = Len(D), NEW n \in Nat, NEW f, HasCells(f, n, L, D),
           NEW r \in Table!Record, NEW K \in Nat, 1 <= K, NEW V \in Nat, V = ValueLen(r),
           NEW o \in Nat, 1 <= o, o + K + V <= L, HoldsRecord(D, o, r, K, V)
    PROVE  Table!RecordAt(f, o) = [error |-> FALSE, next |-> o + 1 + K + V, rec |-> Table!Stored(r)]
<1>1. \A p \in 1 .. L : Table!CellAt(f, p) = D[p]
  BY DEF HasCells
<1>2. PICK head : head = [is |-> "record", tomb |-> r.deleted, klen |-> K, vlen |-> V]
  OBVIOUS
<1>3. head.is = "record" /\ head.tomb = r.deleted /\ head.klen = K /\ head.vlen = V
  BY <1>2
<1>4. /\ o \in 1 .. L
      /\ \A v \in 1 .. K : o + v \in 1 .. L
      /\ \A v \in 1 .. V : o + K + v \in 1 .. L
  OBVIOUS
<1>5. /\ Table!CellAt(f, o) = head
      /\ \A v \in 1 .. K : Table!CellAt(f, o + v) = [is |-> "key", of |-> r.key]
      /\ \A v \in 1 .. V : Table!CellAt(f, o + K + v) = [is |-> "value", of |-> r.key]
  BY <1>1, <1>2, <1>4 DEF HoldsRecord
<1>6. PICK body : body = [i \in 1 .. K + V |-> Table!CellAt(f, o + i)]
  OBVIOUS
<1>7. DOMAIN body = 1 .. K + V /\ Len(body) = K + V
  BY <1>6
<1>8. ASSUME NEW i \in 1 .. K + V
      PROVE  body[i].is = IF i <= K THEN "key" ELSE "value"
  <2>1. CASE i <= K
    <3>1. i \in 1 .. K
      BY <2>1
    <3>2. body[i] = [is |-> "key", of |-> r.key]
      BY <1>5, <1>6, <3>1
    <3> QED BY <2>1, <3>2
  <2>2. CASE ~(i <= K)
    <3>1. PICK v \in 1 .. V : v = i - K
      BY <2>2
    <3>2. o + i = o + K + v
      BY <3>1
    <3>3. body[i] = [is |-> "value", of |-> r.key]
      BY <1>5, <1>6, <3>2
    <3> QED BY <2>2, <3>3
  <2> QED BY <2>1, <2>2
<1>9. body[1].of = r.key
  <2>1. 1 \in 1 .. K /\ 1 \in 1 .. K + V
    OBVIOUS
  <2>2. body[1] = [is |-> "key", of |-> r.key]
    BY <1>5, <1>6, <2>1
  <2> QED BY <2>2
<1>10. Table!RecordAt(f, o) = [error |-> FALSE, next |-> o + 1 + Len(body),
                              rec |-> [key |-> body[1].of, len |-> head.vlen, deleted |-> head.tomb]]
  <2>1. head.klen + head.vlen = K + V
    BY <1>3
  <2>2. ~\E i \in DOMAIN body : body[i].is # (IF i <= head.klen THEN "key" ELSE "value")
    BY <1>3, <1>7, <1>8
  <2>3. body = [i \in 1 .. head.klen + head.vlen |-> Table!CellAt(f, o + i)]
    BY <1>6, <2>1
  <2> HIDE <1>2
  <2> QED BY <1>3, <1>5, <2>2, <2>3, Zenon DEF Table!RecordAt
<1>11. [key |-> body[1].of, len |-> head.vlen, deleted |-> head.tomb] = Table!Stored(r)
  <2>1. r = [key |-> r.key, len |-> r.len, deleted |-> r.deleted]
    BY RecordIs
  <2>2. Table!Stored(r) = [key |-> r.key, len |-> V, deleted |-> r.deleted]
    BY <2>1 DEF Table!Stored, ValueLen
  <2> QED BY <1>3, <1>9, <2>2
<1>12. o + 1 + Len(body) = o + 1 + K + V
  BY <1>7
<1> QED BY <1>10, <1>11, <1>12

\* Wherever a reader finds a record, the next is behind it and in the data.
LEMMA NextIsBehind ==
    ASSUME NEW L \in Nat, NEW D \in Seq(DataCell), L = Len(D), NEW n \in Nat, NEW f, HasCells(f, n, L, D),
           NEW o \in Nat, ~Table!RecordAt(f, o).error
    PROVE  /\ Table!RecordAt(f, o).next \in Nat
           /\ o < Table!RecordAt(f, o).next /\ Table!RecordAt(f, o).next <= L + 1
<1>1. \A p \in 1 .. L : Table!CellAt(f, p) = D[p]
  BY DEF HasCells
<1>2. \A p \in Nat : Table!CellAt(f, p).is \in {"record", "key", "value"} => p \in 1 .. L
  BY DEF HasCells
<1>3. PICK head : head = Table!CellAt(f, o)
  OBVIOUS
<1>4. head.is = "record"
  <2>1. Table!Error.error
    BY DEF Table!Error
  <2>2. head.is # "record" => Table!RecordAt(f, o) = Table!Error
    BY <1>3, Zenon DEF Table!RecordAt
  <2> QED BY <2>1, <2>2
<1>5. o \in 1 .. L
  BY <1>2, <1>3, <1>4
<1>6. PICK K \in Nat, V \in Nat : K = head.klen /\ V = head.vlen
  <2>1. head \in DataCell
    BY <1>1, <1>3, <1>5
  <2> QED BY <1>4, <2>1 DEF DataCell
<1>7. PICK body : body = [i \in 1 .. head.klen + head.vlen |-> Table!CellAt(f, o + i)]
  OBVIOUS
<1>8. DOMAIN body = 1 .. K + V /\ Len(body) = K + V
  <2>1. body = [i \in 1 .. K + V |-> Table!CellAt(f, o + i)]
    BY <1>6, <1>7
  <2> QED BY <2>1
<1>9. /\ ~\E i \in DOMAIN body : body[i].is # (IF i <= head.klen THEN "key" ELSE "value")
      /\ Table!RecordAt(f, o).next = o + 1 + Len(body)
  <2> DEFINE bad == \E i \in DOMAIN body : body[i].is # (IF i <= head.klen THEN "key" ELSE "value")
             good == [error |-> FALSE, next |-> o + 1 + Len(body),
                      rec |-> [key |-> body[1].of, len |-> head.vlen, deleted |-> head.tomb]]
  <2>1. Table!RecordAt(f, o) = IF bad THEN Table!Error ELSE good
    BY <1>3, <1>4, <1>7, Zenon DEF Table!RecordAt
  <2>2. Table!Error.error
    BY DEF Table!Error
  <2>3. good.next = o + 1 + Len(body)
    OBVIOUS
  <2> HIDE DEF bad, good
  <2>4. ~bad /\ Table!RecordAt(f, o).next = o + 1 + Len(body)
    BY <2>1, <2>2, <2>3
  <2> QED BY <2>4 DEF bad
<1>10. o + K + V <= L
  <2>1. CASE K + V = 0
    BY <1>5, <2>1
  <2>2. CASE K + V # 0
    <3>1. K + V \in 1 .. K + V /\ o + (K + V) \in Nat
      BY <2>2
    <3>2. body[K + V].is \in {"key", "value"}
      BY <1>8, <1>9, <3>1
    <3>3. body[K + V] = Table!CellAt(f, o + (K + V))
      BY <1>6, <1>7, <3>1
    <3>4. o + (K + V) \in 1 .. L
      BY <1>2, <3>1, <3>2, <3>3
    <3> QED BY <3>4
  <2> QED BY <2>1, <2>2
<1>11. o + 1 + (K + V) \in Nat /\ o < o + 1 + (K + V) /\ o + 1 + (K + V) <= L + 1
  BY <1>10
<1> QED BY <1>8, <1>9, <1>11

\* A file in which every record is found at its offset.
IsReadable(f, n, L) ==
    /\ Table!Offset(1) = 1 /\ Table!Offset(n + 1) = L + 1
    /\ \A i \in 1 .. n :
          /\ Table!Offset(i) \in 1 .. L
          /\ Table!RecordAt(f, Table!Offset(i)) =
                [error |-> FALSE, next |-> Table!Offset(i + 1), rec |-> Table!Stored(recs[i])]

LEMMA WrittenIsReadable ==
    ASSUME recs \in Seq(Table!Record), NEW n \in Nat, n = Len(recs)
    PROVE  \E L \in Nat, D \in Seq(DataCell) :
              /\ L = Len(D) /\ IsFile(Table!writeSSTable, n, L, D)
              /\ HasCells(Table!writeSSTable, n, L, D) /\ IsReadable(Table!writeSSTable, n, L)
<1>1. PICK L \in Nat, D \in Seq(DataCell) :
         /\ Len(D) = L /\ D = Table!DataCells(recs)
         /\ Table!Offset(1) = 1 /\ Table!Offset(n + 1) = L + 1
         /\ \A i \in 1 .. n + 1 : Table!Offset(i) \in Nat /\ 1 <= Table!Offset(i) /\ Table!Offset(i) <= L + 1
         /\ \A i \in 1 .. n : \E K, V \in Nat :
               /\ K = Table!KeyLen(recs[i].key) /\ 1 <= K /\ V = ValueLen(recs[i])
               /\ Table!Offset(i + 1) = Table!Offset(i) + 1 + K + V
               /\ HoldsRecord(D, Table!Offset(i), recs[i], K, V)
  BY DataSectionIs
<1>2. PICK f : f = Table!writeSSTable
  OBVIOUS
<1>3. IsFile(f, n, L, D)
  BY <1>1, <1>2, WrittenIs
<1>4. L = Len(D)
  BY <1>1
<1>5. HasCells(f, n, L, D)
  BY <1>3, <1>4, FileCellsAre
<1>6. ASSUME NEW i \in 1 .. n
      PROVE  /\ Table!Offset(i) \in 1 .. L
             /\ Table!RecordAt(f, Table!Offset(i)) =
                   [error |-> FALSE, next |-> Table!Offset(i + 1), rec |-> Table!Stored(recs[i])]
  <2>1. PICK r \in Table!Record : r = recs[i]
    OBVIOUS
  <2>2. PICK K \in Nat, V \in Nat :
           /\ 1 <= K /\ V = ValueLen(r)
           /\ Table!Offset(i + 1) = Table!Offset(i) + 1 + K + V
           /\ HoldsRecord(D, Table!Offset(i), r, K, V)
    BY <1>1, <2>1
  <2>3. i \in 1 .. n + 1 /\ i + 1 \in 1 .. n + 1
    OBVIOUS
  <2>4. PICK o \in Nat : o = Table!Offset(i) /\ 1 <= o
    BY <1>1, <2>3
  <2>5. o + 1 + K + V <= L + 1
    BY <1>1, <2>2, <2>3, <2>4
  <2>6. o + K + V <= L /\ o \in 1 .. L
    BY <2>4, <2>5, SMTT(30)
  <2>7. HoldsRecord(D, o, r, K, V)
    BY <2>2, <2>4
  <2>8. Table!RecordAt(f, o) = [error |-> FALSE, next |-> o + 1 + K + V, rec |-> Table!Stored(r)]
    <3>1. 1 <= K /\ V = ValueLen(r) /\ 1 <= o /\ o + K + V <= L
      BY <2>2, <2>4, <2>6
    <3> QED BY <1>4, <1>5, <2>7, <3>1, RecordAtIs, SMTT(60)
  <2>9. Table!Offset(i) = o /\ Table!Offset(i + 1) = o + 1 + K + V
    BY <2>2, <2>4
  <2>10. Table!Offset(i) \in 1 .. L
    BY <2>6, <2>9
  <2>11. Table!RecordAt(f, Table!Offset(i)) =
            [error |-> FALSE, next |-> Table!Offset(i + 1), rec |-> Table!Stored(recs[i])]
    BY <2>1, <2>8, <2>9, Zenon
  <2> QED BY <2>10, <2>11
<1>7. IsReadable(f, n, L)
  BY <1>1, <1>6 DEF IsReadable
<1> QED BY <1>2, <1>3, <1>4, <1>5, <1>7

ReadBody(f, end, r, o) ==
    IF o >= end THEN <<>>
    ELSE IF Table!RecordAt(f, o).error THEN <<Table!Error>>
    ELSE <<Table!RecordAt(f, o).rec>> \o r[Table!RecordAt(f, o).next]

\* The recursion of readAll is well defined: it goes to the end of the data.
LEMMA ReadRecursion ==
    ASSUME NEW L \in Nat, NEW D \in Seq(DataCell), L = Len(D), NEW n \in Nat,
           NEW f, IsFile(f, n, L, D), HasCells(f, n, L, D)
    PROVE  \E r : /\ Table!readAll(f) = r[1]
                  /\ \A o \in 0 .. L + 1 : r[o] = ReadBody(f, L + 1, r, o)
<1>0. PICK N \in Nat : N = Len(f) /\ L + 1 <= N
  <2>1. Len(f) = L + n + 3
    BY DEF IsFile
  <2> QED BY <2>1
<1> DEFINE Upper(m) == N + 1 - m .. N
           Solves(g, m) == g = [o \in Upper(m) |-> ReadBody(f, L + 1, g, o)]
           Bad == {m \in 1 .. N + 1 : ~\E g : Solves(g, m)}
<1>1. Bad = {}
  <2> SUFFICES ASSUME Bad # {} PROVE FALSE
    OBVIOUS
  <2>1. Bad \subseteq Nat
    OBVIOUS
  <2>2. PICK m \in Bad : \A i \in Bad : m <= i
    <3> HIDE DEF Bad
    <3> QED BY <2>1, SmallestOf
  <2>3. m \in 1 .. N + 1 /\ ~\E g : Solves(g, m)
    OBVIOUS
  <2>4. PICK g : m # 1 => Solves(g, m - 1)
    <3>1. CASE m = 1
      BY <3>1
    <3>2. CASE m # 1
      <4>1. m - 1 \in 1 .. N + 1 /\ ~(m <= m - 1)
        BY <2>3, <3>2
      <4>2. m - 1 \notin Bad
        <5> HIDE DEF Bad
        <5> QED BY <2>2, <4>1
      <4> HIDE DEF Solves
      <4> QED BY <4>1, <4>2
    <3> QED BY <3>1, <3>2
  <2> DEFINE first == N + 1 - m
             h == [o \in Upper(m) |-> IF o = first THEN ReadBody(f, L + 1, g, o) ELSE g[o]]
  <2>5. /\ first \in Nat /\ first \in Upper(m)
        /\ \A o \in Upper(m) : o \in Nat /\ (o = first \/ (o > first /\ m # 1 /\ o \in Upper(m - 1)))
    BY <2>3
  <2>6. \A o \in Upper(m) : o > first => h[o] = g[o]
    BY <2>5
  <2>7. ASSUME NEW o \in Upper(m) PROVE ReadBody(f, L + 1, h, o) = ReadBody(f, L + 1, g, o)
    <3>1. CASE o >= L + 1 \/ Table!RecordAt(f, o).error
      BY <3>1 DEF ReadBody
    <3>2. CASE ~(o >= L + 1) /\ ~Table!RecordAt(f, o).error
      <4>1. PICK x : x = Table!RecordAt(f, o).next
        OBVIOUS
      <4>2. o \in Nat /\ o >= first
        BY <2>5
      <4>3. x \in Nat /\ o < x /\ x <= L + 1
        BY <3>2, <4>1, <4>2, NextIsBehind
      <4>4. x \in Upper(m) /\ x > first
        BY <1>0, <2>3, <2>5, <4>2, <4>3
      <4>5. h[x] = g[x]
        <5> HIDE DEF h
        <5> QED BY <2>6, <4>4
      <4> HIDE DEF h
      <4> QED BY <4>1, <4>5 DEF ReadBody
    <3> QED BY <3>1, <3>2
  <2>8. ASSUME NEW o \in Upper(m) PROVE h[o] = ReadBody(f, L + 1, g, o)
    <3>1. CASE o = first
      BY <3>1
    <3>2. CASE o # first
      <4>1. m # 1 /\ o \in Upper(m - 1) /\ h[o] = g[o]
        BY <2>5, <3>2
      <4>2. g = [x \in Upper(m - 1) |-> ReadBody(f, L + 1, g, x)]
        BY <2>4, <4>1
      <4> HIDE DEF h
      <4> QED BY <4>1, <4>2
    <3> QED BY <3>1, <3>2
  <2>9. Solves(h, m)
    <3>1. \A o \in Upper(m) : h[o] = ReadBody(f, L + 1, h, o)
      BY <2>7, <2>8
    <3>2. h = [o \in Upper(m) |-> h[o]]
      OBVIOUS
    <3> HIDE DEF h, Upper
    <3>3. h = [o \in Upper(m) |-> ReadBody(f, L + 1, h, o)]
      BY <3>1, <3>2
    <3> QED BY <3>3
  <2> QED BY <2>3, <2>9
<1>2. \E g : Solves(g, N + 1)
  <2>1. N + 1 \in 1 .. N + 1
    OBVIOUS
  <2> HIDE DEF Solves
  <2> QED BY <1>1, <2>1
<1>3. Upper(N + 1) = 0 .. Len(f)
  BY <1>0
<1>4. Table!DataEnd(Table!Footer(f)) = L + 1
  <2>1. Table!Footer(f).index = L + 2 /\ Table!Footer(f).bloom = L + 1
    BY DEF HasCells
  <2>2. Table!DataEnd(Table!Footer(f)) = Table!Min({L + 2, L + 1})
    BY <2>1 DEF Table!DataEnd
  <2>3. L + 1 \in {L + 2, L + 1} /\ \A y \in {L + 2, L + 1} : L + 1 <= y
    OBVIOUS
  <2>4. Table!Min({L + 2, L + 1}) \in {L + 2, L + 1} /\ Table!Min({L + 2, L + 1}) <= L + 1
    BY <2>3 DEF Table!Min
  <2> QED BY <2>2, <2>4
<1> DEFINE from == CHOOSE r : r = [o \in 0 .. Len(f) |-> ReadBody(f, L + 1, r, o)]
<1>5. from = [o \in 0 .. Len(f) |-> ReadBody(f, L + 1, from, o)]
  <2>1. \E r : r = [o \in 0 .. Len(f) |-> ReadBody(f, L + 1, r, o)]
    BY <1>2, <1>3
  <2> QED BY <2>1
<1>6. Table!readAll(f) = from[1]
  BY <1>4 DEF Table!readAll, ReadBody, Table!FirstOffset
<1>7. \A o \in 0 .. L + 1 : from[o] = ReadBody(f, L + 1, from, o)
  <2>1. \A o \in 0 .. L + 1 : o \in 0 .. Len(f)
    BY <1>0
  <2> HIDE DEF from
  <2> QED BY <1>5, <2>1
<1> QED BY <1>6, <1>7

LEMMA LastOnesGrow ==
    ASSUME NEW S, NEW s \in Seq(S), NEW n \in Nat, n = Len(s), NEW m \in 1 .. n
    PROVE  <<s[n - m + 1]>> \o [x \in 1 .. m - 1 |-> s[n - (m - 1) + x]] = [x \in 1 .. m |-> s[n - m + x]]
<1>1. PICK e \in S : e = s[n - m + 1]
  <2>1. n - m + 1 \in 1 .. n
    OBVIOUS
  <2> QED BY <2>1
<1>2. PICK a : a = <<e>>
  OBVIOUS
<1>3. a \in Seq(S) /\ 1 = Len(a) /\ a[1] = e
  BY <1>2
<1>4. PICK l \in Nat : l = m - 1
  OBVIOUS
<1>5. PICK b : b = [x \in 1 .. l |-> s[n - l + x]]
  OBVIOUS
<1>6. b \in Seq(S) /\ l = Len(b) /\ \A x \in 1 .. l : b[x] = s[n - l + x]
  <2>1. \A x \in 1 .. l : n - l + x \in 1 .. n
    BY <1>4
  <2>2. b \in [1 .. l -> S]
    BY <1>5, <2>1
  <2>3. b \in Seq(S) /\ l = Len(b)
    BY <2>2
  <2>4. \A x \in 1 .. l : b[x] = s[n - l + x]
    BY <1>5
  <2> QED BY <2>3, <2>4
<1>7. PICK c : c = a \o b
  OBVIOUS
<1>8. c \in Seq(S) /\ Len(c) = 1 + l /\ c[1] = e /\ \A x \in 1 .. l : c[1 + x] = b[x]
  <2>1. 1 \in Nat /\ 1 \in 1 .. 1
    OBVIOUS
  <2>2. Appended(S, a \o b, a, 1, b, l)
    BY <1>3, <1>6, <2>1, AppendedIs
  <2> QED BY <1>3, <1>7, <2>1, <2>2 DEF Appended
<1>9. DOMAIN c = 1 .. m
  BY <1>4, <1>8
<1>10. ASSUME NEW x \in 1 .. m PROVE c[x] = s[n - m + x]
  <2>1. CASE x = 1
    BY <1>1, <1>8, <2>1
  <2>2. CASE x # 1
    <3>1. PICK y \in 1 .. l : x = 1 + y
      <4>1. x - 1 \in 1 .. l /\ x = 1 + (x - 1)
        BY <1>4, <2>2
      <4> QED BY <4>1
    <3>2. n - l + y = n - m + x
      BY <1>4, <3>1
    <3> QED BY <1>6, <1>8, <3>1, <3>2
  <2> QED BY <2>1, <2>2
<1>11. c = [x \in 1 .. m |-> c[x]]
  BY <1>8, <1>9
<1>12. c = [x \in 1 .. m |-> s[n - m + x]]
  BY <1>10, <1>11
<1> QED BY <1>1, <1>2, <1>4, <1>5, <1>7, <1>12

\* A merge reads the records that were written.
LEMMA ReadAllIs ==
    ASSUME recs \in Seq(Table!Record), NEW n \in Nat, n = Len(recs),
           NEW L \in Nat, NEW D \in Seq(DataCell), L = Len(D),
           NEW f, IsFile(f, n, L, D), HasCells(f, n, L, D), IsReadable(f, n, L)
    PROVE  Table!readAll(f) = [i \in DOMAIN recs |-> Table!Stored(recs[i])]
<1>1. PICK r : Table!readAll(f) = r[1] /\ \A o \in 0 .. L + 1 : r[o] = ReadBody(f, L + 1, r, o)
  BY ReadRecursion
<1>2. PICK s : s = [i \in 1 .. n |-> Table!Stored(recs[i])]
  OBVIOUS
<1>3. PICK S : s \in Seq(S)
  <2>1. s \in Seq({s[i] : i \in 1 .. n})
    BY <1>2
  <2> QED BY <2>1
<1>4. n = Len(s) /\ \A i \in 1 .. n : s[i] = Table!Stored(recs[i])
  BY <1>2
<1> DEFINE rest(m) == [x \in 1 .. m |-> s[n - m + x]]
           at(m) == Table!Offset(n + 1 - m)
           Bad == {m \in 0 .. n : r[at(m)] # rest(m)}
<1>5. Bad = {}
  <2> SUFFICES ASSUME Bad # {} PROVE FALSE
    OBVIOUS
  <2>1. Bad \subseteq Nat
    OBVIOUS
  <2>2. PICK m \in Bad : \A i \in Bad : m <= i
    <3> HIDE DEF Bad
    <3> QED BY <2>1, SmallestOf
  <2>3. m \in 0 .. n /\ r[at(m)] # rest(m)
    OBVIOUS
  <2>4. CASE m = 0
    <3>1. at(m) = L + 1
      <4>1. n + 1 - m = n + 1
        BY <2>4
      <4> QED BY <4>1 DEF IsReadable
    <3>2. L + 1 \in 0 .. L + 1 /\ L + 1 >= L + 1
      OBVIOUS
    <3>3. r[L + 1] = <<>>
      BY <1>1, <3>2 DEF ReadBody
    <3>4. rest(m) = <<>>
      BY <2>4
    <3> HIDE DEF at, rest
    <3> QED BY <2>3, <3>1, <3>3, <3>4
  <2>5. CASE m # 0
    <3>1. /\ m \in 1 .. n /\ m - 1 \in 0 .. n /\ ~(m <= m - 1)
          /\ n + 1 - m \in 1 .. n /\ (n + 1 - m) + 1 = n + 1 - (m - 1) /\ n + 1 - m = n - m + 1
      BY <2>3, <2>5
    <3>2. r[at(m - 1)] = rest(m - 1)
      <4>1. m - 1 \notin Bad
        <5> HIDE DEF Bad
        <5> QED BY <2>2, <3>1
      <4> HIDE DEF at, rest
      <4> QED BY <3>1, <4>1
    <3>3. PICK o : o = at(m)
      OBVIOUS
    <3>4. /\ o \in 1 .. L
          /\ Table!RecordAt(f, o) = [error |-> FALSE, next |-> at(m - 1), rec |-> Table!Stored(recs[n + 1 - m])]
      BY <3>1, <3>3 DEF IsReadable
    <3>5. r[o] = <<Table!Stored(recs[n + 1 - m])>> \o r[at(m - 1)]
      <4> HIDE DEF at
      <4>1. o \in 0 .. L + 1 /\ ~(o >= L + 1)
        BY <3>4
      <4>2. /\ ~Table!RecordAt(f, o).error /\ Table!RecordAt(f, o).next = at(m - 1)
            /\ Table!RecordAt(f, o).rec = Table!Stored(recs[n + 1 - m])
        BY <3>4
      <4> QED BY <1>1, <4>1, <4>2 DEF ReadBody
    <3>6. Table!Stored(recs[n + 1 - m]) = s[n - m + 1]
      BY <1>4, <3>1
    <3>7. <<s[n - m + 1]>> \o rest(m - 1) = rest(m)
      BY <1>3, <1>4, <3>1, LastOnesGrow
    <3> HIDE DEF at, rest
    <3> QED BY <2>3, <3>2, <3>3, <3>5, <3>6, <3>7
  <2> QED BY <2>4, <2>5
<1>6. r[1] = rest(n)
  <2>1. n \in 0 .. n /\ n + 1 - n = 1
    OBVIOUS
  <2>2. at(n) = 1
    BY <2>1 DEF IsReadable
  <2> HIDE DEF at, rest
  <2> QED BY <1>5, <2>1, <2>2
<1>7. rest(n) = s
  <2>1. \A x \in 1 .. n : n - n + x = x
    OBVIOUS
  <2> QED BY <1>2, <2>1
<1>8. DOMAIN recs = 1 .. n
  OBVIOUS
<1> HIDE DEF rest
<1> QED BY <1>1, <1>2, <1>6, <1>7, <1>8

\* A number below the limit of 32 bits is stored as it is.
LEMMA FitsWord == \A x \in Nat : x < Word => x % Word = x
BY StorageAssumption DEF Table!TableFileAssumption

\* A filter that is not too large before it is rounded is not too large then.
LEMMA BloomFits ==
    ASSUME NEW n \in Nat, n * BitsPerKey <= MaxBloomBits
    PROVE  /\ Table!BloomBits(n) \in Nat /\ Table!BloomBits(n) # 0
           /\ Table!BloomBits(n) <= MaxBloomBits /\ Table!BloomBits(n) % 8 = 0
<1>1. /\ BitsPerKey \in Nat /\ BitsPerKey <= MaxBloomBits /\ MinBits \in Nat /\ MinBits # 0
      /\ MinBits <= MaxBloomBits /\ MaxBloomBits \in Nat /\ MaxBloomBits < Word /\ Word \in Nat
      /\ MaxBloomBits % 8 = 0
  BY StorageAssumption DEF Table!TableFileAssumption
<1>2. PICK x \in Nat : x = (IF n < 1 THEN 1 ELSE n) * BitsPerKey /\ x <= MaxBloomBits
  <2>1. 1 * BitsPerKey = BitsPerKey
    BY <1>1
  <2>2. n * BitsPerKey \in Nat
    BY <1>1
  <2> QED BY <1>1, <2>1, <2>2
<1>3. x % Word = x
  BY <1>1, <1>2, FitsWord
<1>4. PICK bits \in Nat : /\ bits = IF x < MinBits THEN MinBits ELSE x
                          /\ bits # 0 /\ bits <= MaxBloomBits
  BY <1>1, <1>2
<1>5. PICK m \in Nat : /\ m = bits + ((8 - (bits % 8)) % 8)
                       /\ m # 0 /\ m <= MaxBloomBits /\ m % 8 = 0
  BY <1>1, <1>4
<1>6. m % Word = m
  BY <1>1, <1>5, FitsWord
<1>7. Table!BloomBits(n) = m
  BY <1>2, <1>3, <1>4, <1>5, <1>6 DEF Table!BloomBits
<1> QED BY <1>5, <1>7

\* What openSSTable makes of the file: the table, unless the filter is none or
\* too large.
LEMMA OpenedIs ==
    ASSUME recs \in Seq(Table!Record), NEW n \in Nat, n = Len(recs), n < Word,
           NEW L \in Nat, NEW D \in Seq(DataCell), L = Len(D), NEW f, HasCells(f, n, L, D),
           NEW m, m = Table!BloomBits(n)
    PROVE  Table!openSSTable(f) =
              IF m = 0 \/ m > MaxBloomBits \/ m % 8 # 0 THEN Table!Error ELSE
              [error |-> FALSE, index |-> [i \in 1 .. n |-> IndexCell(i)], bloom |-> Table!BloomCell(recs)]
<1>1. PICK header, footer, bloom, index :
         /\ header = Table!CellAt(f, 0) /\ footer = Table!Footer(f)
         /\ bloom = Table!CellAt(f, footer.bloom)
         /\ index = [i \in 1 .. header.count |-> Table!CellAt(f, footer.index + i - 1)]
  OBVIOUS
<1>2. header.is = "header" /\ header.count = n
  BY <1>1, FitsWord DEF HasCells, Table!HeaderCell
<1>3. footer.is = "footer" /\ footer.bloom = L + 1 /\ footer.index = L + 2
  BY <1>1 DEF HasCells
<1>4. bloom = Table!BloomCell(recs) /\ bloom.is = "bloom" /\ bloom.m = m
  BY <1>1, <1>3 DEF HasCells, Table!BloomCell
<1>5. index = [i \in 1 .. n |-> IndexCell(i)]
  <2>1. \A i \in 1 .. n : footer.index + i - 1 = L + 1 + i
    BY <1>3
  <2>2. \A i \in 1 .. n : Table!CellAt(f, footer.index + i - 1) = IndexCell(i)
    BY <2>1 DEF HasCells
  <2>3. index = [i \in 1 .. n |-> Table!CellAt(f, footer.index + i - 1)]
    BY <1>1, <1>2
  <2> QED BY <2>2, <2>3
<1>6. ~\E i \in DOMAIN index : index[i].is # "index"
  <2>1. \A i \in 1 .. n : IndexCell(i).is = "index"
    BY DEF IndexCell
  <2> QED BY <1>5, <2>1
<1>7. Table!openSSTable(f) =
        IF m = 0 \/ m > MaxBloomBits \/ m % 8 # 0 THEN Table!Error
        ELSE [error |-> FALSE, index |-> index, bloom |-> bloom]
  BY <1>1, <1>2, <1>3, <1>4, <1>6, Zenon DEF Table!openSSTable
<1> QED BY <1>4, <1>5, <1>7

\* get answers for each key with what was written.
LEMMA GetIs ==
    ASSUME recs \in Seq(Table!Record), NEW n \in Nat, n = Len(recs), n < Word,
           ~Table!openSSTable(Table!writeSSTable).error,
           NEW L \in Nat, NEW D \in Seq(DataCell), L = Len(D),
           NEW f, IsFile(f, n, L, D), HasCells(f, n, L, D), IsReadable(f, n, L),
           f = Table!writeSSTable
    PROVE  Table!GetFindsWhatWasWritten
<1> SUFFICES ASSUME NEW k \in Table!Key
             PROVE  LET at == {i \in DOMAIN recs : recs[i].key = k}
                    IN  Table!get(f, k) =
                          IF at = {} THEN Table!NotFound
                          ELSE LET r == Table!Stored(recs[CHOOSE i \in at : TRUE])
                               IN  [error |-> FALSE, found |-> TRUE, deleted |-> r.deleted, len |-> r.len]
  BY DEF Table!GetFindsWhatWasWritten
<1>1. PICK at : at = {i \in DOMAIN recs : recs[i].key = k}
  OBVIOUS
<1>2. PICK table : table = Table!openSSTable(f)
  OBVIOUS
<1>3. PICK c : c = CHOOSE i \in at : TRUE
  OBVIOUS
<1>4. PICK offset, r : offset = table.index[c].offset /\ r = Table!RecordAt(f, offset)
  OBVIOUS
<1>5. table = [error |-> FALSE, index |-> [i \in 1 .. n |-> IndexCell(i)], bloom |-> Table!BloomCell(recs)]
  <2>1. PICK m : m = Table!BloomBits(n)
    OBVIOUS
  <2>2. Table!Error.error
    BY DEF Table!Error
  <2>3. ~(m = 0 \/ m > MaxBloomBits \/ m % 8 # 0)
    BY <1>2, <2>1, <2>2, OpenedIs
  <2> QED BY <1>2, <2>1, <2>3, OpenedIs
<1>6. /\ ~table.error /\ table.bloom = Table!BloomCell(recs)
      /\ DOMAIN table.index = 1 .. n /\ \A i \in 1 .. n : table.index[i] = IndexCell(i)
  BY <1>5
<1>7. {i \in DOMAIN table.index : table.index[i].key = k} = at
  <2>0. \A i \in 1 .. n : IndexCell(i).key = recs[i].key
    BY DEF IndexCell
  <2>1. \A i \in 1 .. n : table.index[i].key = recs[i].key
    BY <1>6, <2>0, Zenon
  <2>2. DOMAIN recs = 1 .. n
    OBVIOUS
  <2> QED BY <1>1, <1>6, <2>1, <2>2
<1>8. Table!get(f, k) =
        IF table.error THEN Table!Error
        ELSE IF ~Table!mayContain(table.bloom, k) \/ at = {} THEN Table!NotFound
        ELSE IF offset >= Len(f) THEN Table!NotFound
        ELSE IF r.error \/ r.rec.key # k THEN Table!Error
        ELSE [error |-> FALSE, found |-> TRUE, deleted |-> r.rec.deleted, len |-> r.rec.len]
  BY <1>2, <1>3, <1>4, <1>7, Zenon DEF Table!get
<1>9. CASE at = {}
  BY <1>1, <1>6, <1>8, <1>9
<1>10. CASE at # {}
  <2>1. c \in at
    BY <1>3, <1>10
  <2>2. c \in 1 .. n /\ recs[c].key = k
    BY <1>1, <2>1
  <2>3. PICK w \in Table!Record : w = recs[c]
    BY <2>2
  <2>4. Table!mayContain(table.bloom, k)
    <3>1. PICK m : m = Table!BloomBits(Len(recs))
      OBVIOUS
    <3>2. PICK bits : bits = UNION {Table!add(recs[i].key, m) : i \in DOMAIN recs}
      OBVIOUS
    <3>3. Table!BloomCell(recs) = [is |-> "bloom", m |-> m, k |-> Hashes, bits |-> bits]
      BY <3>1, <3>2, Zenon DEF Table!BloomCell
    <3>4. table.bloom.k = Hashes /\ table.bloom.m = m /\ table.bloom.bits = bits
      BY <1>6, <3>3
    <3>5. ASSUME m # 0, NEW i \in 0 .. Hashes - 1 PROVE Table!Probe(k, i, m) \in bits
      <4>1. Table!Probe(k, i, m) \in Table!add(k, m)
        BY <3>5 DEF Table!add
      <4>2. c \in DOMAIN recs /\ recs[c].key = k
        BY <2>2
      <4>3. Table!add(recs[c].key, m) \in {Table!add(recs[j].key, m) : j \in DOMAIN recs}
        BY <4>2, Zenon
      <4> QED BY <3>2, <4>1, <4>2, <4>3
    <3> QED BY <3>4, <3>5 DEF Table!mayContain
  <2>5. /\ r = [error |-> FALSE, next |-> Table!Offset(c + 1), rec |-> Table!Stored(recs[c])]
        /\ ~(offset >= Len(f))
    <3>1. offset = Table!Offset(c)
      <4>1. IndexCell(c).offset = Table!Offset(c)
        BY DEF IndexCell
      <4> QED BY <1>4, <1>6, <2>2, <4>1, Zenon
    <3>2. Table!Offset(c) \in 1 .. L /\ Len(f) = L + n + 3
      BY <2>2 DEF IsReadable, IsFile
    <3> QED BY <1>4, <2>2, <3>1, <3>2 DEF IsReadable
  <2>6. ~r.error /\ r.rec = Table!Stored(w) /\ ~(offset >= Len(f))
    BY <2>3, <2>5
  <2>7. r.rec.key = k
    <3>1. w = [key |-> w.key, len |-> w.len, deleted |-> w.deleted]
      BY RecordIs
    <3>2. Table!Stored(w) = [key |-> w.key, len |-> ValueLen(w), deleted |-> w.deleted]
      BY <3>1 DEF Table!Stored, ValueLen
    <3> QED BY <2>2, <2>3, <2>6, <3>2
  <2>8. Table!get(f, k) = [error |-> FALSE, found |-> TRUE, deleted |-> r.rec.deleted, len |-> r.rec.len]
    BY <1>6, <1>8, <1>10, <2>4, <2>6, <2>7
  <2> QED BY <1>1, <1>3, <1>10, <2>3, <2>6, <2>8
<1> QED BY <1>9, <1>10

\* TableReadsBack: whatever records a table file is written from, in whatever
\* number that 32 bits hold, and whatever bloomHashes gives for their keys, a
\* reader refuses the file because of the size of its filter, or get finds each
\* key with what was written and no other, and readAll returns the records in
\* their order; and no file is refused whose records ask for no more bits than
\* a reader takes.
THEOREM TablesReadBack == Table!Spec => []TableReadsBack
<1> DEFINE Inv == recs \in Seq(Table!Record)
<1>1. Table!Init => Inv
  BY DEF Table!Init
<1>2. Inv /\ [Table!Next]_Table!vars => Inv'
  <2> SUFFICES ASSUME Inv, [Table!Next]_Table!vars PROVE Inv'
    OBVIOUS
  <2>1. CASE Table!Next
    <3>1. PICK r \in Table!Record : recs' = Append(recs, r)
      BY <2>1 DEF Table!Next, Table!Add
    <3>2. Append(recs, r) \in Seq(Table!Record)
      OBVIOUS
    <3> QED BY <3>1, <3>2 DEF Table!Record, Table!Key
  <2>2. CASE UNCHANGED Table!vars
    BY <2>2 DEF Table!vars, Table!Record, Table!Key
  <2> QED BY <2>1, <2>2
<1>3. Inv => TableReadsBack
  <2> SUFFICES ASSUME Inv, Len(recs) < Word
               PROVE  /\ ~Table!openSSTable(Table!writeSSTable).error =>
                            /\ Table!GetFindsWhatWasWritten
                            /\ Table!MergeReadsWhatWasWritten
                      /\ Len(recs) * BitsPerKey <= MaxBloomBits =>
                            ~Table!openSSTable(Table!writeSSTable).error
    BY DEF TableReadsBack, Table!TableReadsBack
  <2>1. PICK n \in Nat : n = Len(recs)
    OBVIOUS
  <2>2. PICK f : f = Table!writeSSTable
    OBVIOUS
  <2>3. PICK L \in Nat, D \in Seq(DataCell) :
           L = Len(D) /\ IsFile(f, n, L, D) /\ HasCells(f, n, L, D) /\ IsReadable(f, n, L)
    BY <2>1, <2>2, WrittenIsReadable
  <2>4. ~Table!openSSTable(Table!writeSSTable).error => Table!GetFindsWhatWasWritten
    BY <2>1, <2>2, <2>3, GetIs
  <2>5. Table!MergeReadsWhatWasWritten
    <3>1. Table!readAll(f) = [i \in DOMAIN recs |-> Table!Stored(recs[i])]
      BY <2>1, <2>3, ReadAllIs
    <3> QED BY <2>2, <3>1 DEF Table!MergeReadsWhatWasWritten
  <2>6. ASSUME n * BitsPerKey <= MaxBloomBits PROVE ~Table!openSSTable(f).error
    <3>1. PICK m : m = Table!BloomBits(n)
      OBVIOUS
    <3>2. ~(m = 0 \/ m > MaxBloomBits \/ m % 8 # 0)
      BY <2>6, <3>1, BloomFits, StorageAssumption DEF Table!TableFileAssumption
    <3>3. Table!openSSTable(f) =
            [error |-> FALSE, index |-> [i \in 1 .. n |-> IndexCell(i)], bloom |-> Table!BloomCell(recs)]
      BY <2>1, <2>3, <3>1, <3>2, OpenedIs
    <3> QED BY <3>3
  <2> QED BY <2>1, <2>2, <2>4, <2>5, <2>6
<1> HIDE DEF Inv
<1> QED BY <1>1, <1>2, <1>3, PTL DEF Table!Spec
=============================================================================
