------------------------- MODULE OrchestratorProofs -------------------------
(***************************************************************************)
(* Proofs about Orchestrator: the waves of any plan, the order of builds,  *)
(* and what is on the disk.                                                *)
(***************************************************************************)
EXTENDS Orchestrator, TLAPS, FiniteSetTheorems, SequenceTheorems,
        WellFoundedInduction

-----------------------------------------------------------------------------
(***************************************************************************)
(* Sets of numbers.                                                        *)
(***************************************************************************)

\* A set of natural numbers has a least element.
LEMMA LeastOfNumbers ==
    ASSUME NEW S \in SUBSET Nat, S # {}
    PROVE  \E m \in S : \A x \in S : m <= x
<1>1. PICK m \in S : \A x \in S : ~ (<<x, m>> \in OpToRel(<, Nat))
  BY NatLessThanWellFounded, WFMin
<1>2. OpToRel(<, Nat) = {p \in Nat \X Nat : p[1] < p[2]}
  BY DEF OpToRel
<1>3. \A x \in S : m <= x
  <2>1. SUFFICES ASSUME NEW x \in S, x < m  PROVE FALSE
    OBVIOUS
  <2>2. <<x, m>> \in {p \in Nat \X Nat : p[1] < p[2]}
    BY <2>1
  <2> QED
    BY <1>1, <1>2, <2>2, Zenon
<1> QED
  BY <1>3

\* Min and Max are what their names say.
LEMMA MinIs ==
    ASSUME NEW S \in SUBSET Nat, S # {}
    PROVE  Min(S) \in S /\ \A x \in S : Min(S) <= x
BY LeastOfNumbers DEF Min

LEMMA MaxIs ==
    ASSUME NEW S \in SUBSET Nat, NEW m \in S, \A x \in S : x <= m
    PROVE  Max(S) = m
<1>1. /\ Max(S) \in S
      /\ \A x \in S : Max(S) >= x
  <2>1. \E y \in S : \A x \in S : y >= x
    OBVIOUS
  <2> QED
    BY <2>1, Zenon DEF Max
<1>2. Max(S) \in Nat /\ m \in Nat /\ Max(S) <= m /\ Max(S) >= m
  BY <1>1
<1> QED
  BY <1>1, <1>2

-----------------------------------------------------------------------------
(***************************************************************************)
(* The rounds of buildExecutionWaves.                                      *)
(***************************************************************************)

NoRound(chosen) == [waves |-> <<>>, done |-> {}, left |-> chosen]

RoundAfter(p, r) ==
    LET now  == Ready(p, r.left, r.done)
        done == r.done \cup Names(p, now)
    IN  IF now = {} THEN r
        ELSE [waves |-> Append(r.waves, now), done |-> done,
              left  |-> {c \in r.left : p[c].name \notin done}]

AreRounds(p, chosen, n, g) ==
    g = [k \in 0 .. n |-> IF k = 0 THEN NoRound(chosen) ELSE RoundAfter(p, g[k - 1])]

Rounds(p, chosen) == CHOOSE g : AreRounds(p, chosen, Cardinality(chosen), g)

\* The function that Waves defines by recursion exists.
LEMMA RoundsExist ==
    ASSUME NEW p, NEW chosen, NEW n \in Nat
    PROVE  \E g : AreRounds(p, chosen, n, g)
<1> DEFINE Bad == {m \in Nat : ~ \E g : AreRounds(p, chosen, m, g)}
<1>1. SUFFICES ASSUME Bad # {}  PROVE FALSE
  OBVIOUS
<1>2. PICK m \in Bad : \A x \in Bad : m <= x
  BY <1>1, LeastOfNumbers
<1>3. m # 0
  <2> DEFINE g == [k \in 0 .. 0 |-> NoRound(chosen)]
  <2>1. g = [k \in 0 .. 0 |-> IF k = 0 THEN NoRound(chosen) ELSE RoundAfter(p, g[k - 1])]
    OBVIOUS
  <2>2. AreRounds(p, chosen, 0, g)
    BY <2>1 DEF AreRounds
  <2> QED
    BY <2>2
<1>4. m - 1 \in Nat /\ ~ (m - 1 \in Bad)
  BY <1>2, <1>3
<1>5. PICK g : AreRounds(p, chosen, m - 1, g)
  BY <1>4
<1> DEFINE h == [k \in 0 .. m |-> IF k = m THEN RoundAfter(p, g[m - 1]) ELSE g[k]]
<1>6. \A k \in 0 .. m - 1 : g[k] = IF k = 0 THEN NoRound(chosen) ELSE RoundAfter(p, g[k - 1])
  BY <1>5 DEF AreRounds
<1>7. ASSUME NEW k \in 0 .. m
      PROVE  h[k] = IF k = 0 THEN NoRound(chosen) ELSE RoundAfter(p, h[k - 1])
  <2>1. CASE k = m
    <3>1. h[k] = RoundAfter(p, g[m - 1]) /\ h[k - 1] = g[m - 1]
      BY <1>3, <1>4, <2>1
    <3> QED
      BY <1>3, <2>1, <3>1
  <2>2. CASE k # m
    <3>1. k \in 0 .. m - 1 /\ h[k] = g[k]
      BY <1>4, <2>2
    <3>2. k # 0 => h[k - 1] = g[k - 1]
      BY <1>4, <2>2
    <3> QED
      BY <1>6, <3>1, <3>2
  <2> QED
    BY <2>1, <2>2
<1>8. h = [k \in 0 .. m |-> IF k = 0 THEN NoRound(chosen) ELSE RoundAfter(p, h[k - 1])]
  BY <1>7
<1>9. AreRounds(p, chosen, m, h)
  BY <1>8 DEF AreRounds
<1> QED
  BY <1>2, <1>9

LEMMA RoundsAre ==
    ASSUME NEW p, NEW chosen, IsFiniteSet(chosen)
    PROVE  LET n == Cardinality(chosen)
               g == Rounds(p, chosen) IN
           /\ n \in Nat
           /\ Waves(p, chosen) = g[n]
           /\ g[0] = NoRound(chosen)
           /\ \A k \in 0 .. n : k # 0 => g[k] = RoundAfter(p, g[k - 1])
<1> DEFINE n == Cardinality(chosen)
           g == Rounds(p, chosen)
<1>1. n \in Nat
  BY FS_CardinalityType
<1>2. AreRounds(p, chosen, n, g)
  BY <1>1, RoundsExist DEF Rounds
<1>3. Waves(p, chosen) = g[n]
  BY DEF Waves, Rounds, AreRounds, RoundAfter, NoRound
<1>4. \A k \in 0 .. n : g[k] = IF k = 0 THEN NoRound(chosen) ELSE RoundAfter(p, g[k - 1])
  BY <1>2 DEF AreRounds
<1> QED
  BY <1>1, <1>3, <1>4

PlacedBefore(w, j)       == UNION {w[i] : i \in 1 .. j - 1}
DoneBefore(p, w, j)      == Names(p, PlacedBefore(w, j))
LeftBefore(p, all, w, j) == {c \in all : p[c].name \notin DoneBefore(p, w, j)}

\* Wave j is what is ready of what the waves before it left.
WavesOK(p, all, w) ==
    /\ w \in Seq(SUBSET all)
    /\ \A j \in DOMAIN w :
          /\ w[j] # {}
          /\ w[j] = Ready(p, LeftBefore(p, all, w, j), DoneBefore(p, w, j))

\* After k rounds there are k waves, or no chunk is ready.
RoundOK(p, all, r, k) ==
    LET next == Len(r.waves) + 1 IN
    /\ WavesOK(p, all, r.waves)
    /\ r.done = DoneBefore(p, r.waves, next)
    /\ r.left = LeftBefore(p, all, r.waves, next)
    /\ Cardinality(r.left) + Len(r.waves) <= Cardinality(all)
    /\ Len(r.waves) = k \/ Ready(p, r.left, r.done) = {}

\* Another wave changes nothing about those before it.
LEMMA BeforeAppend ==
    ASSUME NEW S, NEW w \in Seq(S), NEW now, NEW j \in 1 .. Len(w) + 1
    PROVE  PlacedBefore(Append(w, now), j) = PlacedBefore(w, j)
<1>1. \A i \in 1 .. j - 1 : Append(w, now)[i] = w[i]
  BY AppendProperties
<1> QED
  BY <1>1 DEF PlacedBefore

LEMMA BeforeNext ==
    ASSUME NEW S, NEW w \in Seq(S), NEW now
    PROVE  PlacedBefore(Append(w, now), Len(w) + 2) =
              PlacedBefore(w, Len(w) + 1) \cup now
<1>0. Len(w) \in Nat /\ (Len(w) + 2) - 1 = Len(w) + 1 /\ (Len(w) + 1) - 1 = Len(w)
  OBVIOUS
<1>1. \A i \in 1 .. Len(w) : Append(w, now)[i] = w[i]
  BY AppendProperties
<1>2. Append(w, now)[Len(w) + 1] = now
  BY AppendProperties
<1>3. \A x : x \in PlacedBefore(Append(w, now), Len(w) + 2)
               <=> \E i \in 1 .. Len(w) + 1 : x \in Append(w, now)[i]
  BY <1>0 DEF PlacedBefore
<1>4. \A x : x \in PlacedBefore(w, Len(w) + 1) <=> \E i \in 1 .. Len(w) : x \in w[i]
  BY <1>0 DEF PlacedBefore
<1>5. \A i \in 1 .. Len(w) + 1 : i \in 1 .. Len(w) \/ i = Len(w) + 1
  BY <1>0
<1>6. \A i \in 1 .. Len(w) : i \in 1 .. Len(w) + 1
  BY <1>0
<1>7. Len(w) + 1 \in 1 .. Len(w) + 1
  BY <1>0
<1>8. ASSUME NEW x
      PROVE  x \in PlacedBefore(Append(w, now), Len(w) + 2)
               <=> x \in PlacedBefore(w, Len(w) + 1) \cup now
  <2>1. (\E i \in 1 .. Len(w) + 1 : x \in Append(w, now)[i])
          <=> (\E i \in 1 .. Len(w) : x \in w[i]) \/ x \in now
    BY <1>1, <1>2, <1>5, <1>6, <1>7, Zenon
  <2> QED
    BY <1>3, <1>4, <2>1, Zenon
<1> QED
  BY <1>8, Zenon

LEMMA NamesUnion ==
    ASSUME NEW p, NEW S, NEW T
    PROVE  Names(p, S \cup T) = Names(p, S) \cup Names(p, T)
BY DEF Names

LEMMA RoundKept ==
    ASSUME NEW p, NEW all, IsFiniteSet(all), NEW k \in Nat, NEW r,
           RoundOK(p, all, r, k)
    PROVE  RoundOK(p, all, RoundAfter(p, r), k + 1)
<1> DEFINE now  == Ready(p, r.left, r.done)
           s    == RoundAfter(p, r)
           w    == r.waves
           next == Len(w) + 1
<1>0. /\ w \in Seq(SUBSET all) /\ Len(w) \in Nat
      /\ r.done = DoneBefore(p, w, next)
      /\ r.left = LeftBefore(p, all, w, next)
  BY DEF RoundOK, WavesOK
<1>1. CASE now = {}
  <2>1. s = r
    BY <1>1 DEF RoundAfter
  <2> QED
    BY <1>1, <2>1 DEF RoundOK
<1>2. CASE now # {}
  <2> DEFINE v == Append(w, now)
             done == r.done \cup Names(p, now)
             left == {c \in r.left : p[c].name \notin done}
  <2>0. /\ s.waves = v /\ s.done = done /\ s.left = left
    BY <1>2 DEF RoundAfter
  <2>1. now \subseteq r.left /\ r.left \subseteq all
    BY <1>0 DEF Ready, LeftBefore
  <2>2. v \in Seq(SUBSET all) /\ Len(v) = Len(w) + 1 /\ DOMAIN v = 1 .. Len(w) + 1
    BY <1>0, <2>1, AppendProperties
  <2>3. \A j \in 1 .. Len(w) + 1 : PlacedBefore(v, j) = PlacedBefore(w, j)
    BY <1>0, BeforeAppend
  <2>4. PlacedBefore(v, Len(v) + 1) = PlacedBefore(w, next) \cup now
    <3>1. PlacedBefore(v, Len(w) + 2) = PlacedBefore(w, next) \cup now
      BY <1>0, BeforeNext
    <3>2. Len(v) + 1 = Len(w) + 2
      BY <1>0, <2>2
    <3> QED
      BY <3>1, <3>2
  <2>5. \A j \in 1 .. Len(w) + 1 : /\ DoneBefore(p, v, j) = DoneBefore(p, w, j)
                                   /\ LeftBefore(p, all, v, j) = LeftBefore(p, all, w, j)
    BY <2>3 DEF DoneBefore, LeftBefore
  <2>6. done = DoneBefore(p, v, Len(v) + 1)
    BY <1>0, <2>4, NamesUnion DEF DoneBefore
  <2>7. left = LeftBefore(p, all, v, Len(v) + 1)
    BY <1>0, <2>6 DEF LeftBefore
  <2>8. ASSUME NEW j \in DOMAIN v
        PROVE  v[j] # {} /\ v[j] = Ready(p, LeftBefore(p, all, v, j), DoneBefore(p, v, j))
    <3>1. j \in 1 .. Len(w) + 1
      BY <2>2
    <3>2. CASE j = Len(w) + 1
      <4>1. v[j] = now
        BY <1>0, <3>2, AppendProperties
      <4> QED
        BY <1>0, <1>2, <2>5, <3>1, <3>2, <4>1
    <3>3. CASE j # Len(w) + 1
      <4>1. j \in 1 .. Len(w) /\ DOMAIN w = 1 .. Len(w)
        BY <1>0, <3>1, <3>3
      <4>2. v[j] = w[j]
        BY <1>0, <4>1, AppendProperties
      <4>3. w[j] # {} /\ w[j] = Ready(p, LeftBefore(p, all, w, j), DoneBefore(p, w, j))
        BY <4>1 DEF RoundOK, WavesOK
      <4> QED
        BY <2>5, <3>1, <4>2, <4>3
    <3> QED
      BY <3>2, <3>3
  <2>9. WavesOK(p, all, v)
    BY <2>2, <2>8 DEF WavesOK
  <2>10. Cardinality(left) + Len(v) <= Cardinality(all)
    <3>1. PICK c \in now : TRUE
      BY <1>2
    <3>2. c \in r.left /\ p[c].name \in done
      BY <2>1, <3>1 DEF Names
    <3>3. left \subseteq r.left \ {c}
      BY <3>2
    <3>4. IsFiniteSet(r.left) /\ IsFiniteSet(r.left \ {c}) /\ IsFiniteSet(left)
      BY <2>1, <3>3, FS_Subset, FS_RemoveElement
    <3>5. Cardinality(r.left \ {c}) = Cardinality(r.left) - 1
      BY <3>2, <3>4, FS_RemoveElement
    <3>6. Cardinality(left) <= Cardinality(r.left \ {c})
      BY <3>3, <3>4, FS_Subset
    <3>7. /\ Cardinality(left) \in Nat /\ Cardinality(r.left) \in Nat
          /\ Cardinality(all) \in Nat
      BY <3>4, FS_CardinalityType
    <3>8. Cardinality(r.left) + Len(w) <= Cardinality(all)
      BY DEF RoundOK
    <3>9. Len(v) = Len(w) + 1 /\ Len(w) \in Nat
      BY <1>0, <2>2
    <3> HIDE DEF left, v, w
    <3> QED
      BY <3>5, <3>6, <3>7, <3>8, <3>9
  <2>11. Len(s.waves) = k + 1 \/ Ready(p, s.left, s.done) = {}
    <3>1. Len(w) = k
      BY <1>2 DEF RoundOK
    <3> QED
      BY <2>0, <2>2, <3>1
  <2> QED
    BY <2>0, <2>6, <2>7, <2>9, <2>10, <2>11 DEF RoundOK
<1> QED
  BY <1>1, <1>2

LEMMA RoundFirst ==
    ASSUME NEW p, NEW all, IsFiniteSet(all)
    PROVE  RoundOK(p, all, NoRound(all), 0)
<1> DEFINE r == NoRound(all)
<1>1. r.waves = <<>> /\ r.done = {} /\ r.left = all
  BY DEF NoRound
<1>2. r.waves \in Seq(SUBSET all) /\ Len(r.waves) = 0 /\ DOMAIN r.waves = {}
  BY <1>1
<1>3. PlacedBefore(r.waves, 1) = {}
  BY DEF PlacedBefore
<1>4. DoneBefore(p, r.waves, 1) = {} /\ LeftBefore(p, all, r.waves, 1) = all
  BY <1>3 DEF DoneBefore, LeftBefore, Names
<1>5. Cardinality(r.left) + Len(r.waves) <= Cardinality(all)
  BY <1>1, <1>2, FS_CardinalityType
<1> HIDE DEF r
<1>6. RoundOK(p, all, r, 0)
  BY <1>1, <1>2, <1>4, <1>5 DEF RoundOK, WavesOK
<1> QED
  BY <1>6 DEF r

\* What buildExecutionWaves returns: waves as above, and nothing left is ready.
LEMMA WavesAre ==
    ASSUME NEW p, NEW all, IsFiniteSet(all)
    PROVE  LET r == Waves(p, all) IN
           /\ WavesOK(p, all, r.waves)
           /\ r.left = LeftBefore(p, all, r.waves, Len(r.waves) + 1)
           /\ Ready(p, r.left, DoneBefore(p, r.waves, Len(r.waves) + 1)) = {}
<1> DEFINE n == Cardinality(all)
           g == Rounds(p, all)
           Bad == {k \in 0 .. n : ~ RoundOK(p, all, g[k], k)}
<1>1. /\ n \in Nat
      /\ Waves(p, all) = g[n]
      /\ g[0] = NoRound(all)
      /\ \A k \in 0 .. n : k # 0 => g[k] = RoundAfter(p, g[k - 1])
  BY RoundsAre
<1> HIDE DEF g, n
<1>2. ASSUME Bad # {}  PROVE FALSE
  <2>1. Bad \in SUBSET Nat
    BY <1>1
  <2>2. PICK k \in Bad : \A x \in Bad : k <= x
    BY <1>2, <2>1, LeastOfNumbers
  <2>3. k # 0
    BY <1>1, <2>2, RoundFirst
  <2>4. k \in 0 .. n /\ k - 1 \in 0 .. n /\ k - 1 \in Nat /\ ~ (k <= k - 1)
    BY <1>1, <2>2, <2>3
  <2>5. RoundOK(p, all, g[k - 1], k - 1)
    BY <2>2, <2>4
  <2>6. RoundOK(p, all, RoundAfter(p, g[k - 1]), (k - 1) + 1)
    BY <2>4, <2>5, RoundKept
  <2>7. (k - 1) + 1 = k /\ g[k] = RoundAfter(p, g[k - 1])
    BY <1>1, <2>3, <2>4
  <2> QED
    BY <2>2, <2>6, <2>7
<1>3. RoundOK(p, all, g[n], n)
  BY <1>1, <1>2
<1>4. ASSUME Len(g[n].waves) = n  PROVE Ready(p, g[n].left, g[n].done) = {}
  <2>1. Cardinality(g[n].left) + n <= n
    BY <1>3, <1>4 DEF RoundOK, n
  <2>2. IsFiniteSet(g[n].left)
    BY <1>3, FS_Subset DEF RoundOK, LeftBefore
  <2>3. Cardinality(g[n].left) \in Nat
    BY <2>2, FS_CardinalityType
  <2>4. Cardinality(g[n].left) = 0
    BY <1>1, <2>1, <2>3
  <2>5. g[n].left = {}
    BY <2>2, <2>4, FS_EmptySet
  <2> QED
    BY <2>5 DEF Ready
<1>5. Len(g[n].waves) = n \/ Ready(p, g[n].left, g[n].done) = {}
  BY <1>3 DEF RoundOK
<1>6. Ready(p, g[n].left, g[n].done) = {}
  BY <1>4, <1>5
<1> QED
  BY <1>1, <1>3, <1>6 DEF RoundOK

-----------------------------------------------------------------------------
(***************************************************************************)
(* The results of a wave come in the order of its chunks.                  *)
(***************************************************************************)

\* The rank of a number in a set: how many are up to it.
LEMMA RankExists ==
    ASSUME NEW S \in SUBSET Nat, IsFiniteSet(S)
    PROVE  \E rank \in [S -> 1 .. Cardinality(S)] :
              \A x, y \in S : x < y => rank[x] < rank[y]
<1> DEFINE n == Cardinality(S)
           upTo(x) == {y \in S : y <= x}
           rank == [x \in S |-> Cardinality(upTo(x))]
<1>0. n \in Nat /\ IsFiniteSet(1 .. n) /\ Cardinality(1 .. n) = n
  BY FS_CardinalityType, FS_Interval
<1>1. ASSUME NEW x \in S  PROVE upTo(x) \in SUBSET S /\ IsFiniteSet(upTo(x)) /\ x \in upTo(x)
                                /\ Cardinality(upTo(x)) \in Nat
                                /\ rank[x] = Cardinality(upTo(x))
  <2>1. upTo(x) \in SUBSET S /\ x \in upTo(x)
    OBVIOUS
  <2>2. IsFiniteSet(upTo(x))
    BY <2>1, FS_Subset
  <2> QED
    BY <2>1, <2>2, FS_CardinalityType
<1>2. ASSUME NEW x \in S, NEW y \in S, x < y  PROVE rank[x] < rank[y]
  <2>1. upTo(x) \subseteq upTo(y) \ {y}
    <3>1. ASSUME NEW z \in upTo(x)  PROVE z \in upTo(y) /\ z # y
      <4>1. z \in Nat /\ x \in Nat /\ y \in Nat /\ z \in S /\ z <= x
        OBVIOUS
      <4>2. z <= y /\ z # y
        BY <1>2, <4>1
      <4> QED
        BY <4>1, <4>2
    <3> QED
      BY <3>1
  <2>2. Cardinality(upTo(y) \ {y}) = Cardinality(upTo(y)) - 1 /\ IsFiniteSet(upTo(y) \ {y})
    BY <1>1, FS_RemoveElement
  <2>3. Cardinality(upTo(x)) <= Cardinality(upTo(y) \ {y})
    BY <2>1, <2>2, FS_Subset
  <2>4. /\ rank[x] = Cardinality(upTo(x)) /\ rank[y] = Cardinality(upTo(y))
        /\ Cardinality(upTo(x)) \in Nat /\ Cardinality(upTo(y)) \in Nat
    BY <1>1
  <2> HIDE DEF upTo, rank
  <2> QED
    BY <2>2, <2>3, <2>4
<1>3. rank \in [S -> 1 .. n]
  <2>1. ASSUME NEW x \in S  PROVE Cardinality(upTo(x)) \in 1 .. n
    <3>1. Cardinality(upTo(x)) <= n
      BY <1>1, FS_Subset
    <3>2. Cardinality(upTo(x)) # 0
      BY <1>1, FS_EmptySet
    <3>3. Cardinality(upTo(x)) \in Nat
      BY <1>1
    <3> HIDE DEF upTo, n
    <3> QED
      BY <1>0, <3>1, <3>2, <3>3
  <2> QED
    BY <2>1
<1> HIDE DEF rank, upTo
<1> QED
  BY <1>2, <1>3

\* The elements of a finite set of numbers, in order: each one once.
LEMMA InOrderIs ==
    ASSUME NEW S \in SUBSET Nat, IsFiniteSet(S)
    PROVE  LET s == InOrder(S) IN
           /\ s \in Seq(S) /\ Len(s) = Cardinality(S)
           /\ \A x \in S : \E i \in 1 .. Cardinality(S) : s[i] = x
<1>1. PICK n : n = Cardinality(S)
  OBVIOUS
<1>2. n \in Nat /\ IsFiniteSet(1 .. n) /\ Cardinality(1 .. n) = n
  BY <1>1, FS_CardinalityType, FS_Interval
<1>3. PICK rank \in [S -> 1 .. n] : \A x, y \in S : x < y => rank[x] < rank[y]
  BY <1>1, RankExists
<1>4. ASSUME NEW x \in S, NEW y \in S, rank[x] = rank[y]  PROVE x = y
  <2>1. rank[x] \in 1 .. n /\ rank[y] \in 1 .. n
    BY <1>3
  <2>2. x < y \/ y < x \/ x = y
    OBVIOUS
  <2> QED
    BY <1>2, <1>3, <1>4, <2>1, <2>2
<1>6. \A t \in 1 .. n : \E x \in S : rank[x] = t
  <2>1. rank \in Injection(S, 1 .. n)
    BY <1>3, <1>4 DEF Injection, IsInjective
  <2>2. rank \in Surjection(S, 1 .. n)
    BY <1>1, <1>2, <2>1, FS_Injection
  <2> QED
    BY <2>2 DEF Surjection
<1> DEFINE q == [i \in 1 .. n |-> CHOOSE x \in S : rank[x] = i]
<1>7. \A i \in 1 .. n : q[i] \in S /\ rank[q[i]] = i
  BY <1>6
<1>8. q \in [1 .. n -> S]
  BY <1>7
<1>9. ASSUME NEW i \in 1 .. n, NEW j \in 1 .. n, i < j  PROVE q[i] < q[j]
  <2>1. /\ q[i] \in S /\ q[j] \in S /\ rank[q[i]] = i /\ rank[q[j]] = j
    BY <1>7
  <2> HIDE DEF q
  <2>2. q[j] < q[i] => j < i
    BY <1>3, <2>1
  <2>3. q[i] \in Nat /\ q[j] \in Nat
    BY <2>1
  <2>4. q[i] # q[j]
    BY <1>9, <2>1
  <2> QED
    BY <1>9, <2>2, <2>3, <2>4
<1> HIDE DEF q
<1> DEFINE s == InOrder(S)
<1>10. s \in [1 .. n -> S] /\ \A i, j \in DOMAIN s : i < j => s[i] < s[j]
  <2>1. \E g \in [1 .. n -> S] : \A i, j \in DOMAIN g : i < j => g[i] < g[j]
    BY <1>8, <1>9
  <2> QED
    BY <1>1, <2>1 DEF InOrder
<1> HIDE DEF s
<1>11. s \in Seq(S) /\ Len(s) = n
  BY <1>2, <1>10
<1>12. ASSUME NEW i \in 1 .. n, NEW j \in 1 .. n, s[i] = s[j]  PROVE i = j
  <2>1. s[i] \in Nat /\ s[j] \in Nat
    BY <1>10
  <2>2. i < j \/ j < i \/ i = j
    OBVIOUS
  <2>3. ~ (i < j) /\ ~ (j < i)
    <3>1. i \in DOMAIN s /\ j \in DOMAIN s
      BY <1>10
    <3>2. ~ (s[i] < s[j]) /\ ~ (s[j] < s[i])
      <4>1. \A x \in Nat : ~ (x < x)
        OBVIOUS
      <4> QED
        BY <1>12, <2>1, <4>1
    <3> QED
      BY <1>10, <3>1, <3>2
  <2> QED
    BY <2>2, <2>3
<1>13. \A x \in S : \E i \in 1 .. n : s[i] = x
  <2>1. s \in Injection(1 .. n, S)
    BY <1>10, <1>12 DEF Injection, IsInjective
  <2>2. s \in Surjection(1 .. n, S)
    BY <1>1, <1>2, <2>1, FS_Injection
  <2> QED
    BY <2>2 DEF Surjection
<1> QED
  BY <1>1, <1>11, <1>13 DEF s

-----------------------------------------------------------------------------
(***************************************************************************)
(* The invariant.  A run that was not rejected has waves as above, with    *)
(* nothing left; a chunk that was started is in a wave that was started,   *)
(* and all of those but the current one have settled; the results are      *)
(* those of the waves that are over, one for each chunk; the summary goes  *)
(* along the results, and the files it lists were written by this run.     *)
(***************************************************************************)

Early  == {"checking", "planned", "rejected"}
Active == {"running", "writing", "done"}

Blank == waves = <<>> /\ wave = 0 /\ job = <<>> /\ results = <<>> /\ summary = <<>>

Built ==
    /\ WavesOK(plan, chunks, waves)
    /\ LeftBefore(plan, chunks, waves, Len(waves) + 1) = {}
    /\ DOMAIN job = DOMAIN plan

Layered ==
    /\ phase = "checking" => plan = <<>> /\ chunks = {}
    /\ phase \in Early => Blank
    /\ phase \in Active => Built
    /\ Blank \/ Built

Started ==
    /\ \A c \in DOMAIN job : job[c] # "none" => \E j \in 1 .. wave : c \in waves[j]
    /\ \A j \in 1 .. wave - 1 : \A c \in waves[j] : job[c] \in Settled
    /\ phase \in {"writing", "done"} =>
          wave = Len(waves) /\ \A c \in Placed : job[c] \in Settled

\* The chunks that have a result.
Over == PlacedBefore(waves, IF phase = "running" THEN wave ELSE wave + 1)

Outcome(c) == [chunk |-> c, ok |-> job[c] = "ok"]

Resulted ==
    /\ results \in Seq([chunk : DOMAIN plan, ok : BOOLEAN])
    /\ phase \in Active =>
          /\ Len(results) = Cardinality(Over)
          /\ \A i \in DOMAIN results :
                results[i].chunk \in Over /\ results[i] = Outcome(results[i].chunk)
          /\ \A c \in Over : \E i \in DOMAIN results : results[i].chunk = c

\* An entry tells how the chunk of its result ended.
Tells(entry, result) ==
    entry.ok = result.ok /\ (entry.ok => entry.name = plan[result.chunk].name)

Entry == [ok : BOOLEAN, name : {""} \cup Names(plan, DOMAIN plan), files : SUBSET Files]

Summed ==
    /\ summary \in Seq(Entry)
    /\ phase = "running" => summary = <<>>
    /\ \A i \in DOMAIN summary : \A f \in summary[i].files : disk[f] = run
    /\ phase \in {"writing", "done"} =>
          \A i \in DOMAIN summary : Tells(summary[i], results[i])

Reported ==
    /\ \A i \in DOMAIN report.chunks : \A f \in report.chunks[i].files :
          f \in Files /\ disk[f] >= report.run
    /\ phase = "done" =>
          report = [run |-> run, chunks |-> summary] /\ Len(summary) = Len(results)

Parsed == wrote = Nothing \/ \E text \in Texts : wrote = [text |-> text, files |-> ParseFiles(text)]

OrchInv ==
    TypeOK /\ Layered /\ Started /\ Resulted /\ Summed /\ Reported /\ Parsed

\* A plan is a sequence: its chunks are numbers, finitely many.
LEMMA PlanIsSeq ==
    ASSUME TypeOK
    PROVE  /\ DOMAIN plan \in SUBSET Nat /\ IsFiniteSet(DOMAIN plan)
           /\ chunks \in SUBSET Nat /\ IsFiniteSet(chunks)
<1>1. plan \in Plans \cup {<<>>} /\ chunks \subseteq DOMAIN plan
  BY DEF TypeOK
<1>2. \E n \in Nat : DOMAIN plan = 1 .. n
  <2>1. CASE plan = <<>>
    BY <2>1
  <2>2. CASE plan \in Plans
    <3>1. plan \in Seq(Range(plan))
      BY <2>2, ParametersAssumption
    <3> QED
      BY <3>1
  <2> QED
    BY <1>1, <2>1, <2>2
<1>3. DOMAIN plan \in SUBSET Nat /\ IsFiniteSet(DOMAIN plan)
  BY <1>2, FS_Interval
<1> QED
  BY <1>1, <1>3, FS_Subset

\* Waves: names of different waves differ, and a chunk comes after all it needs.
LEMMA WavesOrder ==
    ASSUME NEW p, NEW all, NEW w, WavesOK(p, all, w),
           NEW i \in DOMAIN w, NEW j \in DOMAIN w, NEW c \in w[i], NEW d \in w[j]
    PROVE  /\ p[c].name = p[d].name => i = j
           /\ p[d].name \in p[c].dependsOn => j < i
<1>1. w \in Seq(SUBSET all) /\ DOMAIN w = 1 .. Len(w) /\ Len(w) \in Nat
  BY DEF WavesOK
<1>2. ASSUME NEW a \in DOMAIN w, NEW b \in DOMAIN w, NEW e \in w[a], NEW f \in w[b], a < b
      PROVE  p[e].name \in DoneBefore(p, w, b) /\ p[e].name # p[f].name
  <2>1. f \in LeftBefore(p, all, w, b)
    BY DEF WavesOK, Ready
  <2>2. p[f].name \notin DoneBefore(p, w, b)
    BY <2>1 DEF LeftBefore
  <2>3. a \in 1 .. b - 1
    BY <1>1, <1>2
  <2>4. e \in PlacedBefore(w, b)
    BY <2>3 DEF PlacedBefore
  <2>5. p[e].name \in DoneBefore(p, w, b)
    BY <2>4 DEF DoneBefore, Names
  <2> QED
    BY <2>2, <2>5
<1>3. i < j \/ j < i \/ i = j
  BY <1>1
<1>4. p[c].name = p[d].name => i = j
  BY <1>2, <1>3
<1>5. ASSUME p[d].name \in p[c].dependsOn  PROVE j < i
  <2>1. p[c].dependsOn \subseteq DoneBefore(p, w, i)
    BY DEF WavesOK, Ready
  <2>2. PICK e \in PlacedBefore(w, i) : p[e].name = p[d].name
    BY <1>5, <2>1 DEF DoneBefore, Names
  <2>3. PICK k \in 1 .. i - 1 : e \in w[k]
    BY <2>2 DEF PlacedBefore
  <2>4. k \in DOMAIN w /\ k < i
    BY <1>1, <2>3
  <2>5. k = j
    <3>1. k < j \/ j < k \/ k = j
      BY <1>1, <2>4
    <3> QED
      BY <1>2, <2>2, <2>3, <2>4, <3>1
  <2> QED
    BY <2>4, <2>5
<1> QED
  BY <1>4, <1>5

LEMMA PlacedIs ==
    ASSUME NEW S, waves \in Seq(S)
    PROVE  Placed = PlacedBefore(waves, Len(waves) + 1)
<1>1. DOMAIN waves = 1 .. (Len(waves) + 1) - 1
  OBVIOUS
<1> QED
  BY <1>1 DEF Placed, PlacedBefore

\* Every chunk of the wave that is waited for is among those placed.
LEMMA CurrentIs ==
    ASSUME TypeOK, Layered, phase = "running"
    PROVE  /\ wave \in Nat /\ Len(waves) \in Nat /\ wave <= Len(waves)
           /\ DOMAIN waves = 1 .. Len(waves)
           /\ wave # 0 => wave \in DOMAIN waves /\ Current = waves[wave]
           /\ wave = 0 => Current = {}
           /\ Current \subseteq chunks
<1>1. waves \in Seq(SUBSET chunks)
  BY DEF Layered, Active, Built, WavesOK
<1>2. wave \in Nat /\ Len(waves) \in Nat /\ wave <= Len(waves) /\ DOMAIN waves = 1 .. Len(waves)
  BY <1>1 DEF TypeOK
<1>3. wave # 0 => wave \in DOMAIN waves /\ Current = waves[wave]
  BY <1>2 DEF Current
<1> QED
  BY <1>1, <1>2, <1>3 DEF Current

-----------------------------------------------------------------------------
(***************************************************************************)
(* The invariant holds at the start, and the steps of main() before the    *)
(* waves keep it.                                                          *)
(***************************************************************************)

\* What a start leaves in memory.
Clean ==
    /\ phase = "checking" /\ plan = <<>> /\ chunks = {} /\ waves = <<>> /\ wave = 0
    /\ job = <<>> /\ results = <<>> /\ summary = <<>> /\ wrote = Nothing

LEMMA FreshInv ==
    Clean => Placed = {} /\ Layered /\ Started /\ Resulted /\ Summed /\ Parsed
<1> SUFFICES ASSUME Clean
             PROVE  Placed = {} /\ Layered /\ Started /\ Resulted /\ Summed /\ Parsed
  OBVIOUS
<1> USE DEF Clean
<1>1. DOMAIN waves = {} /\ DOMAIN job = {} /\ DOMAIN summary = {} /\ DOMAIN results = {}
  OBVIOUS
<1>2. Layered
  BY DEF Layered, Blank, Early, Active
<1>3. Started
  BY <1>1 DEF Started
<1>4. Resulted
  BY <1>1 DEF Resulted, Active
<1>5. Summed
  BY <1>1 DEF Summed
<1>6. Placed = {}
  BY <1>1 DEF Placed
<1> QED
  BY <1>2, <1>3, <1>4, <1>5, <1>6 DEF Parsed

LEMMA InitInv == Init => OrchInv
<1> SUFFICES ASSUME Init  PROVE OrchInv
  OBVIOUS
<1>1. Placed = {} /\ Layered /\ Started /\ Resulted /\ Summed /\ Parsed
  BY FreshInv DEF Init, Clean
<1>2. MaxRuns \in Nat \ {0}
  BY ParametersAssumption
<1>3. TypeOK
  BY <1>1, <1>2 DEF Init, TypeOK, Phases
<1>4. Reported
  BY DEF Init, Reported
<1> QED
  BY <1>1, <1>3, <1>4 DEF OrchInv

LEMMA RestartKeeps ==
    ASSUME OrchInv, NEW list \in PeerLists, Restart(list)
    PROVE  OrchInv'
<1>1. (Placed = {} /\ Layered /\ Started /\ Resulted /\ Summed /\ Parsed)'
  <2>1. Clean'
    BY DEF Restart, Fresh, Clean, Nothing
  <2> QED
    BY <2>1, FreshInv, PTL
<1>2. MaxRuns \in Nat \ {0} /\ run \in 1 .. MaxRuns /\ run < MaxRuns /\ run' = run + 1
  BY ParametersAssumption DEF OrchInv, TypeOK, Restart
<1>3. TypeOK'
  <2>1. disk \in [Files -> 0 .. run] /\ report.run \in 0 .. run
    BY DEF OrchInv, TypeOK
  <2>2. disk' \in [Files -> 0 .. run'] /\ report'.run \in 0 .. run'
    BY <1>2, <2>1 DEF Restart, stored
  <2>3. saved' \in Plans \cup {<<>>}
    BY DEF OrchInv, TypeOK, Restart, stored
  <2>4. run' \in 1 .. MaxRuns
    BY <1>2
  <2>5. at' \in Nat /\ phase' \in Phases
    BY DEF Restart, Fresh, Phases
  <2>6. /\ plan' = <<>> /\ chunks' = {} /\ waves' = <<>> /\ wave' = 0 /\ job' = <<>>
        /\ results' = <<>> /\ summary' = <<>>
    BY DEF Restart, Fresh
  <2> QED
    BY <1>1, <2>2, <2>3, <2>4, <2>5, <2>6 DEF TypeOK
<1>4. Reported'
  BY DEF OrchInv, Reported, Restart, Fresh, stored
<1> QED
  BY <1>1, <1>3, <1>4 DEF OrchInv

LEMMA CheckPeerKeeps ==
    ASSUME OrchInv, CheckPeer
    PROVE  OrchInv'
<1>1. UNCHANGED <<run, phase, plan, chunks, waves, wave, job, results, summary, stored, wrote>>
      /\ at' \in Nat
  BY DEF CheckPeer, OrchInv, TypeOK
<1>2. Placed' = Placed
  BY <1>1 DEF Placed
<1>3. TypeOK'
  BY <1>1, <1>2 DEF OrchInv, TypeOK, stored
<1>4. Layered'
  BY <1>1 DEF OrchInv, Layered, Built, Blank
<1>5. Started'
  BY <1>1, <1>2 DEF OrchInv, Started
<1>6. Resulted'
  BY <1>1 DEF OrchInv, Resulted, Over, Outcome
<1>7. Summed'
  BY <1>1 DEF OrchInv, Summed, stored, Tells, Entry
<1>8. Reported' /\ Parsed'
  BY <1>1 DEF OrchInv, Reported, Parsed, stored
<1> QED
  BY <1>3, <1>4, <1>5, <1>6, <1>7, <1>8 DEF OrchInv

LEMMA ResolveKeeps ==
    ASSUME OrchInv, Resolve
    PROVE  OrchInv'
<1>1. /\ phase = "checking" /\ phase' \in {"planned", "down"} /\ chunks = {}
      /\ Blank /\ plan = <<>>
      /\ UNCHANGED <<run, peers, at, chunks, waves, wave, job, results, summary, disk,
                     report, wrote>>
  BY DEF Resolve, OrchInv, Layered, Early
<1>2. /\ waves = <<>> /\ wave = 0 /\ job = <<>> /\ results = <<>> /\ summary = <<>>
      /\ Blank'
  BY <1>1 DEF Blank
<1>3. Placed' = {} /\ Placed = {}
  BY <1>1, <1>2 DEF Placed
<1>4. plan' \in Plans \cup {<<>>} /\ saved' \in Plans \cup {<<>>}
  BY DEF Resolve, OrchInv, TypeOK
<1>5. TypeOK'
  BY <1>1, <1>2, <1>3, <1>4 DEF OrchInv, TypeOK, Phases, Ended
<1>6. Layered'
  BY <1>1, <1>2 DEF Layered, Early, Active
<1>7. Started'
  BY <1>1, <1>2 DEF Started
<1>8. Resulted'
  BY <1>1, <1>2 DEF Resulted, Active
<1>9. Summed'
  BY <1>1, <1>2 DEF Summed
<1>10. Reported' /\ Parsed'
  BY <1>1 DEF OrchInv, Reported, Parsed
<1> QED
  BY <1>5, <1>6, <1>7, <1>8, <1>9, <1>10 DEF OrchInv

LEMMA CrashKeeps ==
    ASSUME OrchInv, Crash
    PROVE  OrchInv'
<1>1. UNCHANGED <<run, coordinator, stored, wrote>> /\ phase' = "down"
  BY DEF Crash
<1>2. Placed' = Placed
  BY <1>1 DEF Placed, coordinator
<1>3. TypeOK'
  BY <1>1, <1>2 DEF OrchInv, TypeOK, stored, coordinator, Phases, Ended
<1>4. Layered'
  BY <1>1 DEF OrchInv, Layered, Built, Blank, coordinator, Early, Active
<1>5. Started'
  BY <1>1, <1>2 DEF OrchInv, Started, coordinator
<1>6. Resulted'
  BY <1>1 DEF OrchInv, Resulted, coordinator, Active
<1>7. Summed'
  BY <1>1 DEF OrchInv, Summed, stored, Tells, Entry, coordinator
<1>8. Reported' /\ Parsed'
  BY <1>1 DEF OrchInv, Reported, Parsed, stored
<1> QED
  BY <1>3, <1>4, <1>5, <1>6, <1>7, <1>8 DEF OrchInv

LEMMA PlanWavesKeeps ==
    ASSUME OrchInv, NEW only, PlanWaves(only)
    PROVE  OrchInv'
<1>1. /\ phase = "planned" /\ phase' \in {"rejected", "running"}
      /\ chunks' = Chosen(only) /\ Blank
      /\ UNCHANGED <<run, peers, at, plan, wave, results, summary, stored, wrote>>
  BY DEF PlanWaves, OrchInv, Layered, Early
<1>2. waves = <<>> /\ wave = 0 /\ job = <<>> /\ results = <<>> /\ summary = <<>>
  BY <1>1 DEF Blank
<1>3. chunks' \subseteq DOMAIN plan /\ IsFiniteSet(chunks')
  <2>1. chunks' \subseteq DOMAIN plan
    BY <1>1 DEF Chosen
  <2> QED
    BY <2>1, PlanIsSeq, FS_Subset DEF OrchInv
<1> DEFINE built == Waves(plan, chunks')
<1>4. \/ /\ phase' = "rejected" /\ UNCHANGED <<waves, job>>
      \/ /\ phase' = "running" /\ waves' = built.waves /\ built.left = {}
         /\ job' = [c \in DOMAIN plan |-> "none"]
  BY <1>1 DEF PlanWaves, Planned
<1>5. CASE phase' = "running"
  <2>1. /\ waves' = built.waves /\ built.left = {}
        /\ job' = [c \in DOMAIN plan |-> "none"]
    BY <1>4, <1>5
  <2>2. /\ WavesOK(plan, chunks', waves')
        /\ LeftBefore(plan, chunks', waves', Len(waves') + 1) = {}
    BY <1>3, <2>1, WavesAre
  <2>3. Built'
    BY <1>1, <2>1, <2>2 DEF Built
  <2>4. Layered'
    BY <1>1, <1>5, <2>3 DEF Layered, Early, Active
  <2>5. waves' \in Seq(SUBSET chunks')
    BY <2>2 DEF WavesOK
  <2>6. Placed' \subseteq chunks' /\ Len(waves') \in Nat
    BY <2>5 DEF Placed
  <2>7. TypeOK'
    <3>1. /\ run' \in 1 .. MaxRuns /\ phase' \in Phases /\ at' \in Nat
          /\ plan' \in Plans \cup {<<>>} /\ saved' \in Plans \cup {<<>>}
          /\ disk' \in [Files -> 0 .. run'] /\ report'.run \in 0 .. run'
      BY <1>1, <1>5 DEF OrchInv, TypeOK, stored, Phases
    <3>2. chunks' \subseteq DOMAIN plan' /\ wave' \in 0 .. Len(waves')
      BY <1>1, <1>2, <1>3, <2>6
    <3>3. job' \in [DOMAIN job' -> {"none", "remote", "local"} \cup Settled]
      BY <2>1
    <3>4. DOMAIN results' = {} /\ Len(summary') <= Len(results')
      BY <1>1, <1>2
    <3> QED
      BY <2>6, <3>1, <3>2, <3>3, <3>4 DEF TypeOK
  <2>8. Started'
    <3>1. wave' = 0 /\ \A c \in DOMAIN job' : job'[c] = "none"
      BY <1>1, <1>2, <2>1
    <3> QED
      BY <1>5, <3>1 DEF Started
  <2>9. Resulted'
    <3>1. results' = <<>> /\ wave' = 0
      BY <1>1, <1>2
    <3>2. Over' = {}
      BY <1>5, <3>1 DEF Over, PlacedBefore
    <3>3. Cardinality({}) = 0
      BY FS_EmptySet
    <3> QED
      BY <3>1, <3>2, <3>3 DEF Resulted
  <2>10. Summed'
    BY <1>1, <1>2, <1>5 DEF Summed
  <2>11. Reported' /\ Parsed'
    BY <1>1, <1>5 DEF OrchInv, Reported, Parsed, stored
  <2> QED
    BY <2>4, <2>7, <2>8, <2>9, <2>10, <2>11 DEF OrchInv
<1>6. CASE phase' = "rejected"
  <2>1. UNCHANGED <<waves, job>>
    BY <1>4, <1>6
  <2>2. Placed' = {} /\ DOMAIN job' = {}
    BY <1>2, <2>1 DEF Placed
  <2>3. TypeOK'
    <3>1. /\ run' \in 1 .. MaxRuns /\ phase' \in Phases /\ at' \in Nat
          /\ plan' \in Plans \cup {<<>>} /\ saved' \in Plans \cup {<<>>}
          /\ disk' \in [Files -> 0 .. run'] /\ report'.run \in 0 .. run'
      BY <1>1, <1>6 DEF OrchInv, TypeOK, stored, Phases, Ended
    <3>2. /\ chunks' \subseteq DOMAIN plan' /\ wave' = 0 /\ waves' = <<>> /\ job' = <<>>
          /\ results' = <<>> /\ summary' = <<>>
      BY <1>1, <1>2, <1>3, <2>1
    <3> QED
      BY <2>2, <3>1, <3>2 DEF TypeOK
  <2>4. Layered'
    BY <1>1, <1>6, <2>1 DEF Layered, Early, Active, Blank
  <2>5. Started'
    BY <1>1, <1>2, <1>6, <2>2 DEF Started
  <2>6. Resulted'
    BY <1>1, <1>2, <1>6 DEF Resulted, Active
  <2>7. Summed'
    BY <1>1, <1>2, <1>6 DEF Summed
  <2>8. Reported' /\ Parsed'
    BY <1>1, <1>6 DEF OrchInv, Reported, Parsed, stored
  <2> QED
    BY <2>3, <2>4, <2>5, <2>6, <2>7, <2>8 DEF OrchInv
<1> QED
  BY <1>1, <1>5, <1>6

-----------------------------------------------------------------------------
(***************************************************************************)
(* Builds.                                                                 *)
(***************************************************************************)

\* What has a result has settled.
LEMMA OverSettled ==
    ASSUME OrchInv, phase \in Active
    PROVE  /\ \A c \in Over : c \in DOMAIN job /\ job[c] \in Settled
           /\ phase \in {"writing", "done"} => Over = Placed
<1>1. /\ waves \in Seq(SUBSET chunks) /\ Len(waves) \in Nat /\ DOMAIN waves = 1 .. Len(waves)
      /\ DOMAIN job = DOMAIN plan /\ chunks \subseteq DOMAIN plan
      /\ wave \in 0 .. Len(waves)
  BY DEF OrchInv, TypeOK, Layered, Built, WavesOK
<1>2. CASE phase = "running"
  <2>1. Over = PlacedBefore(waves, wave)
    BY <1>2 DEF Over
  <2>2. ASSUME NEW c \in Over  PROVE c \in DOMAIN job /\ job[c] \in Settled
    <3>1. PICK j \in 1 .. wave - 1 : c \in waves[j]
      BY <2>1, <2>2 DEF PlacedBefore
    <3>2. j \in DOMAIN waves
      BY <1>1, <3>1
    <3>3. waves[j] \subseteq chunks
      BY <1>1, <3>2
    <3>4. job[c] \in Settled
      BY <3>1 DEF OrchInv, Started
    <3> QED
      BY <1>1, <3>1, <3>3, <3>4
  <2> QED
    BY <1>2, <2>2
<1>3. CASE phase \in {"writing", "done"}
  <2>1. wave = Len(waves) /\ \A c \in Placed : job[c] \in Settled
    BY <1>3 DEF OrchInv, Started
  <2>2. Over = PlacedBefore(waves, Len(waves) + 1)
    BY <1>3, <2>1 DEF Over
  <2>3. Over = Placed
    BY <1>1, <2>2, PlacedIs
  <2>4. Placed \subseteq chunks
    BY DEF OrchInv, TypeOK
  <2> QED
    BY <1>1, <2>1, <2>3, <2>4
<1> QED
  BY <1>2, <1>3 DEF Active

LEMMA BecomesKeeps ==
    ASSUME OrchInv, NEW c \in DOMAIN job, NEW state \in {"local"} \cup Settled,
           job[c] \in {"remote", "local"}, Becomes(c, state)
    PROVE  OrchInv'
<1>1. /\ UNCHANGED <<run, phase, peers, at, plan, chunks, waves, wave, results, summary,
                     stored, wrote>>
      /\ job' = [job EXCEPT ![c] = state]
  BY DEF Becomes
<1>2. /\ DOMAIN job' = DOMAIN job
      /\ \A d \in DOMAIN job : job'[d] = IF d = c THEN state ELSE job[d]
  BY <1>1
<1>3. \A d \in DOMAIN job : job[d] \in Settled => job'[d] = job[d]
  BY <1>2 DEF Settled
<1>4. Placed' = Placed
  BY <1>1 DEF Placed
<1>5. job \in [DOMAIN job -> {"none", "remote", "local"} \cup Settled]
  BY DEF OrchInv, TypeOK
<1>6. job' \in [DOMAIN job' -> {"none", "remote", "local"} \cup Settled]
  BY <1>1, <1>5
<1>7. TypeOK'
  BY <1>1, <1>4, <1>6 DEF OrchInv, TypeOK, stored
<1>8. Layered'
  <2>1. ~ Blank
    BY DEF Blank
  <2>2. Built /\ phase \notin Early
    BY <2>1 DEF OrchInv, Layered
  <2>3. Built'
    BY <1>1, <1>2, <2>2 DEF Built
  <2> QED
    BY <1>1, <2>2, <2>3 DEF Layered, Early
<1>9. \A j \in 1 .. wave : waves[j] \subseteq DOMAIN job
  <2>1. Built
    BY DEF OrchInv, Layered, Blank
  <2>2. /\ waves \in Seq(SUBSET chunks) /\ DOMAIN job = DOMAIN plan
        /\ chunks \subseteq DOMAIN plan /\ wave \in 0 .. Len(waves)
    BY <2>1 DEF OrchInv, TypeOK, Built, WavesOK
  <2>3. 1 .. wave \subseteq DOMAIN waves
    BY <2>2
  <2> QED
    BY <2>2, <2>3
<1>10. Started'
  <2>1. \A d \in DOMAIN job' : job'[d] # "none" => \E j \in 1 .. wave' : d \in waves'[j]
    BY <1>1, <1>2 DEF OrchInv, Started
  <2>2. ASSUME NEW j \in 1 .. wave' - 1, NEW d \in waves'[j]  PROVE job'[d] \in Settled
    <3>1. wave \in Nat /\ j \in 1 .. wave - 1 /\ j \in 1 .. wave
      BY <1>1, <2>2 DEF OrchInv, TypeOK
    <3>2. d \in DOMAIN job /\ job[d] \in Settled
      BY <1>1, <1>9, <2>2, <3>1 DEF OrchInv, Started
    <3> QED
      BY <1>3, <3>2
  <2>3. ASSUME phase' \in {"writing", "done"}
        PROVE  wave' = Len(waves') /\ \A d \in Placed' : job'[d] \in Settled
    <3>1. wave = Len(waves) /\ \A d \in Placed : job[d] \in Settled
      BY <1>1, <2>3 DEF OrchInv, Started
    <3>2. \A d \in Placed : d \in DOMAIN job
      BY <1>1, <2>3, OverSettled DEF Active
    <3> QED
      BY <1>1, <1>3, <1>4, <3>1, <3>2
  <2> QED
    BY <2>1, <2>2, <2>3 DEF Started
<1>11. Resulted'
  <2>1. Over' = Over
    BY <1>1 DEF Over
  <2>2. ASSUME phase \in Active  PROVE \A d \in Over : Outcome(d)' = Outcome(d)
    BY <1>3, <2>2, OverSettled DEF Outcome
  <2>3. results \in Seq([chunk : DOMAIN plan, ok : BOOLEAN])
    BY DEF OrchInv, Resulted
  <2>4. ASSUME phase \in Active
        PROVE  /\ Len(results) = Cardinality(Over)
               /\ \A i \in DOMAIN results :
                     results[i].chunk \in Over /\ results[i] = Outcome(results[i].chunk)
               /\ \A d \in Over : \E i \in DOMAIN results : results[i].chunk = d
    BY <2>4 DEF OrchInv, Resulted
  <2>5. ASSUME phase \in Active, NEW i \in DOMAIN results
        PROVE  results[i] = [chunk |-> results[i].chunk, ok |-> job'[results[i].chunk] = "ok"]
    BY <2>2, <2>4, <2>5 DEF Outcome
  <2> QED
    BY <1>1, <2>1, <2>3, <2>4, <2>5 DEF Resulted, Outcome
<1>12. Summed'
  BY <1>1 DEF OrchInv, Summed, stored, Tells, Entry
<1>13. Reported' /\ Parsed'
  BY <1>1 DEF OrchInv, Reported, Parsed, stored
<1> QED
  BY <1>7, <1>8, <1>10, <1>11, <1>12, <1>13 DEF OrchInv

\* The results that a wave adds are the outcomes of its chunks, each one once.
LEMMA WaveResultsAre ==
    ASSUME TypeOK, Layered, phase = "running"
    PROVE  /\ WaveResults \in Seq([chunk : DOMAIN plan, ok : BOOLEAN])
           /\ Len(WaveResults) = Cardinality(Current)
           /\ \A i \in 1 .. Len(WaveResults) :
                 /\ WaveResults[i].chunk \in Current
                 /\ WaveResults[i] = Outcome(WaveResults[i].chunk)
           /\ \A c \in Current : \E i \in 1 .. Len(WaveResults) : WaveResults[i].chunk = c
<1> DEFINE order == InOrder(Current)
<1>1. Current \in SUBSET Nat /\ IsFiniteSet(Current)
  BY CurrentIs, PlanIsSeq, FS_Subset
<1>2. /\ order \in Seq(Current) /\ Len(order) = Cardinality(Current)
      /\ \A x \in Current : \E i \in 1 .. Cardinality(Current) : order[i] = x
  BY <1>1, InOrderIs
<1>3. WaveResults = [i \in 1 .. Len(order) |-> [chunk |-> order[i], ok |-> job[order[i]] = "ok"]]
  BY DEF WaveResults
<1> HIDE DEF order
<1>4. /\ Len(order) \in Nat
      /\ \A i \in 1 .. Len(order) : order[i] \in Current /\ order[i] \in DOMAIN plan
  <2>1. Current \subseteq DOMAIN plan
    BY CurrentIs DEF TypeOK
  <2> QED
    BY <1>2, <2>1
<1>5. WaveResults \in [1 .. Len(order) -> [chunk : DOMAIN plan, ok : BOOLEAN]]
  BY <1>3, <1>4
<1>6. WaveResults \in Seq([chunk : DOMAIN plan, ok : BOOLEAN]) /\ Len(WaveResults) = Len(order)
  <2> DEFINE S == [chunk : DOMAIN plan, ok : BOOLEAN]
  <2>1. WaveResults \in [1 .. Len(order) -> S] /\ Len(order) \in Nat
    BY <1>4, <1>5
  <2> HIDE DEF S
  <2>2. WaveResults \in Seq(S) /\ Len(WaveResults) = Len(order)
    BY <2>1
  <2> QED
    BY <2>2 DEF S
<1>7. \A i \in 1 .. Len(order) :
         WaveResults[i].chunk = order[i] /\ WaveResults[i] = Outcome(order[i])
  BY <1>3 DEF Outcome
<1> QED
  BY <1>2, <1>4, <1>6, <1>7

\* The wave that is over adds its chunks to those that have a result.
LEMMA OverNext ==
    ASSUME TypeOK, Layered, phase = "running"
    PROVE  LET before == PlacedBefore(waves, wave)
               all    == PlacedBefore(waves, wave + 1) IN
           /\ all = before \cup Current
           /\ Cardinality(all) = Cardinality(before) + Cardinality(Current)
           /\ \A j \in DOMAIN waves : j > wave => waves[j] \cap all = {}
<1>1. /\ wave \in Nat /\ Len(waves) \in Nat /\ wave <= Len(waves)
      /\ DOMAIN waves = 1 .. Len(waves)
      /\ wave # 0 => wave \in DOMAIN waves /\ Current = waves[wave]
      /\ wave = 0 => Current = {}
      /\ Current \subseteq chunks
  BY CurrentIs
<1>2. WavesOK(plan, chunks, waves) /\ waves \in Seq(SUBSET chunks)
  BY DEF Layered, Built, Active, WavesOK
<1>3. \A i, j \in DOMAIN waves : i # j => waves[i] \cap waves[j] = {}
  BY <1>2, WavesOrder
<1> DEFINE before == PlacedBefore(waves, wave)
           all    == PlacedBefore(waves, wave + 1)
<1>4. \A x : x \in before <=> \E i \in 1 .. wave - 1 : x \in waves[i]
  BY DEF PlacedBefore
<1>5. \A x : x \in all <=> \E i \in 1 .. wave : x \in waves[i]
  <2>1. (wave + 1) - 1 = wave
    BY <1>1
  <2> QED
    BY <2>1 DEF PlacedBefore
<1>6. /\ \A i \in 1 .. wave - 1 : i \in DOMAIN waves /\ i # wave /\ i \in 1 .. wave
      /\ \A i \in 1 .. wave : i \in DOMAIN waves /\ (i = wave \/ i \in 1 .. wave - 1)
      /\ wave # 0 => wave \in 1 .. wave
      /\ wave = 0 => 1 .. wave = {}
  BY <1>1
<1> HIDE DEF before, all
<1>7. all = before \cup Current
  <2>1. ASSUME NEW x  PROVE x \in all <=> x \in before \/ x \in Current
    BY <1>1, <1>4, <1>5, <1>6
  <2> QED
    BY <2>1
<1>8. before \cap Current = {}
  BY <1>1, <1>3, <1>4, <1>6
<1>9. before \subseteq chunks
  BY <1>2, <1>4, <1>6
<1>10. IsFiniteSet(before) /\ IsFiniteSet(Current)
  BY <1>1, <1>9, PlanIsSeq, FS_Subset
<1>11. Cardinality(all) = Cardinality(before) + Cardinality(Current)
  <2>1. Cardinality(before \cup Current) =
           Cardinality(before) + Cardinality(Current) - Cardinality(before \cap Current)
    BY <1>10, FS_Union
  <2>2. Cardinality(before \cap Current) = 0
    BY <1>8, FS_EmptySet
  <2>3. Cardinality(before) \in Nat /\ Cardinality(Current) \in Nat
    BY <1>10, FS_CardinalityType
  <2> QED
    BY <1>7, <2>1, <2>2, <2>3
<1>12. \A j \in DOMAIN waves : j > wave => waves[j] \cap all = {}
  <2>1. ASSUME NEW j \in DOMAIN waves, j > wave, NEW i \in 1 .. wave
        PROVE  waves[j] \cap waves[i] = {}
    <3>1. i \in DOMAIN waves /\ i # j
      BY <1>1, <2>1
    <3> QED
      BY <1>3, <3>1
  <2> QED
    BY <1>5, <2>1
<1> QED
  BY <1>7, <1>11, <1>12 DEF before, all

\* The elements of one sequence behind another.
Joins(rw, r, w) ==
    /\ \A i \in 1 .. Len(rw) : \/ \E k \in 1 .. Len(r) : rw[i] = r[k]
                              \/ \E k \in 1 .. Len(w) : rw[i] = w[k]
    /\ \A k \in 1 .. Len(r) : \E i \in 1 .. Len(rw) : rw[i] = r[k]
    /\ \A k \in 1 .. Len(w) : \E i \in 1 .. Len(rw) : rw[i] = w[k]

LEMMA ConcatElements ==
    ASSUME NEW S, NEW r \in Seq(S), NEW w \in Seq(S)
    PROVE  /\ r \o w \in Seq(S) /\ Len(r \o w) = Len(r) + Len(w)
           /\ Joins(r \o w, r, w)
<1> DEFINE rw == r \o w
<1>1. /\ rw \in Seq(S) /\ Len(rw) = Len(r) + Len(w)
      /\ \A i \in 1 .. Len(rw) : rw[i] = IF i <= Len(r) THEN r[i] ELSE w[i - Len(r)]
  BY ConcatProperties
<1>2. Len(r) \in Nat /\ Len(w) \in Nat
  OBVIOUS
<1> HIDE DEF rw
<1>3. ASSUME NEW i \in 1 .. Len(rw)
      PROVE  \/ \E k \in 1 .. Len(r) : rw[i] = r[k]
             \/ \E k \in 1 .. Len(w) : rw[i] = w[k]
  <2>1. CASE i <= Len(r)
    <3>1. i \in 1 .. Len(r) /\ rw[i] = r[i]
      BY <1>1, <1>2, <2>1
    <3> QED
      BY <3>1
  <2>2. CASE ~ (i <= Len(r))
    <3>1. i - Len(r) \in 1 .. Len(w) /\ rw[i] = w[i - Len(r)]
      BY <1>1, <1>2, <2>2
    <3> QED
      BY <3>1
  <2> QED
    BY <2>1, <2>2
<1>4. ASSUME NEW k \in 1 .. Len(r)  PROVE \E i \in 1 .. Len(rw) : rw[i] = r[k]
  <2>1. k \in 1 .. Len(rw) /\ k <= Len(r)
    BY <1>1, <1>2
  <2> QED
    BY <1>1, <2>1
<1>5. ASSUME NEW k \in 1 .. Len(w)  PROVE \E i \in 1 .. Len(rw) : rw[i] = w[k]
  <2>1. k + Len(r) \in 1 .. Len(rw) /\ ~ (k + Len(r) <= Len(r)) /\ (k + Len(r)) - Len(r) = k
    BY <1>1, <1>2
  <2> QED
    BY <1>1, <2>1
<1> QED
  BY <1>1, <1>3, <1>4, <1>5 DEF Joins, rw

LEMMA NextWaveKeeps ==
    ASSUME OrchInv, NextWave
    PROVE  OrchInv'
<1>1. /\ phase = "running" /\ WaveOver
      /\ results' = results \o WaveResults
      /\ UNCHANGED <<run, peers, at, plan, chunks, waves, summary, stored, wrote>>
      /\ \/ wave = Len(waves) /\ phase' = "writing" /\ UNCHANGED <<wave, job>>
         \/ /\ wave # Len(waves) /\ wave' = wave + 1 /\ UNCHANGED phase
            /\ job' = [c \in DOMAIN job |->
                         IF c \notin waves[wave'] THEN job[c]
                         ELSE IF peers = <<>> THEN "local" ELSE "remote"]
  BY DEF NextWave
<1>2. TypeOK /\ Layered /\ Started /\ Resulted /\ Built
  BY <1>1 DEF OrchInv, Layered, Active
<1>3. /\ wave \in Nat /\ Len(waves) \in Nat /\ wave <= Len(waves)
      /\ DOMAIN waves = 1 .. Len(waves)
      /\ wave # 0 => wave \in DOMAIN waves /\ Current = waves[wave]
      /\ wave = 0 => Current = {}
  BY <1>1, <1>2, CurrentIs
<1>4. /\ waves \in Seq(SUBSET chunks) /\ DOMAIN job = DOMAIN plan /\ chunks \subseteq DOMAIN plan
  BY <1>2 DEF Built, WavesOK, TypeOK
<1>5. \A c \in Current : job[c] \in Settled
  BY <1>1 DEF WaveOver
<1>6. \A j \in 1 .. wave : \A c \in waves[j] : c \in DOMAIN job /\ job[c] \in Settled
  <2>1. ASSUME NEW j \in 1 .. wave, NEW c \in waves[j]
        PROVE  c \in DOMAIN job /\ job[c] \in Settled
    <3>1. j \in DOMAIN waves /\ (j = wave \/ j \in 1 .. wave - 1) /\ wave # 0
      BY <1>3, <2>1
    <3>2. c \in DOMAIN job
      BY <1>4, <2>1, <3>1
    <3>3. job[c] \in Settled
      BY <1>2, <1>3, <1>5, <2>1, <3>1 DEF Started
    <3> QED
      BY <3>2, <3>3
  <2> QED
    BY <2>1
<1> DEFINE before == PlacedBefore(waves, wave)
           all    == PlacedBefore(waves, wave + 1)
<1>7. /\ all = before \cup Current
      /\ Cardinality(all) = Cardinality(before) + Cardinality(Current)
      /\ \A j \in DOMAIN waves : j > wave => waves[j] \cap all = {}
  BY <1>1, <1>2, OverNext
<1>8. Over = before /\ Over' = all
  <2>1. Over = before
    BY <1>1 DEF Over
  <2>2. CASE phase' = "writing"
    BY <1>1, <2>1, <2>2 DEF Over
  <2>3. CASE phase' = "running"
    BY <1>1, <2>1, <2>3 DEF Over
  <2> QED
    BY <1>1, <2>1, <2>2, <2>3
<1>9. \A c \in all : \E j \in 1 .. wave : c \in waves[j]
  BY <1>3 DEF PlacedBefore
<1> HIDE DEF before, all
<1>10. DOMAIN job' = DOMAIN job
  BY <1>1
<1>11. \A c \in all : job'[c] = job[c]
  <2>1. ASSUME NEW c \in all, wave # Len(waves)  PROVE job'[c] = job[c]
    <3>1. wave' \in DOMAIN waves /\ wave' > wave
      BY <1>1, <1>3, <2>1
    <3>2. c \notin waves[wave'] /\ c \in DOMAIN job
      BY <1>6, <1>7, <1>9, <2>1, <3>1
    <3> QED
      BY <1>1, <2>1, <3>2
  <2> QED
    BY <1>1, <2>1
<1>12. /\ WaveResults \in Seq([chunk : DOMAIN plan, ok : BOOLEAN])
       /\ Len(WaveResults) = Cardinality(Current)
       /\ \A i \in 1 .. Len(WaveResults) :
             WaveResults[i].chunk \in Current /\ WaveResults[i] = Outcome(WaveResults[i].chunk)
       /\ \A c \in Current : \E i \in 1 .. Len(WaveResults) : WaveResults[i].chunk = c
  BY <1>1, <1>2, WaveResultsAre
<1> DEFINE Rec == [chunk : DOMAIN plan, ok : BOOLEAN]
<1>13. results \in Seq(Rec) /\ WaveResults \in Seq(Rec)
  BY <1>2, <1>12 DEF Resulted
<1> HIDE DEF Rec
<1>14. /\ results' \in Seq(Rec) /\ Len(results') = Len(results) + Len(WaveResults)
       /\ DOMAIN results = 1 .. Len(results) /\ DOMAIN results' = 1 .. Len(results')
       /\ Len(results) \in Nat /\ Len(WaveResults) \in Nat
  BY <1>1, <1>13, ConcatElements
<1>15. Joins(results', results, WaveResults)
  BY <1>1, <1>13, ConcatElements
<1>16. \A i \in 1 .. Len(results') : \/ \E k \in 1 .. Len(results) : results'[i] = results[k]
                                     \/ \E k \in 1 .. Len(WaveResults) : results'[i] = WaveResults[k]
  BY <1>15 DEF Joins
<1>17. /\ Len(results) = Cardinality(before)
       /\ \A i \in 1 .. Len(results) :
             results[i].chunk \in before /\ results[i] = Outcome(results[i].chunk)
       /\ \A c \in before : \E i \in 1 .. Len(results) : results[i].chunk = c
  BY <1>1, <1>2, <1>8, <1>14 DEF Resulted, Active
<1>18. \A i \in 1 .. Len(results') :
          results'[i].chunk \in all /\ results'[i] = Outcome(results'[i].chunk)
  <2> TAKE i \in 1 .. Len(results')
  <2>1. CASE \E k \in 1 .. Len(results) : results'[i] = results[k]
    <3>1. PICK k \in 1 .. Len(results) : results'[i] = results[k]
      BY <2>1
    <3>2. results[k].chunk \in before /\ results[k] = Outcome(results[k].chunk)
      BY <1>17
    <3> QED
      BY <1>7, <3>1, <3>2
  <2>2. CASE \E k \in 1 .. Len(WaveResults) : results'[i] = WaveResults[k]
    <3>1. PICK k \in 1 .. Len(WaveResults) : results'[i] = WaveResults[k]
      BY <2>2
    <3>2. WaveResults[k].chunk \in Current /\ WaveResults[k] = Outcome(WaveResults[k].chunk)
      BY <1>12
    <3> QED
      BY <1>7, <3>1, <3>2
  <2> QED
    BY <1>16, <2>1, <2>2
<1>19. Resulted'
  <2>1. Len(results') = Cardinality(all)
    BY <1>7, <1>12, <1>14, <1>17
  <2>3. ASSUME NEW c \in all
        PROVE  \E i \in 1 .. Len(results') : results'[i].chunk = c
    <3>1. CASE c \in before
      <4>1. PICK k \in 1 .. Len(results) : results[k].chunk = c
        BY <1>17, <3>1
      <4> QED
        BY <1>15, <4>1 DEF Joins
    <3>2. CASE c \in Current
      <4>1. PICK k \in 1 .. Len(WaveResults) : WaveResults[k].chunk = c
        BY <1>12, <3>2
      <4> QED
        BY <1>15, <4>1 DEF Joins
    <3> QED
      BY <1>7, <2>3, <3>1, <3>2
  <2>4. \A c \in all : [chunk |-> c, ok |-> job'[c] = "ok"] = Outcome(c)
    BY <1>11 DEF Outcome
  <2>5. ASSUME NEW i \in 1 .. Len(results')
        PROVE  results'[i] = [chunk |-> results'[i].chunk, ok |-> job'[results'[i].chunk] = "ok"]
    BY <1>18, <2>4
  <2>6. results' \in Seq([chunk : DOMAIN plan', ok : BOOLEAN])
    BY <1>1, <1>14 DEF Rec
  <2> QED
    BY <1>8, <1>14, <1>18, <2>1, <2>3, <2>5, <2>6 DEF Resulted, Outcome
<1>20. Layered'
  <2>1. Built'
    BY <1>1, <1>2, <1>10 DEF Built
  <2>2. phase' \notin Early
    BY <1>1 DEF Early
  <2> QED
    BY <2>1, <2>2 DEF Layered, Early
<1>21. Started'
  <2>1. ASSUME NEW c \in DOMAIN job', job'[c] # "none"
        PROVE  \E j \in 1 .. wave' : c \in waves'[j]
    <3>1. CASE job[c] # "none"
      <4>1. PICK j \in 1 .. wave : c \in waves[j]
        BY <1>2, <1>10, <2>1, <3>1 DEF Started
      <4>2. j \in 1 .. wave'
        BY <1>1, <1>3
      <4> QED
        BY <1>1, <4>1, <4>2
    <3>2. CASE job[c] = "none"
      <4>1. wave # Len(waves) /\ c \in waves[wave'] /\ wave' = wave + 1
        BY <1>1, <1>10, <2>1, <3>2
      <4>2. wave \in Nat /\ wave' = wave + 1
        BY <1>3, <4>1
      <4>3. wave' \in 1 .. wave'
        BY <4>2
      <4> QED
        BY <1>1, <4>1, <4>3
    <3> QED
      BY <3>1, <3>2
  <2>2. \A j \in 1 .. wave : waves[j] \subseteq all
    <3>1. (wave + 1) - 1 = wave
      BY <1>3
    <3> QED
      BY <3>1 DEF all, PlacedBefore
  <2>3. \A j \in 1 .. wave : \A c \in waves[j] : job'[c] \in Settled
    BY <1>6, <1>11, <2>2
  <2>4. 1 .. wave' - 1 \subseteq 1 .. wave
    BY <1>1, <1>3
  <2>5. ASSUME phase' \in {"writing", "done"}
        PROVE  wave' = Len(waves') /\ \A c \in Placed' : job'[c] \in Settled
    <3>1. wave = Len(waves) /\ wave' = wave /\ waves' = waves
      BY <1>1, <2>5
    <3>2. \A c \in Placed' : \E j \in 1 .. wave : c \in waves[j]
      BY <1>3, <3>1 DEF Placed
    <3> QED
      BY <2>3, <3>1, <3>2
  <2> QED
    BY <1>1, <2>1, <2>3, <2>4, <2>5 DEF Started
<1>22. TypeOK'
  <2>1. Placed' = Placed
    BY <1>1 DEF Placed
  <2>2. /\ run' \in 1 .. MaxRuns /\ phase' \in Phases /\ at' \in Nat
        /\ plan' \in Plans \cup {<<>>} /\ saved' \in Plans \cup {<<>>}
        /\ chunks' \subseteq DOMAIN plan' /\ Placed' \subseteq chunks'
        /\ disk' \in [Files -> 0 .. run'] /\ report'.run \in 0 .. run'
    BY <1>1, <1>2, <2>1 DEF TypeOK, stored, Phases
  <2>3. wave' \in 0 .. Len(waves')
    BY <1>1, <1>3
  <2>4. job' \in [DOMAIN job' -> {"none", "remote", "local"} \cup Settled]
    <3>1. job \in [DOMAIN job -> {"none", "remote", "local"} \cup Settled]
      BY <1>2 DEF TypeOK
    <3> QED
      BY <1>1, <3>1
  <2>5. Len(summary') <= Len(results')
    <3>1. Len(summary) <= Len(results) /\ Len(summary) \in Nat /\ summary' = summary
      BY <1>1, <1>2 DEF TypeOK, OrchInv, Summed
    <3> QED
      BY <1>14, <3>1
  <2>6. all \subseteq Placed
    <3>1. \A j \in 1 .. wave : j \in DOMAIN waves
      BY <1>3
    <3> QED
      BY <1>9, <3>1 DEF Placed
  <2>7. {results'[i].chunk : i \in DOMAIN results'} \subseteq Placed'
    BY <1>14, <1>18, <2>1, <2>6
  <2> QED
    BY <2>2, <2>3, <2>4, <2>5, <2>7 DEF TypeOK
<1>23. Summed'
  BY <1>1 DEF OrchInv, Summed
<1>24. Reported' /\ Parsed'
  BY <1>1 DEF OrchInv, Reported, Parsed, stored
<1> QED
  BY <1>20, <1>21, <1>22, <1>23, <1>24, <1>19 DEF OrchInv

-----------------------------------------------------------------------------
(***************************************************************************)
(* Outputs.                                                                *)
(***************************************************************************)

LEMMA FilesParsed ==
    ASSUME NEW text \in Texts
    PROVE  DOMAIN ParseFiles(text) \in SUBSET Files
BY ParametersAssumption DEF ParseFiles, Markers, FileOf

\* An entry that tells of the next result, whose files this run wrote.
LEMMA SummaryGrows ==
    ASSUME OrchInv, Unwritten, NEW entry \in Entry, Tells(entry, NextResult),
           summary' = Append(summary, entry),
           UNCHANGED <<run, phase, plan, results>>,
           \A f \in Files : disk'[f] \in {disk[f], run},
           \A f \in entry.files : disk'[f] = run
    PROVE  Summed' /\ Len(summary') <= Len(results') /\ Len(summary') = Len(summary) + 1
<1>1. /\ phase = "writing" /\ Len(summary) < Len(results)
      /\ summary \in Seq(Entry) /\ results \in Seq([chunk : DOMAIN plan, ok : BOOLEAN])
      /\ \A i \in DOMAIN summary : \A f \in summary[i].files : disk[f] = run
      /\ \A i \in DOMAIN summary : Tells(summary[i], results[i])
  BY DEF Unwritten, OrchInv, Summed, Resulted
<1>2. Len(summary) \in Nat /\ Len(results) \in Nat /\ DOMAIN summary = 1 .. Len(summary)
  <2>1. PICK S : results \in Seq(S)
    BY <1>1
  <2> HIDE DEF Entry
  <2> QED
    BY <1>1, <2>1
<1>3. /\ summary' \in Seq(Entry) /\ Len(summary') = Len(summary) + 1
      /\ DOMAIN summary' = 1 .. Len(summary) + 1
      /\ summary'[Len(summary) + 1] = entry
      /\ \A i \in DOMAIN summary : summary'[i] = summary[i]
  BY <1>1, <1>2, AppendProperties
<1>4. \A i \in DOMAIN summary' : i \in DOMAIN summary \/ i = Len(summary) + 1
  BY <1>2, <1>3
<1>5. \A i \in DOMAIN summary : summary[i].files \subseteq Files
  <2>1. \A i \in DOMAIN summary : summary[i] \in Entry
    BY <1>1, <1>2
  <2> QED
    BY <2>1 DEF Entry
<1>6. \A i \in DOMAIN summary' : \A f \in summary'[i].files : disk'[f] = run'
  <2>1. ASSUME NEW i \in DOMAIN summary', NEW f \in summary'[i].files  PROVE disk'[f] = run
    <3>1. CASE i \in DOMAIN summary
      <4>1. f \in summary[i].files /\ f \in Files
        BY <1>3, <1>5, <2>1, <3>1
      <4> QED
        BY <1>1, <3>1, <4>1
    <3>2. CASE i = Len(summary) + 1
      BY <1>3, <2>1, <3>2
    <3> QED
      BY <1>4, <3>1, <3>2
  <2> QED
    BY <2>1
<1>7. \A i \in DOMAIN summary' : Tells(summary'[i], results[i])
  BY <1>1, <1>3, <1>4 DEF NextResult
<1>8. summary' \in Seq(Entry)'
  BY <1>3 DEF Entry
<1>9. Summed'
  BY <1>1, <1>6, <1>7, <1>8 DEF Summed, Tells
<1>10. Len(summary') <= Len(results')
  BY <1>1, <1>2, <1>3
<1> QED
  BY <1>3, <1>9, <1>10

\* What the writing of outputs leaves alone.
LEMMA WritingFrame ==
    ASSUME OrchInv, phase = "writing",
           UNCHANGED <<run, peers, at, plan, chunks, waves, wave, job, results, saved, report>>,
           phase' \in {"writing", "down", "done"},
           disk' \in [Files -> 0 .. run], Len(summary') <= Len(results')
    PROVE  TypeOK' /\ Layered' /\ Started' /\ (phase' # "done" => Resulted')
<1>1. Placed' = Placed
  BY DEF Placed
<1>2. TypeOK'
  BY <1>1 DEF OrchInv, TypeOK, Phases, Ended
<1>3. Built
  BY DEF OrchInv, Layered, Active
<1>4. Layered'
  BY <1>3 DEF Layered, Built, Early
<1>5. Started'
  BY <1>1 DEF OrchInv, Started
<1>6. phase' # "done" => Resulted'
  <2>1. results \in Seq([chunk : DOMAIN plan, ok : BOOLEAN])
    BY DEF OrchInv, Resulted
  <2>2. CASE phase' = "writing"
    BY <2>2 DEF OrchInv, Resulted, Over, Outcome
  <2>3. CASE phase' = "down"
    BY <2>1, <2>3 DEF Resulted, Active
  <2> QED
    BY <2>2, <2>3
<1> QED
  BY <1>2, <1>4, <1>5, <1>6

LEMMA NextResultIs ==
    ASSUME OrchInv, Unwritten
    PROVE  NextResult.chunk \in DOMAIN plan /\ NextResult.ok \in BOOLEAN
<1>1. /\ Len(summary) < Len(results) /\ summary \in Seq(Entry)
      /\ results \in Seq([chunk : DOMAIN plan, ok : BOOLEAN])
  BY DEF Unwritten, OrchInv, Summed, Resulted
<1> DEFINE Rec == [chunk : DOMAIN plan, ok : BOOLEAN]
<1>2. results \in Seq(Rec) /\ Len(summary) \in Nat
  BY <1>1
<1> HIDE DEF Rec
<1>3. Len(summary) + 1 \in 1 .. Len(results)
  BY <1>1, <1>2
<1>4. NextResult \in Rec
  BY <1>2, <1>3 DEF NextResult
<1> QED
  BY <1>4 DEF Rec

LEMMA WriteFailedKeeps ==
    ASSUME OrchInv, WriteFailed
    PROVE  OrchInv'
<1>1. /\ Unwritten /\ phase = "writing" /\ ~ NextResult.ok
      /\ summary' = Append(summary, FailedEntry)
      /\ UNCHANGED <<run, phase, peers, at, plan, chunks, waves, wave, job, results,
                     saved, disk, report, wrote>>
  BY DEF WriteFailed, Unwritten, stored
<1>2. FailedEntry \in Entry /\ FailedEntry.files = {} /\ FailedEntry.ok = FALSE
  BY DEF FailedEntry, Entry
<1>3. Tells(FailedEntry, NextResult)
  BY <1>1, <1>2, NextResultIs DEF Tells
<1>4. Summed' /\ Len(summary') <= Len(results')
  BY <1>1, <1>2, <1>3, SummaryGrows
<1>5. TypeOK' /\ Layered' /\ Started' /\ Resulted'
  <2>1. disk' \in [Files -> 0 .. run]
    BY <1>1 DEF OrchInv, TypeOK
  <2> QED
    BY <1>1, <1>4, <2>1, WritingFrame
<1>6. Reported' /\ Parsed'
  BY <1>1 DEF OrchInv, Reported, Parsed
<1> QED
  BY <1>4, <1>5, <1>6 DEF OrchInv

\* Files that are written now are of this run; the others stay.
LEMMA WrittenIs ==
    ASSUME OrchInv, NEW files, disk' = Written(files), UNCHANGED report, run' = run,
           phase' # "done"
    PROVE  /\ disk' \in [Files -> 0 .. run]
           /\ \A f \in Files : disk'[f] \in {disk[f], run} /\ (f \in files => disk'[f] = run)
           /\ Reported'
<1>1. run \in Nat /\ disk \in [Files -> 0 .. run] /\ report.run \in 0 .. run
  BY ParametersAssumption DEF OrchInv, TypeOK
<1>2. \A f \in Files : disk'[f] = IF f \in files THEN run ELSE disk[f]
  BY DEF Written
<1>3. disk' \in [Files -> 0 .. run]
  BY <1>1 DEF Written
<1>4. \A i \in DOMAIN report.chunks : \A f \in report.chunks[i].files :
         f \in Files /\ disk[f] >= report.run
  BY DEF OrchInv, Reported
<1>5. \A f \in Files : disk[f] >= report.run => disk'[f] >= report.run
  BY <1>1, <1>2
<1>6. Reported'
  BY <1>4, <1>5 DEF Reported
<1> QED
  BY <1>2, <1>3, <1>6

LEMMA WriteBuiltKeeps ==
    ASSUME OrchInv, NEW text \in Texts, WriteBuilt(text)
    PROVE  OrchInv'
<1> DEFINE files == DOMAIN ParseFiles(text)
           entry == [ok |-> TRUE, name |-> plan[NextResult.chunk].name, files |-> files]
<1>1. /\ Unwritten /\ phase = "writing" /\ NextResult.ok
      /\ wrote' = [text |-> text, files |-> ParseFiles(text)]
      /\ disk' = Written(files)
      /\ summary' = Append(summary, entry)
      /\ UNCHANGED <<run, phase, peers, at, plan, chunks, waves, wave, job, results,
                     saved, report>>
  BY DEF WriteBuilt, Unwritten
<1>2. files \in SUBSET Files
  BY FilesParsed
<1> HIDE DEF files
<1>3. entry \in Entry
  <2>1. plan[NextResult.chunk].name \in Names(plan, DOMAIN plan)
    BY <1>1, NextResultIs DEF Names
  <2> QED
    BY <1>2, <2>1 DEF Entry
<1>4. entry.files = files /\ Tells(entry, NextResult)
  BY <1>1, NextResultIs DEF Tells
<1>5. /\ disk' \in [Files -> 0 .. run]
      /\ \A f \in Files : disk'[f] \in {disk[f], run} /\ (f \in files => disk'[f] = run)
      /\ Reported'
  BY <1>1, WrittenIs
<1>6. \A f \in entry.files : disk'[f] = run
  BY <1>2, <1>4, <1>5
<1> HIDE DEF entry
<1>7. Summed' /\ Len(summary') <= Len(results')
  BY <1>1, <1>3, <1>4, <1>5, <1>6, SummaryGrows
<1>8. TypeOK' /\ Layered' /\ Started' /\ Resulted'
  BY <1>1, <1>5, <1>7, WritingFrame
<1>9. Parsed'
  BY <1>1 DEF Parsed
<1> QED
  BY <1>5, <1>7, <1>8, <1>9 DEF OrchInv

LEMMA WriteThrowsKeeps ==
    ASSUME OrchInv, NEW text \in Texts, WriteThrows(text)
    PROVE  OrchInv'
<1>1. /\ Unwritten /\ phase = "writing" /\ phase' = "down"
      /\ UNCHANGED <<run, peers, at, plan, chunks, waves, wave, job, results, summary,
                     saved, report, wrote>>
  BY DEF WriteThrows, Unwritten, coordinator
<1>2. PICK files \in SUBSET DOMAIN ParseFiles(text) : disk' = Written(files)
  BY DEF WriteThrows
<1>3. /\ disk' \in [Files -> 0 .. run]
      /\ \A f \in Files : disk'[f] \in {disk[f], run}
      /\ Reported'
  BY <1>1, <1>2, WrittenIs
<1>4. TypeOK' /\ Layered' /\ Started' /\ Resulted'
  <2>1. Len(summary') <= Len(results')
    BY <1>1 DEF OrchInv, TypeOK
  <2> QED
    BY <1>1, <1>3, <2>1, WritingFrame
<1>5. Summed'
  <2>1. /\ summary \in Seq(Entry)
        /\ \A i \in DOMAIN summary : \A f \in summary[i].files : disk[f] = run
    BY DEF OrchInv, Summed
  <2>2. \A i \in DOMAIN summary : summary[i].files \subseteq Files
    <3>1. \A i \in DOMAIN summary : summary[i] \in Entry
      BY <2>1
    <3> QED
      BY <3>1 DEF Entry
  <2>3. \A i \in DOMAIN summary : \A f \in summary[i].files : disk'[f] = run
    BY <1>3, <2>1, <2>2
  <2> QED
    BY <1>1, <2>1, <2>3 DEF Summed, Entry
<1>6. Parsed'
  BY <1>1 DEF OrchInv, Parsed
<1> QED
  BY <1>3, <1>4, <1>5, <1>6 DEF OrchInv

LEMMA SaveKeeps ==
    ASSUME OrchInv, Save
    PROVE  OrchInv'
<1>1. /\ phase = "writing" /\ phase' = "done" /\ Len(summary) = Len(results)
      /\ report' = [run |-> run, chunks |-> summary]
      /\ UNCHANGED <<run, peers, at, plan, chunks, waves, wave, job, results, summary,
                     saved, disk, wrote>>
  BY DEF Save, SaveWhen, coordinator
<1>2. /\ summary \in Seq(Entry)
      /\ \A i \in DOMAIN summary : \A f \in summary[i].files : disk[f] = run
      /\ \A i \in DOMAIN summary : Tells(summary[i], results[i])
  BY <1>1 DEF OrchInv, Summed
<1>3. run \in Nat /\ Placed' = Placed
  BY <1>1, ParametersAssumption DEF OrchInv, TypeOK, Placed
<1>4. TypeOK'
  <2>1. report'.run \in 0 .. run'
    BY <1>1, <1>3
  <2> QED
    BY <1>1, <1>3, <2>1 DEF OrchInv, TypeOK, Phases, Ended
<1>5. Layered' /\ Started'
  <2>1. Built
    BY <1>1 DEF OrchInv, Layered, Active
  <2>2. Layered'
    BY <1>1, <2>1 DEF Layered, Built, Early
  <2> QED
    BY <1>1, <1>3, <2>2 DEF OrchInv, Started
<1>6. Resulted'
  <2>1. Over' = Over
    BY <1>1 DEF Over
  <2> QED
    BY <1>1, <2>1 DEF OrchInv, Resulted, Outcome, Active
<1>7. Summed'
  BY <1>1, <1>2 DEF Summed, Tells, Entry
<1>8. Reported'
  <2>1. \A i \in DOMAIN summary : summary[i].files \subseteq Files
    <3>1. \A i \in DOMAIN summary : summary[i] \in Entry
      BY <1>2
    <3> QED
      BY <3>1 DEF Entry
  <2>2. \A i \in DOMAIN summary : \A f \in summary[i].files : f \in Files /\ disk[f] >= run
    BY <1>2, <1>3, <2>1
  <2>3. report'.run = run /\ report'.chunks = summary
    BY <1>1
  <2> QED
    BY <1>1, <2>2, <2>3 DEF Reported
<1>9. Parsed'
  BY <1>1 DEF OrchInv, Parsed
<1> QED
  BY <1>4, <1>5, <1>6, <1>7, <1>8, <1>9 DEF OrchInv

LEMMA Inductive == OrchInv /\ [Next]_vars => OrchInv'
<1> SUFFICES ASSUME OrchInv, [Next]_vars  PROVE OrchInv'
  OBVIOUS
<1>1. ASSUME NEW only, PlanWaves(only)  PROVE OrchInv'
  BY <1>1, PlanWavesKeeps
<1>2. ASSUME NEW list \in PeerLists, Restart(list)  PROVE OrchInv'
  BY <1>2, RestartKeeps
<1>3. ASSUME NEW c \in DOMAIN job, Timeout(c)  PROVE OrchInv'
  BY <1>3, BecomesKeeps DEF Timeout
<1>4. ASSUME NEW c \in DOMAIN job, NEW ok \in BOOLEAN, Answered(c, ok)  PROVE OrchInv'
  BY <1>4, BecomesKeeps DEF Answered, Settled
<1>5. ASSUME NEW c \in DOMAIN job, NEW ok \in BOOLEAN, LocalEnds(c, ok)  PROVE OrchInv'
  BY <1>5, BecomesKeeps DEF LocalEnds, Settled
<1>6. ASSUME Write  PROVE OrchInv'
  BY <1>6, WriteFailedKeeps, WriteBuiltKeeps, WriteThrowsKeeps DEF Write
<1>7. ASSUME UNCHANGED vars  PROVE OrchInv'
  <2>1. UNCHANGED <<run, phase, peers, at, plan, chunks, waves, wave, job, results, summary,
                    saved, disk, report, wrote>>
    BY <1>7 DEF vars, coordinator, stored
  <2>2. Placed' = Placed /\ Over' = Over
    BY <2>1 DEF Placed, Over
  <2>3. TypeOK' /\ Layered' /\ Started'
    BY <2>1, <2>2 DEF OrchInv, TypeOK, Layered, Built, Blank, Started
  <2>4. Resulted' /\ Summed'
    BY <2>1, <2>2 DEF OrchInv, Resulted, Outcome, Summed, Tells, Entry
  <2>5. Reported' /\ Parsed'
    BY <2>1 DEF OrchInv, Reported, Parsed
  <2> QED
    BY <2>3, <2>4, <2>5 DEF OrchInv
<1>8. ASSUME Main  PROVE OrchInv'
  BY <1>1, <1>6, <1>8, CheckPeerKeeps, ResolveKeeps, NextWaveKeeps, SaveKeeps DEF Main
<1> QED
  BY <1>2, <1>3, <1>4, <1>5, <1>7, <1>8, CrashKeeps DEF Next

LEMMA Always == Spec => []OrchInv
BY InitInv, Inductive, PTL DEF Spec

-----------------------------------------------------------------------------
\* Types, and that waves, results and summary stay within the chunks of the run:
\* for any plans, merged code, peers and number of starts.
THEOREM TypeCorrect == Spec => []TypeOK
<1>1. OrchInv => TypeOK
  BY DEF OrchInv
<1> QED
  BY <1>1, Always, PTL

-----------------------------------------------------------------------------
(***************************************************************************)
(* The waves are exact.                                                    *)
(***************************************************************************)

Refused ==
    phase = "rejected" /\ chunks # {} =>
       \E S \in (SUBSET chunks) \ {{}} : \A c \in S : \E d \in plan[c].dependsOn :
          d \notin Names(plan, chunks \ S)

\* What is left of a plan that is refused waits for itself, or for nothing.
LEMMA LeftIsStuck ==
    ASSUME NEW p, NEW all, IsFiniteSet(all), Waves(p, all).left # {}
    PROVE  \E S \in (SUBSET all) \ {{}} : \A c \in S : \E d \in p[c].dependsOn :
              d \notin Names(p, all \ S)
<1> DEFINE r == Waves(p, all)
           done == DoneBefore(p, r.waves, Len(r.waves) + 1)
           S == r.left
<1>1. /\ S = LeftBefore(p, all, r.waves, Len(r.waves) + 1)
      /\ Ready(p, S, done) = {}
  BY WavesAre
<1> HIDE DEF done
<1>2. S = {c \in all : p[c].name \notin done}
  BY <1>1 DEF LeftBefore, done
<1> HIDE DEF r, S
<1>3. S \in (SUBSET all) \ {{}}
  BY <1>2 DEF r, S
<1>4. Names(p, all \ S) \subseteq done
  BY <1>2 DEF Names
<1>5. ASSUME NEW c \in S  PROVE \E d \in p[c].dependsOn : d \notin Names(p, all \ S)
  <2>1. ~ (p[c].dependsOn \subseteq done)
    BY <1>1 DEF Ready
  <2> QED
    BY <1>4, <2>1
<1> QED
  BY <1>3, <1>5

LEMMA RefusedStep == OrchInv /\ Refused /\ [Next]_vars => Refused'
<1> SUFFICES ASSUME OrchInv, Refused, [Next]_vars, phase' = "rejected", chunks' # {}
             PROVE  \E S \in (SUBSET chunks') \ {{}} : \A c \in S : \E d \in plan'[c].dependsOn :
                       d \notin Names(plan', chunks' \ S)
  BY DEF Refused
<1>1. ASSUME NEW only, PlanWaves(only)
      PROVE  \E S \in (SUBSET chunks') \ {{}} : \A c \in S : \E d \in plan'[c].dependsOn :
                d \notin Names(plan', chunks' \ S)
  <2>1. chunks' = Chosen(only) /\ plan' = plan /\ Waves(plan, chunks').left # {}
    BY <1>1 DEF PlanWaves, Planned
  <2>2. IsFiniteSet(chunks')
    BY <2>1, PlanIsSeq, FS_Subset DEF Chosen, OrchInv
  <2> QED
    BY <2>1, <2>2, LeftIsStuck
<1>2. ASSUME phase = "rejected", plan' = plan, chunks' = chunks
      PROVE  \E S \in (SUBSET chunks') \ {{}} : \A c \in S : \E d \in plan'[c].dependsOn :
                d \notin Names(plan', chunks' \ S)
  BY <1>2 DEF Refused
<1>4. ASSUME Main  PROVE \E only : PlanWaves(only)
  BY <1>4 DEF Main, CheckPeer, Resolve, NextWave, Write, WriteFailed, WriteBuilt,
              WriteThrows, Save, Unwritten
<1>5. ~ Crash /\ \A list : ~ Restart(list)
  BY DEF Crash, Restart, Fresh
<1>6. ASSUME NEW c \in DOMAIN job, NEW ok, Timeout(c) \/ Answered(c, ok) \/ LocalEnds(c, ok)
      PROVE  phase = "rejected" /\ plan' = plan /\ chunks' = chunks
  BY <1>6 DEF Timeout, Answered, LocalEnds, Becomes
<1>7. UNCHANGED vars => phase = "rejected" /\ plan' = plan /\ chunks' = chunks
  BY DEF vars, coordinator
<1> QED
  BY <1>1, <1>2, <1>4, <1>5, <1>6, <1>7 DEF Next

\* A dependency that is there lies in an earlier wave, and one of them in the
\* wave before: the wave of a chunk is the earliest it may be in.
LEMMA WaveIsEarliest ==
    ASSUME Built, UniqueNames, NEW c \in chunks
    PROVE  WaveOf(c) = 1 + Max({0} \cup {WaveOf(d) : d \in {e \in chunks : Needs(c, e)}})
<1>1. /\ WavesOK(plan, chunks, waves)
      /\ waves \in Seq(SUBSET chunks) /\ Len(waves) \in Nat /\ DOMAIN waves = 1 .. Len(waves)
  BY DEF Built, WavesOK
<1>2. ASSUME NEW e \in chunks  PROVE \E k \in DOMAIN waves : e \in waves[k]
  <2>1. plan[e].name \in DoneBefore(plan, waves, Len(waves) + 1)
    BY DEF Built, LeftBefore
  <2>2. PICK f \in PlacedBefore(waves, Len(waves) + 1) : plan[f].name = plan[e].name
    BY <2>1 DEF DoneBefore, Names
  <2>3. PICK k \in 1 .. (Len(waves) + 1) - 1 : f \in waves[k]
    BY <2>2 DEF PlacedBefore
  <2>4. k \in DOMAIN waves /\ f \in chunks
    BY <1>1, <2>3
  <2>5. f = e
    BY <2>2, <2>4 DEF UniqueNames
  <2> QED
    BY <2>3, <2>4, <2>5
<1>3. ASSUME NEW e \in chunks, NEW k \in DOMAIN waves, e \in waves[k]
      PROVE  WaveOf(e) = k
  <2>1. \A j \in DOMAIN waves : e \in waves[j] => j = k
    BY <1>1, <1>3, WavesOrder
  <2> QED
    BY <1>3, <2>1 DEF WaveOf
<1>4. PICK k \in DOMAIN waves : c \in waves[k]
  BY <1>2
<1>5. k \in Nat /\ k >= 1 /\ WaveOf(c) = k
  BY <1>1, <1>3, <1>4
<1> DEFINE S == {0} \cup {WaveOf(d) : d \in {e \in chunks : Needs(c, e)}}
<1>6. ASSUME NEW e \in chunks, Needs(c, e)
      PROVE  WaveOf(e) \in Nat /\ WaveOf(e) <= k - 1
  <2>1. PICK j \in DOMAIN waves : e \in waves[j]
    BY <1>2
  <2>2. j < k
    BY <1>1, <1>4, <1>6, <2>1, WavesOrder DEF Needs
  <2>3. WaveOf(e) = j /\ j \in Nat
    BY <1>1, <1>3, <2>1
  <2> QED
    BY <1>5, <2>2, <2>3
<1>7. S \in SUBSET Nat /\ \A x \in S : x <= k - 1
  BY <1>5, <1>6
<1>8. k - 1 \in S
  <2>1. CASE k = 1
    BY <2>1
  <2>2. CASE k # 1
    <3>1. k - 1 \in DOMAIN waves /\ (k - 1) - 1 \in Int /\ k - 1 \in Nat
      BY <1>1, <1>5, <2>2
    <3>2. c \notin waves[k - 1]
      BY <1>1, <1>4, <1>5, <3>1, WavesOrder
    <3>3. c \in LeftBefore(plan, chunks, waves, k)
             /\ plan[c].dependsOn \subseteq DoneBefore(plan, waves, k)
      BY <1>1, <1>4 DEF WavesOK, Ready
    <3>4. \A i \in 1 .. (k - 1) - 1 : i \in 1 .. k - 1
      BY <1>5
    <3>5. PlacedBefore(waves, k - 1) \subseteq PlacedBefore(waves, k)
      BY <3>4 DEF PlacedBefore
    <3>6. c \in LeftBefore(plan, chunks, waves, k - 1)
      BY <3>3, <3>5 DEF LeftBefore, DoneBefore, Names
    <3>7. ~ (plan[c].dependsOn \subseteq DoneBefore(plan, waves, k - 1))
      BY <1>1, <3>1, <3>2, <3>6 DEF WavesOK, Ready
    <3>8. PICK d \in plan[c].dependsOn : d \notin DoneBefore(plan, waves, k - 1)
      BY <3>7
    <3>9. PICK e \in PlacedBefore(waves, k) : plan[e].name = d
      BY <3>3 DEF DoneBefore, Names
    <3>10. PICK i \in 1 .. k - 1 : e \in waves[i]
      BY <3>9 DEF PlacedBefore
    <3>11. i = k - 1
      <4>1. ~ (i \in 1 .. (k - 1) - 1)
        BY <3>8, <3>9, <3>10 DEF DoneBefore, Names, PlacedBefore
      <4> QED
        BY <1>5, <4>1
    <3>12. e \in chunks /\ Needs(c, e) /\ WaveOf(e) = k - 1
      <4>1. e \in chunks
        BY <1>1, <3>1, <3>10, <3>11
      <4> QED
        BY <1>3, <3>1, <3>8, <3>9, <3>10, <3>11, <4>1 DEF Needs
    <3> QED
      BY <3>12
  <2> QED
    BY <2>1, <2>2
<1> HIDE DEF S
<1>9. Max(S) = k - 1
  BY <1>7, <1>8, MaxIs
<1>10. WaveOf(c) = 1 + Max(S)
  BY <1>5, <1>9
<1> QED
  BY <1>10 DEF S

LEMMA BuiltExact ==
    ASSUME OrchInv, phase = "running"
    PROVE  /\ Names(plan, Placed) = Names(plan, chunks)
           /\ \A j, k \in DOMAIN waves : waves[j] \cap waves[k] # {} => j = k
           /\ UniqueNames => \A c \in chunks :
                 WaveOf(c) =
                 1 + Max({0} \cup {WaveOf(d) : d \in {e \in chunks : Needs(c, e)}})
<1>1. Built /\ Placed \subseteq chunks
  BY DEF OrchInv, Layered, Active, TypeOK
<1>2. WavesOK(plan, chunks, waves) /\ waves \in Seq(SUBSET chunks)
  BY <1>1 DEF Built, WavesOK
<1>3. Names(plan, chunks) \subseteq DoneBefore(plan, waves, Len(waves) + 1)
  BY <1>1 DEF Built, LeftBefore, Names
<1>4. Names(plan, Placed) = Names(plan, chunks)
  <2>1. Names(plan, Placed) \subseteq Names(plan, chunks)
    BY <1>1 DEF Names
  <2>2. DoneBefore(plan, waves, Len(waves) + 1) = Names(plan, Placed)
    BY <1>2, PlacedIs DEF DoneBefore
  <2> QED
    BY <1>3, <2>1, <2>2
<1>5. \A j, k \in DOMAIN waves : waves[j] \cap waves[k] # {} => j = k
  BY <1>2, WavesOrder
<1> QED
  BY <1>1, <1>4, <1>5, WaveIsEarliest

\* buildExecutionWaves: a plan is refused only if chunks wait for one another or for
\* nothing that exists; else each chunk is in the earliest wave after those of all
\* it depends on.  For plans of any length.
THEOREM Exact == Spec => []WavesExact
<1>1. Init => Refused
  BY DEF Init, Refused
<1>2. OrchInv /\ Refused => WavesExact
  <2> SUFFICES ASSUME OrchInv, Refused  PROVE WavesExact
    OBVIOUS
  <2>1. CASE phase = "running"
    BY <2>1, BuiltExact DEF WavesExact
  <2>2. CASE phase # "running"
    BY <2>2 DEF WavesExact, Refused
  <2> QED
    BY <2>1, <2>2
<1> QED
  BY <1>1, <1>2, Always, RefusedStep, PTL DEF Spec

-----------------------------------------------------------------------------
(***************************************************************************)
(* The order of builds.                                                    *)
(***************************************************************************)

\* What a chunk that was started needs lies in a wave that is over.
LEMMA NeededSettled ==
    ASSUME OrchInv, NEW c \in DOMAIN job, job[c] # "none",
           NEW d \in Placed, Needs(c, d)
    PROVE  job[d] \in Settled
<1>1. PICK j \in 1 .. wave : c \in waves[j]
  BY DEF OrchInv, Started
<1>2. Built
  <2>1. ~ Blank
    BY DEF Blank
  <2> QED
    BY <2>1 DEF OrchInv, Layered
<1>3. /\ WavesOK(plan, chunks, waves) /\ DOMAIN waves = 1 .. Len(waves)
      /\ wave \in Nat /\ Len(waves) \in Nat /\ wave <= Len(waves)
  <2>1. WavesOK(plan, chunks, waves) /\ waves \in Seq(SUBSET chunks)
    BY <1>2 DEF Built, WavesOK
  <2>2. wave \in 0 .. Len(waves)
    BY DEF OrchInv, TypeOK
  <2> QED
    BY <2>1, <2>2
<1>4. j \in DOMAIN waves
  BY <1>3
<1>5. PICK i \in DOMAIN waves : d \in waves[i]
  BY DEF Placed
<1>6. i < j
  BY <1>1, <1>3, <1>4, <1>5, WavesOrder DEF Needs
<1>7. i \in 1 .. wave - 1
  BY <1>3, <1>6
<1> QED
  BY <1>5, <1>7 DEF OrchInv, Started

\* executeWaves: nothing is built before all it depends on has settled, and each
\* chunk that was placed has one result.  For any plans, peers and order of answers,
\* timeouts and failures.
THEOREM Ordered == Spec => []DependenciesSettled
<1>1. OrchInv => DependenciesSettled
  <2> SUFFICES ASSUME OrchInv  PROVE DependenciesSettled
    OBVIOUS
  <2>1. \A c \in DOMAIN job : job[c] # "none" =>
           \A d \in Placed : Needs(c, d) => job[d] \in Settled
    BY NeededSettled
  <2>2. ASSUME phase = "writing"
        PROVE  /\ Len(results) = Cardinality(Placed)
               /\ \A c \in Placed : \E i \in DOMAIN results :
                     results[i] = [chunk |-> c, ok |-> job[c] = "ok"]
    <3>1. Over = Placed
      BY <2>2, OverSettled DEF Active
    <3>2. /\ Len(results) = Cardinality(Over)
          /\ \A i \in DOMAIN results : results[i] = Outcome(results[i].chunk)
          /\ \A c \in Over : \E i \in DOMAIN results : results[i].chunk = c
      BY <2>2 DEF OrchInv, Resulted, Active
    <3>3. ASSUME NEW c \in Placed
          PROVE  \E i \in DOMAIN results : results[i] = [chunk |-> c, ok |-> job[c] = "ok"]
      <4>1. PICK i \in DOMAIN results : results[i].chunk = c
        BY <3>1, <3>2
      <4>2. results[i] = Outcome(c)
        BY <3>2, <4>1
      <4> QED
        BY <4>2 DEF Outcome
    <3> QED
      BY <3>1, <3>2, <3>3
  <2> QED
    BY <2>1, <2>2 DEF DependenciesSettled
<1> QED
  BY <1>1, Always, PTL

-----------------------------------------------------------------------------
(***************************************************************************)
(* The report.                                                             *)
(***************************************************************************)

\* The results of a run that is done are in one-to-one correspondence with the
\* chunks that were placed, and so are the entries of the report.
LEMMA EntriesCounted ==
    ASSUME OrchInv, phase = "done", NEW n
    PROVE  Cardinality(Entries(n)) =
           Cardinality({c \in Placed : plan[c].name = n /\ job[c] = "ok"})
<1> DEFINE B == {c \in Placed : plan[c].name = n /\ job[c] = "ok"}
           D == DOMAIN results
           f == [i \in D |-> results[i].chunk]
           E == {i \in D : summary[i].ok /\ summary[i].name = n}
<1>1. /\ report.chunks = summary /\ Len(summary) = Len(results)
      /\ summary \in Seq(Entry) /\ results \in Seq([chunk : DOMAIN plan, ok : BOOLEAN])
      /\ \A i \in DOMAIN summary : Tells(summary[i], results[i])
  BY DEF OrchInv, Reported, Summed, Resulted
<1>2. Len(results) \in Nat /\ D = 1 .. Len(results) /\ DOMAIN summary = D
  <2>1. PICK S, T : summary \in Seq(S) /\ results \in Seq(T)
    BY <1>1
  <2> HIDE DEF Entry
  <2> QED
    BY <1>1, <2>1
<1>3. Entries(n) = E
  BY <1>1, <1>2 DEF Entries
<1>4. /\ Over = Placed
      /\ Len(results) = Cardinality(Placed)
      /\ \A i \in D : results[i].chunk \in Placed /\ results[i] = Outcome(results[i].chunk)
      /\ \A c \in Placed : \E i \in D : results[i].chunk = c
  <2>1. Over = Placed
    BY OverSettled DEF Active
  <2> QED
    BY <2>1 DEF OrchInv, Resulted, Active
<1>5. f \in Surjection(D, Placed)
  <2>1. f \in [D -> Placed] /\ \A c \in Placed : \E i \in D : f[i] = c
    BY <1>4
  <2> QED
    BY <2>1 DEF Surjection
<1>6. IsFiniteSet(D) /\ Cardinality(D) = Cardinality(Placed)
  BY <1>2, <1>4, FS_Interval
<1>7. \A i, j \in D : results[i].chunk = results[j].chunk => i = j
  <2> HIDE DEF f, D
  <2>1. f \in Injection(D, Placed)
    BY <1>5, <1>6, FS_SurjSameCardinalityImpliesInj
  <2>2. \A i, j \in D : f[i] = f[j] => i = j
    BY <2>1 DEF Injection, IsInjective
  <2> QED
    BY <2>2 DEF f
<1>8. \A i \in D : summary[i].ok \in BOOLEAN
  <2>1. \A i \in D : summary[i] \in Entry
    BY <1>1, <1>2
  <2> QED
    BY <2>1 DEF Entry
<1>9. ASSUME NEW i \in D
      PROVE  i \in E <=> results[i].chunk \in B
  <2> DEFINE c == results[i].chunk
  <2>1. summary[i].ok = results[i].ok /\ (summary[i].ok => summary[i].name = plan[c].name)
    BY <1>1, <1>2, <1>9 DEF Tells
  <2>2. results[i].ok = (job[c] = "ok") /\ c \in Placed
    BY <1>4, <1>9 DEF Outcome
  <2> HIDE DEF c
  <2>3. (summary[i].ok /\ summary[i].name = n) <=> (plan[c].name = n /\ job[c] = "ok")
    BY <1>8, <1>9, <2>1, <2>2
  <2> QED
    BY <1>9, <2>2, <2>3 DEF c
<1> DEFINE g == [i \in E |-> results[i].chunk]
<1>10. g \in Bijection(E, B)
  <2>1. g \in [E -> B]
    BY <1>9
  <2>2. \A i, j \in E : g[i] = g[j] => i = j
    BY <1>7
  <2>3. \A c \in B : \E i \in E : g[i] = c
    <3> TAKE c \in B
    <3>1. PICK i \in D : results[i].chunk = c
      BY <1>4
    <3>2. i \in E
      BY <1>9, <3>1
    <3> QED
      BY <3>1, <3>2
  <2> HIDE DEF g, E, B
  <2> QED
    BY <2>1, <2>2, <2>3 DEF Bijection, Injection, Surjection, IsInjective
<1>11. IsFiniteSet(E)
  BY <1>6, FS_Subset
<1> HIDE DEF g, E, B
<1>12. Cardinality(B) = Cardinality(E)
  BY <1>10, <1>11, FS_Bijection DEF ExistsBijection
<1> QED
  BY <1>3, <1>12 DEF B

\* parseFiles, on merged code in which no file is marked twice: the section behind a
\* marker ends before the next one, if that has no spaces, or with the text.
LEMMA SectionEnds ==
    ASSUME NEW S, NEW text \in Seq(S), NEW marks,
           marks = {i \in DOMAIN text : text[i] \in Markers},
           \A i, j \in marks : FileOf(text[i]) = FileOf(text[j]) => i = j,
           NEW i \in marks,
           \A j \in {j \in marks : j > i /\ \A k \in marks : k > i => j <= k} :
              text[j] \in Files
    PROVE  \E e \in Nat :
           /\ Section(text, i) = SubSeq(text, i + 1, e)
           /\ i <= e /\ e <= Len(text)
           /\ e + 1 \in marks \cup {Len(text) + 1}
           /\ \A j \in i + 1 .. e : j \notin marks
<1> DEFINE next == {j \in i + 1 .. Len(text) : text[j] \in Markers}
<1>1. Len(text) \in Nat /\ DOMAIN text = 1 .. Len(text) /\ i \in Nat /\ 1 <= i /\ i <= Len(text)
  OBVIOUS
<1>2. next \in SUBSET Nat /\ \A j : j \in next <=> j \in marks /\ j > i
  BY <1>1
<1>3. CASE next = {}
  <2>1. Section(text, i) = SubSeq(text, i + 1, Len(text))
    BY <1>3 DEF Section
  <2>2. \A j \in i + 1 .. Len(text) : j \notin marks
    BY <1>1, <1>3
  <2> QED
    BY <1>1, <2>1, <2>2
<1>4. CASE next # {}
  <2> DEFINE m == Min(next)
             same == {j \in DOMAIN text : text[j] = FileOf(text[m])}
  <2>1. m \in next /\ \A x \in next : m <= x
    BY <1>2, <1>4, MinIs
  <2>2. same # {} => Section(text, i) = SubSeq(text, i + 1, Min(same) - 1)
    BY <1>4 DEF Section
  <2> HIDE DEF m, next
  <2>3. m \in marks /\ m > i /\ m \in Nat /\ m <= Len(text)
    BY <1>1, <1>2, <2>1
  <2>9. text[m] \in Files /\ FileOf(text[m]) = text[m]
    <3>1. \A k \in marks : k > i => m <= k
      BY <1>2, <2>1
    <3>2. text[m] \in Files
      BY <2>3, <3>1
    <3> QED
      BY <3>2 DEF FileOf
  <2>4. \A j \in same : j = m
    <3> TAKE j \in same
    <3>1. text[j] = text[m] /\ j \in DOMAIN text
      BY <2>9
    <3>2. j \in marks /\ FileOf(text[j]) = FileOf(text[m])
      BY <2>9, <3>1 DEF Markers
    <3> QED
      BY <2>3, <3>2
  <2>5. m \in same /\ same \in SUBSET Nat
    BY <1>1, <2>3, <2>9
  <2> HIDE DEF same
  <2>6. Min(same) = m
    BY <2>4, <2>5, MinIs
  <2>7. \A j \in i + 1 .. m - 1 : j \notin marks
    <3>1. ASSUME NEW j \in i + 1 .. m - 1, j \in marks  PROVE FALSE
      <4>1. j \in next
        BY <1>1, <1>2, <2>3, <3>1
      <4> QED
        BY <1>1, <2>1, <2>3, <3>1, <4>1
    <3> QED
      BY <3>1
  <2>8. m - 1 \in Nat /\ i <= m - 1 /\ m - 1 <= Len(text) /\ (m - 1) + 1 = m
    BY <1>1, <2>3
  <2>10. Section(text, i) = SubSeq(text, i + 1, m - 1)
    BY <2>2, <2>5, <2>6
  <2> DEFINE e == m - 1
  <2>11. /\ e \in Nat /\ i <= e /\ e <= Len(text) /\ e + 1 \in marks
         /\ Section(text, i) = SubSeq(text, i + 1, e)
         /\ \A j \in i + 1 .. e : j \notin marks
    BY <2>3, <2>7, <2>8, <2>10
  <2> HIDE DEF e
  <2> QED
    BY <2>11
<1> QED
  BY <1>3, <1>4

LEMMA SectionsParsed ==
    ASSUME NEW S, NEW text \in Seq(S), NEW marks,
           marks = {i \in DOMAIN text : text[i] \in Markers},
           \A i, j \in marks : FileOf(text[i]) = FileOf(text[j]) => i = j,
           NEW i \in marks,
           \A j \in {j \in marks : j > i /\ \A k \in marks : k > i => j <= k} :
              text[j] \in Files
    PROVE  LET body == ParseFiles(text)[FileOf(text[i])] IN
           /\ \A j \in DOMAIN body : i + j \notin marks /\ body[j] = text[i + j]
           /\ i + Len(body) + 1 \in marks \cup {Len(text) + 1}
<1>1. Len(text) \in Nat /\ DOMAIN text = 1 .. Len(text) /\ i \in Nat /\ 1 <= i /\ i <= Len(text)
      /\ marks \in SUBSET Nat
  OBVIOUS
<1>2. PICK e \in Nat :
         /\ Section(text, i) = SubSeq(text, i + 1, e)
         /\ i <= e /\ e <= Len(text)
         /\ e + 1 \in marks \cup {Len(text) + 1}
         /\ \A j \in i + 1 .. e : j \notin marks
  BY SectionEnds
<1>3. Max({k \in marks : FileOf(text[k]) = FileOf(text[i])}) = i
  <2> DEFINE same == {k \in marks : FileOf(text[k]) = FileOf(text[i])}
  <2>1. same \in SUBSET Nat /\ i \in same /\ \A k \in same : k <= i
    BY <1>1
  <2> HIDE DEF same
  <2>2. Max(same) = i
    BY <2>1, MaxIs
  <2> QED
    BY <2>2 DEF same
<1> DEFINE body == SubSeq(text, i + 1, e)
<1>4. ParseFiles(text)[FileOf(text[i])] = body
  <2>1. ParseFiles(text)[FileOf(text[i])] = Section(text, i)
    BY <1>3 DEF ParseFiles
  <2> QED
    BY <1>2, <2>1
<1>5. /\ body \in Seq(S) /\ Len(body) = e - i
      /\ \A j \in 1 .. e - i : body[j] = text[i + j]
  <2>1. i + 1 \in Int /\ e \in Int /\ \A k \in i + 1 .. e : text[k] \in S
    BY <1>1, <1>2
  <2>2. /\ SubSeq(text, i + 1, e) \in Seq(S)
        /\ Len(SubSeq(text, i + 1, e)) = IF i + 1 <= e THEN e - (i + 1) + 1 ELSE 0
        /\ \A j \in 1 .. e - (i + 1) + 1 : SubSeq(text, i + 1, e)[j] = text[i + 1 + j - 1]
    BY <2>1, SubSeqProperties
  <2>3. e - (i + 1) + 1 = e - i /\ (~ (i + 1 <= e) => e - i = 0)
    BY <1>1, <1>2
  <2>4. \A j \in 1 .. e - i : i + 1 + j - 1 = i + j
    BY <1>1, <1>2
  <2> QED
    BY <2>2, <2>3, <2>4
<1> HIDE DEF body
<1>6. DOMAIN body = 1 .. e - i
  BY <1>5
<1>7. \A j \in DOMAIN body : i + j \notin marks /\ body[j] = text[i + j]
  <2> TAKE j \in DOMAIN body
  <2>1. i + j \in i + 1 .. e
    BY <1>1, <1>2, <1>6
  <2> QED
    BY <1>2, <1>5, <1>6, <2>1
<1>8. i + Len(body) + 1 = e + 1
  BY <1>1, <1>2, <1>5
<1> QED
  BY <1>2, <1>4, <1>7, <1>8

LEMMA WroteSections ==
    ASSUME Parsed
    PROVE  SectionsExact
<1>1. CASE wrote = Nothing
  <2>1. wrote.text = <<>> /\ DOMAIN wrote.text = {}
    BY <1>1 DEF Nothing
  <2> QED
    BY <2>1 DEF SectionsExact
<1>2. ASSUME NEW text \in Texts, wrote = [text |-> text, files |-> ParseFiles(text)]
      PROVE  SectionsExact
  <2>1. text \in Seq(Range(text)) /\ wrote.text = text /\ wrote.files = ParseFiles(text)
    BY <1>2, ParametersAssumption
  <2> DEFINE marks == {i \in DOMAIN text : text[i] \in Markers}
             S == Range(text)
  <2>3. text \in Seq(S) /\ marks = {i \in DOMAIN text : text[i] \in Markers}
    BY <2>1
  <2> HIDE DEF marks, S
  <2>2. ASSUME \A i, j \in marks : FileOf(text[i]) = FileOf(text[j]) => i = j,
               NEW i \in marks,
               \A j \in {j \in marks : j > i /\ \A k \in marks : k > i => j <= k} :
                  text[j] \in Files
        PROVE  LET body == ParseFiles(text)[FileOf(text[i])] IN
               /\ \A j \in DOMAIN body : i + j \notin marks /\ body[j] = text[i + j]
               /\ i + Len(body) + 1 \in marks \cup {Len(text) + 1}
    BY <2>2, <2>3, SectionsParsed
  <2> QED
    BY <2>1, <2>2, <2>3 DEF SectionsExact
<1> QED
  BY <1>1, <1>2 DEF Parsed

\* writeOutputs, savePlan and build-summary.json: what is on the disk is true, across
\* crashes, failed writes and runs that resume; the summary has one entry for each
\* chunk, as it ended, and each file its own section of the merged code.  For any
\* plans, any merged code and any number of starts.
THEOREM Told == Spec => []ReportTrue
<1>1. OrchInv => ReportTrue
  <2> SUFFICES ASSUME OrchInv  PROVE ReportTrue
    OBVIOUS
  <2>1. ASSUME phase = "done"
        PROVE  /\ report.run = run /\ Len(report.chunks) = Cardinality(Placed)
               /\ \A n \in Names(plan, Placed) :
                     Cardinality(Entries(n)) =
                     Cardinality({c \in Placed : plan[c].name = n /\ job[c] = "ok"})
    <3>1. /\ report.run = run /\ report.chunks = summary
          /\ Len(summary) = Len(results)
      BY <2>1 DEF OrchInv, Reported
    <3>2. Len(results) = Cardinality(Placed)
      <4>1. Over = Placed
        BY <2>1, OverSettled DEF Active
      <4> QED
        BY <2>1, <4>1 DEF OrchInv, Resulted, Active
    <3> QED
      BY <2>1, <3>1, <3>2, EntriesCounted
  <2>2. \A i \in DOMAIN report.chunks : \A f \in report.chunks[i].files :
           disk[f] >= report.run
    BY DEF OrchInv, Reported
  <2>3. SectionsExact
    BY WroteSections DEF OrchInv
  <2> QED
    BY <2>1, <2>2, <2>3 DEF ReportTrue
<1> QED
  BY <1>1, Always, PTL
=============================================================================
