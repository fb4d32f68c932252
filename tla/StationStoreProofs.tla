------------------------- MODULE StationStoreProofs -------------------------
(***************************************************************************)
(* Theorems about the two stores of the server that keep something for     *)
(* each station: BroadcastStore, its queues of messages, and TtsStore, its *)
(* transactions.  They share no variable.                                  *)
(*                                                                         *)
(* For broadcasts the work is in the functions defined by recursion: that  *)
(* of FlattenSeq and the loop of Decode exist, by the least number for     *)
(* which they would not, and their types follow by induction on the number *)
(* of rounds, with a set of numbers for the induction hypothesis.          *)
(***************************************************************************)
EXTENDS BroadcastStore, TtsStore, SequenceTheorems, WellFoundedInduction, TLAPS

LEMMA LeastOfNumbers ==
    ASSUME NEW S \in SUBSET Nat, S # {}
    PROVE  \E m \in S : \A x \in S : m <= x
<1>1. PICK m \in S : \A x \in S : ~ (<<x, m>> \in OpToRel(<, Nat))
  BY NatLessThanWellFounded, WFMin
<1>2. OpToRel(<, Nat) = {p \in Nat \X Nat : p[1] < p[2]}
  BY DEF OpToRel
<1>3. ASSUME NEW x \in S, x < m PROVE FALSE
  <2>1. <<x, m>> \in {p \in Nat \X Nat : p[1] < p[2]}
    BY <1>3
  <2> QED
    BY <1>1, <1>2, <2>1, Zenon
<1> QED
  BY <1>3

\* Induction up to n, for the numbers of a set.
LEMMA UpTo ==
    ASSUME NEW n \in Nat, NEW Good, 0 \in Good,
           \A k \in 1 .. n : k - 1 \in Good => k \in Good
    PROVE  \A k \in 0 .. n : k \in Good
<1> DEFINE Bad == {k \in 0 .. n : k \notin Good}
<1>1. SUFFICES ASSUME Bad # {} PROVE FALSE
  OBVIOUS
<1>2. PICK m \in Bad : \A x \in Bad : m <= x
  <2>1. Bad \in SUBSET Nat
    OBVIOUS
  <2> QED
    BY ONLY <1>1, <2>1, LeastOfNumbers
<1>3. m \in 0 .. n /\ m \notin Good
  BY <1>2
<1>4. m # 0 /\ m \in 1 .. n /\ m - 1 \in 0 .. n /\ ~ (m <= m - 1)
  BY <1>3
<1>5. m - 1 \in Good
  BY <1>2, <1>4
<1> QED
  BY <1>3, <1>4, <1>5
-----------------------------------------------------------------------------
(***************************************************************************)
(* FlattenSeq: the function that it defines by recursion exists, and what  *)
(* it returns is a sequence.                                               *)
(***************************************************************************)

AreParts(s, n, f) == f = [i \in 1 .. n |-> IF i = 1 THEN s[i] ELSE f[i - 1] \o s[i]]

LEMMA PartsExist ==
    ASSUME NEW s, NEW n \in Nat
    PROVE  \E f : AreParts(s, n, f)
<1> DEFINE Good == {k \in Nat : \E f : AreParts(s, k, f)}
<1>1. 0 \in Good
  <2>1. AreParts(s, 0, [i \in 1 .. 0 |-> <<>>])
    BY DEF AreParts
  <2> QED
    BY <2>1
<1>2. ASSUME NEW k \in 1 .. n, k - 1 \in Good PROVE k \in Good
  <2>1. PICK f : AreParts(s, k - 1, f)
    BY <1>2
  <2> DEFINE g == [i \in 1 .. k |->
                     IF i = k THEN IF k = 1 THEN s[1] ELSE f[k - 1] \o s[k] ELSE f[i]]
  <2>2. \A i \in 1 .. k - 1 : f[i] = IF i = 1 THEN s[i] ELSE f[i - 1] \o s[i]
    BY <2>1 DEF AreParts
  <2>3. ASSUME NEW i \in 1 .. k PROVE g[i] = IF i = 1 THEN s[i] ELSE g[i - 1] \o s[i]
    <3>1. CASE i = k
      <4>1. i # 1 => g[i - 1] = f[k - 1]
        BY <3>1
      <4> QED
        BY <3>1, <4>1
    <3>2. CASE i # k
      <4>1. i \in 1 .. k - 1 /\ g[i] = f[i]
        BY <3>2
      <4>2. i # 1 => g[i - 1] = f[i - 1]
        BY <4>1
      <4> QED
        BY <2>2, <4>1, <4>2
    <3> QED
      BY <3>1, <3>2
  <2>4. AreParts(s, k, g)
    BY <2>3 DEF AreParts
  <2> QED
    BY <2>4
<1> HIDE DEF Good
<1>3. n \in Good
  BY <1>1, <1>2, UpTo
<1> QED
  BY <1>3 DEF Good

LEMMA FlattenIs ==
    ASSUME NEW S, NEW s \in Seq(S), s # <<>>
    PROVE  \E f : AreParts(s, Len(s), f) /\ FlattenSeq(s) = f[Len(s)]
<1> DEFINE f == CHOOSE f : AreParts(s, Len(s), f)
<1>1. AreParts(s, Len(s), f)
  BY PartsExist
<1>2. FlattenSeq(s) = f[Len(s)]
  BY DEF FlattenSeq, AreParts
<1> QED
  BY <1>1, <1>2

LEMMA FlattenOne ==
    ASSUME NEW x
    PROVE  FlattenSeq(<<x>>) = x
<1>1. <<x>> \in Seq({x}) /\ <<x>> # <<>> /\ Len(<<x>>) = 1 /\ <<x>>[1] = x
  OBVIOUS
<1>2. PICK f : AreParts(<<x>>, 1, f) /\ FlattenSeq(<<x>>) = f[1]
  BY <1>1, FlattenIs
<1>3. \A i \in 1 .. 1 : f[i] = IF i = 1 THEN <<x>>[i] ELSE f[i - 1] \o <<x>>[i]
  BY <1>2 DEF AreParts
<1> QED
  BY <1>1, <1>2, <1>3

LEMMA FlattenType ==
    ASSUME NEW S, NEW s \in Seq(Seq(S))
    PROVE  FlattenSeq(s) \in Seq(S)
<1>1. CASE s = <<>>
  BY <1>1 DEF FlattenSeq
<1>2. CASE s # <<>>
  <2>1. PICK f : AreParts(s, Len(s), f) /\ FlattenSeq(s) = f[Len(s)]
    BY <1>2, FlattenIs
  <2>2. \A i \in 1 .. Len(s) : f[i] = IF i = 1 THEN s[i] ELSE f[i - 1] \o s[i]
    BY <2>1 DEF AreParts
  <2>3. \A i \in 1 .. Len(s) : s[i] \in Seq(S)
    OBVIOUS
  <2> DEFINE Good == {i \in 0 .. Len(s) : i = 0 \/ f[i] \in Seq(S)}
  <2>4. ASSUME NEW k \in 1 .. Len(s), k - 1 \in Good PROVE k \in Good
    <3>1. CASE k = 1
      BY <2>2, <2>3, <3>1
    <3>2. CASE k # 1
      <4>1. k - 1 # 0 /\ f[k - 1] \in Seq(S)
        BY <2>4, <3>2
      <4>2. f[k] = f[k - 1] \o s[k] /\ s[k] \in Seq(S)
        BY <2>2, <2>3, <3>2
      <4>3. f[k] \in Seq(S)
        BY <4>1, <4>2, ConcatProperties
      <4> QED
        BY <4>3
    <3> QED
      BY <3>1, <3>2
  <2>5. 0 \in Good /\ Len(s) \in Nat /\ Len(s) # 0
    BY <1>2
  <2> HIDE DEF Good
  <2>6. \A k \in 0 .. Len(s) : k \in Good
    BY ONLY <2>4, <2>5, UpTo
  <2> QED
    BY <2>1, <2>5, <2>6 DEF Good
<1> QED
  BY <1>1, <1>2

LEMMA ConcatNotEmpty ==
    ASSUME NEW S, NEW s \in Seq(S), NEW t \in Seq(S), s # <<>> \/ t # <<>>
    PROVE  s \o t # <<>>
BY ConcatEqualIffEmpty

\* A sequence with an element that is not empty does not flatten to nothing.
LEMMA FlattenNotEmpty ==
    ASSUME NEW S, NEW s \in Seq(Seq(S)), NEW j \in 1 .. Len(s), s[j] # <<>>
    PROVE  FlattenSeq(s) # <<>>
<1>1. PICK f : AreParts(s, Len(s), f) /\ FlattenSeq(s) = f[Len(s)]
  BY FlattenIs
<1>2. \A i \in 1 .. Len(s) : f[i] = IF i = 1 THEN s[i] ELSE f[i - 1] \o s[i]
  BY <1>1 DEF AreParts
<1>3. \A i \in 1 .. Len(s) : s[i] \in Seq(S)
  OBVIOUS
<1> DEFINE Good == {i \in 0 .. Len(s) : i = 0 \/ (f[i] \in Seq(S) /\ (i >= j => f[i] # <<>>))}
<1>4. ASSUME NEW k \in 1 .. Len(s), k - 1 \in Good PROVE k \in Good
  <2>1. CASE k = 1
    BY <1>2, <1>3, <2>1
  <2>2. CASE k # 1
    <3>1. k - 1 # 0 /\ f[k - 1] \in Seq(S) /\ (k - 1 >= j => f[k - 1] # <<>>)
      BY <1>4, <2>2
    <3>2. f[k] = f[k - 1] \o s[k] /\ s[k] \in Seq(S)
      BY <1>2, <1>3, <2>2
    <3>3. f[k] \in Seq(S)
      BY <3>1, <3>2, ConcatProperties
    <3>4. k >= j => k = j \/ k - 1 >= j
      OBVIOUS
    <3>5. k >= j => f[k - 1] # <<>> \/ s[k] # <<>>
      BY <3>1, <3>4
    <3>6. k >= j => f[k] # <<>>
      BY <3>1, <3>2, <3>5, ConcatNotEmpty
    <3> QED
      BY <3>3, <3>6
  <2> QED
    BY <2>1, <2>2
<1>5. 0 \in Good /\ Len(s) \in Nat /\ Len(s) # 0 /\ Len(s) >= j
  OBVIOUS
<1> HIDE DEF Good
<1>6. \A k \in 0 .. Len(s) : k \in Good
  BY ONLY <1>4, <1>5, UpTo
<1> QED
  BY <1>1, <1>5, <1>6 DEF Good
-----------------------------------------------------------------------------
(***************************************************************************)
(* The encoding and the loop that decodes it.                              *)
(***************************************************************************)

Byte     == 0 .. 255
Delivery == [to : 0 .. MaxWord, msg : Texts]
LoopState == [off : Nat \ {0}, out : Seq(Delivery), ok : BOOLEAN]
Start    == [off |-> 2, out |-> <<>>, ok |-> TRUE]

AreRounds(data, n, g) ==
    g = [i \in 0 .. n |-> IF i = 0 THEN Start ELSE Round(data, g[i - 1])]

LEMMA RoundsExist ==
    ASSUME NEW data, NEW n \in Nat
    PROVE  \E g : AreRounds(data, n, g)
<1> DEFINE Good == {k \in Nat : \E g : AreRounds(data, k, g)}
<1>1. 0 \in Good
  <2> DEFINE g == [i \in 0 .. 0 |-> Start]
  <2>1. g = [i \in 0 .. 0 |-> IF i = 0 THEN Start ELSE Round(data, g[i - 1])]
    OBVIOUS
  <2>2. AreRounds(data, 0, g)
    BY <2>1 DEF AreRounds
  <2> QED
    BY <2>2
<1>2. ASSUME NEW k \in 1 .. n, k - 1 \in Good PROVE k \in Good
  <2>1. PICK g : AreRounds(data, k - 1, g)
    BY <1>2
  <2> DEFINE h == [i \in 0 .. k |-> IF i = k THEN Round(data, g[k - 1]) ELSE g[i]]
  <2>2. \A i \in 0 .. k - 1 : g[i] = IF i = 0 THEN Start ELSE Round(data, g[i - 1])
    BY <2>1 DEF AreRounds
  <2>3. ASSUME NEW i \in 0 .. k PROVE h[i] = IF i = 0 THEN Start ELSE Round(data, h[i - 1])
    <3>1. CASE i = k
      <4>1. i # 0 /\ h[i - 1] = g[k - 1] /\ h[i] = Round(data, g[k - 1])
        BY <3>1
      <4> QED
        BY <3>1, <4>1
    <3>2. CASE i # k
      <4>1. i \in 0 .. k - 1 /\ h[i] = g[i]
        BY <3>2
      <4>2. i # 0 => h[i - 1] = g[i - 1]
        BY <4>1
      <4> QED
        BY <2>2, <4>1, <4>2
    <3> QED
      BY <3>1, <3>2
  <2>4. h = [i \in 0 .. k |-> IF i = 0 THEN Start ELSE Round(data, h[i - 1])]
    BY <2>3
  <2>5. AreRounds(data, k, h)
    BY <2>4 DEF AreRounds
  <2> QED
    BY <2>5
<1> HIDE DEF Good
<1>3. \A k \in 0 .. n : k \in Good
  BY <1>1, <1>2, UpTo
<1> QED
  BY <1>3 DEF Good

LEMMA DecodeIs ==
    ASSUME NEW data, data[1] \in Nat
    PROVE  \E g : /\ Decode(data) = g[data[1]]
                  /\ \A i \in 0 .. data[1] :
                        g[i] = IF i = 0 THEN Start ELSE Round(data, g[i - 1])
<1> DEFINE g == CHOOSE g : AreRounds(data, data[1], g)
<1>1. AreRounds(data, data[1], g)
  BY RoundsExist
<1>2. Decode(data) = g[data[1]]
  BY DEF Decode, AreRounds, Start
<1> HIDE DEF g
<1>3. \A i \in 0 .. data[1] : g[i] = IF i = 0 THEN Start ELSE Round(data, g[i - 1])
  BY <1>1 DEF AreRounds
<1> QED
  BY <1>2, <1>3

LEMMA MinOfTwo ==
    ASSUME NEW a \in Nat, NEW b \in Nat
    PROVE  Min({a, b}) = IF a <= b THEN a ELSE b
<1>1. \E x \in {a, b} : \A y \in {a, b} : x <= y
  OBVIOUS
<1>2. Min({a, b}) \in {a, b} /\ \A y \in {a, b} : Min({a, b}) <= y
  BY <1>1, Zenon DEF Min
<1> QED
  BY <1>2

LEMMA ByteIs == \A b : b \in Byte <=> b \in Nat /\ b <= 255
BY DEF Byte

LEMMA WordIs == MaxWord \in Nat
BY DEF MaxWord

\* Two bytes make a number, and a number two bytes that make it again.
LEMMA WordOfBytes ==
    ASSUME NEW a \in Byte, NEW b \in Byte
    PROVE  a * 256 + b \in 0 .. MaxWord
<1>1. a * 256 + b \in Nat /\ a * 256 + b <= MaxWord
  BY DEF Byte, MaxWord
<1> QED
  BY <1>1, WordIs

LEMMA HighByte ==
    ASSUME NEW n \in Nat, n <= MaxWord
    PROVE  n \div 256 \in Nat /\ n \div 256 <= 255
BY DEF MaxWord

LEMMA BytesOfWord ==
    ASSUME NEW n \in 0 .. MaxWord
    PROVE  /\ n \div 256 \in Byte
           /\ n % 256 \in Byte
           /\ (n \div 256) * 256 + (n % 256) = n
<1>1. n \in Nat /\ n <= MaxWord
  BY WordIs
<1>2. n \div 256 \in Nat /\ n \div 256 <= 255
  BY <1>1, HighByte
<1>3. n % 256 \in Nat /\ n % 256 <= 255 /\ (n \div 256) * 256 + (n % 256) = n
  BY <1>1
<1> QED
  BY <1>2, <1>3, ByteIs

LEMMA AsciiType ==
    ASSUME NEW s \in Seq(Byte)
    PROVE  Ascii(s) \in Texts
<1>1. ASSUME NEW b \in Byte PROVE b % 128 \in 0 .. 127
  BY DEF Byte
<1>2. \A i \in 1 .. Len(s) : s[i] \in Byte
  OBVIOUS
<1>3. \A i \in 1 .. Len(s) : s[i] % 128 \in 0 .. 127
  BY <1>1, <1>2
<1> QED
  BY <1>3, IsASeq DEF Ascii, Texts

LEMMA MessageType ==
    ASSUME NEW data \in Seq(Byte), NEW off \in Nat \ {0}
    PROVE  MessageAt(data, off) \in Texts
<1>1. CASE off + 2 > Len(data)
  BY <1>1 DEF MessageAt, Texts
<1>2. CASE ~ (off + 2 > Len(data))
  <2>1. off + 2 \in 1 .. Len(data) /\ data[off + 2] \in Nat
    <3>1. off + 2 \in 1 .. Len(data)
      BY <1>2
    <3> QED
      BY <3>1, ByteIs
  <2>2. PICK last \in Nat : /\ last <= Len(data)
                            /\ last = Min({off + 2 + data[off + 2], Len(data)})
    BY <2>1, MinOfTwo
  <2>3. \A i \in off + 3 .. last : data[i] \in Byte
    BY <2>2
  <2>4. SubSeq(data, off + 3, last) \in Seq(Byte)
    BY <2>3, SubSeqProperties
  <2>5. MessageAt(data, off) = Ascii(SubSeq(data, off + 3, last))
    BY <1>2, <2>2 DEF MessageAt
  <2> QED
    BY <2>4, <2>5, AsciiType
<1> QED
  BY <1>1, <1>2

LEMMA RoundType ==
    ASSUME NEW data \in Seq(Byte), NEW p \in LoopState
    PROVE  Round(data, p) \in LoopState
<1>1. CASE ~ p.ok \/ ~ Readable(data, p.off)
  BY <1>1 DEF Round, LoopState
<1>2. CASE p.ok /\ Readable(data, p.off)
  <2>1. p.off \in Nat \ {0} /\ p.out \in Seq(Delivery)
    BY DEF LoopState
  <2>2. p.off \in 1 .. Len(data) /\ p.off + 1 \in 1 .. Len(data)
    BY <1>2, <2>1 DEF Readable
  <2>3. data[p.off] \in Byte /\ data[p.off + 1] \in Byte
    BY <2>2
  <2>4. Target(data, p.off) \in 0 .. MaxWord
    BY ONLY <2>3, WordOfBytes DEF Target
  <2>5. After(data, p.off) \in Nat \ {0}
    <3>1. CASE p.off + 2 > Len(data)
      BY <3>1 DEF After
    <3>2. CASE ~ (p.off + 2 > Len(data))
      <4>1. data[p.off + 2] \in Byte
        BY <2>1, <3>2
      <4>2. data[p.off + 2] \in Nat
        BY <4>1, ByteIs
      <4>3. p.off + 3 + data[p.off + 2] \in Nat \ {0}
        <5>1. p.off \in Nat
          BY <2>1
        <5>2. \A a, b \in Nat : a + 3 + b \in Nat \ {0}
          OBVIOUS
        <5> QED
          BY ONLY <4>2, <5>1, <5>2
      <4> QED
        BY <3>2, <4>3 DEF After
    <3> QED
      BY <3>1, <3>2
  <2>6. [to |-> Target(data, p.off), msg |-> MessageAt(data, p.off)] \in Delivery
    <3>1. MessageAt(data, p.off) \in Texts
      BY <2>1, MessageType
    <3> QED
      BY <2>4, <3>1 DEF Delivery
  <2>7. Append(p.out, [to |-> Target(data, p.off), msg |-> MessageAt(data, p.off)])
          \in Seq(Delivery)
    BY <2>1, <2>6, AppendProperties
  <2> QED
    BY <1>2, <2>5, <2>7 DEF Round, LoopState
<1> QED
  BY <1>1, <1>2

\* Whatever the data, the loop ends with deliveries.
LEMMA DecodeType ==
    ASSUME NEW data \in Seq(Byte), data # <<>>
    PROVE  Decode(data) \in LoopState
<1>1. data[1] \in Nat
  <2>1. data[1] \in Byte
    OBVIOUS
  <2> QED
    BY <2>1, ByteIs
<1>2. PICK g : /\ Decode(data) = g[data[1]]
               /\ \A i \in 0 .. data[1] :
                     g[i] = IF i = 0 THEN Start ELSE Round(data, g[i - 1])
  BY <1>1, DecodeIs
<1> DEFINE Good == {i \in 0 .. data[1] : g[i] \in LoopState}
<1>3. 0 \in Good
  <2>1. Start \in LoopState
    BY DEF Start, LoopState
  <2> QED
    BY <1>1, <1>2, <2>1
<1>4. ASSUME NEW k \in 1 .. data[1], k - 1 \in Good PROVE k \in Good
  <2>1. g[k] = Round(data, g[k - 1]) /\ g[k - 1] \in LoopState /\ k \in 0 .. data[1]
    BY <1>1, <1>2, <1>4
  <2> QED
    BY <2>1, RoundType
<1> HIDE DEF Good
<1>5. \A k \in 0 .. data[1] : k \in Good
  BY ONLY <1>1, <1>3, <1>4, UpTo
<1> QED
  BY <1>1, <1>2, <1>5 DEF Good

LEMMA WordType ==
    ASSUME NEW n \in 0 .. MaxWord
    PROVE  Word(n) \in Seq(Byte)
BY BytesOfWord DEF Word

LEMMA EncodeType ==
    ASSUME NEW targets \in Targets, NEW msg \in Messages
    PROVE  Encode(targets, msg) \in Seq(Byte) /\ Encode(targets, msg) # <<>>
<1>1. targets \in Seq(Conns) /\ Len(targets) \in Byte
  <2>1. PICK n \in 1 .. MaxTargets : targets \in [1 .. n -> Conns]
    BY DEF Targets
  <2> QED
    BY <2>1, ParametersAssumption, ByteIs
<1>2. msg \in Seq(Byte) /\ Len(msg) \in Byte
  <2>1. msg \in Texts /\ Len(msg) <= 58
    BY ParametersAssumption
  <2>2. 0 .. 127 \subseteq Byte
    BY ByteIs
  <2>3. msg \in Seq(Byte)
    BY <2>1, <2>2, SeqMonotonic DEF Texts
  <2> QED
    BY <2>1, <2>3, ByteIs
<1>3. \A i \in 1 .. Len(targets) : Word(targets[i]) \in Seq(Byte)
  <2>1. ASSUME NEW i \in 1 .. Len(targets) PROVE targets[i] \in 0 .. MaxWord
    <3>1. targets[i] \in Conns
      BY <1>1
    <3>2. \A c \in 1 .. MaxWord : c \in 0 .. MaxWord
      BY WordIs
    <3> QED
      BY <3>1, <3>2, ParametersAssumption
  <2> QED
    BY <2>1, WordType
<1>4. [i \in 1 .. Len(targets) |-> Word(targets[i])] \in Seq(Seq(Byte))
  BY <1>1, <1>3
<1>5. PICK words \in Seq(Byte) :
         words = FlattenSeq([i \in 1 .. Len(targets) |-> Word(targets[i])])
  BY <1>4, FlattenType
<1>6. Encode(targets, msg) = <<Len(targets)>> \o words \o <<Len(msg)>> \o msg
  BY <1>5 DEF Encode
<1>7. <<Len(targets)>> \in Seq(Byte) /\ <<Len(msg)>> \in Seq(Byte)
  BY <1>1, <1>2
<1>8. <<Len(targets)>> \o words \in Seq(Byte) /\ <<Len(targets)>> \o words # <<>>
  BY <1>5, <1>7, ConcatProperties, ConcatNotEmpty
<1>9. /\ <<Len(targets)>> \o words \o <<Len(msg)>> \in Seq(Byte)
      /\ <<Len(targets)>> \o words \o <<Len(msg)>> # <<>>
  BY <1>7, <1>8, ConcatProperties, ConcatNotEmpty
<1> QED
  BY <1>2, <1>6, <1>9, ConcatProperties, ConcatNotEmpty
-----------------------------------------------------------------------------
(***************************************************************************)
(* The store: types.                                                       *)
(***************************************************************************)

LEMMA DeliveryIs ==
    ASSUME NEW out \in Seq(Delivery), NEW i \in 1 .. Len(out)
    PROVE  out[i].to \in 0 .. MaxWord /\ out[i].msg \in Texts
<1>1. out[i] \in Delivery
  OBVIOUS
<1> QED
  BY <1>1 DEF Delivery

LEMMA AddressedType ==
    ASSUME NEW out \in Seq(Delivery), NEW c
    PROVE  /\ Addressed(out, c) \in Seq(Texts)
           /\ (\E i \in 1 .. Len(out) : out[i].to = c) => Addressed(out, c) # <<>>
<1> DEFINE kept == [i \in 1 .. Len(out) |-> IF out[i].to = c THEN <<out[i].msg>> ELSE <<>>]
<1>1. \A i \in 1 .. Len(out) : out[i].msg \in Texts
  BY DeliveryIs
<1>2. \A i \in 1 .. Len(out) : kept[i] \in Seq(Texts)
  BY <1>1
<1>3. kept \in Seq(Seq(Texts)) /\ Len(kept) = Len(out)
  BY <1>2, IsASeq
<1>4. \A i \in 1 .. Len(out) : out[i].to = c => kept[i] # <<>>
  OBVIOUS
<1>5. Addressed(out, c) = FlattenSeq(kept)
  BY DEF Addressed
<1> HIDE DEF kept
<1> QED
  BY <1>3, <1>4, <1>5, FlattenType, FlattenNotEmpty

LEMMA DeliveriesType ==
    ASSUME NEW out \in Seq(Delivery), NEW c
    PROVE  Deliveries(out, c) \in Seq(Texts)
BY AddressedType DEF Deliveries

LEMMA WaitingType ==
    ASSUME TypeOK, NEW c
    PROVE  Waiting(c) \in Seq(Texts)
BY DEF TypeOK, Waiting

LEMMA InitType == Init => TypeOK
<1> SUFFICES ASSUME Init PROVE TypeOK
  OBVIOUS
<1>1. sends \in 0 .. MaxSends
  BY ParametersAssumption DEF Init
<1>2. DOMAIN messages = {} /\ messages \in [DOMAIN messages -> Seq(Texts) \ {<<>>}]
  BY DEF Init
<1>3. <<>> \in Seq(Texts)
  OBVIOUS
<1>4. accepted \in [Conns -> Seq(Texts)] /\ received \in [Conns -> Seq(Texts)]
  BY <1>3 DEF Init
<1>5. modes \in [Conns -> {0, 2}] /\ named \in [Conns -> SUBSET Messages] /\ down \in BOOLEAN
  BY DEF Init
<1> QED
  BY <1>1, <1>2, <1>4, <1>5 DEF TypeOK

\* What a SEND queues, and for whom.
Queued(out, hit) ==
    /\ out \in Seq(Delivery)
    /\ hit \subseteq 0 .. MaxWord
    /\ \A c \in hit : Deliveries(out, c) # <<>>
    /\ messages' = [c \in DOMAIN messages \cup hit |-> Waiting(c) \o Deliveries(out, c)]
    /\ accepted' = [c \in Conns |-> accepted[c] \o Deliveries(out, c)]

LEMMA SendQueues ==
    ASSUME NEW targets \in Targets, NEW msg \in Messages, Send(targets, msg)
    PROVE  \E out, hit : Queued(out, hit)
<1> DEFINE d == Decode(Encode(targets, msg))
           sentTo == {d.out[i].to : i \in 1 .. Len(d.out)}
           hit == {c \in sentTo : Mode(c) # 2}
<1>1. d.out \in Seq(Delivery)
  <2>1. d \in LoopState
    BY EncodeType, DecodeType
  <2> QED
    BY <2>1 DEF LoopState
<1>2. hit \subseteq 0 .. MaxWord
  <2>1. \A i \in 1 .. Len(d.out) : d.out[i].to \in 0 .. MaxWord
    BY <1>1, DeliveryIs
  <2> QED
    BY <2>1
<1>3. ASSUME NEW c \in hit PROVE Deliveries(d.out, c) # <<>>
  <2>1. \E i \in 1 .. Len(d.out) : d.out[i].to = c
    OBVIOUS
  <2>2. Deliveries(d.out, c) = Addressed(d.out, c)
    BY DEF Deliveries
  <2> QED
    BY <1>1, <2>1, <2>2, AddressedType
<1>4. /\ messages' = [c \in DOMAIN messages \cup hit |->
                        Waiting(c) \o Deliveries(d.out, c)]
      /\ accepted' = [c \in Conns |-> accepted[c] \o Deliveries(d.out, c)]
  BY DEF Send
<1> HIDE DEF hit, d
<1>5. Queued(d.out, hit)
  BY <1>1, <1>2, <1>3, <1>4 DEF Queued
<1> QED
  BY <1>5

\* The two variables that SEND writes through Decode keep their types.
LEMMA SendType ==
    ASSUME TypeOK, NEW targets \in Targets, NEW msg \in Messages, Send(targets, msg)
    PROVE  /\ DOMAIN messages' \subseteq 0 .. MaxWord
           /\ messages' \in [DOMAIN messages' -> Seq(Texts) \ {<<>>}]
           /\ accepted' \in [Conns -> Seq(Texts)]
<1>1. PICK out, hit : Queued(out, hit)
  BY SendQueues
<1>2. \A c : Deliveries(out, c) \in Seq(Texts) /\ Waiting(c) \in Seq(Texts)
  BY <1>1, DeliveriesType, WaitingType DEF Queued
<1>3. ASSUME NEW c \in DOMAIN messages \cup hit
      PROVE  Waiting(c) \o Deliveries(out, c) \in Seq(Texts) \ {<<>>}
  <2>1. Waiting(c) # <<>> \/ Deliveries(out, c) # <<>>
    BY <1>1 DEF Queued, Waiting, TypeOK
  <2> QED
    BY <1>2, <2>1, ConcatProperties, ConcatNotEmpty
<1>4. ASSUME NEW c \in Conns
      PROVE  accepted[c] \o Deliveries(out, c) \in Seq(Texts)
  <2>1. accepted[c] \in Seq(Texts)
    BY DEF TypeOK
  <2> QED
    BY <1>2, <2>1, ConcatProperties
<1>5. DOMAIN messages \subseteq 0 .. MaxWord
  BY DEF TypeOK
<1> QED
  BY <1>1, <1>3, <1>4, <1>5 DEF Queued

LEMMA NextType == TypeOK /\ [Next]_vars => TypeOK'
<1> SUFFICES ASSUME TypeOK, [Next]_vars PROVE TypeOK'
  OBVIOUS
<1>1. ASSUME NEW targets \in Targets, NEW msg \in Messages, Send(targets, msg) PROVE TypeOK'
  <2>1. sends' \in 0 .. MaxSends
    BY <1>1, ParametersAssumption DEF Send, TypeOK
  <2>2. named' \in [Conns -> SUBSET Messages]
    BY <1>1 DEF Send, TypeOK
  <2>3. modes' = modes /\ received' = received /\ down' \in BOOLEAN
    BY <1>1 DEF Send, TypeOK
  <2> QED
    BY <1>1, <2>1, <2>2, <2>3, SendType DEF TypeOK
<1>2. ASSUME NEW c \in Conns, Get(c) PROVE TypeOK'
  <2>1. Head(Waiting(c)) \in Texts
    BY <1>2, WaitingType, HeadTailProperties DEF Get
  <2>2. Append(received[c], Head(Waiting(c))) \in Seq(Texts)
    BY <2>1, AppendProperties DEF TypeOK
  <2>3. received' \in [Conns -> Seq(Texts)]
    BY <1>2, <2>2 DEF Get, TypeOK
  <2>4. /\ DOMAIN messages' \subseteq 0 .. MaxWord
        /\ messages' \in [DOMAIN messages' -> Seq(Texts) \ {<<>>}]
    BY <1>2 DEF Get, TypeOK
  <2> QED
    BY <1>2, <2>3, <2>4 DEF Get, TypeOK
<1>3. ASSUME NEW c \in Conns, NEW mode \in {0, 2}, SetMode(c, mode) PROVE TypeOK'
  BY <1>3 DEF SetMode, TypeOK
<1>4. CASE UNCHANGED vars
  BY <1>4 DEF vars, TypeOK
<1> QED
  BY <1>1, <1>2, <1>3, <1>4 DEF Next

\* Queues hold texts and none that exists is empty, whatever a SEND with any
\* list of targets is decoded to by the loop of SEND_MESSAGE.
THEOREM TypeCorrect == Spec => []TypeOK
BY InitType, NextType, PTL DEF Spec
-----------------------------------------------------------------------------
(***************************************************************************)
(* The order of what a station receives.  What it received and what is     *)
(* waiting for it stay together a subsequence of what was accepted: SEND   *)
(* adds the same messages to both, or to the second alone, and GET leaves  *)
(* a prefix of the first.                                                  *)
(***************************************************************************)

IsPlace(place, s, t) ==
    /\ place \in [1 .. Len(s) -> 1 .. Len(t)]
    /\ \A i \in 1 .. Len(s) : s[i] = t[place[i]]
    /\ \A i, j \in 1 .. Len(s) : i < j => place[i] < place[j]

LEMMA SubsequenceIs ==
    ASSUME NEW s, NEW t
    PROVE  IsSubsequence(s, t) <=> \E place : IsPlace(place, s, t)
BY DEF IsSubsequence, IsPlace

LEMMA SubsequenceLonger ==
    ASSUME NEW S, NEW s \in Seq(S), NEW t \in Seq(S), NEW u \in Seq(S),
           IsSubsequence(s, t)
    PROVE  IsSubsequence(s, t \o u)
<1>1. PICK place : IsPlace(place, s, t)
  BY SubsequenceIs
<1>2. /\ Len(t \o u) = Len(t) + Len(u)
      /\ \A k \in 1 .. Len(t) : (t \o u)[k] = t[k]
  BY ConcatProperties
<1>3. 1 .. Len(t) \subseteq 1 .. Len(t \o u)
  BY <1>2
<1>4. IsPlace(place, s, t \o u)
  BY <1>1, <1>2, <1>3 DEF IsPlace
<1> QED
  BY <1>4, SubsequenceIs

LEMMA SubsequencePrefix ==
    ASSUME NEW S, NEW s \in Seq(S), NEW u \in Seq(S), NEW t \in Seq(S),
           IsSubsequence(s \o u, t)
    PROVE  IsSubsequence(s, t)
<1>1. PICK place : IsPlace(place, s \o u, t)
  BY SubsequenceIs
<1>2. /\ Len(s \o u) = Len(s) + Len(u)
      /\ \A k \in 1 .. Len(s) : (s \o u)[k] = s[k]
  BY ConcatProperties
<1>3. 1 .. Len(s) \subseteq 1 .. Len(s \o u)
  BY <1>2
<1> DEFINE p == [i \in 1 .. Len(s) |-> place[i]]
<1>4. IsPlace(p, s, t)
  BY <1>1, <1>2, <1>3 DEF IsPlace
<1> QED
  BY <1>4, SubsequenceIs

LEMMA SubsequenceConcat ==
    ASSUME NEW S, NEW s \in Seq(S), NEW t \in Seq(S), NEW u \in Seq(S),
           IsSubsequence(s, t)
    PROVE  IsSubsequence(s \o u, t \o u)
<1>1. PICK place : IsPlace(place, s, t)
  BY SubsequenceIs
<1> DEFINE m == Len(s)
           n == Len(t)
           p == [i \in 1 .. m + Len(u) |-> IF i <= m THEN place[i] ELSE n + (i - m)]
<1>2. /\ Len(s \o u) = m + Len(u)
      /\ \A i \in 1 .. m + Len(u) : (s \o u)[i] = IF i <= m THEN s[i] ELSE u[i - m]
  BY ConcatProperties
<1>3. /\ Len(t \o u) = n + Len(u)
      /\ \A i \in 1 .. n + Len(u) : (t \o u)[i] = IF i <= n THEN t[i] ELSE u[i - n]
  BY ConcatProperties
<1>4. m \in Nat /\ n \in Nat /\ Len(u) \in Nat
  OBVIOUS
<1>5. \A i \in 1 .. m : place[i] \in 1 .. n /\ s[i] = t[place[i]]
  BY <1>1 DEF IsPlace
<1>6. \A i, j \in 1 .. m : i < j => place[i] < place[j]
  BY <1>1 DEF IsPlace
<1> HIDE DEF m, n
<1>7. ASSUME NEW i \in 1 .. m + Len(u)
      PROVE  p[i] \in 1 .. n + Len(u) /\ (s \o u)[i] = (t \o u)[p[i]]
  <2>1. CASE i <= m
    <3>1. i \in 1 .. m /\ p[i] = place[i]
      BY <1>4, <2>1
    <3>2. p[i] \in 1 .. n /\ s[i] = t[p[i]]
      BY <1>5, <3>1
    <3>3. p[i] \in 1 .. n + Len(u) /\ p[i] <= n
      BY <1>4, <3>2
    <3> QED
      BY <1>2, <1>3, <2>1, <3>2, <3>3
  <2>2. CASE ~ (i <= m)
    <3>1. p[i] = n + (i - m)
      BY <2>2
    <3>2. p[i] \in 1 .. n + Len(u) /\ ~ (p[i] <= n) /\ p[i] - n = i - m
      BY <1>4, <2>2, <3>1
    <3> QED
      BY <1>2, <1>3, <2>2, <3>2
  <2> QED
    BY <2>1, <2>2
<1>8. ASSUME NEW i \in 1 .. m + Len(u), NEW j \in 1 .. m + Len(u), i < j
      PROVE  p[i] < p[j]
  <2>1. CASE j <= m
    BY <1>4, <1>6, <1>8, <2>1
  <2>2. CASE i <= m /\ ~ (j <= m)
    <3>1. place[i] \in 1 .. n /\ p[i] = place[i] /\ p[j] = n + (j - m)
      BY <1>4, <1>5, <2>2
    <3> QED
      BY <1>4, <2>2, <3>1
  <2>3. CASE ~ (i <= m)
    <3>1. p[i] = n + (i - m) /\ p[j] = n + (j - m)
      BY <1>4, <1>8, <2>3
    <3> QED
      BY <1>4, <1>8, <3>1
  <2> QED
    BY <2>1, <2>2, <2>3
<1>9. IsPlace(p, s \o u, t \o u)
  <2>1. p \in [1 .. m + Len(u) -> 1 .. n + Len(u)]
    BY <1>7
  <2> HIDE DEF p
  <2> QED
    BY <1>2, <1>3, <1>7, <1>8, <2>1 DEF IsPlace
<1> QED
  BY <1>9, SubsequenceIs

LEMMA Regroup == \A s, t, u \in Seq(Texts) : s \o (t \o u) = (s \o t) \o u
<1> SUFFICES ASSUME NEW s \in Seq(Texts), NEW t \in Seq(Texts), NEW u \in Seq(Texts)
             PROVE  s \o (t \o u) = (s \o t) \o u
  OBVIOUS
<1> QED
  BY ONLY ConcatAssociative, SMTT(30)

LEMMA InitOrder == Init => ReceivedInOrder
<1> SUFFICES ASSUME Init, NEW c \in Conns
             PROVE  IsSubsequence(received[c] \o Waiting(c), accepted[c])
  BY DEF ReceivedInOrder
<1>1. received[c] = <<>> /\ Waiting(c) = <<>> /\ accepted[c] = <<>>
  BY DEF Init, Waiting
<1>2. <<>> \o <<>> = <<>>
  BY ConcatEmptySeq, EmptySeq
<1>3. IsPlace([i \in 1 .. 0 |-> 0], <<>>, <<>>)
  BY DEF IsPlace
<1> QED
  BY <1>1, <1>2, <1>3, SubsequenceIs

LEMMA NextOrder == TypeOK /\ ReceivedInOrder /\ [Next]_vars => ReceivedInOrder'
<1> SUFFICES ASSUME TypeOK, ReceivedInOrder, [Next]_vars, NEW c \in Conns
             PROVE  IsSubsequence(received[c] \o Waiting(c), accepted[c])'
  BY DEF ReceivedInOrder
<1>1. /\ received[c] \in Seq(Texts)
      /\ Waiting(c) \in Seq(Texts)
      /\ accepted[c] \in Seq(Texts)
      /\ received[c] \o Waiting(c) \in Seq(Texts)
  BY WaitingType, ConcatProperties DEF TypeOK
<1>2. IsSubsequence(received[c] \o Waiting(c), accepted[c])
  BY DEF ReceivedInOrder
<1>3. ASSUME NEW targets \in Targets, NEW msg \in Messages, Send(targets, msg)
      PROVE  IsSubsequence(received[c] \o Waiting(c), accepted[c])'
  <2>1. received' = received
    BY <1>3 DEF Send
  <2>2. PICK out, hit : Queued(out, hit)
    BY <1>3, SendQueues
  <2> DEFINE new == Deliveries(out, c)
  <2>3. new \in Seq(Texts)
    BY <2>2, DeliveriesType DEF Queued
  <2>4. accepted'[c] = accepted[c] \o new
    BY <2>2 DEF Queued
  <2>5. CASE c \in DOMAIN messages \cup hit
    <3>1. Waiting(c)' = Waiting(c) \o new
      BY <2>2, <2>5 DEF Queued, Waiting
    <3> HIDE DEF new
    <3>2. received[c] \o (Waiting(c) \o new) = (received[c] \o Waiting(c)) \o new
      <4>1. received[c] \in Seq(Texts) /\ Waiting(c) \in Seq(Texts)
        BY <1>1
      <4> QED
        BY ONLY <2>3, <4>1, Regroup, Zenon
    <3> QED
      BY <1>1, <1>2, <2>1, <2>3, <2>4, <3>1, <3>2, SubsequenceConcat
  <2>6. CASE c \notin DOMAIN messages \cup hit
    <3>1. Waiting(c)' = Waiting(c)
      BY <2>2, <2>6 DEF Queued, Waiting
    <3> HIDE DEF new
    <3> QED
      BY <1>1, <1>2, <2>1, <2>3, <2>4, <3>1, SubsequenceLonger
  <2> QED
    BY <2>5, <2>6
<1>4. ASSUME NEW x \in Conns, Get(x)
      PROVE  IsSubsequence(received[c] \o Waiting(c), accepted[c])'
  <2>1. accepted' = accepted
    BY <1>4 DEF Get
  <2>2. CASE x = c
    <3> DEFINE w == Waiting(c)
               first == <<Head(w)>>
    <3>1. received'[c] = Append(received[c], Head(w)) /\ w # <<>>
      BY <1>4, <2>2 DEF Get, TypeOK
    <3>2. Waiting(c)' = <<>>
      BY <1>4, <2>2 DEF Get, Waiting
    <3> HIDE DEF w
    <3>3. w \in Seq(Texts) /\ Head(w) \in Texts /\ Tail(w) \in Seq(Texts)
      BY <1>1, <3>1, HeadTailProperties DEF w
    <3>4. first \in Seq(Texts) /\ w = first \o Tail(w)
      BY <3>1, <3>3
    <3>5. received'[c] = received[c] \o first /\ received'[c] \in Seq(Texts)
      BY <1>1, <3>1, <3>3, AppendProperties, AppendIsConcat
    <3> HIDE DEF first
    <3>6. received[c] \o w = (received[c] \o first) \o Tail(w)
      <4>1. received[c] \o (first \o Tail(w)) = (received[c] \o first) \o Tail(w)
        <5>1. received[c] \in Seq(Texts) /\ first \in Seq(Texts)
          BY <1>1, <3>4
        <5>2. Tail(w) \in Seq(Texts)
          BY <3>3
        <5> QED
          BY ONLY <5>1, <5>2, Regroup, Zenon
      <4> QED
        BY <3>4, <4>1
    <3>7. IsSubsequence(received'[c] \o Tail(w), accepted[c])
      BY <1>2, <3>5, <3>6 DEF w
    <3>8. IsSubsequence(received'[c], accepted[c])
      BY <1>1, <3>3, <3>5, <3>7, SubsequencePrefix
    <3>9. received'[c] \o <<>> = received'[c]
      BY <3>5, ConcatEmptySeq
    <3> QED
      BY <2>1, <3>2, <3>8, <3>9
  <2>3. CASE x # c
    <3>1. received'[c] = received[c] /\ Waiting(c)' = Waiting(c)
      BY <1>4, <2>3 DEF Get, TypeOK, Waiting
    <3> QED
      BY <1>2, <2>1, <3>1
  <2> QED
    BY <2>2, <2>3
<1>5. ASSUME NEW x \in Conns, NEW mode \in {0, 2}, SetMode(x, mode)
      PROVE  IsSubsequence(received[c] \o Waiting(c), accepted[c])'
  BY <1>2, <1>5 DEF SetMode, Waiting
<1>6. CASE UNCHANGED vars
  BY <1>2, <1>6 DEF vars, Waiting
<1> QED
  BY <1>3, <1>4, <1>5, <1>6 DEF Next

\* GET of BroadcastStore gives a station messages in the order they were queued
\* for it, none twice, whoever sends to it and whenever it denies messages.
THEOREM InOrder == Spec => []ReceivedInOrder
BY InitOrder, NextOrder, TypeCorrect, PTL DEF Spec
-----------------------------------------------------------------------------
(***************************************************************************)
(* One target: what the server decodes is what the client meant.           *)
(***************************************************************************)

LEMMA HeaderIs ==
    ASSUME NEW a \in Nat, NEW b \in Nat, NEW n \in Nat
    PROVE  LET h == <<1>> \o <<a, b>> \o <<n>> IN
           /\ h \in Seq(Nat) /\ Len(h) = 4
           /\ h[1] = 1 /\ h[2] = a /\ h[3] = b /\ h[4] = n
<1> DEFINE one  == <<1>>
           two  == <<a, b>>
           last == <<n>>
           x    == one \o two
           y    == x \o last
<1>1. one \in Seq(Nat) /\ Len(one) = 1 /\ one[1] = 1
  OBVIOUS
<1>2. two \in Seq(Nat) /\ Len(two) = 2 /\ two[1] = a /\ two[2] = b
  OBVIOUS
<1>3. last \in Seq(Nat) /\ Len(last) = 1 /\ last[1] = n
  OBVIOUS
<1> HIDE DEF one, two, last
<1>4. x \in Seq(Nat) /\ Len(x) = 3 /\ x[1] = 1 /\ x[2] = a /\ x[3] = b
  <2>1. /\ x \in Seq(Nat) /\ Len(x) = Len(one) + Len(two)
        /\ \A i \in 1 .. Len(one) + Len(two) :
              x[i] = IF i <= Len(one) THEN one[i] ELSE two[i - Len(one)]
    BY ONLY <1>1, <1>2, ConcatProperties
  <2> HIDE DEF x
  <2> QED
    BY <1>1, <1>2, <2>1
<1> HIDE DEF x
<1>5. y \in Seq(Nat) /\ Len(y) = 4 /\ y[1] = 1 /\ y[2] = a /\ y[3] = b /\ y[4] = n
  <2>1. /\ y \in Seq(Nat) /\ Len(y) = Len(x) + Len(last)
        /\ \A i \in 1 .. Len(x) + Len(last) :
              y[i] = IF i <= Len(x) THEN x[i] ELSE last[i - Len(x)]
    BY ONLY <1>3, <1>4, ConcatProperties
  <2> HIDE DEF y
  <2> QED
    BY <1>3, <1>4, <2>1
<1> HIDE DEF y
<1>6. y = <<1>> \o <<a, b>> \o <<n>>
  BY DEF y, x, one, two, last
<1> QED
  BY <1>5, <1>6

LEMMA EncodeOne ==
    ASSUME NEW c \in Conns, NEW msg \in Messages
    PROVE  LET data == Encode(<<c>>, msg) IN
           /\ Len(data) = 4 + Len(msg)
           /\ data[1] = 1 /\ data[2] = c \div 256 /\ data[3] = c % 256
           /\ data[4] = Len(msg)
           /\ \A i \in 1 .. Len(msg) : data[4 + i] = msg[i]
<1>1. [i \in 1 .. Len(<<c>>) |-> Word(<<c>>[i])] = <<Word(c)>>
  OBVIOUS
<1>2. Encode(<<c>>, msg) = <<1>> \o Word(c) \o <<Len(msg)>> \o msg
  BY <1>1, FlattenOne DEF Encode
<1>3. msg \in Seq(Nat) /\ c \div 256 \in Nat /\ c % 256 \in Nat
  <2>1. msg \in Texts /\ c \in Nat
    BY ParametersAssumption, WordIs
  <2>2. 0 .. 127 \subseteq Nat
    OBVIOUS
  <2>3. msg \in Seq(Nat)
    BY ONLY <2>1, <2>2, SeqMonotonic DEF Texts
  <2> QED
    BY <2>1, <2>3
<1>4. Len(msg) \in Nat
  BY <1>3
<1> DEFINE h == <<1>> \o <<c \div 256, c % 256>> \o <<Len(msg)>>
<1>5. /\ h \in Seq(Nat) /\ Len(h) = 4
      /\ h[1] = 1 /\ h[2] = c \div 256 /\ h[3] = c % 256 /\ h[4] = Len(msg)
  BY ONLY <1>3, <1>4, HeaderIs
<1>6. Encode(<<c>>, msg) = h \o msg
  BY <1>2 DEF Word
<1> HIDE DEF h
<1>7. /\ Len(h \o msg) = 4 + Len(msg)
      /\ \A i \in 1 .. 4 + Len(msg) :
            (h \o msg)[i] = IF i <= 4 THEN h[i] ELSE msg[i - 4]
  <2>1. /\ Len(h \o msg) = Len(h) + Len(msg)
        /\ \A i \in 1 .. Len(h) + Len(msg) :
              (h \o msg)[i] = IF i <= Len(h) THEN h[i] ELSE msg[i - Len(h)]
    <3>1. h \in Seq(Nat) /\ msg \in Seq(Nat)
      BY <1>3, <1>5
    <3> QED
      BY ONLY <3>1, ConcatProperties
  <2> QED
    BY ONLY <1>5, <2>1
<1> DEFINE data == h \o msg
<1> HIDE DEF data
<1>8. \A i \in 1 .. 4 : data[i] = h[i]
  <2>1. \A i \in 1 .. 4 : i \in 1 .. 4 + Len(msg) /\ i <= 4
    BY <1>4
  <2> QED
    BY <1>7, <2>1 DEF data
<1>9. data[1] = h[1] /\ data[2] = h[2] /\ data[3] = h[3] /\ data[4] = h[4]
  <2>1. 1 \in 1 .. 4 /\ 2 \in 1 .. 4 /\ 3 \in 1 .. 4 /\ 4 \in 1 .. 4
    OBVIOUS
  <2> QED
    BY ONLY <1>8, <2>1
<1>10. \A i \in 1 .. Len(msg) : data[4 + i] = msg[i]
  <2>1. \A i \in 1 .. Len(msg) :
           4 + i \in 1 .. 4 + Len(msg) /\ ~ (4 + i <= 4) /\ (4 + i) - 4 = i
    BY <1>4
  <2> QED
    BY <1>7, <2>1 DEF data
<1>11. Len(data) = 4 + Len(msg) /\ Encode(<<c>>, msg) = data
  BY <1>6, <1>7 DEF data
<1> QED
  BY <1>5, <1>9, <1>10, <1>11

\* The one round of the loop takes the whole message for the one target.
LEMMA DecodeOne ==
    ASSUME NEW c \in Conns, NEW msg \in Messages
    PROVE  /\ Decode(Encode(<<c>>, msg)).out = <<[to |-> c, msg |-> msg]>>
           /\ Decode(Encode(<<c>>, msg)).ok
<1> DEFINE data == Encode(<<c>>, msg)
           n == Len(msg)
<1>1. /\ Len(data) = 4 + n
      /\ data[1] = 1 /\ data[2] = c \div 256 /\ data[3] = c % 256 /\ data[4] = n
      /\ \A i \in 1 .. n : data[4 + i] = msg[i]
  BY EncodeOne
<1>2. msg \in Texts /\ n \in Nat /\ c \in 0 .. MaxWord
  <2>1. msg \in Texts /\ c \in 1 .. MaxWord
    BY ParametersAssumption
  <2> QED
    BY <2>1, WordIs DEF Texts
<1> HIDE DEF data, n
<1>3. Target(data, 2) = c
  BY <1>1, <1>2, BytesOfWord DEF Target
<1>4. MessageAt(data, 2) = msg
  <2>1. ~ (2 + 2 > Len(data)) /\ 2 + 2 + data[2 + 2] = 4 + n /\ 4 + n \in Nat
    BY <1>1, <1>2
  <2>2. Min({2 + 2 + data[2 + 2], Len(data)}) = 4 + n
    BY <1>1, <2>1, MinOfTwo
  <2>3. MessageAt(data, 2) = Ascii(SubSeq(data, 5, 4 + n))
    BY <2>1, <2>2 DEF MessageAt
  <2> DEFINE Char == 0 .. 127
             text == SubSeq(data, 5, 4 + n)
  <2> HIDE DEF Char, text
  <2>4. \A i \in 1 .. n : msg[i] \in Char
    <3>1. msg \in Seq(Char)
      BY <1>2 DEF Texts, Char
    <3> QED
      BY <3>1 DEF n
  <2>5. \A i \in 5 .. 4 + n : i - 4 \in 1 .. n /\ 4 + (i - 4) = i
    BY <1>2
  <2>6. ASSUME NEW i \in 5 .. 4 + n PROVE data[i] \in Char
    <3>1. data[4 + (i - 4)] = msg[i - 4] /\ msg[i - 4] \in Char
      BY <1>1, <2>4, <2>5
    <3> QED
      BY <2>5, <3>1
  <2>7. /\ Len(text) = IF 5 <= 4 + n THEN (4 + n) - 5 + 1 ELSE 0
        /\ \A i \in 1 .. (4 + n) - 5 + 1 : text[i] = data[5 + i - 1]
    BY <1>2, <2>1, <2>6, SubSeqProperties DEF text
  <2>8. (4 + n) - 5 + 1 = n /\ Len(text) = n
    BY <1>2, <2>7
  <2>9. \A i \in 1 .. n : 5 + i - 1 = 4 + i
    BY <1>2
  <2>10. \A i \in 1 .. n : text[i] = msg[i]
    BY <1>1, <2>7, <2>8, <2>9
  <2>11. \A b \in Char : b % 128 = b
    BY DEF Char
  <2>12. \A i \in 1 .. n : text[i] % 128 = msg[i]
    BY <2>4, <2>10, <2>11
  <2>13. Ascii(text) = [i \in 1 .. n |-> msg[i]]
    BY <2>8, <2>12 DEF Ascii
  <2>14. msg = [i \in 1 .. n |-> msg[i]]
    BY <1>2 DEF Texts, n
  <2> QED
    BY <2>3, <2>13, <2>14 DEF text
<1>5. Readable(data, 2)
  BY <1>1, <1>2 DEF Readable
<1>6. Round(data, Start).out = <<[to |-> c, msg |-> msg]>> /\ Round(data, Start).ok
  <2>1. Start.ok /\ Start.off = 2 /\ Start.out = <<>>
    BY DEF Start
  <2>2. /\ Round(data, Start).out = Append(<<>>, [to |-> c, msg |-> msg])
        /\ Round(data, Start).ok
    BY <1>3, <1>4, <1>5, <2>1 DEF Round
  <2> QED
    BY <2>2
<1>7. data[1] \in Nat
  BY <1>1
<1>8. PICK g : /\ Decode(data) = g[data[1]]
               /\ \A i \in 0 .. data[1] :
                     g[i] = IF i = 0 THEN Start ELSE Round(data, g[i - 1])
  BY <1>7, DecodeIs
<1>9. g[1] = Round(data, Start)
  <2>1. g[0] = Start /\ g[1] = Round(data, g[1 - 1])
    BY <1>1, <1>8
  <2> QED
    BY <2>1
<1> QED
  BY <1>1, <1>6, <1>8, <1>9 DEF data

\* What accepted[x] becomes when msg is sent to c alone.
Grown(c, msg, x) ==
    IF x = c /\ Mode(c) # 2 THEN Append(accepted[x], msg) ELSE accepted[x]

LEMMA SendOne ==
    ASSUME TypeOK, NEW c \in Conns, NEW msg \in Messages, NEW x \in Conns,
           Send(<<c>>, msg)
    PROVE  ~ down' /\ accepted'[x] = Grown(c, msg, x)
<1> DEFINE out == <<[to |-> c, msg |-> msg]>>
<1>1. ~ down' /\ accepted' = [y \in Conns |-> accepted[y] \o Deliveries(out, y)]
  BY DecodeOne DEF Send
<1>2. accepted[x] \in Seq(Texts)
  BY DEF TypeOK
<1>3. Deliveries(out, x) = IF x = c /\ Mode(c) # 2 THEN <<msg>> ELSE <<>>
  <2>1. [i \in 1 .. Len(out) |-> IF out[i].to = x THEN <<out[i].msg>> ELSE <<>>]
          = <<IF x = c THEN <<msg>> ELSE <<>>>>
    OBVIOUS
  <2>2. Addressed(out, x) = IF x = c THEN <<msg>> ELSE <<>>
    BY <2>1, FlattenOne DEF Addressed
  <2> QED
    BY <2>2 DEF Deliveries
<1> HIDE DEF out
<1>4. msg \in Texts
  BY ParametersAssumption
<1>5. accepted[x] \o <<>> = accepted[x]
  BY <1>2, ConcatEmptySeq
<1>6. accepted[x] \o <<msg>> = Append(accepted[x], msg)
  BY <1>2, <1>4, AppendIsConcat
<1> QED
  BY <1>1, <1>3, <1>5, <1>6 DEF Grown

\* sendBroadcast to one target and the loop of SEND_MESSAGE agree: the message
\* arrives byte for byte, at that station unless it denies messages, and nowhere
\* else.
THEOREM SingleTarget == Spec => SingleTargetExact
<1>1. TypeOK /\ [Next]_vars =>
        [\A c \in Conns, msg \in Messages : Send(<<c>>, msg) =>
           /\ ~ down'
           /\ \A x \in Conns :
                 accepted'[x] = IF x = c /\ Mode(c) # 2 THEN Append(accepted[x], msg)
                                ELSE accepted[x]]_vars
  BY SendOne DEF Grown
<1> QED
  BY <1>1, TypeCorrect, PTL DEF Spec, SingleTargetExact

LEMMA InitReaches == Init => ReachesAddressed
BY DEF Init, ReachesAddressed, ToSet

\* With one target for each SEND nothing reaches a station that was not
\* addressed: a station's queue grows by the message, and with it "named".
LEMMA NextReaches ==
    MaxTargets = 1 /\ TypeOK /\ ReachesAddressed /\ [Next]_vars => ReachesAddressed'
<1> SUFFICES ASSUME MaxTargets = 1, TypeOK, ReachesAddressed, [Next]_vars
             PROVE  ReachesAddressed'
  OBVIOUS
<1>1. ASSUME NEW targets \in Targets, NEW msg \in Messages, Send(targets, msg),
             NEW x \in Conns
      PROVE  ToSet(accepted'[x]) \subseteq named'[x]
  <2>1. PICK n \in 1 .. MaxTargets : targets \in [1 .. n -> Conns]
    BY DEF Targets
  <2>2. n = 1
    BY ONLY MaxTargets = 1, n \in 1 .. MaxTargets
  <2> DEFINE c == targets[1]
  <2>3. targets = <<c>> /\ c \in Conns
    BY <2>1, <2>2
  <2> HIDE DEF c
  <2>4. Send(<<c>>, msg)
    BY <1>1, <2>3
  <2>5. named'[x] = IF x = c THEN named[x] \cup {msg} ELSE named[x]
    BY <2>4 DEF Send, ToSet
  <2>6. \/ accepted'[x] = accepted[x]
        \/ x = c /\ accepted'[x] = Append(accepted[x], msg)
    BY <2>3, <2>4, SendOne DEF Grown
  <2>7. ToSet(Append(accepted[x], msg)) \subseteq ToSet(accepted[x]) \cup {msg}
    <3>1. accepted[x] \in Seq(Texts)
      BY DEF TypeOK
    <3> QED
      BY <3>1, ParametersAssumption, AppendProperties DEF ToSet
  <2>8. ToSet(accepted[x]) \subseteq named[x]
    BY DEF ReachesAddressed
  <2> QED
    BY <2>5, <2>6, <2>7, <2>8
<1>2. ASSUME NEW c \in Conns, Get(c) \/ SetMode(c, 0) \/ SetMode(c, 2)
      PROVE  ReachesAddressed'
  BY <1>2 DEF Get, SetMode, ReachesAddressed
<1>3. CASE UNCHANGED vars
  BY <1>3 DEF vars, ReachesAddressed
<1> QED
  BY <1>1, <1>2, <1>3 DEF Next, ReachesAddressed

\* Programs that name one connection in each SEND do not meet the disagreement
\* of sendBroadcast with SEND_MESSAGE: the text goes to whom it was addressed.
THEOREM OneTargetReaches == MaxTargets = 1 => (Spec => []ReachesAddressed)
<1>1. ASSUME MaxTargets = 1 PROVE TypeOK /\ ReachesAddressed /\ [Next]_vars => ReachesAddressed'
  BY <1>1, NextReaches
<1>2. ASSUME MaxTargets = 1 PROVE Spec => []ReachesAddressed
  BY <1>1, <1>2, InitReaches, TypeCorrect, PTL DEF Spec
<1> QED
  BY <1>2
-----------------------------------------------------------------------------
(***************************************************************************)
(* Transactions: types.                                                    *)
(***************************************************************************)

LEMMA TtsInitType == TtsInit => TtsTypeOK
  BY DEF TtsInit, TtsTypeOK

LEMMA TtsNextType == TtsTypeOK /\ [TtsNext]_ttsVars => TtsTypeOK'
<1> SUFFICES ASSUME TtsTypeOK, [TtsNext]_ttsVars PROVE TtsTypeOK'
  OBVIOUS
<1> USE DEF TtsTypeOK, Create
<1>1. ASSUME NEW w \in Stations, Begin(w) PROVE TtsTypeOK'
  BY <1>1 DEF Begin
<1>2. ASSUME NEW w \in Stations, End(w) PROVE TtsTypeOK'
  BY <1>2 DEF End
<1>3. ASSUME NEW i \in Numbers, Abort(i) PROVE TtsTypeOK'
  BY <1>3 DEF Abort
<1>4. ASSUME NEW value \in BOOLEAN, Enable(value) PROVE TtsTypeOK'
  BY <1>4 DEF Enable
<1>5. CASE UNCHANGED ttsVars
  BY <1>5 DEF ttsVars, server
<1> QED BY <1>1, <1>2, <1>3, <1>4, <1>5 DEF TtsNext

\* The store and what its stations know keep their types.
THEOREM TransactionTypes == TtsSpec => []TtsTypeOK
  BY TtsInitType, TtsNextType, PTL DEF TtsSpec
-----------------------------------------------------------------------------
(***************************************************************************)
(* A committed number stays until it is aborted: numbers are new when they *)
(* are given out, so that END touches no number but its own.               *)
(***************************************************************************)

LEMMA CommittedStep == TtsTypeOK /\ CommittedStays /\ [TtsNext]_ttsVars => CommittedStays'
<1> SUFFICES ASSUME TtsTypeOK, CommittedStays, [TtsNext]_ttsVars PROVE CommittedStays'
  OBVIOUS
<1> USE DEF TtsTypeOK, CommittedStays, IsCommitted, Create
<1>1. ASSUME NEW w \in Stations, Begin(w) PROVE CommittedStays'
  BY <1>1 DEF Begin
<1>2. ASSUME NEW w \in Stations, End(w) PROVE CommittedStays'
  BY <1>2 DEF End
<1>3. ASSUME NEW i \in Numbers, Abort(i) PROVE CommittedStays'
  BY <1>3 DEF Abort
<1>4. ASSUME NEW value \in BOOLEAN, Enable(value) PROVE CommittedStays'
  BY <1>4 DEF Enable
<1>5. CASE UNCHANGED ttsVars
  BY <1>5 DEF ttsVars, server
<1> QED BY <1>1, <1>2, <1>3, <1>4, <1>5 DEF TtsNext

\* A number END answered with is one station's, and committed until an ABORT
\* names it, for any number of stations on the one table of TTSStore.
THEOREM Committed == TtsSpec => []CommittedStays
<1>1. TtsInit => CommittedStays
  BY DEF TtsInit, CommittedStays
<1> QED BY <1>1, CommittedStep, TransactionTypes, PTL DEF TtsSpec
======================================================================================================================================================
