-------------------------- MODULE MediaTask_proofs --------------------------
(***************************************************************************)
(* Proofs about MediaTask and ProgramStream, for any units, any gaps, any  *)
(* limits and any failures: the bytes of a unit rejoin and its clock reads *)
(* back, a session is torn down by its streak alone, a loss shows in the   *)
(* sequence numbers, and what the platform takes for a frame is one unit.  *)
(***************************************************************************)
EXTENDS MediaTask, WellFoundedInduction, TLAPS

-----------------------------------------------------------------------------
(* The program stream: its bytes, its clock and its lengths.               *)

(* Some bits of a number are below their modulus.                          *)
LEMMA BitField ==
    ASSUME NEW v \in Nat, NEW d \in Nat \ {0}, NEW m \in Nat \ {0}
    PROVE  (v \div d) % m \in 0 .. m - 1
<1>1. v \div d \in Nat
  OBVIOUS
<1> QED
  BY <1>1

(* The fields the two clocks are made of.                                  *)
LEMMA FieldsBounded ==
    ASSUME NEW v \in Nat
    PROVE  /\ Bits(v, 30, 3) \in 0 .. 7 /\ Bits(v, 28, 2) \in 0 .. 3
           /\ Bits(v, 20, 8) \in 0 .. 255 /\ Bits(v, 15, 5) \in 0 .. 31
           /\ Bits(v, 13, 2) \in 0 .. 3 /\ Bits(v, 5, 8) \in 0 .. 255
           /\ Bits(v, 0, 5) \in 0 .. 31 /\ Bits(v, 22, 8) \in 0 .. 255
           /\ Bits(v, 15, 7) \in 0 .. 127 /\ Bits(v, 7, 8) \in 0 .. 255
           /\ Bits(v, 0, 7) \in 0 .. 127
  BY DEF Bits

(* A pack header is fourteen bytes.                                        *)
LEMMA PackHeaderTyped ==
    ASSUME NEW v \in Nat
    PROVE  PackHeader(v) \in Seq(Byte)
<1>1. /\ Bits(10000, 14, 8) \in Byte /\ Bits(10000, 6, 8) \in Byte
      /\ 3 + Bits(10000, 0, 6) * 4 \in Byte
  BY DEF Bits, Byte
<1>2. /\ 68 + Bits(v, 30, 3) * 8 + Bits(v, 28, 2) \in Byte
      /\ 4 + Bits(v, 15, 5) * 8 + Bits(v, 13, 2) \in Byte
      /\ 4 + Bits(v, 0, 5) * 8 \in Byte
      /\ Bits(v, 20, 8) \in Byte /\ Bits(v, 5, 8) \in Byte
  <2>1. 68 + Bits(v, 30, 3) * 8 + Bits(v, 28, 2) \in Byte
    <3>1. Bits(v, 30, 3) \in 0 .. 7 /\ Bits(v, 28, 2) \in 0 .. 3
      BY FieldsBounded
    <3> QED
      BY <3>1 DEF Byte
  <2>2. 4 + Bits(v, 15, 5) * 8 + Bits(v, 13, 2) \in Byte
    <3>1. Bits(v, 15, 5) \in 0 .. 31 /\ Bits(v, 13, 2) \in 0 .. 3
      BY FieldsBounded
    <3> QED
      BY <3>1 DEF Byte
  <2>3. 4 + Bits(v, 0, 5) * 8 \in Byte
    <3>1. Bits(v, 0, 5) \in 0 .. 31
      BY FieldsBounded
    <3> QED
      BY <3>1 DEF Byte
  <2>4. Bits(v, 20, 8) \in Byte /\ Bits(v, 5, 8) \in Byte
    BY FieldsBounded DEF Byte
  <2> QED
    BY <2>1, <2>2, <2>3, <2>4
<1>3. {0, 1, 186, 248} \subseteq Byte
  BY DEF Byte
<1> QED
  BY <1>1, <1>2, <1>3 DEF PackHeader

(* A stream map is bytes.                                                  *)
LEMMA StreamMapTyped == StreamMap \in Seq(Byte)
BY DEF StreamMap, Byte, Video

(* A clock field is five bytes.                                            *)
LEMMA ClockTyped ==
    ASSUME NEW v \in Nat, NEW prefix \in 0 .. 15
    PROVE  EncodeClock(v, prefix) \in Seq(Byte) /\ Len(EncodeClock(v, prefix)) = 5
<1>1. /\ prefix * 16 + Bits(v, 30, 3) * 2 + 1 \in Byte
      /\ Bits(v, 22, 8) \in Byte
      /\ Bits(v, 15, 7) * 2 + 1 \in Byte
      /\ Bits(v, 7, 8) \in Byte
      /\ Bits(v, 0, 7) * 2 + 1 \in Byte
  <2>1. prefix * 16 + Bits(v, 30, 3) * 2 + 1 \in Byte
    <3>1. Bits(v, 30, 3) \in 0 .. 7
      BY FieldsBounded
    <3> QED
      BY <3>1 DEF Byte
  <2>2. Bits(v, 15, 7) * 2 + 1 \in Byte /\ Bits(v, 0, 7) * 2 + 1 \in Byte
    <3>1. Bits(v, 15, 7) \in 0 .. 127 /\ Bits(v, 0, 7) \in 0 .. 127
      BY FieldsBounded
    <3> QED
      BY <3>1 DEF Byte
  <2>3. Bits(v, 22, 8) \in Byte /\ Bits(v, 7, 8) \in Byte
    BY FieldsBounded DEF Byte
  <2> QED
    BY <2>1, <2>2, <2>3
<1> QED
  BY <1>1 DEF EncodeClock

(* What encode_pts_dts writes, parse_pts_dts reads back, for any clock, up *)
(* to the 33 bits of its field.                                            *)
THEOREM ClockReadsBack ==
    ASSUME NEW v \in Nat, NEW prefix \in 0 .. 15
    PROVE  DecodeClock(EncodeClock(v, prefix)) = v % 2^33
<1>. DEFINE a == Bits(v, 30, 3)
            b == Bits(v, 22, 8)
            c == Bits(v, 15, 7)
            d == Bits(v, 7, 8)
            e == Bits(v, 0, 7)
<1>1. a \in 0 .. 7 /\ b \in 0 .. 255 /\ c \in 0 .. 127 /\ d \in 0 .. 255 /\ e \in 0 .. 127
  BY FieldsBounded
<1>2. v % 2^33 = a * 2^30 + b * 2^22 + c * 2^15 + d * 2^7 + e
  <2>1. v = (v \div 2^7) * 2^7 + e
    BY DEF Bits
  <2>2. v \div 2^7 = (v \div 2^15) * 2^8 + d
    BY DEF Bits
  <2>3. v \div 2^15 = (v \div 2^22) * 2^7 + c
    BY DEF Bits
  <2>4. v \div 2^22 = (v \div 2^30) * 2^8 + b
    BY DEF Bits
  <2>5. v \div 2^30 = (v \div 2^33) * 2^3 + a
    BY DEF Bits
  <2>6. v \div 2^33 \in Nat /\ v \div 2^30 \in Nat /\ v \div 2^22 \in Nat
        /\ v \div 2^15 \in Nat /\ v \div 2^7 \in Nat
    OBVIOUS
  <2>. DEFINE r == a * 2^30 + b * 2^22 + c * 2^15 + d * 2^7 + e
  <2>. HIDE DEF a, b, c, d, e
  <2>7. v = (v \div 2^33) * 2^33 + r
    BY <1>1, <2>1, <2>2, <2>3, <2>4, <2>5, <2>6
  <2>8. r \in 0 .. 2^33 - 1
    BY <1>1
  <2>. HIDE DEF r
  <2>9. v % 2^33 = r
    BY <2>6, <2>7, <2>8
  <2> QED
    BY <2>9 DEF r
<1>. HIDE DEF a, b, c, d, e
<1>3. /\ Bits(prefix * 16 + a * 2 + 1, 1, 3) = a
      /\ Bits(c * 2 + 1, 1, 7) = c
      /\ Bits(e * 2 + 1, 1, 7) = e
  BY <1>1 DEF Bits
<1>4. EncodeClock(v, prefix) = <<prefix * 16 + a * 2 + 1, b, c * 2 + 1, d, e * 2 + 1>>
  BY DEF EncodeClock, a, b, c, d, e
<1>5. DecodeClock(EncodeClock(v, prefix)) = a * 2^30 + b * 2^22 + c * 2^15 + d * 2^7 + e
  BY <1>3, <1>4 DEF DecodeClock
<1> QED
  BY <1>2, <1>5

(* A set of naturals that has 0 and, with a number, the next has all of them:*)
(* what it misses would have a least element.                              *)
LEMMA Induction ==
    ASSUME NEW T, 0 \in T, \A n \in Nat : n \in T => n + 1 \in T
    PROVE  \A n \in Nat : n \in T
<1>. DEFINE Out == {n \in Nat : n \notin T}
            Before == {p \in Nat \X Nat : p[1] < p[2]}
<1>1. IsWellFoundedOn(Before, Nat)
  BY NatLessThanWellFounded DEF OpToRel
<1> SUFFICES ASSUME Out # {}
             PROVE  FALSE
  OBVIOUS
<1>2. PICK x \in Out : \A y \in Out : <<y, x>> \notin Before
  <2> HIDE DEF Before
  <2>1. Out \subseteq Nat
     OBVIOUS
  <2> HIDE DEF Out
  <2> QED BY WFMin, <1>1, <2>1
<1>3. x \in Nat /\ x # 0 /\ x - 1 \in Nat /\ x - 1 < x
  BY <1>2
<1>4. x - 1 \in Out
  BY <1>2, <1>3
<1> QED
  BY <1>2, <1>3, <1>4

(* f starts at a, and step[i] takes it from i - 1 to i, up to N.           *)
Iterates(f, a, N, step) ==
    f[0] = a /\ \A i \in 1 .. N : f[i] = step[i][f[i - 1]]

(* N steps can always be taken one after the other.                        *)
LEMMA Recursion ==
    ASSUME NEW S, NEW a \in S, NEW N \in Nat, NEW step \in [1 .. N -> [S -> S]]
    PROVE  \E f \in [0 .. N -> S] : Iterates(f, a, N, step)
<1>. DEFINE Table(n, f) == f[0] = a /\ \A i \in 1 .. n : f[i] = step[i][f[i - 1]]
            T == {n \in Nat : n <= N => \E f \in [0 .. n -> S] : Table(n, f)}
<1>1. 0 \in T
  <2>1. [i \in 0 .. 0 |-> a] \in [0 .. 0 -> S] /\ Table(0, [i \in 0 .. 0 |-> a])
    OBVIOUS
  <2> QED
    BY <2>1
<1>2. ASSUME NEW n \in Nat, n \in T
      PROVE  n + 1 \in T
  <2> SUFFICES ASSUME n + 1 <= N
               PROVE  \E f \in [0 .. n + 1 -> S] : Table(n + 1, f)
    OBVIOUS
  <2>1. PICK f \in [0 .. n -> S] : Table(n, f)
    BY <1>2
  <2>. DEFINE g == [i \in 0 .. n + 1 |-> IF i = n + 1 THEN step[n + 1][f[n]] ELSE f[i]]
  <2>2. step[n + 1] \in [S -> S] /\ f[n] \in S
    OBVIOUS
  <2>3. g \in [0 .. n + 1 -> S]
    BY <2>2
  <2>4. g[0] = a
    BY <2>1
  <2>5. ASSUME NEW i \in 1 .. n + 1
        PROVE  g[i] = step[i][g[i - 1]]
    <3>1. CASE i = n + 1
      BY <3>1
    <3>2. CASE i # n + 1
      <4>1. i \in 1 .. n /\ i - 1 \in 0 .. n
        BY <3>2
      <4>2. g[i] = f[i] /\ g[i - 1] = f[i - 1]
        BY <4>1, <3>2
      <4> QED
        BY <4>1, <4>2, <2>1
    <3> QED
      BY <3>1, <3>2
  <2> QED
    BY <2>3, <2>4, <2>5
<1>3. \A n \in Nat : n \in T
  <2>. HIDE DEF T
  <2> QED
    BY <1>1, <1>2, Induction
<1> QED
  BY <1>3 DEF Iterates

(* FlattenSeq, on a sequence that has elements: the library writes it as the*)
(* last value of a function defined by recursion on the position.          *)
LEMMA FlattenUnfolds ==
    ASSUME NEW q, Len(q) # 0, NEW h,
           h = [i \in 1 .. Len(q) |-> IF i = 1 THEN q[i] ELSE h[i - 1] \o q[i]],
           \A g : g = [i \in 1 .. Len(q) |-> IF i = 1 THEN q[i] ELSE g[i - 1] \o q[i]]
                      => g[Len(q)] = h[Len(q)]
    PROVE FlattenSeq(q) = h[Len(q)]
BY Zenon DEF FlattenSeq

(* f[n] is what FlattenSeq makes of the first n sequences of s.            *)
Flattens(s, f) ==
    /\ f[0] = <<>>
    /\ \A i \in 1 .. Len(s) : f[i] = f[i - 1] \o s[i]
    /\ \A n \in 0 .. Len(s) : FlattenSeq([k \in 1 .. n |-> s[k]]) = f[n]

(* There is such a table for every sequence of sequences.                  *)
LEMMA FlattenTable ==
    ASSUME NEW S, NEW s \in Seq(Seq(S))
    PROVE  \E f \in [0 .. Len(s) -> Seq(S)] : Flattens(s, f)
<1>. DEFINE step == [i \in 1 .. Len(s) |-> [x \in Seq(S) |-> x \o s[i]]]
<1>1. \A i \in 1 .. Len(s) : s[i] \in Seq(S)
  OBVIOUS
<1>2. step \in [1 .. Len(s) -> [Seq(S) -> Seq(S)]] /\ Len(s) \in Nat /\ <<>> \in Seq(S)
  BY <1>1
<1>3. PICK f \in [0 .. Len(s) -> Seq(S)] :
          f[0] = <<>> /\ \A i \in 1 .. Len(s) : f[i] = step[i][f[i - 1]]
  <2>. DEFINE A == Seq(S)
              a == <<>>
              N == Len(s)
  <2>1. step \in [1 .. N -> [A -> A]] /\ N \in Nat /\ a \in A
    BY <1>2
  <2>. HIDE DEF step, A, a, N
  <2>2. \E f \in [0 .. N -> A] : Iterates(f, a, N, step)
    BY <2>1, Recursion
  <2> QED
    BY <2>2 DEF A, a, N, Iterates
<1>4. \A i \in 1 .. Len(s) : f[i] = f[i - 1] \o s[i]
  <2> SUFFICES ASSUME NEW i \in 1 .. Len(s)
               PROVE  f[i] = f[i - 1] \o s[i]
    OBVIOUS
  <2>1. f[i - 1] \in Seq(S)
    OBVIOUS
  <2> QED
    BY <1>3, <2>1
<1>5. ASSUME NEW n \in 0 .. Len(s)
      PROVE  FlattenSeq([k \in 1 .. n |-> s[k]]) = f[n]
  <2>. DEFINE q == [k \in 1 .. n |-> s[k]]
  <2>1. Len(q) = n /\ \A k \in 1 .. n : q[k] = s[k]
    OBVIOUS
  <2>2. CASE n = 0
    <3>1. q = <<>>
      BY <2>2
    <3> QED
      BY <1>3, <2>1, <2>2, <3>1 DEF FlattenSeq
  <2>3. CASE n # 0
    <3>. DEFINE Flat(g) == [i \in 1 .. Len(q) |-> IF i = 1 THEN q[i] ELSE g[i - 1] \o q[i]]
                h == [i \in 1 .. n |-> f[i]]
    <3>0. \A i \in 1 .. n : h[i] = f[i]
      OBVIOUS
    <3>1. \A i \in 1 .. n : h[i] = IF i = 1 THEN q[i] ELSE h[i - 1] \o q[i]
      <4> SUFFICES ASSUME NEW i \in 1 .. n
                   PROVE  h[i] = IF i = 1 THEN q[i] ELSE h[i - 1] \o q[i]
        OBVIOUS
      <4>1. f[i] = f[i - 1] \o s[i] /\ q[i] = s[i] /\ s[i] \in Seq(S) /\ h[i] = f[i]
        <5>0. i \in 1 .. Len(s)
          OBVIOUS
        <5>1. f[i] = f[i - 1] \o s[i] /\ s[i] \in Seq(S)
          BY <1>1, <1>4, <5>0, Zenon
        <5>2. q[i] = s[i] /\ h[i] = f[i]
          BY <2>1, <3>0
        <5> QED
          BY <5>1, <5>2
      <4>2. CASE i = 1
        <5>1. <<>> \o s[i] = s[i]
          BY <4>1
        <5>2. f[i - 1] = <<>>
          BY <1>3, <4>2
        <5>3. f[i] = s[i]
          BY <4>1, <5>1, <5>2
        <5>. HIDE DEF h, q
        <5> QED
          BY <4>1, <4>2, <5>3
      <4>3. CASE i # 1
        <5>1. h[i - 1] = f[i - 1]
          BY <3>0, <4>3
        <5>. HIDE DEF h, q
        <5> QED
          BY <4>1, <4>3, <5>1
      <4> QED
        BY <4>2, <4>3
    <3>2. h = Flat(h)
      BY <2>1, <3>1
    <3>3. ASSUME NEW g, g = Flat(g)
          PROVE  g[Len(q)] = h[Len(q)]
      <4>. DEFINE Same == {i \in Nat : i + 1 <= n => g[i + 1] = h[i + 1]}
      <4>. HIDE DEF q, h
      <4>1. \A i \in 1 .. n : g[i] = IF i = 1 THEN q[i] ELSE g[i - 1] \o q[i]
        BY <3>3, <2>1
      <4>2. 0 \in Same
        <5>1. 1 \in 1 .. n
          BY <2>3
        <5>2. g[1] = q[1] /\ h[1] = q[1]
          BY <3>1, <4>1, <5>1
        <5> QED
          BY <5>2
      <4>3. ASSUME NEW i \in Nat, i \in Same
            PROVE  i + 1 \in Same
        <5> SUFFICES ASSUME i + 1 + 1 <= n
                     PROVE  g[i + 1 + 1] = h[i + 1 + 1]
          OBVIOUS
        <5>1. g[i + 1] = h[i + 1]
          BY <4>3
        <5>2. i + 1 + 1 \in 1 .. n /\ i + 1 + 1 # 1 /\ i + 1 + 1 - 1 = i + 1
          OBVIOUS
        <5> QED
          BY <3>1, <4>1, <5>1, <5>2
      <4>4. \A i \in Nat : i \in Same
        <5>. HIDE DEF Same
        <5> QED
          BY <4>2, <4>3, Induction
      <4>5. n - 1 \in Nat /\ n - 1 + 1 = n
        BY <2>3
      <4>6. g[n - 1 + 1] = h[n - 1 + 1]
        <5>1. n - 1 \in Same
          BY <4>4, <4>5
        <5> QED
          BY <4>5, <5>1
      <4> QED
        BY <2>1, <4>5, <4>6
    <3>4. Len(q) # 0
      BY <2>1, <2>3
    <3>5. FlattenSeq(q) = h[Len(q)]
      <4>. HIDE DEF h, q
      <4> QED
        BY <3>2, <3>3, <3>4, FlattenUnfolds
    <3>6. h[Len(q)] = f[n]
      <4>1. n \in 1 .. n
        BY <2>3
      <4> QED
        BY <2>1, <3>0, <4>1
    <3> QED
      BY <3>5, <3>6
  <2> QED
    BY <2>2, <2>3
<1> QED
  BY <1>3, <1>4, <1>5 DEF Flattens

(* The elements of a sequence over S are in S.                             *)
LEMMA ElementOf ==
    ASSUME NEW S, NEW s \in Seq(S), NEW i \in 1 .. Len(s)
    PROVE  s[i] \in S
OBVIOUS

(* Where the elements of two sequences lie in their concatenation.         *)
LEMMA ConcatShape ==
    ASSUME NEW S, NEW p \in Seq(S), NEW q \in Seq(S)
    PROVE  /\ p \o q \in Seq(S)
           /\ Len(p \o q) = Len(p) + Len(q)
           /\ \A j \in 1 .. Len(p) : (p \o q)[j] = p[j]
           /\ \A j \in 1 .. Len(q) : (p \o q)[Len(p) + j] = q[j]
OBVIOUS

-----------------------------------------------------------------------------
(* Cutting a sequence into pieces, and joining them.                       *)

(* The pieces of Pieces and of Chunks.                                     *)
Cut(s, M, N) ==
    [k \in 1 .. N |->
        SubSeq(s, (k - 1) * M + 1, IF k * M < Len(s) THEN k * M ELSE Len(s))]

(* Every piece but the first starts in s.                                  *)
Fills(s, M, N) == \A k \in 1 .. N : k > 1 => (k - 1) * M < Len(s)

(* So many pieces of at most M cover L elements, and each starts in them.  *)
LEMMA CeilingDivision ==
    ASSUME NEW L \in Nat, NEW M \in Nat \ {0}
    PROVE  /\ (L + M - 1) \div M \in Nat
           /\ ((L + M - 1) \div M) * M >= L
           /\ \A k \in 1 .. (L + M - 1) \div M : (k - 1) * M < L
           /\ (L + M - 1) \div M = 0 <=> L = 0
<1>. DEFINE q == (L + M - 1) \div M
            r == (L + M - 1) % M
<1>1. L + M - 1 \in Nat
  OBVIOUS
<1>2. q \in Nat /\ r \in 0 .. M - 1 /\ q * M + r = L + M - 1
  BY <1>1
<1>. HIDE DEF q, r
<1>3. q * M \in Nat
  BY <1>2
<1>4. q * M >= L
  BY <1>2, <1>3
<1>5. ASSUME NEW k \in 1 .. q
      PROVE  (k - 1) * M < L
  <2>1. q - k \in Nat
    BY <1>2
  <2>2. (q - k) * M \in Nat
    BY <2>1
  <2>3. (k - 1) * M = q * M - (q - k) * M - M
    BY <1>2
  <2>4. (k - 1) * M \in Int
    BY <1>2
  <2> QED
    BY <1>2, <1>3, <2>2, <2>3, <2>4
<1>6. q = 0 <=> L = 0
  <2>1. CASE q = 0
    BY <1>4, <2>1
  <2>2. CASE q # 0
    <3>1. 1 \in 1 .. q
      BY <1>2, <2>2
    <3>2. (1 - 1) * M < L
      BY <1>5, <3>1
    <3> QED
      BY <2>2, <3>2
  <2> QED
    BY <2>1, <2>2
<1> QED
  BY <1>2, <1>4, <1>5, <1>6 DEF q

(* N sequences over S, none longer than M and none but the first empty.    *)
CutShape(c, S, M, N) ==
    /\ c \in Seq(Seq(S)) /\ Len(c) = N
    /\ \A k \in 1 .. N : Len(c[k]) <= M
    /\ \A k \in 1 .. N : Len(c[k]) \in Nat
    /\ \A k \in 1 .. N : k > 1 => Len(c[k]) > 0

(* Cut gives that shape.                                                   *)
LEMMA CutTyped ==
    ASSUME NEW S, NEW s \in Seq(S), NEW M \in Nat \ {0}, NEW N \in Nat,
           Fills(s, M, N)
    PROVE  CutShape(Cut(s, M, N), S, M, N)
<1>. DEFINE piece(k) ==
        SubSeq(s, (k - 1) * M + 1, IF k * M < Len(s) THEN k * M ELSE Len(s))
<1>1. ASSUME NEW k \in 1 .. N
      PROVE  /\ piece(k) \in Seq(S)
             /\ Len(piece(k)) \in 0 .. M
             /\ k > 1 => Len(piece(k)) > 0
  <2>. DEFINE from == (k - 1) * M + 1
              to == IF k * M < Len(s) THEN k * M ELSE Len(s)
  <2>1. (k - 1) * M \in Nat /\ k * M \in Nat /\ k * M = (k - 1) * M + M
    OBVIOUS
  <2>2. (k - 1) * M <= Len(s)
    <3>1. k = 1 => (k - 1) * M = 0
      OBVIOUS
    <3>2. Len(s) \in Nat
      OBVIOUS
    <3>3. k > 1 => (k - 1) * M < Len(s)
      BY DEF Fills
    <3> QED
      BY <2>1, <3>1, <3>2, <3>3
  <2>3. /\ from \in Nat /\ from >= 1 /\ to \in Nat /\ to <= Len(s)
        /\ from <= to + 1 /\ to + 1 - from <= M
        /\ k > 1 => from <= to
    <3>. DEFINE a == (k - 1) * M
                b == k * M
    <3>1. a \in Nat /\ b = a + M /\ a <= Len(s)
      BY <2>1, <2>2
    <3>6. k > 1 => a < Len(s)
      BY DEF Fills
    <3>2. from = a + 1 /\ to = IF b < Len(s) THEN b ELSE Len(s)
      OBVIOUS
    <3>3. Len(s) \in Nat /\ M \in Nat
      OBVIOUS
    <3>. HIDE DEF a, b, from, to
    <3>4. CASE b < Len(s)
      BY <3>1, <3>2, <3>3, <3>4, <3>6
    <3>5. CASE ~ b < Len(s)
      BY <3>1, <3>2, <3>3, <3>5, <3>6
    <3> QED
      BY <3>4, <3>5
  <2>. HIDE DEF from, to
  <2>4. SubSeq(s, from, to) \in Seq(S) /\ Len(SubSeq(s, from, to)) = to + 1 - from
    BY <2>3
  <2>5. piece(k) = SubSeq(s, from, to)
    BY DEF from, to
  <2>. HIDE DEF piece
  <2>6. piece(k) \in Seq(S) /\ Len(piece(k)) = to + 1 - from
    BY <2>4, <2>5
  <2> QED
    BY <2>3, <2>6
<1>2. Cut(s, M, N) = [k \in 1 .. N |-> piece(k)]
  BY DEF Cut
<1>. HIDE DEF piece
<1>3. [k \in 1 .. N |-> piece(k)] \in Seq(Seq(S)) /\ Len([k \in 1 .. N |-> piece(k)]) = N
  BY <1>1
<1>4. \A k \in 1 .. N : Len(piece(k)) <= M /\ Len(piece(k)) \in Nat
  BY <1>1
<1> QED
  BY <1>1, <1>2, <1>3, <1>4 DEF CutShape

(* Sequences of one length with the same elements are one sequence.        *)
LEMMA SameElements ==
    ASSUME NEW S, NEW u \in Seq(S), NEW v \in Seq(S), Len(u) = Len(v),
           \A i \in 1 .. Len(u) : u[i] = v[i]
    PROVE  u = v
OBVIOUS

(* Adjoining parts of a sequence make one part.                            *)
LEMMA PartsJoin ==
    ASSUME NEW S, NEW s \in Seq(S), NEW a \in Nat, NEW b \in Nat, a <= b, b <= Len(s)
    PROVE  SubSeq(s, 1, a) \o SubSeq(s, a + 1, b) = SubSeq(s, 1, b)
<1>1. /\ SubSeq(s, 1, a) \in Seq(S) /\ Len(SubSeq(s, 1, a)) = a
      /\ \A i \in 1 .. a : SubSeq(s, 1, a)[i] = s[i]
  OBVIOUS
<1>2. /\ SubSeq(s, a + 1, b) \in Seq(S) /\ Len(SubSeq(s, a + 1, b)) = b - a
      /\ \A i \in 1 .. b - a : SubSeq(s, a + 1, b)[i] = s[a + i]
  OBVIOUS
<1>3. /\ SubSeq(s, 1, b) \in Seq(S) /\ Len(SubSeq(s, 1, b)) = b
      /\ \A i \in 1 .. b : SubSeq(s, 1, b)[i] = s[i]
  OBVIOUS
<1>. DEFINE p == SubSeq(s, 1, a)
            q == SubSeq(s, a + 1, b)
            r == SubSeq(s, 1, b)
<1>. HIDE DEF p, q, r
<1>4. /\ p \o q \in Seq(S) /\ Len(p \o q) = Len(p) + Len(q)
      /\ \A i \in 1 .. Len(p) : (p \o q)[i] = p[i]
      /\ \A i \in 1 .. Len(q) : (p \o q)[Len(p) + i] = q[i]
  BY <1>1, <1>2 DEF p, q
<1>5. Len(p) = a /\ Len(q) = b - a /\ Len(r) = b /\ r \in Seq(S)
  BY <1>1, <1>2, <1>3 DEF p, q, r
<1>6. ASSUME NEW i \in 1 .. b
      PROVE  (p \o q)[i] = r[i]
  <2>1. CASE i <= a
    <3>1. i \in 1 .. a
      BY <2>1
    <3> QED
      BY <1>1, <1>3, <1>4, <1>5, <3>1 DEF p, r
  <2>2. CASE i > a
    <3>. DEFINE j == i - a
    <3>1. j \in 1 .. b - a /\ a + j = i
      BY <2>2
    <3>. HIDE DEF j
    <3>2. (p \o q)[i] = q[j]
      <4>1. (p \o q)[Len(p) + j] = q[j]
        BY <1>4, <1>5, <3>1
      <4> QED
        BY <1>5, <3>1, <4>1
    <3>3. q[j] = s[i]
      <4>1. q[j] = s[a + j]
        BY <1>2, <3>1 DEF q
      <4> QED
        BY <3>1, <4>1
    <3>4. r[i] = s[i]
      BY <1>3 DEF r
    <3> QED
      BY <3>2, <3>3, <3>4
  <2>3. i <= a \/ i > a
    OBVIOUS
  <2> QED
    BY <2>1, <2>2, <2>3, Zenon
<1>7. Len(p \o q) = b
  BY <1>4, <1>5
<1>8. p \o q = r
  <2>1. p \o q \in Seq(S) /\ r \in Seq(S) /\ Len(p \o q) = Len(r)
    BY <1>4, <1>5, <1>7
  <2>2. \A i \in 1 .. Len(p \o q) : (p \o q)[i] = r[i]
    BY <1>6, <1>7
  <2> QED
    BY <2>1, <2>2, SameElements
<1> QED
  BY <1>8 DEF p, q, r

(* Each piece continues where the last one stopped.                        *)
LEMMA CutRejoins ==
    ASSUME NEW S, NEW s \in Seq(S), NEW M \in Nat \ {0}, NEW N \in Nat, N * M >= Len(s),
           Fills(s, M, N)
    PROVE  FlattenSeq(Cut(s, M, N)) = s
<1>. DEFINE upto(k) == IF k * M < Len(s) THEN k * M ELSE Len(s)
            parts == Cut(s, M, N)
<1>1. parts \in Seq(Seq(S)) /\ Len(parts) = N
  BY CutTyped DEF CutShape
<1>2. PICK f \in [0 .. N -> Seq(S)] : Flattens(parts, f)
  BY <1>1, FlattenTable
<1>3. /\ f[0] = <<>>
      /\ \A i \in 1 .. N : f[i] = f[i - 1] \o parts[i]
      /\ \A n \in 0 .. N : FlattenSeq([k \in 1 .. n |-> parts[k]]) = f[n]
  BY <1>1, <1>2 DEF Flattens
<1>4. ASSUME NEW k \in 1 .. N
      PROVE  /\ parts[k] = SubSeq(s, upto(k - 1) + 1, upto(k))
             /\ upto(k - 1) \in Nat /\ upto(k) \in Nat
             /\ upto(k - 1) <= upto(k) /\ upto(k) <= Len(s)
  <2>. DEFINE a == (k - 1) * M
              b == k * M
  <2>1. a \in Nat /\ b = a + M /\ Len(s) \in Nat
    OBVIOUS
  <2>2. a <= Len(s)
    <3>1. k = 1 => a = 0
      OBVIOUS
    <3>2. k > 1 => a < Len(s)
      BY DEF Fills
    <3>. HIDE DEF a
    <3> QED
      BY <2>1, <3>1, <3>2
  <2>3. /\ upto(k - 1) = IF a < Len(s) THEN a ELSE Len(s)
        /\ upto(k) = IF b < Len(s) THEN b ELSE Len(s)
        /\ parts[k] = SubSeq(s, a + 1, IF b < Len(s) THEN b ELSE Len(s))
    BY DEF Cut
  <2>. HIDE DEF a, b, upto, parts
  <2>4. upto(k - 1) = a
    BY <2>1, <2>2, <2>3
  <2>5. parts[k] = SubSeq(s, upto(k - 1) + 1, upto(k))
    BY <2>3, <2>4
  <2>6. upto(k) \in Nat /\ a <= upto(k) /\ upto(k) <= Len(s)
    BY <2>1, <2>2, <2>3
  <2> QED
    BY <2>1, <2>4, <2>5, <2>6
<1>5. upto(0) = 0
  BY DEF upto
<1>6. upto(N) = Len(s)
  OBVIOUS
<1>. DEFINE T == {k \in Nat : k <= N => f[k] = SubSeq(s, 1, upto(k))}
<1>. HIDE DEF upto, parts
<1>7. 0 \in T
  <2>1. SubSeq(s, 1, 0) = <<>>
    OBVIOUS
  <2> QED
    BY <1>3, <1>5, <2>1
<1>8. ASSUME NEW k \in Nat, k \in T
      PROVE  k + 1 \in T
  <2> SUFFICES ASSUME k + 1 <= N
               PROVE  f[k + 1] = SubSeq(s, 1, upto(k + 1))
    OBVIOUS
  <2>1. k + 1 \in 1 .. N /\ k + 1 - 1 = k
    OBVIOUS
  <2>2. f[k] = SubSeq(s, 1, upto(k))
    BY <1>8
  <2>3. f[k + 1] = f[k] \o parts[k + 1]
    <3>. DEFINE i == k + 1
    <3>1. i \in 1 .. N /\ i - 1 = k
      BY <2>1
    <3>. HIDE DEF i
    <3>2. f[i] = f[i - 1] \o parts[i]
      BY <1>3, <3>1
    <3>3. f[i] = f[k] \o parts[i]
      BY <3>1, <3>2
    <3> QED
      BY <3>3 DEF i
  <2>4. /\ parts[k + 1] = SubSeq(s, upto(k) + 1, upto(k + 1))
        /\ upto(k) \in Nat /\ upto(k + 1) \in Nat
        /\ upto(k) <= upto(k + 1) /\ upto(k + 1) <= Len(s)
    BY <1>4, <2>1
  <2>5. SubSeq(s, 1, upto(k)) \o SubSeq(s, upto(k) + 1, upto(k + 1)) = SubSeq(s, 1, upto(k + 1))
    BY <2>4, PartsJoin
  <2> QED
    BY <2>2, <2>3, <2>4, <2>5
<1>9. N \in T
  <2>. HIDE DEF T
  <2>1. \A k \in Nat : k \in T
    BY <1>7, <1>8, Induction
  <2> QED
    BY <2>1
<1>10. SubSeq(s, 1, Len(s)) = s
  OBVIOUS
<1>11. parts = [k \in 1 .. N |-> parts[k]]
  BY <1>1
<1>12. f[N] = s
  <2>1. f[N] = SubSeq(s, 1, upto(N))
    BY <1>9
  <2> QED
    BY <1>6, <1>10, <2>1
<1>13. FlattenSeq([k \in 1 .. N |-> parts[k]]) = f[N]
  BY <1>3
<1> QED
  BY <1>11, <1>12, <1>13 DEF parts

-----------------------------------------------------------------------------
(* What the multiplexer and the packetiser make of a unit.                 *)

(* Joined sequences over S are a sequence over S.                          *)
LEMMA FlattenTyped ==
    ASSUME NEW S, NEW s \in Seq(Seq(S))
    PROVE  FlattenSeq(s) \in Seq(S)
<1>1. PICK f \in [0 .. Len(s) -> Seq(S)] : Flattens(s, f)
  BY FlattenTable
<1>2. FlattenSeq([k \in 1 .. Len(s) |-> s[k]]) = f[Len(s)]
  BY <1>1 DEF Flattens
<1>3. s = [k \in 1 .. Len(s) |-> s[k]]
  OBVIOUS
<1>4. f[Len(s)] \in Seq(S)
  OBVIOUS
<1> QED
  BY <1>2, <1>3, <1>4

(* As many pieces as the length asks for fill the sequence.                *)
LEMMA ExactlyEnough ==
    ASSUME NEW S, NEW s \in Seq(S), NEW M \in Nat \ {0},
           NEW N, N = (Len(s) + M - 1) \div M
    PROVE  N \in Nat /\ Fills(s, M, N) /\ N * M >= Len(s) /\ (N = 0 <=> s = <<>>)
<1>1. Len(s) \in Nat /\ (Len(s) = 0 <=> s = <<>>)
  OBVIOUS
<1>2. /\ N \in Nat /\ N * M >= Len(s) /\ (N = 0 <=> Len(s) = 0)
      /\ \A k \in 1 .. N : (k - 1) * M < Len(s)
  BY <1>1, CeilingDivision
<1> QED
  BY <1>1, <1>2 DEF Fills

(* The payloads of the RTP packets join to the program stream, none longer *)
(* than MAX_RTP_PAYLOAD.                                                   *)
THEOREM ChunksRejoin ==
    ASSUME NEW ps \in Seq(Byte)
    PROVE  /\ Chunks(ps) \in Seq(Seq(Byte))
           /\ \A k \in 1 .. Len(Chunks(ps)) : Len(Chunks(ps)[k]) <= MaxPayload
           /\ FlattenSeq(Chunks(ps)) = ps
<1>. DEFINE N == (Len(ps) + MaxPayload - 1) \div MaxPayload
<1>1. MaxPayload \in Nat \ {0}
  BY MediaTaskAssumption, SMT
<1>2. N \in Nat /\ Fills(ps, MaxPayload, N) /\ N * MaxPayload >= Len(ps)
  BY <1>1, ExactlyEnough
<1>3. Chunks(ps) = Cut(ps, MaxPayload, N)
  BY DEF Chunks, Cut
<1>. HIDE DEF N
<1>4. /\ Cut(ps, MaxPayload, N) \in Seq(Seq(Byte)) /\ Len(Cut(ps, MaxPayload, N)) = N
      /\ \A k \in 1 .. N : Len(Cut(ps, MaxPayload, N)[k]) <= MaxPayload
  <2>1. CutShape(Cut(ps, MaxPayload, N), Byte, MaxPayload, N)
    BY <1>1, <1>2, CutTyped
  <2> QED
    BY <2>1 DEF CutShape
<1>5. FlattenSeq(Cut(ps, MaxPayload, N)) = ps
  BY <1>1, <1>2, CutRejoins
<1> QED
  BY <1>3, <1>4, <1>5

(* The elementary stream is shared out over bounded PES payloads.          *)
LEMMA PiecesShape ==
    ASSUME NEW es \in Seq(Byte)
    PROVE  /\ Pieces(es) \in Seq(Seq(Byte)) /\ Len(Pieces(es)) >= 1
           /\ \A k \in 1 .. Len(Pieces(es)) : Len(Pieces(es)[k]) \in 0 .. MaxChunk
           /\ \A k \in 1 .. Len(Pieces(es)) : k > 1 => Len(Pieces(es)[k]) > 0
           /\ FlattenSeq(Pieces(es)) = es
<1>. DEFINE q == (Len(es) + MaxChunk - 1) \div MaxChunk
            N == AtLeastOne(q)
<1>1. MaxChunk \in Nat \ {0}
  BY ProgramStreamAssumption
<1>2. q \in Nat /\ Fills(es, MaxChunk, q) /\ q * MaxChunk >= Len(es) /\ (q = 0 <=> es = <<>>)
  BY <1>1, ExactlyEnough
<1>. HIDE DEF q
<1>3. N \in Nat /\ N >= 1
  BY <1>2 DEF AtLeastOne
<1>4. Fills(es, MaxChunk, N)
  BY <1>2 DEF Fills, AtLeastOne
<1>5. N * MaxChunk >= Len(es)
  <2>1. CASE q = 0
    <3>1. Len(es) = 0 /\ N = 1
      BY <1>2, <2>1 DEF AtLeastOne
    <3> QED
      BY <1>1, <3>1
  <2>2. CASE q # 0
    BY <1>2, <2>2 DEF AtLeastOne
  <2> QED
    BY <2>1, <2>2
<1>6. Pieces(es) = Cut(es, MaxChunk, N)
  BY DEF Pieces, Cut, q
<1>. HIDE DEF N
<1>7. /\ Cut(es, MaxChunk, N) \in Seq(Seq(Byte)) /\ Len(Cut(es, MaxChunk, N)) = N
      /\ \A k \in 1 .. N : Len(Cut(es, MaxChunk, N)[k]) <= MaxChunk
      /\ \A k \in 1 .. N : Len(Cut(es, MaxChunk, N)[k]) \in Nat
      /\ \A k \in 1 .. N : k > 1 => Len(Cut(es, MaxChunk, N)[k]) > 0
  <2>1. CutShape(Cut(es, MaxChunk, N), Byte, MaxChunk, N)
    BY <1>1, <1>3, <1>4, CutTyped
  <2> QED
    BY <2>1 DEF CutShape
<1>8. FlattenSeq(Cut(es, MaxChunk, N)) = es
  BY <1>1, <1>3, <1>4, <1>5, CutRejoins
<1>9. \A k \in 1 .. N : Len(Cut(es, MaxChunk, N)[k]) \in 0 .. MaxChunk
  BY <1>1, <1>7
<1> QED
  BY <1>3, <1>6, <1>7, <1>8, <1>9

(* No PES packet of the device is unbounded: its length field holds the    *)
(* length, with both clocks in the first packet, none in the others.       *)
THEOREM LengthsDeclared ==
    ASSUME NEW es \in Seq(Byte), NEW k \in 1 .. Len(Pieces(es)),
           NEW header, header = IF k = 1 THEN 10 ELSE 0
    PROVE  /\ PacketLength(header, Pieces(es)[k]) = 3 + header + Len(Pieces(es)[k])
           /\ PacketLength(header, Pieces(es)[k]) \in 1 .. LengthCap
<1>. DEFINE n == Len(Pieces(es)[k])
<1>1. n \in 0 .. MaxChunk /\ (k > 1 => n > 0) /\ Pieces(es)[k] \in Seq(Byte)
  <2>1. n \in 0 .. MaxChunk
    BY PiecesShape
  <2>2. k > 1 => n > 0
    BY PiecesShape
  <2>3. Pieces(es) \in Seq(Seq(Byte))
    BY PiecesShape
  <2>4. Pieces(es)[k] \in Seq(Byte)
    BY <2>3
  <2> QED
    BY <2>1, <2>2, <2>4
<1>2. Pieces(es)[k] = <<>> => n = 0
  OBVIOUS
<1>3. k \in Nat /\ k >= 1
  BY PiecesShape
<1>. HIDE DEF n
<1>4. header \in {0, 10} /\ (header = 0 => n > 0)
  BY <1>1, <1>3
<1>5. 3 + header + n \in 1 .. LengthCap
  BY <1>1, <1>4, ProgramStreamAssumption
<1>6. PacketLength(header, Pieces(es)[k])
        = IF (header = 0 /\ Pieces(es)[k] = <<>>) \/ 3 + header + n > LengthCap
          THEN 0 ELSE 3 + header + n
  BY DEF PacketLength, n
<1>7. PacketLength(header, Pieces(es)[k]) = 3 + header + n
  <2>1. ~ (header = 0 /\ Pieces(es)[k] = <<>>)
    BY <1>2, <1>4, <1>1
  <2>2. ~ (3 + header + n > LengthCap)
    BY <1>5, ProgramStreamAssumption
  <2> QED
    BY <1>6, <2>1, <2>2
<1> QED
  BY <1>5, <1>7 DEF n

(* The elementary stream of NAL units.                                     *)
LEMMA ElementaryTyped ==
    ASSUME NEW nalus \in Seq(Seq(Byte))
    PROVE  Elementary(nalus) \in Seq(Byte)
<1>1. ASSUME NEW i \in 1 .. Len(nalus)
      PROVE  (IF i = 1 THEN <<0, 0, 0, 1>> ELSE <<0, 0, 1>>) \o nalus[i] \in Seq(Byte)
  <2>1. <<0, 0, 0, 1>> \in Seq(Byte) /\ <<0, 0, 1>> \in Seq(Byte) /\ nalus[i] \in Seq(Byte)
    BY DEF Byte
  <2> QED
    BY <2>1
<1>. DEFINE s == [i \in 1 .. Len(nalus) |->
                   (IF i = 1 THEN <<0, 0, 0, 1>> ELSE <<0, 0, 1>>) \o nalus[i]]
<1>2. s \in Seq(Seq(Byte))
  BY <1>1
<1>. HIDE DEF s
<1>3. FlattenSeq(s) \in Seq(Byte)
  BY <1>2, FlattenTyped
<1> QED
  BY <1>3 DEF Elementary, s

(* The two bytes of a length.                                              *)
LEMMA BigEndianTyped ==
    ASSUME NEW n \in Nat, n <= 65535
    PROVE  BigEndian(n) \in Seq(Byte)
<1>1. n \div 256 \in Byte
  <2>1. n \div 256 \in Nat /\ n \div 256 <= 255
    OBVIOUS
  <2> QED
    BY <2>1 DEF Byte
<1>2. n % 256 \in Byte
  BY DEF Byte
<1> QED
  BY <1>1, <1>2 DEF BigEndian

(* Bytes after bytes are bytes.                                            *)
LEMMA BytesJoin ==
    ASSUME NEW a \in Seq(Byte), NEW b \in Seq(Byte)
    PROVE  a \o b \in Seq(Byte) /\ Len(a \o b) = Len(a) + Len(b)
OBVIOUS

(* The constant bytes of a header.                                         *)
LEMMA SomeBytes == 0 \in Byte /\ 1 \in Byte /\ 192 \in Byte /\ Video \in Byte
BY DEF Byte, Video

(* A PES packet is bytes.                                                  *)
LEMMA PesTyped ==
    ASSUME NEW payload \in Seq(Byte), NEW clocks \in Seq(Byte), NEW size \in Byte,
           size = Len(clocks), NEW b \in Seq(Byte), b = BigEndian(PacketLength(size, payload))
    PROVE  Pes(payload, clocks) \in Seq(Byte)
<1>. DEFINE flags == IF clocks = <<>> THEN 0 ELSE 192
            p == <<0, 0, 1, Video>>
            c == <<flags, size>>
            d == <<0>>
<1>1. 0 \in Byte /\ 1 \in Byte /\ 192 \in Byte /\ Video \in Byte
  BY SomeBytes
<1>2. flags \in Byte
  BY <1>1
<1>3. Pes(payload, clocks) = p \o b \o c \o clocks \o d \o payload
  BY DEF Pes
<1>. HIDE DEF flags
<1>4. p \in Seq(Byte) /\ c \in Seq(Byte) /\ d \in Seq(Byte)
  BY <1>1, <1>2
<1>. HIDE DEF p, c, d
<1>5. p \o b \o c \o clocks \o d \o payload \in Seq(Byte)
  BY <1>4, BytesJoin
<1> QED
  BY <1>3, <1>5

(* The ten bytes of the two clocks.                                        *)
LEMMA TwoClocksTyped ==
    ASSUME NEW v \in Nat
    PROVE  /\ EncodeClock(v, 3) \o EncodeClock(v, 1) \in Seq(Byte)
           /\ Len(EncodeClock(v, 3) \o EncodeClock(v, 1)) = 10
<1>. DEFINE a == EncodeClock(v, 3)
            b == EncodeClock(v, 1)
<1>1. 3 \in 0 .. 15 /\ 1 \in 0 .. 15
  OBVIOUS
<1>2. /\ a \in Seq(Byte) /\ Len(a) = 5
      /\ b \in Seq(Byte) /\ Len(b) = 5
  BY <1>1, ClockTyped
<1>. HIDE DEF a, b
<1>3. a \o b \in Seq(Byte) /\ Len(a \o b) = Len(a) + Len(b)
  BY <1>2, BytesJoin
<1>4. Len(a \o b) = 10
  BY <1>2, <1>3
<1> QED
  BY <1>3, <1>4 DEF a, b

(* A length within the cap fits its field.                                 *)
LEMMA FieldHoldsLength ==
    ASSUME NEW n \in 1 .. LengthCap
    PROVE  n \in Nat /\ n <= 65535
BY ProgramStreamAssumption

(* The packet of a piece, the clocks being in the first one.               *)
LEMMA PacketTyped ==
    ASSUME NEW es \in Seq(Byte), NEW k \in 1 .. Len(Pieces(es)), NEW v \in Nat,
           NEW clocks,
           clocks = IF k = 1 THEN EncodeClock(v, 3) \o EncodeClock(v, 1) ELSE <<>>
    PROVE  Pes(Pieces(es)[k], clocks) \in Seq(Byte)
<1>. DEFINE size == Len(clocks)
            payload == Pieces(es)[k]
            b == BigEndian(PacketLength(size, payload))
<1>1. Pieces(es) \in Seq(Seq(Byte))
  BY PiecesShape
<1>2. payload \in Seq(Byte)
  BY <1>1
<1>3. clocks \in Seq(Byte) /\ size = IF k = 1 THEN 10 ELSE 0
  <2>1. CASE k = 1
    BY <2>1, TwoClocksTyped
  <2>2. CASE k # 1
    <3>1. clocks = <<>>
      BY <2>2
    <3> QED
      BY <2>2, <3>1
  <2> QED
    BY <2>1, <2>2
<1>4. size \in Byte
  BY <1>3 DEF Byte
<1>. HIDE DEF size
<1>5. PacketLength(size, payload) \in Nat /\ PacketLength(size, payload) <= 65535
  <2>1. PacketLength(size, payload) \in 1 .. LengthCap
    BY <1>3, LengthsDeclared
  <2>. HIDE DEF payload
  <2> QED
    BY <2>1, FieldHoldsLength
<1>6. b \in Seq(Byte)
  BY <1>5, BigEndianTyped
<1>7. size = Len(clocks) /\ b = BigEndian(PacketLength(size, payload))
  BY DEF size
<1>. HIDE DEF payload, b
<1>8. Pes(payload, clocks) \in Seq(Byte)
  BY <1>2, <1>3, <1>4, <1>6, <1>7, PesTyped
<1> QED
  BY <1>8 DEF payload

(* The program stream of a unit is bytes.                                  *)
LEMMA MuxTyped ==
    ASSUME NEW nalus \in Seq(Seq(Byte)), NEW key \in BOOLEAN, NEW v \in Nat
    PROVE  Mux(nalus, key, v) \in Seq(Byte)
<1>. DEFINE es == Elementary(nalus)
            p == Pieces(es)
            clocks(k) == IF k = 1 THEN EncodeClock(v, 3) \o EncodeClock(v, 1) ELSE <<>>
            packets == [k \in 1 .. Len(p) |-> Pes(p[k], clocks(k))]
<1>1. es \in Seq(Byte)
  BY ElementaryTyped
<1>2. Len(p) \in Nat
  <2>. HIDE DEF es
  <2> QED
    BY <1>1, PiecesShape
<1>3. ASSUME NEW k \in 1 .. Len(p)
      PROVE  Pes(p[k], clocks(k)) \in Seq(Byte)
  <2>1. clocks(k) = IF k = 1 THEN EncodeClock(v, 3) \o EncodeClock(v, 1) ELSE <<>>
    OBVIOUS
  <2>. HIDE DEF es, clocks
  <2> QED
    BY <1>1, <2>1, PacketTyped
<1>4. packets \in Seq(Seq(Byte))
  <2>. HIDE DEF p, clocks
  <2> QED
    BY <1>2, <1>3
<1>5. FlattenSeq(packets) \in Seq(Byte)
  <2>. HIDE DEF packets
  <2> QED
    BY <1>4, FlattenTyped
<1>6. (IF key THEN StreamMap ELSE <<>>) \in Seq(Byte)
  BY StreamMapTyped
<1>7. Mux(nalus, key, v) = PackHeader(v) \o (IF key THEN StreamMap ELSE <<>>) \o FlattenSeq(packets)
  BY DEF Mux
<1>. HIDE DEF packets
<1> QED
  BY <1>5, <1>6, <1>7, PackHeaderTyped

-----------------------------------------------------------------------------
(* Joined sequences, part by part.                                         *)

(* Where the elements of sequences lie when they are joined: those of s[k]  *)
(* follow at[k - 1] others.                                                *)
Locates(s, at) ==
    /\ at[0] = 0 /\ at[Len(s)] = Len(FlattenSeq(s))
    /\ \A k \in 1 .. Len(s) : at[k] = at[k - 1] + Len(s[k])
    /\ \A k, l \in 0 .. Len(s) : k <= l => at[k] <= at[l]
    /\ \A k \in 1 .. Len(s) : \A y \in 1 .. Len(s[k]) :
          FlattenSeq(s)[at[k - 1] + y] = s[k][y]
    /\ \A x \in 1 .. Len(FlattenSeq(s)) :
          \E k \in 1 .. Len(s) : \E y \in 1 .. Len(s[k]) : x = at[k - 1] + y

(* The same of the first n sequences, joined to t.                         *)
LocatesTo(s, at, n, t) ==
    /\ at[n] = Len(t)
    /\ \A k \in 0 .. n : at[k] <= at[n]
    /\ \A k \in 1 .. n : \A y \in 1 .. Len(s[k]) : t[at[k - 1] + y] = s[k][y]
    /\ \A x \in 1 .. Len(t) : \E k \in 1 .. n : \E y \in 1 .. Len(s[k]) : x = at[k - 1] + y

(* A place in a part that ends within T places.                            *)
LEMMA InsideSum ==
    ASSUME NEW a \in Nat, NEW c \in Nat, NEW b \in Nat, NEW T \in Nat, b = a + c, b <= T,
           NEW y \in 1 .. c
    PROVE  a + y \in 1 .. T
OBVIOUS

(* A place past the first a of a + c.                                      *)
LEMMA BeyondSum ==
    ASSUME NEW a \in Nat, NEW c \in Nat, NEW T, T = a + c, NEW x \in 1 .. T, x > a
    PROVE  \E y \in 1 .. c : x = a + y
<1>1. x - a \in 1 .. c /\ x = a + (x - a)
  OBVIOUS
<1> QED
  BY <1>1

(* at counts what the sequences before each hold.                          *)
Sums(s, at) == at[0] = 0 /\ \A k \in 1 .. Len(s) : at[k] = at[k - 1] + Len(s[k])

(* One sequence more.                                                      *)
LEMMA LocatesNext ==
    ASSUME NEW S, NEW s \in Seq(Seq(S)), NEW L \in Nat, L = Len(s),
           NEW at, \A k \in 0 .. L : at[k] \in Nat, Sums(s, at),
           NEW m \in 1 .. L, NEW n, n = m - 1, NEW t \in Seq(S), LocatesTo(s, at, n, t)
    PROVE  LocatesTo(s, at, m, t \o s[m])
<1>1. n \in Nat /\ m \in Nat /\ m = n + 1 /\ n \in 0 .. L
  OBVIOUS
<1>2. s[m] \in Seq(S) /\ Len(s[m]) \in Nat /\ Len(t) \in Nat
  BY ElementOf
<1>3. PICK u : u = t \o s[m]
  OBVIOUS
<1>4. /\ u \in Seq(S) /\ Len(u) = Len(t) + Len(s[m])
      /\ \A j \in 1 .. Len(t) : u[j] = t[j]
      /\ \A j \in 1 .. Len(s[m]) : u[Len(t) + j] = s[m][j]
  BY <1>2, <1>3, ConcatShape
<1>5. /\ at[n] = Len(t) /\ at[m] = at[n] + Len(s[m]) /\ at[n] \in Nat /\ at[m] = Len(u)
      /\ \A k \in 0 .. n : at[k] <= at[n]
  BY <1>1, <1>4 DEF LocatesTo, Sums
<1>6. ASSUME NEW k \in 0 .. m
      PROVE  at[k] <= at[m]
  <2>1. at[k] \in Nat
    BY <1>1
  <2>2. k = m \/ k \in 0 .. n
    BY <1>1
  <2> QED
    BY <1>2, <1>5, <2>1, <2>2
<1>7. ASSUME NEW k \in 1 .. m, NEW y \in 1 .. Len(s[k])
      PROVE  u[at[k - 1] + y] = s[k][y]
  <2>1. CASE k = m
    BY <1>1, <1>4, <1>5, <2>1
  <2>2. CASE k # m
    <3>1. k \in 1 .. n /\ k \in 0 .. n /\ k \in 1 .. L
      BY <1>1, <2>2
    <3>2. t[at[k - 1] + y] = s[k][y]
      BY <3>1 DEF LocatesTo
    <3>3. at[k - 1] + y \in 1 .. Len(t)
      <4>1. at[k] <= Len(t) /\ at[k - 1] \in Nat /\ at[k] \in Nat
        <5>1. k - 1 \in 0 .. L /\ k \in 0 .. L
          BY <3>1
        <5>2. at[k] <= at[n] /\ at[n] = Len(t)
          BY <1>5, <3>1
        <5> QED
          BY <5>1, <5>2
      <4>2. at[k] = at[k - 1] + Len(s[k])
        BY <3>1 DEF Sums
      <4>3. s[k] \in Seq(S)
        BY <3>1, ElementOf
      <4>4. Len(s[k]) \in Nat
        BY <4>3
      <4> QED
        BY <1>2, <4>1, <4>2, <4>4, InsideSum
    <3> QED
      BY <1>4, <3>2, <3>3
  <2> QED
    BY <2>1, <2>2
<1>8. ASSUME NEW x \in 1 .. Len(u)
      PROVE  \E k \in 1 .. m : \E y \in 1 .. Len(s[k]) : x = at[k - 1] + y
  <2>1. CASE x <= Len(t)
    <3>1. x \in 1 .. Len(t)
      BY <1>2, <1>4, <2>1
    <3>2. PICK k \in 1 .. n : \E y \in 1 .. Len(s[k]) : x = at[k - 1] + y
      BY <3>1 DEF LocatesTo
    <3>3. k \in 1 .. m
      BY <1>1
    <3> QED
      BY <3>2, <3>3
  <2>2. CASE x > Len(t)
    <3>1. PICK y \in 1 .. Len(s[m]) : x = Len(t) + y
      <4>1. PICK a, c, T : a = Len(t) /\ c = Len(s[m]) /\ T = Len(u)
        OBVIOUS
      <4>2. a \in Nat /\ c \in Nat /\ T = a + c /\ x \in 1 .. T /\ x > a
        BY <1>2, <1>4, <2>2, <4>1
      <4>3. \E y \in 1 .. c : x = a + y
        BY <4>2, BeyondSum
      <4> QED
        BY <4>1, <4>3
    <3>2. x = at[m - 1] + y
      BY <1>5, <3>1
    <3>3. m \in 1 .. m
      BY <1>1
    <3> QED
      BY <3>2, <3>3
  <2>3. x <= Len(t) \/ x > Len(t)
    BY <1>2
  <2> QED
    BY <2>1, <2>2, <2>3
<1> QED
  BY <1>3, <1>5, <1>6, <1>7, <1>8 DEF LocatesTo

(* The parts of a joined sequence can be located.                          *)
LEMMA Located ==
    ASSUME NEW S, NEW s \in Seq(Seq(S)), NEW L, L = Len(s)
    PROVE  \E at \in [0 .. L -> Nat] : Locates(s, at)
<1>1. L \in Nat
  OBVIOUS
<1>2. PICK f \in [0 .. Len(s) -> Seq(S)] : Flattens(s, f)
  BY FlattenTable
<1>3. /\ f \in [0 .. L -> Seq(S)] /\ f[0] = <<>>
      /\ \A k \in 1 .. L : f[k] = f[k - 1] \o s[k]
      /\ FlattenSeq(s) = f[L]
  <2>1. FlattenSeq([k \in 1 .. L |-> s[k]]) = f[L]
    BY <1>1, <1>2 DEF Flattens
  <2>2. s = [k \in 1 .. L |-> s[k]]
    OBVIOUS
  <2> QED
    BY <1>2, <2>1, <2>2 DEF Flattens
<1>4. PICK at : at = [k \in 0 .. L |-> Len(f[k])]
  OBVIOUS
<1>5. at \in [0 .. L -> Nat] /\ \A k \in 0 .. L : at[k] \in Nat /\ at[k] = Len(f[k])
  <2>1. \A k \in 0 .. L : f[k] \in Seq(S)
    BY <1>3
  <2> QED
    BY <1>4, <2>1
<1>6. \A k \in 1 .. L : s[k] \in Seq(S) /\ k - 1 \in 0 .. L /\ k \in 0 .. L
  BY <1>1, ElementOf
<1>7. Sums(s, at)
  <2>1. at[0] = 0
    BY <1>1, <1>3, <1>5
  <2>2. ASSUME NEW k \in 1 .. L
        PROVE  at[k] = at[k - 1] + Len(s[k])
    <3>1. Len(f[k - 1] \o s[k]) = Len(f[k - 1]) + Len(s[k])
      BY <1>3, <1>6, ConcatShape
    <3> QED
      BY <1>3, <1>5, <1>6, <3>1
  <2> QED
    BY <2>1, <2>2 DEF Sums
<1> DEFINE T == {n \in Nat : n <= L => LocatesTo(s, at, n, f[n])}
<1>8. 0 \in T
  <2>1. at[0] = 0 /\ f[0] = <<>> /\ Len(f[0]) = 0
    BY <1>3, <1>7 DEF Sums
  <2> QED
    BY <2>1 DEF LocatesTo
<1>9. ASSUME NEW n \in Nat, n \in T
      PROVE  n + 1 \in T
  <2> SUFFICES ASSUME n + 1 <= L
               PROVE  LocatesTo(s, at, n + 1, f[n + 1])
    OBVIOUS
  <2>1. PICK m : m = n + 1
    OBVIOUS
  <2>2. m \in 1 .. L /\ n = m - 1 /\ n \in 0 .. L
    BY <1>1, <2>1
  <2>3. LocatesTo(s, at, n, f[n]) /\ f[n] \in Seq(S)
    <3>1. n <= L
      BY <1>1, <2>2
    <3> QED
      BY <1>3, <1>9, <2>2, <3>1
  <2>4. LocatesTo(s, at, m, f[n] \o s[m])
    BY <1>1, <1>5, <1>7, <2>2, <2>3, LocatesNext
  <2>5. f[m] = f[n] \o s[m]
    BY <1>3, <2>2
  <2> QED
    BY <2>1, <2>4, <2>5
<1>10. \A n \in 0 .. L : LocatesTo(s, at, n, f[n])
  <2> HIDE DEF T
  <2>1. \A n \in Nat : n \in T
    BY <1>8, <1>9, Induction
  <2> QED
    BY <1>1, <2>1 DEF T
<1>11. LocatesTo(s, at, L, FlattenSeq(s))
  BY <1>1, <1>3, <1>10
<1>12. \A k, l \in 0 .. L : k <= l => at[k] <= at[l]
  <2> SUFFICES ASSUME NEW k \in 0 .. L, NEW l \in 0 .. L, k <= l
               PROVE  at[k] <= at[l]
    OBVIOUS
  <2>1. LocatesTo(s, at, l, f[l]) /\ k \in 0 .. l
    BY <1>1, <1>10
  <2> QED
    BY <2>1 DEF LocatesTo
<1>13. Locates(s, at)
  BY <1>7, <1>11, <1>12 DEF Locates, LocatesTo, Sums
<1> QED
  BY <1>5, <1>13

-----------------------------------------------------------------------------
(* A scan lists a set in order.                                            *)

(* The values of Scan's table; Scan is the last of them.                   *)
ScanTable(S, n, h) == h = [m \in 0 .. n |->
    IF m = 0 THEN <<>> ELSE IF m \in S THEN Append(h[m - 1], m) ELSE h[m - 1]]

(* Scan is the last value of its table.                                    *)
LEMMA ScanUnfolds ==
    ASSUME NEW S, NEW n, NEW h, ScanTable(S, n, h),
           \A g : ScanTable(S, n, g) => g[n] = h[n]
    PROVE  Scan(S, n) = h[n]
BY Zenon DEF Scan, ScanTable

(* The first c numbers of s are those of them up to n.                     *)
Upto(s, N, c, n) == \A i \in 1 .. N : s[i] <= n <=> i <= c

FoundUpto(h, s, N, n) == \E c \in 0 .. N : h[n] = [i \in 1 .. c |-> s[i]] /\ Upto(s, N, c, n)

(* A scan comes by the numbers of S in their order.                        *)
LEMMA ScanFinds ==
    ASSUME NEW n \in Nat, NEW S \in SUBSET (1 .. n), NEW N \in Nat, NEW s \in [1 .. N -> S],
           \A i, j \in 1 .. N : i < j => s[i] < s[j],
           \A x \in S : \E i \in 1 .. N : x = s[i]
    PROVE  Scan(S, n) = s
<1> DEFINE A == Seq(Nat)
           step == [m \in 1 .. n |-> [t \in A |-> IF m \in S THEN Append(t, m) ELSE t]]
<1>1. step \in [1 .. n -> [A -> A]] /\ <<>> \in A
  OBVIOUS
<1>2. PICK h \in [0 .. n -> A] : Iterates(h, <<>>, n, step)
  <2> HIDE DEF step, A
  <2> QED
    BY <1>1, Recursion
<1>3. h[0] = <<>>
  BY <1>2 DEF Iterates
<1>4. ASSUME NEW m \in 1 .. n
      PROVE  h[m] = (IF m \in S THEN Append(h[m - 1], m) ELSE h[m - 1]) /\ h[m - 1] \in A
  <2>1. h[m - 1] \in A
    BY <1>2
  <2>2. h[m] = step[m][h[m - 1]]
    BY <1>2 DEF Iterates
  <2> QED
    BY <2>1, <2>2
<1> HIDE DEF step
<1>5. ScanTable(S, n, h)
  <2>1. \A m \in 0 .. n : h[m] =
            IF m = 0 THEN <<>> ELSE IF m \in S THEN Append(h[m - 1], m) ELSE h[m - 1]
    <3> SUFFICES ASSUME NEW m \in 0 .. n
                 PROVE  h[m] = IF m = 0 THEN <<>>
                               ELSE IF m \in S THEN Append(h[m - 1], m) ELSE h[m - 1]
      OBVIOUS
    <3>1. m = 0 \/ m \in 1 .. n
      OBVIOUS
    <3>2. CASE m = 0
      BY <1>3, <3>2
    <3>3. CASE m \in 1 .. n
      <4>1. m # 0
        BY <3>3
      <4> QED
        BY <1>4, <3>3, <4>1, Zenon
    <3> QED
      BY <3>1, <3>2, <3>3
  <2>2. h = [m \in 0 .. n |-> h[m]]
    OBVIOUS
  <2> QED
    BY <2>1, <2>2, Zenon DEF ScanTable
<1>6. ASSUME NEW g, ScanTable(S, n, g)
      PROVE  g[n] = h[n]
  <2> DEFINE Same == {m \in Nat : m <= n => g[m] = h[m]}
  <2>1. ASSUME NEW m \in 0 .. n
        PROVE  g[m] = IF m = 0 THEN <<>> ELSE IF m \in S THEN Append(g[m - 1], m) ELSE g[m - 1]
    BY <1>6, Zenon DEF ScanTable
  <2>2. 0 \in Same
    BY <1>3, <2>1
  <2>3. ASSUME NEW m \in Nat, m \in Same
        PROVE  m + 1 \in Same
    <3> SUFFICES ASSUME m + 1 <= n
                 PROVE  g[m + 1] = h[m + 1]
      OBVIOUS
    <3>1. PICK k : k = m + 1
      OBVIOUS
    <3>2. k \in 1 .. n /\ k \in 0 .. n /\ k # 0 /\ k - 1 = m /\ g[m] = h[m]
      BY <2>3, <3>1
    <3>3. g[k - 1] = h[k - 1]
      BY <3>2
    <3>4. g[k] = IF k \in S THEN Append(g[k - 1], k) ELSE g[k - 1]
      BY <2>1, <3>2, Zenon
    <3>5. h[k] = IF k \in S THEN Append(h[k - 1], k) ELSE h[k - 1]
      BY <1>4, <3>2
    <3>6. g[k] = h[k]
      <4>1. CASE k \in S
        BY <3>3, <3>4, <3>5, <4>1, Zenon
      <4>2. CASE k \notin S
        BY <3>3, <3>4, <3>5, <4>2, Zenon
      <4> QED
        BY <4>1, <4>2
    <3> QED
      BY <3>1, <3>6
  <2> HIDE DEF Same
  <2>4. \A m \in Nat : m \in Same
    BY <2>2, <2>3, Induction
  <2> QED
    BY <2>4 DEF Same
<1>7. Scan(S, n) = h[n]
  BY <1>5, <1>6, ScanUnfolds
<1> DEFINE T == {m \in Nat : m <= n => FoundUpto(h, s, N, m)}
<1>8. \A i \in 1 .. N : s[i] \in Nat /\ s[i] \in S /\ s[i] \in 1 .. n
  <2>1. \A i \in 1 .. N : s[i] \in S
    OBVIOUS
  <2>2. \A x \in S : x \in 1 .. n
    OBVIOUS
  <2>3. \A x \in 1 .. n : x \in Nat
    OBVIOUS
  <2> QED
    BY <2>1, <2>2, <2>3, Zenon
<1>9. 0 \in T
  <2>1. [i \in 1 .. 0 |-> s[i]] = <<>>
    OBVIOUS
  <2>2. Upto(s, N, 0, 0)
    BY <1>8 DEF Upto
  <2> QED
    BY <1>3, <2>1, <2>2 DEF FoundUpto
<1>10. ASSUME NEW m \in Nat, m \in T
       PROVE  m + 1 \in T
  <2> SUFFICES ASSUME m + 1 <= n
               PROVE  FoundUpto(h, s, N, m + 1)
    OBVIOUS
  <2>0. FoundUpto(h, s, N, m)
    BY <1>10
  <2>1. PICK c \in 0 .. N : h[m] = [i \in 1 .. c |-> s[i]] /\ Upto(s, N, c, m)
    BY <2>0 DEF FoundUpto
  <2>2. PICK k : k = m + 1
    OBVIOUS
  <2>3. k \in 1 .. n /\ k - 1 = m /\ c \in Nat
    BY <2>2
  <2>4. h[m] = [i \in 1 .. c |-> s[i]] /\ \A i \in 1 .. N : s[i] <= m <=> i <= c
    BY <2>1 DEF Upto
  <2>5. CASE k \in S
    <3>1. PICK j \in 1 .. N : k = s[j]
      BY <2>5
    <3>2. j > c /\ c + 1 \in 1 .. N
      BY <2>2, <2>3, <2>4, <3>1
    <3>3. s[c + 1] > m
      BY <1>8, <2>4, <3>2
    <3>4. j = c + 1
      <4>1. ~(c + 1 < j)
        BY <1>8, <2>2, <3>1, <3>2, <3>3
      <4> QED
        BY <3>2, <4>1
    <3>5. Append(h[m], k) = [i \in 1 .. c + 1 |-> s[i]]
      <4>1. [i \in 1 .. c |-> s[i]] \in Seq(Nat) /\ Len([i \in 1 .. c |-> s[i]]) = c
        BY <1>8, <2>3, <3>2
      <4>2. [i \in 1 .. c + 1 |-> s[i]] \in Seq(Nat) /\ Len([i \in 1 .. c + 1 |-> s[i]]) = c + 1
        BY <1>8, <2>3, <3>2
      <4>3. PICK t : t = [i \in 1 .. c |-> s[i]]
        OBVIOUS
      <4>4. t \in Seq(Nat) /\ Len(t) = c /\ \A i \in 1 .. c : t[i] = s[i]
        BY <4>1, <4>3
      <4>5. /\ Append(t, k) \in Seq(Nat) /\ Len(Append(t, k)) = c + 1
            /\ \A i \in 1 .. c : Append(t, k)[i] = t[i]
            /\ Append(t, k)[c + 1] = k
        BY <2>3, <4>4
      <4>6. PICK v : v = [i \in 1 .. c + 1 |-> s[i]]
        OBVIOUS
      <4>7. v \in Seq(Nat) /\ Len(v) = c + 1 /\ \A i \in 1 .. c + 1 : v[i] = s[i]
        BY <4>2, <4>6
      <4>8. \A i \in 1 .. c + 1 : Append(t, k)[i] = v[i]
        <5> SUFFICES ASSUME NEW i \in 1 .. c + 1
                     PROVE  Append(t, k)[i] = v[i]
          OBVIOUS
        <5>1. v[i] = s[i] /\ k = s[c + 1]
          BY <3>1, <3>4, <4>7
        <5>2. CASE i = c + 1
          BY <4>5, <5>1, <5>2
        <5>3. CASE i # c + 1
          <6>1. i \in 1 .. c
            BY <2>3, <5>3
          <6> QED
            BY <4>4, <4>5, <5>1, <6>1
        <5> QED
          BY <5>2, <5>3
      <4>9. Append(t, k) = v
        BY <2>3, <4>5, <4>7, <4>8, SameElements
      <4> QED
        BY <2>4, <4>3, <4>6, <4>9
    <3>6. h[k] = [i \in 1 .. c + 1 |-> s[i]]
      BY <1>4, <2>3, <2>5, <3>5
    <3>7. Upto(s, N, c + 1, k)
      <4> SUFFICES ASSUME NEW i \in 1 .. N
                   PROVE  s[i] <= k <=> i <= c + 1
        BY DEF Upto
      <4>1. CASE i <= c
        BY <1>8, <2>2, <2>3, <2>4, <4>1
      <4>2. CASE i = c + 1
        BY <2>3, <3>1, <3>4, <4>2
      <4>3. CASE i > c + 1
        <5>1. k < s[i]
          BY <3>1, <3>4, <4>3
        <5> QED
          BY <1>8, <2>3, <4>3, <5>1
      <4> QED
        BY <2>3, <4>1, <4>2, <4>3
    <3> QED
      BY <2>2, <2>3, <3>2, <3>6, <3>7 DEF FoundUpto
  <2>6. CASE k \notin S
    <3>1. h[k] = h[m]
      BY <1>4, <2>3, <2>6
    <3>2. \A i \in 1 .. N : s[i] # k
      BY <1>8, <2>6
    <3>3. Upto(s, N, c, k)
      <4> SUFFICES ASSUME NEW i \in 1 .. N
                   PROVE  s[i] <= k <=> i <= c
        BY DEF Upto
      <4>1. s[i] <= m <=> i <= c
        BY <2>4 DEF Upto
      <4>2. s[i] # k
        BY <3>2
      <4>3. PICK a : a = s[i]
        OBVIOUS
      <4>4. a \in Nat
        BY <1>8, <4>3
      <4> QED
        BY <2>2, <4>1, <4>2, <4>3, <4>4
    <3> QED
      BY <2>1, <2>2, <3>1, <3>3 DEF FoundUpto
  <2> QED
    BY <2>5, <2>6
<1>11. n \in T
  <2> HIDE DEF T
  <2>1. \A m \in Nat : m \in T
    BY <1>9, <1>10, Induction
  <2> QED
    BY <2>1
<1>12. PICK c \in 0 .. N : h[n] = [i \in 1 .. c |-> s[i]] /\ \A i \in 1 .. N : s[i] <= n <=> i <= c
  BY <1>11 DEF FoundUpto, Upto
<1>13. c = N
  <2>1. N > 0 => s[N] <= n
    BY <1>8
  <2> QED
    BY <1>12, <2>1
<1>14. s = [i \in 1 .. N |-> s[i]]
  OBVIOUS
<1> QED
  BY <1>7, <1>12, <1>13, <1>14

Ascends(s, N, S) ==
    /\ N \in Nat /\ s \in [1 .. N -> S]
    /\ \A i, j \in 1 .. N : i < j => s[i] < s[j]
    /\ \A x \in S : \E i \in 1 .. N : x = s[i]

LEMMA ScanAscends ==
    ASSUME NEW n \in Nat, NEW S \in SUBSET (1 .. n), NEW N, NEW s, Ascends(s, N, S)
    PROVE  Scan(S, n) = s
<1>1. /\ N \in Nat /\ s \in [1 .. N -> S]
      /\ \A i, j \in 1 .. N : i < j => s[i] < s[j]
      /\ \A x \in S : \E i \in 1 .. N : x = s[i]
  BY DEF Ascends
<1> QED
  BY <1>1, ScanFinds

-----------------------------------------------------------------------------
(* Start codes, and what the parser makes of the multiplexer's.            *)

(* Three bytes 00 00 01.                                                   *)
LEMMA MatchesThree ==
    ASSUME NEW data \in Seq(Byte), NEW i \in 1 .. Len(data)
    PROVE  Matches(data, i, <<0, 0, 1>>)
              <=> /\ i + 2 <= Len(data)
                  /\ data[i] = 0 /\ data[i + 1] = 0 /\ data[i + 2] = 1
<1>1. PICK u : u = SubSeq(data, i, i + 2)
  OBVIOUS
<1>2. PICK c : c = <<0, 0, 1>>
  OBVIOUS
<1>3. c \in Seq(Byte) /\ Len(c) = 3 /\ c[1] = 0 /\ c[2] = 0 /\ c[3] = 1
  BY <1>2 DEF Byte
<1>4. Matches(data, i, <<0, 0, 1>>) <=> i + 2 <= Len(data) /\ u = c
  BY <1>1, <1>2 DEF Matches
<1>5. ASSUME i + 2 <= Len(data)
      PROVE  /\ u \in Seq(Byte) /\ Len(u) = 3
             /\ u[1] = data[i] /\ u[2] = data[i + 1] /\ u[3] = data[i + 2]
  BY <1>1, <1>5
<1>6. ASSUME i + 2 <= Len(data), data[i] = 0, data[i + 1] = 0, data[i + 2] = 1
      PROVE  u = c
  <2>1. \A n \in 1 .. 3 : u[n] = c[n]
    BY <1>3, <1>5, <1>6
  <2> QED
    BY <1>3, <1>5, <1>6, <2>1, SameElements
<1> QED
  BY <1>3, <1>4, <1>5, <1>6

(* Four bytes 00 00 00 01.                                                 *)
LEMMA MatchesFour ==
    ASSUME NEW data \in Seq(Byte), NEW i \in 1 .. Len(data)
    PROVE  Matches(data, i, <<0, 0, 0, 1>>)
              <=> /\ i + 3 <= Len(data)
                  /\ data[i] = 0 /\ data[i + 1] = 0 /\ data[i + 2] = 0 /\ data[i + 3] = 1
<1>1. PICK u : u = SubSeq(data, i, i + 3)
  OBVIOUS
<1>2. PICK c : c = <<0, 0, 0, 1>>
  OBVIOUS
<1>3. c \in Seq(Byte) /\ Len(c) = 4 /\ c[1] = 0 /\ c[2] = 0 /\ c[3] = 0 /\ c[4] = 1
  BY <1>2 DEF Byte
<1>4. Matches(data, i, <<0, 0, 0, 1>>) <=> i + 3 <= Len(data) /\ u = c
  BY <1>1, <1>2 DEF Matches
<1>5. ASSUME i + 3 <= Len(data)
      PROVE  /\ u \in Seq(Byte) /\ Len(u) = 4
             /\ u[1] = data[i] /\ u[2] = data[i + 1] /\ u[3] = data[i + 2] /\ u[4] = data[i + 3]
  BY <1>1, <1>5
<1>6. ASSUME i + 3 <= Len(data), data[i] = 0, data[i + 1] = 0, data[i + 2] = 0, data[i + 3] = 1
      PROVE  u = c
  <2>1. \A n \in 1 .. 4 : u[n] = c[n]
    BY <1>3, <1>5, <1>6
  <2> QED
    BY <1>3, <1>5, <1>6, <2>1, SameElements
<1> QED
  BY <1>3, <1>4, <1>5, <1>6

(* NAL units behind their start codes.                                     *)
CodeLength(k) == IF k = 1 THEN 4 ELSE 3
CodeOf(k)     == IF k = 1 THEN <<0, 0, 0, 1>> ELSE <<0, 0, 1>>
Coded(nalus)  == [k \in 1 .. Len(nalus) |-> CodeOf(k) \o nalus[k]]

(* h bytes of start code, then the unit.                                   *)
BehindCode(p, h, nal) ==
    /\ p \in Seq(Byte) /\ Len(p) = h + Len(nal) /\ h \in {3, 4}
    /\ p[h] = 1 /\ \A y \in 1 .. h - 1 : p[y] = 0
    /\ \A y \in 1 .. Len(nal) : p[h + y] = nal[y]

(* A unit behind its start code.                                           *)
LEMMA CodedUnit ==
    ASSUME NEW k \in Nat, k > 0, NEW nal \in Seq(Byte)
    PROVE  BehindCode(CodeOf(k) \o nal, CodeLength(k), nal)
<1>. PICK p, h : p = CodeOf(k) \o nal /\ h = CodeLength(k)
  OBVIOUS
<1>1. PICK c : c = CodeOf(k)
  OBVIOUS
<1>2. /\ c \in Seq(Byte) /\ Len(c) = h /\ h \in {3, 4}
      /\ c[h] = 1 /\ \A y \in 1 .. h - 1 : c[y] = 0
  <2>1. CASE k = 1
    BY <1>1, <2>1 DEF CodeOf, CodeLength, Byte
  <2>2. CASE k # 1
    BY <1>1, <2>2 DEF CodeOf, CodeLength, Byte
  <2> QED
    BY <2>1, <2>2
<1>3. p = c \o nal
  BY <1>1
<1>4. /\ p \in Seq(Byte) /\ Len(p) = Len(c) + Len(nal)
      /\ \A y \in 1 .. Len(c) : p[y] = c[y]
      /\ \A y \in 1 .. Len(nal) : p[Len(c) + y] = nal[y]
  BY <1>2, <1>3, ConcatShape
<1>5. h \in 1 .. Len(c) /\ \A y \in 1 .. h - 1 : y \in 1 .. Len(c)
  BY <1>2
<1>6. p[h] = 1
  BY <1>2, <1>4, <1>5
<1>7. \A y \in 1 .. h - 1 : p[y] = 0
  BY <1>2, <1>4, <1>5
<1>8. \A y \in 1 .. Len(nal) : p[h + y] = nal[y]
  BY <1>2, <1>4
<1> QED
  BY <1>2, <1>4, <1>6, <1>7, <1>8 DEF BehindCode

(* A function on 1 .. n is a sequence of length n.                         *)
LEMMA TableIsSequence ==
    ASSUME NEW S, NEW n \in Nat, NEW f \in [1 .. n -> S]
    PROVE  f \in Seq(S) /\ Len(f) = n
OBVIOUS

(* The elementary stream is the coded units, joined.                       *)
LEMMA CodedShape ==
    ASSUME NEW nalus \in Seq(Seq(Byte)), NEW N, N = Len(nalus)
    PROVE  /\ Coded(nalus) \in Seq(Seq(Byte)) /\ Len(Coded(nalus)) = N
           /\ Elementary(nalus) = FlattenSeq(Coded(nalus))
           /\ Elementary(nalus) \in Seq(Byte)
           /\ \A k \in 1 .. N : Coded(nalus)[k] = CodeOf(k) \o nalus[k]
<1>1. ASSUME NEW k \in 1 .. N
      PROVE  CodeOf(k) \o nalus[k] \in Seq(Byte)
  <2>1. nalus[k] \in Seq(Byte) /\ k \in Nat /\ k > 0
    BY ElementOf
  <2> QED
    BY <2>1, CodedUnit DEF BehindCode
<1>2. N \in Nat
  OBVIOUS
<1>3. Coded(nalus) = [k \in 1 .. N |-> CodeOf(k) \o nalus[k]]
  BY DEF Coded
<1>4. Coded(nalus) \in Seq(Seq(Byte)) /\ Len(Coded(nalus)) = N
  <2> DEFINE A == Seq(Byte)
             E(k) == CodeOf(k) \o nalus[k]
  <2>1. \A k \in 1 .. N : E(k) \in A
    BY <1>1
  <2>2. Coded(nalus) = [k \in 1 .. N |-> E(k)]
    BY <1>3
  <2> HIDE DEF A, E
  <2>3. [k \in 1 .. N |-> E(k)] \in [1 .. N -> A]
    BY <2>1
  <2>4. Coded(nalus) \in Seq(A) /\ Len(Coded(nalus)) = N
    <3>1. PICK f : f = [k \in 1 .. N |-> E(k)]
      OBVIOUS
    <3>2. f \in [1 .. N -> A]
      BY <2>3, <3>1
    <3>3. f \in Seq(A) /\ Len(f) = N
      <4>1. N \in Nat
        BY <1>2
      <4> QED
        BY <3>2, <4>1, TableIsSequence, Zenon
    <3> QED
      BY <2>2, <3>1, <3>3
  <2> QED
    BY <2>4 DEF A
<1>5. Elementary(nalus) = FlattenSeq(Coded(nalus))
  BY Zenon DEF Elementary, Coded, CodeOf
<1>6. Elementary(nalus) \in Seq(Byte)
  BY <1>4, <1>5, FlattenTyped
<1>7. \A k \in 1 .. N : Coded(nalus)[k] = CodeOf(k) \o nalus[k]
  BY <1>3
<1> QED
  BY <1>4, <1>5, <1>6, <1>7

(* Where the N units lie in the stream E: one[k] is the place of the byte 1 *)
(* that ends the k-th start code; the others are zeros and the units' own. *)
UnitsAt(nalus, N, E, one) ==
    /\ \A k \in 1 .. N : one[k] \in Nat /\ 3 <= one[k] /\ one[k] + Len(nalus[k]) <= Len(E)
    /\ \A k \in 1 .. N : E[one[k]] = 1 /\ E[one[k] - 1] = 0 /\ E[one[k] - 2] = 0
    /\ \A k \in 1 .. N : \A y \in 1 .. Len(nalus[k]) : E[one[k] + y] = nalus[k][y]
    /\ N > 0 => one[1] = 4 /\ E[1] = 0 /\ Len(E) = one[N] + Len(nalus[N])
    /\ \A k \in 1 .. N : k > 1 => one[k] = one[k - 1] + Len(nalus[k - 1]) + 3
    /\ \A k, l \in 1 .. N : k < l => one[k] < one[l]
    /\ \A x \in 1 .. Len(E) :
          \/ E[x] = 0
          \/ \E k \in 1 .. N : x = one[k]
          \/ \E k \in 1 .. N : \E y \in 1 .. Len(nalus[k]) : x = one[k] + y

(* Where the units of an elementary stream lie.                            *)
LEMMA UnitsFound ==
    ASSUME NEW nalus \in Seq(Seq(Byte)), NEW N, N = Len(nalus), NEW E, E = Elementary(nalus)
    PROVE  \E one : UnitsAt(nalus, N, E, one)
<1>1. PICK s : s = Coded(nalus)
  OBVIOUS
<1>2. /\ N \in Nat /\ s \in Seq(Seq(Byte)) /\ Len(s) = N
      /\ E = FlattenSeq(s) /\ E \in Seq(Byte)
      /\ \A k \in 1 .. N : s[k] = CodeOf(k) \o nalus[k]
  <2>1. /\ Coded(nalus) \in Seq(Seq(Byte)) /\ Len(Coded(nalus)) = N
        /\ Elementary(nalus) = FlattenSeq(Coded(nalus)) /\ Elementary(nalus) \in Seq(Byte)
        /\ \A k \in 1 .. N : Coded(nalus)[k] = CodeOf(k) \o nalus[k]
    BY CodedShape, Zenon
  <2>2. N \in Nat
    OBVIOUS
  <2> QED
    BY <1>1, <2>1, <2>2, Zenon
<1>3. PICK at \in [0 .. N -> Nat] : Locates(s, at)
  BY <1>2, Located
<1>4. /\ at[0] = 0 /\ at[N] = Len(E)
      /\ \A k \in 1 .. N : at[k] = at[k - 1] + Len(s[k])
      /\ \A k, l \in 0 .. N : k <= l => at[k] <= at[l]
      /\ \A k \in 1 .. N : \A y \in 1 .. Len(s[k]) : E[at[k - 1] + y] = s[k][y]
      /\ \A x \in 1 .. Len(E) :
            \E k \in 1 .. N : \E y \in 1 .. Len(s[k]) : x = at[k - 1] + y
  BY <1>2, <1>3 DEF Locates
<1>5. PICK one : one = [k \in 1 .. N |-> at[k - 1] + CodeLength(k)]
  OBVIOUS
<1>6. PICK len : len = [k \in 1 .. N |-> Len(nalus[k])]
  OBVIOUS
<1>7. ASSUME NEW k \in 1 .. N
      PROVE  /\ one[k] = at[k - 1] + CodeLength(k) /\ at[k - 1] \in Nat /\ at[k] \in Nat
             /\ len[k] = Len(nalus[k]) /\ len[k] \in Nat /\ one[k] \in Nat
             /\ Len(s[k]) = CodeLength(k) + len[k] /\ CodeLength(k) \in {3, 4}
             /\ s[k][CodeLength(k)] = 1 /\ \A y \in 1 .. CodeLength(k) - 1 : s[k][y] = 0
             /\ \A y \in 1 .. len[k] : s[k][CodeLength(k) + y] = nalus[k][y]
  <2>1. nalus[k] \in Seq(Byte) /\ k \in Nat /\ k > 0 /\ k - 1 \in 0 .. N /\ k \in 0 .. N
    BY <1>2, ElementOf
  <2>2. len[k] = Len(nalus[k]) /\ len[k] \in Nat
    BY <1>6, <2>1
  <2>3. PICK p, h, u : p = s[k] /\ h = CodeLength(k) /\ u = nalus[k]
    OBVIOUS
  <2>9. p = CodeOf(k) \o u /\ u \in Seq(Byte)
    BY <1>2, <2>1, <2>3
  <2>8. /\ Len(p) = h + Len(u) /\ h \in {3, 4}
        /\ p[h] = 1 /\ \A y \in 1 .. h - 1 : p[y] = 0
        /\ \A y \in 1 .. Len(u) : p[h + y] = u[y]
    <3>1. BehindCode(CodeOf(k) \o u, CodeLength(k), u)
      BY <2>1, <2>9, CodedUnit
    <3>2. BehindCode(p, h, u)
      BY <2>3, <2>9, <3>1
    <3> QED
      BY <3>2 DEF BehindCode
  <2>4. /\ Len(p) = h + Len(nalus[k]) /\ h \in {3, 4}
        /\ p[h] = 1 /\ \A y \in 1 .. h - 1 : p[y] = 0
        /\ \A y \in 1 .. Len(nalus[k]) : p[h + y] = nalus[k][y]
    BY <2>3, <2>8
  <2>5. at[k - 1] \in Nat /\ at[k] \in Nat
    BY <1>3, <2>1
  <2>6. one[k] = at[k - 1] + h
    BY <1>5, <2>3
  <2>7. one[k] \in Nat
    BY <2>4, <2>5, <2>6
  <2> QED
    BY <2>2, <2>3, <2>4, <2>5, <2>6, <2>7
<1>8. ASSUME NEW k \in 1 .. N
      PROVE  /\ at[k] = one[k] + len[k] /\ 3 <= one[k] /\ at[k] <= Len(E)
             /\ E[one[k]] = 1 /\ E[one[k] - 1] = 0 /\ E[one[k] - 2] = 0
             /\ \A y \in 1 .. len[k] : E[one[k] + y] = nalus[k][y]
  <2>1. PICK b, h, m : b = at[k - 1] /\ h = CodeLength(k) /\ m = len[k]
    OBVIOUS
  <2>2. /\ b \in Nat /\ h \in {3, 4} /\ m \in Nat /\ one[k] = b + h
        /\ at[k] = b + Len(s[k]) /\ Len(s[k]) = h + m
    BY <1>4, <1>7, <2>1
  <2>3. \A y \in 1 .. h + m : E[b + y] = s[k][y]
    BY <1>4, <2>1, <2>2
  <2>4. /\ s[k][h] = 1 /\ \A y \in 1 .. h - 1 : s[k][y] = 0
        /\ \A y \in 1 .. m : s[k][h + y] = nalus[k][y]
    BY <1>7, <2>1
  <2>5. E[b + h] = 1 /\ E[b + (h - 1)] = 0 /\ E[b + (h - 2)] = 0
    <3>1. PICK f, g : f = h - 1 /\ g = h - 2
      OBVIOUS
    <3>2. /\ f \in 1 .. h - 1 /\ g \in 1 .. h - 1
          /\ f \in 1 .. h + m /\ g \in 1 .. h + m /\ h \in 1 .. h + m
      BY <2>2, <3>1
    <3>3. E[b + h] = 1 /\ E[b + f] = 0 /\ E[b + g] = 0
      BY <2>3, <2>4, <3>2
    <3> QED
      BY <3>1, <3>3
  <2>6. one[k] - 1 = b + (h - 1) /\ one[k] - 2 = b + (h - 2) /\ at[k] = one[k] + m /\ 3 <= one[k]
    BY <2>2
  <2>7. ASSUME NEW y \in 1 .. m
        PROVE  E[one[k] + y] = nalus[k][y]
    <3>1. h + y \in 1 .. h + m /\ one[k] + y = b + (h + y)
      BY <2>2
    <3>2. E[b + (h + y)] = s[k][h + y]
      BY <2>3, <3>1
    <3> QED
      BY <2>4, <3>1, <3>2
  <2>8. at[k] <= Len(E)
    BY <1>2, <1>4
  <2> QED
    BY <2>1, <2>2, <2>5, <2>6, <2>7, <2>8
<1>9. ASSUME N > 0
      PROVE  one[1] = 4 /\ E[1] = 0 /\ Len(E) = one[N] + len[N]
  <2>1. 1 \in 1 .. N /\ N \in 1 .. N /\ CodeLength(1) = 4
    BY <1>2, <1>9 DEF CodeLength
  <2>2. one[1] = at[0] + 4 /\ at[0] = 0
    <3>1. 1 - 1 = 0
      OBVIOUS
    <3> QED
      BY <1>4, <1>7, <2>1, <3>1
  <2>3. s[1][1] = 0 /\ 1 \in 1 .. Len(s[1])
    <3>1. PICK u, m : u = s[1] /\ m = len[1]
      OBVIOUS
    <3>2. Len(u) = 4 + m /\ m \in Nat /\ \A y \in 1 .. 4 - 1 : u[y] = 0
      <4>1. /\ Len(s[1]) = CodeLength(1) + len[1] /\ len[1] \in Nat
            /\ \A y \in 1 .. CodeLength(1) - 1 : s[1][y] = 0
        BY <1>7, <2>1
      <4> QED
        BY <2>1, <3>1, <4>1
    <3>3. u[1] = 0 /\ 1 \in 1 .. Len(u)
      BY <3>2
    <3> QED
      BY <3>1, <3>3
  <2>4. E[at[0] + 1] = s[1][1]
    <3>1. E[at[1 - 1] + 1] = s[1][1]
      BY <1>4, <2>1, <2>3
    <3> QED
      BY <3>1
  <2>5. at[N] = Len(E) /\ at[N] = one[N] + len[N]
    BY <1>4, <1>8, <2>1
  <2>6. at[0] + 1 = 1
    BY <2>2
  <2> QED
    BY <2>2, <2>3, <2>4, <2>5, <2>6
<1>10. ASSUME NEW k \in 1 .. N, k > 1
       PROVE  one[k] = one[k - 1] + len[k - 1] + 3
  <2>1. k - 1 \in 1 .. N /\ CodeLength(k) = 3
    BY <1>2, <1>10 DEF CodeLength
  <2>2. at[k - 1] = one[k - 1] + len[k - 1]
    BY <1>8, <2>1
  <2>3. one[k] = at[k - 1] + CodeLength(k)
    BY <1>7
  <2> QED
    BY <2>1, <2>2, <2>3
<1>11. ASSUME NEW k \in 1 .. N, NEW l \in 1 .. N, k < l
       PROVE  one[k] < one[l]
  <2>1. k \in 0 .. N /\ l - 1 \in 0 .. N /\ k <= l - 1
    BY <1>2, <1>11
  <2>2. at[k] <= at[l - 1]
    BY <1>4, <2>1
  <2>3. PICK b : b = at[l - 1]
    OBVIOUS
  <2>4. b \in Nat /\ one[l] = b + CodeLength(l) /\ CodeLength(l) \in {3, 4} /\ at[k] <= b
    BY <1>7, <2>2, <2>3
  <2>5. at[k] = one[k] + len[k] /\ one[k] \in Nat /\ len[k] \in Nat
    BY <1>7, <1>8
  <2> QED
    BY <2>4, <2>5
<1>12. ASSUME NEW x \in 1 .. Len(E)
       PROVE  \/ E[x] = 0
              \/ \E k \in 1 .. N : x = one[k]
              \/ \E k \in 1 .. N : \E y \in 1 .. len[k] : x = one[k] + y
  <2>1. PICK k \in 1 .. N : \E y \in 1 .. Len(s[k]) : x = at[k - 1] + y
    BY <1>4
  <2>2. PICK y \in 1 .. Len(s[k]) : x = at[k - 1] + y
    BY <2>1
  <2>3. PICK b, h, m : b = at[k - 1] /\ h = CodeLength(k) /\ m = len[k]
    OBVIOUS
  <2>4. /\ b \in Nat /\ h \in {3, 4} /\ m \in Nat /\ one[k] = b + h
        /\ Len(s[k]) = h + m /\ x = b + y /\ y \in 1 .. h + m
        /\ E[x] = s[k][y]
    BY <1>4, <1>7, <2>2, <2>3
  <2>5. CASE y < h
    <3>1. y \in 1 .. h - 1
      BY <2>4, <2>5
    <3>2. s[k][y] = 0
      BY <1>7, <2>3, <3>1
    <3> QED
      BY <2>4, <3>2
  <2>6. CASE y = h
    BY <2>4, <2>6
  <2>7. CASE y > h
    <3>1. y - h \in 1 .. m /\ x = one[k] + (y - h)
      BY <2>4, <2>7
    <3> QED
      BY <2>3, <3>1
  <2> QED
    BY <2>4, <2>5, <2>6, <2>7
<1>13. UnitsAt(nalus, N, E, one)
  <2>1. \A k \in 1 .. N : len[k] = Len(nalus[k])
    BY <1>7
  <2>2. \A k \in 1 .. N : one[k] \in Nat /\ 3 <= one[k] /\ one[k] + Len(nalus[k]) <= Len(E)
    BY <1>7, <1>8
  <2>3. \A k \in 1 .. N : E[one[k]] = 1 /\ E[one[k] - 1] = 0 /\ E[one[k] - 2] = 0
    BY <1>8
  <2>4. \A k \in 1 .. N : \A y \in 1 .. Len(nalus[k]) : E[one[k] + y] = nalus[k][y]
    BY <1>8, <2>1
  <2>5. N > 0 => one[1] = 4 /\ E[1] = 0 /\ Len(E) = one[N] + Len(nalus[N])
    <3>1. N > 0 => N \in 1 .. N
      BY <1>2
    <3> QED
      BY <1>9, <2>1, <3>1
  <2>6. \A k \in 1 .. N : k > 1 => one[k] = one[k - 1] + Len(nalus[k - 1]) + 3
    <3>1. \A k \in 1 .. N : k > 1 => k - 1 \in 1 .. N
      BY <1>2
    <3> QED
      BY <1>10, <2>1, <3>1
  <2>7. \A k, l \in 1 .. N : k < l => one[k] < one[l]
    BY <1>11
  <2>8. \A x \in 1 .. Len(E) :
          \/ E[x] = 0
          \/ \E k \in 1 .. N : x = one[k]
          \/ \E k \in 1 .. N : \E y \in 1 .. Len(nalus[k]) : x = one[k] + y
    BY <1>12, <2>1
  <2> QED
    BY <2>2, <2>3, <2>4, <2>5, <2>6, <2>7, <2>8 DEF UnitsAt
<1> QED
  BY <1>13

(* Well-formed NAL units, and what follows of them.                        *)
AllWellFormed(nalus) == \A k \in 1 .. Len(nalus) : NalWellFormed(nalus[k])

(* Three bytes of a start code in the elementary stream are one.           *)
LEMMA CodesAreStarts ==
    ASSUME NEW nalus \in Seq(Seq(Byte)), NEW N, N = Len(nalus), NEW E \in Seq(Byte), NEW one,
           UnitsAt(nalus, N, E, one), AllWellFormed(nalus),
           NEW x \in 1 .. Len(E) - 2, E[x] = 0, E[x + 1] = 0, E[x + 2] = 1
    PROVE  \E k \in 1 .. N : x + 2 = one[k]
<1>1. x \in Nat /\ x + 2 \in 1 .. Len(E)
  OBVIOUS
<1>2. ~ \E k \in 1 .. N : \E y \in 1 .. Len(nalus[k]) : x + 2 = one[k] + y
  <2> SUFFICES ASSUME NEW k \in 1 .. N, NEW y \in 1 .. Len(nalus[k]), x + 2 = one[k] + y
               PROVE  FALSE
    OBVIOUS
  <2>1. PICK o, u : o = one[k] /\ u = nalus[k]
    OBVIOUS
  <2>2. /\ o \in Nat /\ E[o] = 1 /\ u \in Seq(Byte) /\ y \in 1 .. Len(u) /\ x + 2 = o + y
        /\ \A z \in 1 .. Len(u) : E[o + z] = u[z]
    BY <2>1, ElementOf DEF UnitsAt
  <2>3. \A z \in 1 .. Len(u) - 2 : ~(u[z] = 0 /\ u[z + 1] = 0 /\ u[z + 2] = 1)
    BY <2>1 DEF AllWellFormed, NalWellFormed
  <2>4. y # 1
    BY <1>1, <2>2
  <2>5. y # 2
    BY <1>1, <2>2
  <2>6. CASE y > 2
    <3>1. PICK z : z = y - 2
      OBVIOUS
    <3>2. /\ z \in 1 .. Len(u) - 2 /\ z \in 1 .. Len(u) /\ z + 1 \in 1 .. Len(u) /\ z + 2 \in 1 .. Len(u)
          /\ x = o + z /\ x + 1 = o + (z + 1) /\ x + 2 = o + (z + 2)
      <4>1. PICK L : L = Len(u)
        OBVIOUS
      <4>2. L \in Nat /\ o \in Nat /\ y \in 1 .. L /\ x + 2 = o + y
        BY <2>2, <4>1
      <4>3. /\ z \in 1 .. L - 2 /\ z \in 1 .. L /\ z + 1 \in 1 .. L /\ z + 2 \in 1 .. L
        BY <2>6, <3>1, <4>2
      <4>4. x = o + z /\ x + 1 = o + (z + 1) /\ x + 2 = o + (z + 2)
        BY <1>1, <3>1, <4>2
      <4> QED
        BY <4>1, <4>3, <4>4
    <3>3. E[x] = u[z]
      BY <2>2, <3>2
    <3>4. E[x + 1] = u[z + 1]
      BY <2>2, <3>2
    <3>5. E[x + 2] = u[z + 2]
      BY <2>2, <3>2
    <3> QED
      BY <2>3, <3>2, <3>3, <3>4, <3>5
  <2> QED
    BY <2>2, <2>4, <2>5, <2>6
<1>3. \/ E[x + 2] = 0
      \/ \E k \in 1 .. N : x + 2 = one[k]
      \/ \E k \in 1 .. N : \E y \in 1 .. Len(nalus[k]) : x + 2 = one[k] + y
  <2>1. \A w \in 1 .. Len(E) :
          \/ E[w] = 0
          \/ \E k \in 1 .. N : w = one[k]
          \/ \E k \in 1 .. N : \E y \in 1 .. Len(nalus[k]) : w = one[k] + y
    BY DEF UnitsAt
  <2> QED
    BY <1>1, <2>1
<1>4. E[x + 2] # 0
  OBVIOUS
<1> QED
  BY <1>2, <1>3, <1>4

(* Start codes of four and of three bytes, and both.                       *)
LongCode(data, i)  == i >= 1 /\ Matches(data, i, <<0, 0, 0, 1>>)
ShortCode(data, i) == i + 3 <= Len(data) /\ Matches(data, i, <<0, 0, 1>>) /\ ~LongCode(data, i - 1)
CodeStarts(data)   == {i \in 1 .. Len(data) : LongCode(data, i) \/ ShortCode(data, i)}

(* The Annex-B starts are the set CodeStarts, in order.                    *)
LEMMA NalStartsUnfolds ==
    ASSUME NEW data, NEW at, at = Scan(CodeStarts(data), Len(data))
    PROVE  NalStarts(data) = [k \in 1 .. Len(at) |->
                <<at[k], at[k] + IF LongCode(data, at[k]) THEN 4 ELSE 3>>]
<1>1. at = Scan({i \in 1 .. Len(data) :
                    \/ i >= 1 /\ Matches(data, i, <<0, 0, 0, 1>>)
                    \/ /\ i + 3 <= Len(data) /\ Matches(data, i, <<0, 0, 1>>)
                       /\ ~(i - 1 >= 1 /\ Matches(data, i - 1, <<0, 0, 0, 1>>))}, Len(data))
  BY Zenon DEF CodeStarts, LongCode, ShortCode
<1> QED
  BY <1>1, Zenon DEF NalStarts, LongCode

(* The first byte of the k-th start code.                                  *)
CodeAt(one, k) == IF k = 1 THEN 1 ELSE one[k] - 2

(* The byte before a later start code ends a unit, so it is not zero.      *)
LEMMA CodeBefore ==
    ASSUME NEW nalus \in Seq(Seq(Byte)), NEW N, N = Len(nalus), NEW E \in Seq(Byte), NEW one,
           UnitsAt(nalus, N, E, one), AllWellFormed(nalus), NEW k \in 1 .. N, k > 1
    PROVE  one[k] - 3 \in 1 .. Len(E) /\ E[one[k] - 3] # 0 /\ one[k] >= 7
<1>1. PICK j : j = k - 1
  OBVIOUS
<1>2. j \in 1 .. N
  BY <1>1
<1>3. PICK u, m : u = nalus[j] /\ m = Len(nalus[j])
  OBVIOUS
<1>4. u \in Seq(Byte) /\ m = Len(u) /\ m \in Nat
  BY <1>2, <1>3, ElementOf
<1>5. m > 0 /\ u[m] # 0
  <2>1. NalWellFormed(u)
    BY <1>2, <1>3 DEF AllWellFormed
  <2>2. u # <<>> /\ u[m] # 0
    BY <1>4, <2>1 DEF NalWellFormed
  <2> QED
    BY <1>4, <2>2
<1>6. one[k] = one[j] + m + 3 /\ one[j] \in Nat /\ 3 <= one[j] /\ one[j] + m <= Len(E)
  BY <1>1, <1>2, <1>3 DEF UnitsAt
<1>7. E[one[j] + m] = u[m]
  <2>1. m \in 1 .. Len(nalus[j])
    BY <1>3, <1>4, <1>5
  <2> QED
    BY <1>2, <1>3, <2>1 DEF UnitsAt
<1>8. one[k] - 3 = one[j] + m
  BY <1>4, <1>6
<1>9. one[j] + m \in 1 .. Len(E) /\ one[k] >= 7
  <2>1. PICK a, b, L : a = one[j] /\ b = one[k] /\ L = Len(E)
    OBVIOUS
  <2>2. m \in Nat /\ m > 0
    BY <1>4, <1>5
  <2>3. a \in Nat /\ b = a + m + 3 /\ 3 <= a /\ a + m <= L
    BY <1>6, <2>1
  <2>4. a + m \in 1 .. L /\ b >= 7
    BY <2>2, <2>3
  <2> QED
    BY <2>1, <2>4
<1> QED
  BY <1>5, <1>7, <1>8, <1>9, Zenon

(* The start codes of an elementary stream are those the multiplexer       *)
(* wrote, four bytes before the first unit and three before the others.    *)
LEMMA CodesFound ==
    ASSUME NEW nalus \in Seq(Seq(Byte)), NEW N, N = Len(nalus), N > 0, NEW E \in Seq(Byte), NEW one,
           UnitsAt(nalus, N, E, one), AllWellFormed(nalus)
    PROVE  /\ \A k \in 1 .. N : CodeAt(one, k) \in CodeStarts(E)
           /\ \A x \in CodeStarts(E) : \E k \in 1 .. N : x = CodeAt(one, k)
           /\ \A x \in 1 .. Len(E) : LongCode(E, x) <=> x = 1
<1>1. /\ \A k \in 1 .. N : one[k] \in Nat /\ 3 <= one[k] /\ one[k] + Len(nalus[k]) <= Len(E)
      /\ \A k \in 1 .. N : E[one[k]] = 1 /\ E[one[k] - 1] = 0 /\ E[one[k] - 2] = 0
      /\ one[1] = 4 /\ E[1] = 0 /\ Len(E) \in Nat
  BY DEF UnitsAt
<1>2. ASSUME NEW k \in 1 .. N
      PROVE  Len(nalus[k]) \in Nat /\ Len(nalus[k]) > 0
  <2>1. PICK u : u = nalus[k]
    OBVIOUS
  <2>2. u \in Seq(Byte) /\ u # <<>>
    BY <2>1, ElementOf DEF AllWellFormed, NalWellFormed
  <2> QED
    BY <2>1, <2>2
<1>3. 1 \in 1 .. N /\ N \in Nat
  OBVIOUS
<1>4. Len(E) >= 5
  <2>1. Len(nalus[1]) \in Nat /\ Len(nalus[1]) > 0
    BY <1>2, <1>3
  <2>2. one[1] = 4 /\ one[1] + Len(nalus[1]) <= Len(E)
    BY <1>1, <1>3
  <2> QED
    BY <1>1, <2>1, <2>2
<1>5. LongCode(E, 1)
  <2>1. E[1] = 0 /\ E[1 + 1] = 0 /\ E[1 + 2] = 0 /\ E[1 + 3] = 1
    <3>1. one[1] = 4 /\ E[1] = 0
      BY <1>1
    <3>2. E[one[1]] = 1 /\ E[one[1] - 1] = 0 /\ E[one[1] - 2] = 0
      BY <1>1, <1>3
    <3> QED
      BY <3>1, <3>2
  <2>2. 1 \in 1 .. Len(E) /\ 1 + 3 <= Len(E)
    BY <1>1, <1>4
  <2> QED
    BY <2>1, <2>2, MatchesFour DEF LongCode
<1>6. ASSUME NEW x \in 1 .. Len(E), LongCode(E, x)
      PROVE  x = 1
  <2>1. /\ x + 3 <= Len(E)
        /\ E[x] = 0 /\ E[x + 1] = 0 /\ E[x + 2] = 0 /\ E[x + 3] = 1
    BY <1>6, MatchesFour DEF LongCode
  <2>2. PICK z : z = x + 1
    OBVIOUS
  <2>3. z \in 1 .. Len(E) - 2 /\ E[z] = 0 /\ E[z + 1] = 0 /\ E[z + 2] = 1
    BY <1>1, <2>1, <2>2
  <2>4. PICK k \in 1 .. N : z + 2 = one[k]
    BY <2>3, CodesAreStarts
  <2>5. CASE k = 1
    BY <1>1, <2>2, <2>4, <2>5
  <2>6. CASE k > 1
    <3>1. E[one[k] - 3] # 0
      BY <2>6, CodeBefore
    <3>2. one[k] - 3 = x
      BY <2>2, <2>4
    <3> QED
      BY <2>1, <3>1, <3>2
  <2> QED
    BY <2>5, <2>6
<1>7. ASSUME NEW k \in 1 .. N
      PROVE  CodeAt(one, k) \in CodeStarts(E)
  <2>1. CASE k = 1
    <3>1. CodeAt(one, k) = 1
      BY <2>1 DEF CodeAt
    <3> QED
      BY <1>1, <1>4, <1>5, <3>1 DEF CodeStarts
  <2>2. CASE k > 1
    <3>1. PICK x : x = one[k] - 2
      OBVIOUS
    <3>2. /\ CodeAt(one, k) = x /\ x \in 1 .. Len(E) /\ x + 3 <= Len(E) /\ x > 1
          /\ E[x] = 0 /\ E[x + 1] = 0 /\ E[x + 2] = 1
      <4>1. PICK o, m : o = one[k] /\ m = Len(nalus[k])
        OBVIOUS
      <4>2. /\ o \in Nat /\ 3 <= o /\ o + m <= Len(E) /\ m \in Nat /\ m > 0
            /\ E[o] = 1 /\ E[o - 1] = 0 /\ E[o - 2] = 0 /\ o >= 7
        BY <1>1, <1>2, <2>2, <4>1, CodeBefore
      <4>5. x = o - 2 /\ o \in Nat
        BY <3>1, <4>1, <4>2
      <4>3. x = o - 2 /\ x + 1 = o - 1 /\ x + 2 = o
        BY <4>5
      <4>4. CodeAt(one, k) = x
        BY <2>2, <3>1 DEF CodeAt
      <4> QED
        BY <1>1, <4>2, <4>3, <4>4
    <3>3. ~LongCode(E, x - 1)
      <4>3. PICK o : o = one[k]
        OBVIOUS
      <4>4. o \in Nat /\ x = o - 2
        BY <1>1, <3>1, <4>3
      <4>5. x - 1 = o - 3 /\ x - 1 \in 1 .. Len(E)
        BY <1>1, <3>2, <4>4
      <4>1. x - 1 \in 1 .. Len(E) /\ x - 1 = one[k] - 3
        BY <4>3, <4>5
      <4>2. E[x - 1] # 0
        BY <2>2, <4>1, CodeBefore
      <4> QED
        BY <4>1, <4>2, MatchesFour DEF LongCode
    <3>4. Matches(E, x, <<0, 0, 1>>)
      BY <3>2, MatchesThree
    <3> QED
      BY <3>2, <3>3, <3>4 DEF CodeStarts, ShortCode
  <2> QED
    BY <2>1, <2>2
<1>8. ASSUME NEW x \in CodeStarts(E)
      PROVE  \E k \in 1 .. N : x = CodeAt(one, k)
  <2>1. x \in 1 .. Len(E)
    BY DEF CodeStarts
  <2>2. CASE LongCode(E, x)
    <3>1. x = CodeAt(one, 1)
      BY <1>6, <2>1, <2>2 DEF CodeAt
    <3> QED
      BY <1>3, <3>1
  <2>3. CASE ~LongCode(E, x)
    <3>1. ShortCode(E, x)
      BY <2>3 DEF CodeStarts
    <3>2. /\ x + 3 <= Len(E) /\ Matches(E, x, <<0, 0, 1>>)
      BY <3>1 DEF ShortCode
    <3>3. E[x] = 0 /\ E[x + 1] = 0 /\ E[x + 2] = 1
      BY <2>1, <3>2, MatchesThree
    <3>4. x \in 1 .. Len(E) - 2
      BY <1>1, <2>1, <3>2
    <3>5. PICK k \in 1 .. N : x + 2 = one[k]
      BY <3>3, <3>4, CodesAreStarts
    <3>6. CASE k = 1
      <4>1. x - 1 = 1
        BY <1>1, <2>1, <3>5, <3>6
      <4> QED
        BY <1>5, <3>1, <4>1 DEF ShortCode
    <3>7. CASE k # 1
      <4>1. x = CodeAt(one, k)
        BY <2>1, <3>5, <3>7 DEF CodeAt
      <4> QED
        BY <4>1
    <3> QED
      BY <3>6, <3>7
  <2> QED
    BY <2>2, <2>3
<1> QED
  BY <1>5, <1>6, <1>7, <1>8

(* So the parser starts at the units.                                      *)
LEMMA NalStartsIs ==
    ASSUME NEW nalus \in Seq(Seq(Byte)), NEW N, N = Len(nalus), N > 0, NEW E \in Seq(Byte), NEW one,
           UnitsAt(nalus, N, E, one), AllWellFormed(nalus)
    PROVE  NalStarts(E) = [k \in 1 .. N |-> <<CodeAt(one, k), one[k] + 1>>]
<1>1. PICK S, n : S = CodeStarts(E) /\ n = Len(E)
  OBVIOUS
<1>2. n \in Nat /\ S \in SUBSET (1 .. n) /\ N \in Nat
  BY <1>1 DEF CodeStarts
<1>3. PICK s : s = [k \in 1 .. N |-> CodeAt(one, k)]
  OBVIOUS
<1>4. /\ \A k \in 1 .. N : CodeAt(one, k) \in S
      /\ \A x \in S : \E k \in 1 .. N : x = CodeAt(one, k)
      /\ \A x \in 1 .. n : LongCode(E, x) <=> x = 1
  BY <1>1, CodesFound
<1>5. s \in [1 .. N -> S] /\ \A k \in 1 .. N : s[k] = CodeAt(one, k)
  BY <1>3, <1>4
<1>6. \A k \in 1 .. N : k > 1 => one[k] >= 7
  BY CodeBefore
<1>7. ASSUME NEW i \in 1 .. N, NEW j \in 1 .. N, i < j
      PROVE  s[i] < s[j]
  <2>1. one[i] < one[j] /\ one[i] \in Nat /\ one[j] \in Nat
    BY <1>7 DEF UnitsAt
  <2>2. j > 1 /\ one[j] >= 7 /\ s[j] = one[j] - 2
    BY <1>5, <1>6, <1>7 DEF CodeAt
  <2>3. s[i] = (IF i = 1 THEN 1 ELSE one[i] - 2)
    BY <1>5 DEF CodeAt
  <2>4. PICK a, b : a = one[i] /\ b = one[j]
    OBVIOUS
  <2>5. a \in Nat /\ b \in Nat /\ a < b /\ b >= 7
    BY <2>1, <2>2, <2>4
  <2>6. 1 < b - 2 /\ a - 2 < b - 2
    BY <2>5
  <2> QED
    BY <2>2, <2>3, <2>4, <2>6
<1>8. Scan(S, n) = s
  <2>1. \A x \in S : \E i \in 1 .. N : x = s[i]
    BY <1>4, <1>5
  <2>2. \A i, j \in 1 .. N : i < j => s[i] < s[j]
    BY <1>7
  <2>3. n \in Nat /\ N \in Nat /\ S \in SUBSET (1 .. n) /\ s \in [1 .. N -> S]
    BY <1>2, <1>5
  <2>4. Ascends(s, N, S)
    BY <2>1, <2>2, <2>3 DEF Ascends
  <2> QED
    BY <2>3, <2>4, ScanAscends
<1>9. Len(s) = N
  BY <1>2, <1>3
<1>10. NalStarts(E) = [k \in 1 .. N |-> <<s[k], s[k] + IF LongCode(E, s[k]) THEN 4 ELSE 3>>]
  <2>1. s = Scan(CodeStarts(E), Len(E))
    BY <1>1, <1>8
  <2>2. NalStarts(E) = [k \in 1 .. Len(s) |-> <<s[k], s[k] + IF LongCode(E, s[k]) THEN 4 ELSE 3>>]
    BY <2>1, NalStartsUnfolds
  <2> QED
    BY <1>9, <2>2
<1>11. ASSUME NEW k \in 1 .. N
       PROVE  <<s[k], s[k] + IF LongCode(E, s[k]) THEN 4 ELSE 3>> = <<CodeAt(one, k), one[k] + 1>>
  <2>1. s[k] \in 1 .. n /\ s[k] = CodeAt(one, k)
    BY <1>2, <1>5
  <2>2. LongCode(E, s[k]) <=> s[k] = 1
    BY <1>4, <2>1
  <2>3. CASE k = 1
    <3>1. s[k] = 1 /\ one[k] = 4
      BY <2>1, <2>3 DEF CodeAt, UnitsAt
    <3> QED
      BY <2>1, <2>2, <3>1
  <2>4. CASE k > 1
    <3>1. s[k] = one[k] - 2 /\ one[k] >= 7 /\ one[k] \in Nat
      BY <1>6, <2>1, <2>4 DEF CodeAt, UnitsAt
    <3>2. s[k] # 1 /\ s[k] + 3 = one[k] + 1
      BY <3>1
    <3> QED
      BY <2>1, <2>2, <3>2
  <2> QED
    BY <1>2, <2>3, <2>4
<1> QED
  BY <1>10, <1>11, Zenon

(* A scan of all numbers to N lists them.                                  *)
LEMMA AllNumbers ==
    ASSUME NEW N \in Nat, NEW S, S = 1 .. N
    PROVE  Scan(S, N) = [k \in 1 .. N |-> k]
<1>1. PICK s : s = [k \in 1 .. N |-> k]
  OBVIOUS
<1>2. s \in [1 .. N -> S] /\ \A i \in 1 .. N : s[i] = i
  BY <1>1
<1>3. \A i, j \in 1 .. N : i < j => s[i] < s[j]
  BY <1>2
<1>4. \A x \in S : \E i \in 1 .. N : x = s[i]
  BY <1>2
<1>5. S \in SUBSET (1 .. N)
  OBVIOUS
<1> QED
  BY <1>1, <1>2, <1>3, <1>4, <1>5, ScanFinds

(* The last byte of the k-th part between starts.                          *)
StopAt(starts, data, k) == IF k < Len(starts) THEN starts[k + 1][1] - 1 ELSE Len(data)

(* Splitting takes what lies between two starts.                           *)
LEMMA SplitUnfolds ==
    ASSUME NEW data, NEW starts, starts = NalStarts(data), starts # <<>>,
           NEW filled, filled = Scan({k \in 1 .. Len(starts) : starts[k][2] <= StopAt(starts, data, k)},
                                     Len(starts))
    PROVE  SplitNalUnits(data) = [n \in 1 .. Len(filled) |->
                SubSeq(data, starts[filled[n]][2], StopAt(starts, data, filled[n]))]
<1>1. filled = Scan({k \in 1 .. Len(starts) :
                        starts[k][2] <= IF k < Len(starts) THEN starts[k + 1][1] - 1 ELSE Len(data)},
                    Len(starts))
  BY Zenon DEF StopAt
<1> QED
  BY <1>1, Zenon DEF SplitNalUnits, StopAt

(* No bytes, no units.                                                     *)
LEMMA NothingSplits == SplitNalUnits(<<>>) = <<>>
<1>1. PICK data : data = <<>>
  OBVIOUS
<1>2. data \in Seq(Byte) /\ Len(data) = 0
  BY <1>1
<1>3. CodeStarts(data) = {}
  BY <1>2 DEF CodeStarts
<1>4. Scan(CodeStarts(data), Len(data)) = <<>>
  <2>1. Scan({}, 0) = [k \in 1 .. 0 |-> k]
    BY AllNumbers
  <2> QED
    BY <1>2, <1>3, <2>1
<1>5. PICK at : at = Scan(CodeStarts(data), Len(data))
  OBVIOUS
<1>6. at = <<>> /\ Len(at) = 0
  BY <1>4, <1>5
<1>7. NalStarts(data) = <<>>
  <2>1. NalStarts(data) = [k \in 1 .. Len(at) |->
                <<at[k], at[k] + IF LongCode(data, at[k]) THEN 4 ELSE 3>>]
    BY <1>5, NalStartsUnfolds
  <2> HIDE DEF LongCode
  <2> QED
    BY <1>6, <2>1
<1>8. SplitNalUnits(data) = <<>>
  BY <1>1, <1>7, Zenon DEF SplitNalUnits
<1> QED
  BY <1>1, <1>8

(* A sequence of length zero is the empty one.                             *)
LEMMA NoElements ==
    ASSUME NEW S, NEW s \in Seq(S), Len(s) = 0
    PROVE  s = <<>>
OBVIOUS

(* Splitting the elementary stream gives its units back.                   *)
THEOREM UnitsSplitBack ==
    ASSUME NEW nalus \in Seq(Seq(Byte)), AllWellFormed(nalus)
    PROVE  SplitNalUnits(Elementary(nalus)) = nalus
<1>1. PICK N, E : N = Len(nalus) /\ E = Elementary(nalus)
  OBVIOUS
<1>2. N \in Nat /\ E \in Seq(Byte) /\ Len(E) \in Nat
  BY <1>1, ElementaryTyped
<1>3. CASE N = 0
  <2>1. nalus = <<>>
    BY <1>1, <1>3, NoElements
  <2>2. E = <<>>
    <3>1. PICK s : s = Coded(nalus)
      OBVIOUS
    <3>2. s \in Seq(Seq(Byte)) /\ Len(s) = 0 /\ E = FlattenSeq(s)
      BY <1>1, <1>3, <3>1, CodedShape
    <3>3. PICK at \in [0 .. 0 -> Nat] : Locates(s, at)
      BY <3>2, Located
    <3>4. Len(E) = 0
      BY <3>2, <3>3 DEF Locates
    <3> QED
      BY <1>2, <3>4
  <2> QED
    BY <1>1, <2>1, <2>2, NothingSplits
<1>4. CASE N > 0
  <2>1. PICK one : UnitsAt(nalus, N, E, one)
    BY <1>1, UnitsFound
  <2>2. PICK starts : starts = NalStarts(E)
    OBVIOUS
  <2>3. starts = [k \in 1 .. N |-> <<CodeAt(one, k), one[k] + 1>>]
    <3>1. N = Len(nalus) /\ N > 0 /\ E \in Seq(Byte)
      BY <1>1, <1>2, <1>4
    <3>2. NalStarts(E) = [k \in 1 .. N |-> <<CodeAt(one, k), one[k] + 1>>]
      BY <2>1, <3>1, NalStartsIs
    <3> QED
      BY <2>2, <3>2, Zenon
  <2>4. /\ Len(starts) = N /\ starts # <<>>
        /\ \A k \in 1 .. N : starts[k][1] = CodeAt(one, k) /\ starts[k][2] = one[k] + 1
    <3> DEFINE e(k) == <<CodeAt(one, k), one[k] + 1>>
    <3>1. starts = [k \in 1 .. N |-> e(k)]
      BY <2>3
    <3>2. \A k \in 1 .. N : e(k)[1] = CodeAt(one, k) /\ e(k)[2] = one[k] + 1
      OBVIOUS
    <3> HIDE DEF e
    <3>3. Len(starts) = N /\ \A k \in 1 .. N : starts[k] = e(k)
      BY <1>2, <3>1
    <3>4. starts # <<>>
      BY <1>4, <3>3
    <3> QED
      BY <3>2, <3>3, <3>4
  <2>5. ASSUME NEW k \in 1 .. N
        PROVE  /\ nalus[k] \in Seq(Byte) /\ Len(nalus[k]) \in Nat /\ Len(nalus[k]) > 0
               /\ one[k] \in Nat /\ StopAt(starts, E, k) = one[k] + Len(nalus[k])
               /\ one[k] + Len(nalus[k]) <= Len(E)
               /\ \A y \in 1 .. Len(nalus[k]) : E[one[k] + y] = nalus[k][y]
    <3>1. PICK u : u = nalus[k]
      OBVIOUS
    <3>2. u \in Seq(Byte) /\ u # <<>>
      BY <1>1, <3>1, ElementOf DEF AllWellFormed, NalWellFormed
    <3>3. Len(u) \in Nat /\ Len(u) > 0
      BY <3>2
    <3>4. /\ one[k] \in Nat /\ one[k] + Len(nalus[k]) <= Len(E)
          /\ \A y \in 1 .. Len(nalus[k]) : E[one[k] + y] = nalus[k][y]
      BY <2>1 DEF UnitsAt
    <3>5. CASE k = N
      <4>1. Len(E) = one[N] + Len(nalus[N])
        BY <1>4, <2>1 DEF UnitsAt
      <4>2. StopAt(starts, E, k) = Len(E)
        BY <2>4, <3>5 DEF StopAt
      <4> QED
        BY <3>1, <3>2, <3>3, <3>4, <3>5, <4>1, <4>2
    <3>6. CASE k # N
      <4>1. PICK l : l = k + 1
        OBVIOUS
      <4>2. l \in 1 .. N /\ l > 1 /\ l - 1 = k /\ k < N
        BY <1>2, <3>6, <4>1
      <4>3. one[l] = one[k] + Len(nalus[k]) + 3
        BY <2>1, <4>2 DEF UnitsAt
      <4>4. StopAt(starts, E, k) = starts[l][1] - 1
        BY <2>4, <4>1, <4>2 DEF StopAt
      <4>5. starts[l][1] = one[l] - 2
        BY <2>4, <4>2 DEF CodeAt
      <4>6. StopAt(starts, E, k) = one[k] + Len(nalus[k])
        <5>1. PICK o, m, q : o = one[k] /\ m = Len(nalus[k]) /\ q = one[l]
          OBVIOUS
        <5>2. o \in Nat /\ m \in Nat /\ q = o + m + 3
          BY <3>1, <3>3, <3>4, <4>3, <5>1
        <5>3. StopAt(starts, E, k) = q - 2 - 1
          BY <4>4, <4>5, <5>1
        <5> QED
          BY <5>1, <5>2, <5>3
      <4> QED
        BY <3>1, <3>2, <3>3, <3>4, <4>6
    <3> QED
      BY <3>5, <3>6
  <2>6. {k \in 1 .. Len(starts) : starts[k][2] <= StopAt(starts, E, k)} = 1 .. N
    <3>1. ASSUME NEW k \in 1 .. N
          PROVE  starts[k][2] <= StopAt(starts, E, k)
      <4>1. PICK o, m : o = one[k] /\ m = Len(nalus[k])
        OBVIOUS
      <4>2. o \in Nat /\ m \in Nat /\ m > 0 /\ StopAt(starts, E, k) = o + m /\ starts[k][2] = o + 1
        BY <2>4, <2>5, <4>1
      <4> QED
        BY <4>2
    <3> QED
      BY <2>4, <3>1
  <2>7. PICK filled : filled = Scan({k \in 1 .. Len(starts) : starts[k][2] <= StopAt(starts, E, k)},
                                    Len(starts))
    OBVIOUS
  <2>8. filled = [k \in 1 .. N |-> k]
    BY <1>2, <2>4, <2>6, <2>7, AllNumbers
  <2>9. Len(filled) = N /\ \A n \in 1 .. N : filled[n] = n
    BY <1>2, <2>8
  <2>10. SplitNalUnits(E) = [n \in 1 .. N |-> SubSeq(E, starts[n][2], StopAt(starts, E, n))]
    <3>1. SplitNalUnits(E) = [n \in 1 .. Len(filled) |->
                SubSeq(E, starts[filled[n]][2], StopAt(starts, E, filled[n]))]
      <4>1. starts # <<>>
        BY <2>4
      <4> QED
        BY <2>2, <2>7, <4>1, SplitUnfolds, SMTT(30)
    <3>2. \A n \in 1 .. N : SubSeq(E, starts[filled[n]][2], StopAt(starts, E, filled[n]))
                                = SubSeq(E, starts[n][2], StopAt(starts, E, n))
      BY <2>9, Zenon
    <3> QED
      BY <2>9, <3>1, <3>2, Zenon
  <2>11. ASSUME NEW n \in 1 .. N
         PROVE  SubSeq(E, starts[n][2], StopAt(starts, E, n)) = nalus[n]
    <3>1. PICK o, u, v : o = one[n] /\ u = nalus[n]
                           /\ v = SubSeq(E, starts[n][2], StopAt(starts, E, n))
      OBVIOUS
    <3>2. /\ o \in Nat /\ u \in Seq(Byte) /\ Len(u) \in Nat /\ Len(u) > 0
          /\ v = SubSeq(E, o + 1, o + Len(u)) /\ o + Len(u) <= Len(E)
          /\ \A y \in 1 .. Len(u) : E[o + y] = u[y]
      BY <2>4, <2>5, <3>1
    <3>3. /\ v \in Seq(Byte) /\ Len(v) = Len(u)
          /\ \A y \in 1 .. Len(u) : v[y] = E[o + y]
      <4>1. PICK m : m = Len(u)
        OBVIOUS
      <4>2. m \in Nat /\ o + m <= Len(E) /\ v = SubSeq(E, o + 1, o + m)
        BY <3>2, <4>1
      <4>3. v \in Seq(Byte) /\ Len(v) = m /\ \A y \in 1 .. m : v[y] = E[o + y]
        BY <1>2, <3>2, <4>2
      <4> QED
        BY <4>1, <4>3
    <3>4. v = u
      BY <3>2, <3>3, SameElements
    <3> QED
      BY <3>1, <3>4
  <2>12. SplitNalUnits(E) = [n \in 1 .. N |-> nalus[n]]
    BY <2>10, <2>11, Zenon
  <2>13. nalus = [n \in 1 .. N |-> nalus[n]]
    BY <1>1
  <2> QED
    BY <1>1, <2>12, <2>13
<1> QED
  BY <1>2, <1>3, <1>4

-----------------------------------------------------------------------------
(* The bytes of a packet and of what comes before the packets.             *)

(* The clocks of the k-th packet, the packets, and what is before them.    *)
ClocksOf(k, v) == IF k = 1 THEN EncodeClock(v, 3) \o EncodeClock(v, 1) ELSE <<>>
PacketsOf(es, v) == [k \in 1 .. Len(Pieces(es)) |-> Pes(Pieces(es)[k], ClocksOf(k, v))]
HeadOf(key, v) == PackHeader(v) \o (IF key THEN StreamMap ELSE <<>>)

(* A unit's program stream is a head and its packets.                      *)
LEMMA MuxUnfolds ==
    ASSUME NEW nalus, NEW key, NEW v
    PROVE  Mux(nalus, key, v) = HeadOf(key, v) \o FlattenSeq(PacketsOf(Elementary(nalus), v))
BY Zenon DEF Mux, HeadOf, PacketsOf, ClocksOf

(* The places of a PES packet.                                             *)
PesShape(p, payload, clocks, h) ==
    /\ p \in Seq(Byte) /\ Len(p) = 9 + h + Len(payload)
    /\ p[1] = 0 /\ p[2] = 0 /\ p[3] = 1 /\ p[4] = Video
    /\ p[5] * 256 + p[6] = PacketLength(h, payload)
    /\ p[7] \in {0, 192} /\ p[8] = h
    /\ \A q \in 1 .. h : p[8 + q] = clocks[q]
    /\ p[9 + h] = 0
    /\ \A n \in 1 .. Len(payload) : p[9 + h + n] = payload[n]

(* Two bytes of a number read back as that number.                         *)
LEMMA BigEndianReads ==
    ASSUME NEW n \in Nat, NEW b, b = BigEndian(n)
    PROVE  Len(b) = 2 /\ b[1] * 256 + b[2] = n
<1>1. (n \div 256) * 256 + (n % 256) = n
  OBVIOUS
<1> QED
  BY <1>1 DEF BigEndian

(* The m bytes a, then b.                                                  *)
JoinsTo(u, a, b, m) ==
    /\ u \in Seq(Byte) /\ Len(u) = m + Len(b)
    /\ \A j \in 1 .. m : u[j] = a[j]
    /\ \A j \in 1 .. Len(b) : u[m + j] = b[j]

(* Two joined sequences have that shape.                                   *)
LEMMA JoinShape ==
    ASSUME NEW a \in Seq(Byte), NEW b \in Seq(Byte), NEW m, m = Len(a)
    PROVE  JoinsTo(a \o b, a, b, m)
BY ConcatShape DEF JoinsTo

(* A PES packet, place by place.                                           *)
LEMMA PesPlaces ==
    ASSUME NEW payload \in Seq(Byte), NEW clocks \in Seq(Byte), NEW h \in Byte, h = Len(clocks),
           NEW size, size = PacketLength(h, payload), size \in Nat, BigEndian(size) \in Seq(Byte)
    PROVE  PesShape(Pes(payload, clocks), payload, clocks, h)
<1>26. PICK b : b = BigEndian(size)
  OBVIOUS
<1>27. b \in Seq(Byte)
  BY <1>26
<1>28. PICK flags : flags = IF clocks = <<>> THEN 0 ELSE 192
  OBVIOUS
<1>29. PICK a : a = <<0, 0, 1, Video>>
  OBVIOUS
<1>30. PICK c : c = <<flags, h>>
  OBVIOUS
<1>31. PICK d : d = <<0>>
  OBVIOUS
<1>2. /\ a \in Seq(Byte) /\ Len(a) = 4 /\ a[1] = 0 /\ a[2] = 0 /\ a[3] = 1 /\ a[4] = Video
      /\ c \in Seq(Byte) /\ Len(c) = 2 /\ c[1] \in {0, 192} /\ c[2] = h
      /\ d \in Seq(Byte) /\ Len(d) = 1 /\ d[1] = 0
  <2>1. a \in Seq(Byte) /\ Len(a) = 4 /\ a[1] = 0 /\ a[2] = 0 /\ a[3] = 1 /\ a[4] = Video
    BY <1>29, SomeBytes
  <2>2. flags \in {0, 192}
    BY <1>28
  <2>3. flags \in Byte
    BY <2>2, SomeBytes
  <2>4. c \in Seq(Byte) /\ Len(c) = 2 /\ c[1] = flags /\ c[2] = h
    BY <1>30, <2>3
  <2>5. d \in Seq(Byte) /\ Len(d) = 1 /\ d[1] = 0
    BY <1>31, SomeBytes
  <2> QED
    BY <2>1, <2>2, <2>4, <2>5
<1>3. Len(b) = 2 /\ b[1] * 256 + b[2] = size
  BY <1>26, BigEndianReads
<1>4. Pes(payload, clocks) = a \o b \o c \o clocks \o d \o payload
  BY <1>26, <1>28, <1>29, <1>30, <1>31, Zenon DEF Pes
<1>5. PICK p : p = Pes(payload, clocks)
  OBVIOUS
<1>6. PICK u : u = a \o b
  OBVIOUS
<1>7. /\ u \in Seq(Byte) /\ Len(u) = 6 /\ \A j \in 1 .. 4 : u[j] = a[j]
      /\ \A j \in 1 .. 2 : u[4 + j] = b[j]
  <2>1. JoinsTo(u, a, b, 4)
    <3>1. a \in Seq(Byte) /\ 4 = Len(a)
      BY <1>2
    <3> QED
      BY <1>27, <1>6, <3>1, JoinShape
  <2> QED
    BY <1>3, <2>1 DEF JoinsTo
<1>8. PICK w : w = u \o c
  OBVIOUS
<1>9. /\ w \in Seq(Byte) /\ Len(w) = 8 /\ \A j \in 1 .. 6 : w[j] = u[j]
      /\ \A j \in 1 .. 2 : w[6 + j] = c[j]
  <2>1. JoinsTo(w, u, c, 6)
    <3>1. u \in Seq(Byte) /\ 6 = Len(u) /\ c \in Seq(Byte)
      BY <1>2, <1>7
    <3> QED
      BY <1>8, <3>1, JoinShape
  <2> QED
    BY <1>2, <2>1 DEF JoinsTo
<1>10. PICK x : x = w \o clocks
  OBVIOUS
<1>11. h \in Nat
  BY DEF Byte
<1>12. /\ x \in Seq(Byte) /\ Len(x) = 8 + h /\ \A j \in 1 .. 8 : x[j] = w[j]
       /\ \A j \in 1 .. h : x[8 + j] = clocks[j]
  <2>1. JoinsTo(x, w, clocks, 8)
    BY <1>9, <1>10, JoinShape
  <2> QED
    BY <2>1 DEF JoinsTo
<1>13. PICK y : y = x \o d
  OBVIOUS
<1>14. /\ y \in Seq(Byte) /\ Len(y) = 9 + h /\ \A j \in 1 .. 8 + h : y[j] = x[j]
       /\ y[9 + h] = 0
  <2>4. PICK m : m = 8 + h
    OBVIOUS
  <2>5. JoinsTo(y, x, d, m)
    <3>1. x \in Seq(Byte) /\ m = Len(x) /\ d \in Seq(Byte)
      BY <1>2, <1>12, <2>4
    <3> QED
      BY <1>13, <3>1, JoinShape
  <2>6. Len(y) = m + 1 /\ y[m + 1] = 0 /\ y \in Seq(Byte) /\ \A j \in 1 .. m : y[j] = x[j]
    BY <1>2, <2>5 DEF JoinsTo
  <2>7. m + 1 = 9 + h
    BY <1>11, <2>4
  <2> QED
    BY <2>4, <2>6, <2>7
<1>15. p = y \o payload
  BY <1>4, <1>5, <1>6, <1>8, <1>10, <1>13
<1>16. /\ p \in Seq(Byte) /\ Len(p) = 9 + h + Len(payload)
       /\ \A j \in 1 .. 9 + h : p[j] = y[j]
       /\ \A j \in 1 .. Len(payload) : p[9 + h + j] = payload[j]
  <2>1. PICK m : m = 9 + h
    OBVIOUS
  <2>2. JoinsTo(p, y, payload, m)
    BY <1>14, <1>15, <2>1, JoinShape
  <2> QED
    BY <2>1, <2>2 DEF JoinsTo
<1>17. \A j \in 1 .. 8 : j \in 1 .. 9 + h /\ j \in 1 .. 8 + h
  BY <1>11
<1>18. \A j \in 1 .. 8 : p[j] = w[j]
  BY <1>12, <1>14, <1>16, <1>17
<1>19. \A j \in 1 .. 6 : p[j] = u[j]
  <2> SUFFICES ASSUME NEW j \in 1 .. 6
               PROVE  p[j] = u[j]
    OBVIOUS
  <2>1. j \in 1 .. 8
    OBVIOUS
  <2>2. p[j] = w[j]
    BY <1>18, <2>1
  <2>3. w[j] = u[j]
    BY <1>9
  <2> QED
    BY <2>2, <2>3
<1>20. p[1] = 0 /\ p[2] = 0 /\ p[3] = 1 /\ p[4] = Video
  BY <1>2, <1>7, <1>19
<1>21. p[5] = b[1] /\ p[6] = b[2]
  <2>1. u[4 + 1] = b[1] /\ u[4 + 2] = b[2]
    BY <1>7
  <2> QED
    BY <1>19, <2>1
<1>22. p[7] = c[1] /\ p[8] = c[2]
  <2>1. w[6 + 1] = c[1] /\ w[6 + 2] = c[2]
    BY <1>9
  <2> QED
    BY <1>18, <2>1
<1>23. ASSUME NEW q \in 1 .. h
       PROVE  p[8 + q] = clocks[q]
  <2>1. 8 + q \in 1 .. 9 + h /\ 8 + q \in 1 .. 8 + h
    BY <1>11
  <2> QED
    BY <1>12, <1>14, <1>16, <2>1
<1>24. p[9 + h] = 0
  <2>1. 9 + h \in 1 .. 9 + h
    BY <1>11
  <2> QED
    BY <1>14, <1>16, <2>1
<1>25. PesShape(p, payload, clocks, h)
  BY <1>2, <1>3, <1>16, <1>20, <1>21, <1>22, <1>23, <1>24 DEF PesShape
<1> QED
  BY <1>5, <1>25

(* No two bytes in a row of the clocks are zero, nor the last.             *)
Marked(c) == c[1] # 0 /\ c[3] # 0 /\ c[5] # 0 /\ c[6] # 0 /\ c[8] # 0 /\ c[10] # 0

(* The marker bits keep three bytes of a clock from zero.                  *)
LEMMA ClockMarked ==
    ASSUME NEW v \in Nat, NEW prefix \in {1, 3}
    PROVE  /\ EncodeClock(v, prefix)[1] # 0 /\ EncodeClock(v, prefix)[3] # 0
           /\ EncodeClock(v, prefix)[5] # 0
<1>1. PICK a, b, c, d, e : /\ a = Bits(v, 30, 3) /\ b = Bits(v, 22, 8) /\ c = Bits(v, 15, 7)
                           /\ d = Bits(v, 7, 8) /\ e = Bits(v, 0, 7)
  OBVIOUS
<1>2. a \in Nat /\ c \in Nat /\ e \in Nat
  <2>1. a \in 0 .. 7 /\ c \in 0 .. 127 /\ e \in 0 .. 127
    BY <1>1, FieldsBounded
  <2> QED
    BY <2>1
<1>3. EncodeClock(v, prefix) = <<prefix * 16 + a * 2 + 1, b, c * 2 + 1, d, e * 2 + 1>>
  BY <1>1 DEF EncodeClock
<1> QED
  BY <1>2, <1>3

(* The ten bytes of the first packet's two clocks.                         *)
LEMMA ClocksMarked ==
    ASSUME NEW v \in Nat, NEW c, c = ClocksOf(1, v)
    PROVE  /\ c \in Seq(Byte) /\ Len(c) = 10 /\ Marked(c)
           /\ \A q \in 1 .. 5 : c[q] = EncodeClock(v, 3)[q]
<1>1. PICK a, b : a = EncodeClock(v, 3) /\ b = EncodeClock(v, 1)
  OBVIOUS
<1>2. a \in Seq(Byte) /\ Len(a) = 5 /\ b \in Seq(Byte) /\ Len(b) = 5
  <2>1. 3 \in 0 .. 15 /\ 1 \in 0 .. 15
    OBVIOUS
  <2> QED
    BY <1>1, <2>1, ClockTyped
<1>3. c = a \o b
  BY <1>1 DEF ClocksOf
<1>4. /\ c \in Seq(Byte) /\ Len(c) = 10 /\ \A j \in 1 .. 5 : c[j] = a[j]
      /\ \A j \in 1 .. 5 : c[5 + j] = b[j]
  <2>1. JoinsTo(c, a, b, 5)
    BY <1>2, <1>3, JoinShape
  <2> QED
    BY <1>2, <2>1 DEF JoinsTo
<1>5. a[1] # 0 /\ a[3] # 0 /\ a[5] # 0 /\ b[1] # 0 /\ b[3] # 0 /\ b[5] # 0
  BY <1>1, ClockMarked
<1>6. c[1] = a[1] /\ c[3] = a[3] /\ c[5] = a[5]
  BY <1>4
<1>7. c[6] = b[1] /\ c[8] = b[3] /\ c[10] = b[5]
  <2>1. c[5 + 1] = b[1] /\ c[5 + 3] = b[3] /\ c[5 + 5] = b[5]
    BY <1>4
  <2> QED
    BY <2>1
<1> QED
  BY <1>1, <1>4, <1>5, <1>6, <1>7 DEF Marked

(* A packet of the device: its shape, and marked clocks if any.            *)
DevicePacket(p, payload, clocks, h, k) ==
    /\ PesShape(p, payload, clocks, h) /\ payload \in Seq(Byte)
    /\ h = IF k = 1 THEN 10 ELSE 0
    /\ k = 1 => Marked(clocks)
    /\ PacketLength(h, payload) = 3 + h + Len(payload)

(* Each packet of the multiplexer is one of the device's.                  *)
LEMMA PacketsShaped ==
    ASSUME NEW es \in Seq(Byte), NEW v \in Nat, NEW k \in 1 .. Len(Pieces(es)),
           NEW payload, payload = Pieces(es)[k], NEW clocks, clocks = ClocksOf(k, v)
    PROVE  DevicePacket(Pes(payload, clocks), payload, clocks, Len(clocks), k)
<1>1. payload \in Seq(Byte)
  <2>1. Pieces(es) \in Seq(Seq(Byte))
    BY PiecesShape
  <2> QED
    BY <2>1, ElementOf
<1>2. PICK h : h = Len(clocks)
  OBVIOUS
<1>3. clocks \in Seq(Byte) /\ h = (IF k = 1 THEN 10 ELSE 0) /\ (k = 1 => Marked(clocks))
  <2>1. CASE k = 1
    BY <1>2, <2>1, ClocksMarked
  <2>2. CASE k # 1
    <3>1. clocks = <<>>
      BY <2>2 DEF ClocksOf
    <3> QED
      BY <1>2, <2>2, <3>1
  <2> QED
    BY <2>1, <2>2
<1>4. h \in Byte
  BY <1>3 DEF Byte
<1>5. PacketLength(h, payload) = 3 + h + Len(payload) /\ PacketLength(h, payload) \in 1 .. LengthCap
  BY <1>3, LengthsDeclared
<1>6. PacketLength(h, payload) \in Nat /\ PacketLength(h, payload) <= 65535
  BY <1>5, FieldHoldsLength
<1>7. PICK size : size = PacketLength(h, payload)
  OBVIOUS
<1>8. size \in Nat /\ BigEndian(size) \in Seq(Byte)
  BY <1>6, <1>7, BigEndianTyped
<1>9. PesShape(Pes(payload, clocks), payload, clocks, h)
  BY <1>1, <1>2, <1>3, <1>4, <1>7, <1>8, PesPlaces
<1> QED
  BY <1>1, <1>2, <1>3, <1>5, <1>9 DEF DevicePacket

(* A start code in the bytes H is followed there by no video id.           *)
NoVideoIn(H) ==
    \A z \in 3 .. Len(H) :
        H[z - 2] = 0 /\ H[z - 1] = 0 /\ H[z] = 1 => z < Len(H) /\ H[z + 1] \notin AnyVideo

(* The bytes of a pack header that keep start codes out of it.             *)
LEMMA PackHeaderShape ==
    ASSUME NEW v \in Nat, NEW p, p = PackHeader(v)
    PROVE  /\ p \in Seq(Byte) /\ Len(p) = 14
           /\ p[4] = 186 /\ p[5] # 0 /\ p[7] # 0 /\ p[9] # 0 /\ p[12] # 1 /\ p[13] # 1 /\ p[14] # 1
<1>1. PICK a, b, c, d, e : /\ a = Bits(v, 30, 3) /\ b = Bits(v, 28, 2) /\ c = Bits(v, 15, 5)
                           /\ d = Bits(v, 13, 2) /\ e = Bits(v, 0, 5)
  OBVIOUS
<1>2. a \in 0 .. 7 /\ b \in 0 .. 3 /\ c \in 0 .. 31 /\ d \in 0 .. 3 /\ e \in 0 .. 31
  BY <1>1, FieldsBounded
<1>3. PICK f, g, q, r, s : /\ f = Bits(10000, 14, 8) /\ g = Bits(10000, 6, 8)
                           /\ q = 3 + Bits(10000, 0, 6) * 4
                           /\ r = Bits(v, 20, 8) /\ s = Bits(v, 5, 8)
  OBVIOUS
<1>4. g # 1 /\ q # 1
  BY <1>3 DEF Bits
<1>5. p = <<0, 0, 1, 186, 68 + a * 8 + b, r, 4 + c * 8 + d, s, 4 + e * 8, 1, f, g, q, 248>>
  BY <1>1, <1>3 DEF PackHeader
<1>6. 68 + a * 8 + b # 0 /\ 4 + c * 8 + d # 0 /\ 4 + e * 8 # 0
  BY <1>2
<1>7. p \in Seq(Byte)
  BY PackHeaderTyped
<1>8. Len(p) = 14
  BY <1>5
<1>9. p[4] = 186 /\ p[12] = g /\ p[13] = q /\ p[14] = 248
  BY <1>5
<1>10. p[5] = 68 + a * 8 + b /\ p[7] = 4 + c * 8 + d /\ p[9] = 4 + e * 8
  BY <1>5
<1> QED
  BY <1>4, <1>6, <1>7, <1>8, <1>9, <1>10

(* The head of a stream, with or without the map, has no video packet.     *)
LEMMA HeadShape ==
    ASSUME NEW v \in Nat, NEW key \in BOOLEAN, NEW H, H = HeadOf(key, v)
    PROVE  H \in Seq(Byte) /\ Len(H) \in {14, 31} /\ NoVideoIn(H)
<1>1. PICK p : p = PackHeader(v)
  OBVIOUS
<1>2. /\ p \in Seq(Byte) /\ Len(p) = 14
      /\ p[4] = 186 /\ p[5] # 0 /\ p[7] # 0 /\ p[9] # 0 /\ p[12] # 1 /\ p[13] # 1 /\ p[14] # 1
  BY <1>1, PackHeaderShape
<1>3. 186 \notin AnyVideo /\ 187 \notin AnyVideo
  BY DEF AnyVideo
<1>4. CASE ~key
  <2>1. H = p
    BY <1>1, <1>2, <1>4 DEF HeadOf
  <2>2. ASSUME NEW z \in 3 .. Len(p), p[z - 2] = 0, p[z - 1] = 0, p[z] = 1
        PROVE  z < Len(p) /\ p[z + 1] \notin AnyVideo
    <3>1. z \in 3 .. 14
      BY <1>2
    <3>2. z \notin {4, 12, 13, 14}
      BY <1>2, <2>2
    <3>3. z # 5 /\ z # 6 /\ z # 8 /\ z # 10
      BY <1>2, <2>2
    <3>4. z # 7 /\ z # 9 /\ z # 11
      BY <1>2, <2>2
    <3>5. z = 3
      BY <3>1, <3>2, <3>3, <3>4
    <3> QED
      BY <1>2, <1>3, <3>5
  <2>3. NoVideoIn(p)
    BY <2>2 DEF NoVideoIn
  <2> QED
    BY <1>2, <2>1, <2>3
<1>5. CASE key
  <2>1. PICK m : m = StreamMap
    OBVIOUS
  <2>2. m \in Seq(Byte) /\ Len(m) = 17 /\ m[4] = 187 /\ m[6] = 11
        /\ \A y \in 1 .. 17 : m[y] = 1 => y \in {3, 7}
    <3>1. m = <<0, 0, 1, 187, 0, 11, 1, 0, 0, 0, 4, 27, 224, 0, 0, 0, 0>>
      BY <2>1 DEF StreamMap, Video
    <3>2. Len(m) = 17 /\ m[4] = 187 /\ m[6] = 11
      BY <3>1
    <3>3. \A y \in 1 .. 17 : m[y] = 1 => y \in {3, 7}
      BY <3>1
    <3> QED
      BY <2>1, <3>2, <3>3, StreamMapTyped
  <2>3. H = p \o m
    BY <1>1, <1>5, <2>1 DEF HeadOf
  <2>4. JoinsTo(H, p, m, 14)
    <3>1. 14 = Len(p) /\ p \in Seq(Byte) /\ m \in Seq(Byte)
      BY <1>2, <2>2
    <3> QED
      BY <2>3, <3>1, JoinShape
  <2>5. /\ H \in Seq(Byte) /\ Len(H) = 31 /\ \A j \in 1 .. 14 : H[j] = p[j]
        /\ \A j \in 1 .. 17 : H[14 + j] = m[j]
    BY <2>2, <2>4 DEF JoinsTo
  <2>6. ASSUME NEW z \in 3 .. Len(H), H[z - 2] = 0, H[z - 1] = 0, H[z] = 1
        PROVE  z < Len(H) /\ H[z + 1] \notin AnyVideo
    <3>3. z \in 3 .. 31
      BY <2>5
    <3>1. CASE z <= 14
      <4>7. z \in 3 .. 14 /\ z - 2 \in 1 .. 14 /\ z - 1 \in 1 .. 14
        BY <3>1, <3>3
      <4>1. p[z - 2] = 0 /\ p[z - 1] = 0 /\ p[z] = 1 /\ z \in 3 .. 14
        <5>1. \A j \in 1 .. 14 : H[j] = p[j]
          BY <2>5
        <5>2. H[z - 2] = p[z - 2] /\ H[z - 1] = p[z - 1] /\ H[z] = p[z]
          <6>1. PICK a, b : a = z - 2 /\ b = z - 1
            OBVIOUS
          <6>2. a \in 1 .. 14 /\ b \in 1 .. 14 /\ z \in 1 .. 14
            BY <4>7, <6>1
          <6>3. H[a] = p[a] /\ H[b] = p[b] /\ H[z] = p[z]
            BY <5>1, <6>2
          <6> QED
            BY <6>1, <6>3
        <5> QED
          BY <2>6, <4>7, <5>2
      <4>2. z \notin {4, 12, 13, 14}
        BY <1>2, <4>1
      <4>3. z # 5 /\ z # 6 /\ z # 8 /\ z # 10
        BY <1>2, <4>1
      <4>4. z # 7 /\ z # 9 /\ z # 11
        BY <1>2, <4>1
      <4>5. z = 3
        BY <4>1, <4>2, <4>3, <4>4
      <4>6. H[4] = 186
        BY <1>2, <2>5
      <4> QED
        BY <1>3, <2>5, <4>5, <4>6
    <3>2. CASE z > 14
      <4>1. PICK y : y = z - 14
        OBVIOUS
      <4>2. y \in 1 .. 17 /\ z = 14 + y
        BY <3>2, <3>3, <4>1
      <4>3. m[y] = 1
        BY <2>5, <2>6, <4>2
      <4>4. y \in {3, 7}
        BY <2>2, <4>2, <4>3
      <4>5. y # 7
        <5>1. H[14 + 6] = m[6]
          BY <2>5
        <5> QED
          BY <2>2, <2>6, <4>2, <5>1
      <4>6. z = 17
        BY <4>2, <4>4, <4>5
      <4>7. H[14 + 4] = m[4]
        BY <2>5
      <4> QED
        BY <1>3, <2>2, <2>5, <4>6, <4>7
    <3> QED
      BY <3>1, <3>2
  <2> QED
    BY <2>5, <2>6 DEF NoVideoIn
<1> QED
  BY <1>4, <1>5

(* Three bytes of a start code in a packet are its own, or end in its      *)
(* payload.                                                                *)
EndsInPayload(y, payload, h, k) ==
    \E n \in 1 .. Len(payload) :
       /\ y = 9 + h + n /\ payload[n] = 1 /\ (k = 1 => n >= 2)
       /\ n >= 2 => payload[n - 1] = 0
       /\ n >= 3 => payload[n - 2] = 0

(* Where a start code of a packet can end.                                 *)
LEMMA PacketCodes ==
    ASSUME NEW k \in Nat, k >= 1, NEW p, NEW payload, NEW clocks, NEW h,
           DevicePacket(p, payload, clocks, h, k),
           NEW y \in 3 .. Len(p), p[y - 2] = 0, p[y - 1] = 0, p[y] = 1
    PROVE  y = 3 \/ EndsInPayload(y, payload, h, k)
<1>1. /\ p \in Seq(Byte) /\ Len(p) = 9 + h + Len(payload) /\ payload \in Seq(Byte)
      /\ p[1] = 0 /\ p[2] = 0 /\ p[3] = 1 /\ p[4] = Video
      /\ p[7] \in {0, 192} /\ p[8] = h
      /\ \A q \in 1 .. h : p[8 + q] = clocks[q]
      /\ p[9 + h] = 0
      /\ \A n \in 1 .. Len(payload) : p[9 + h + n] = payload[n]
      /\ h = (IF k = 1 THEN 10 ELSE 0)
      /\ k = 1 => Marked(clocks)
  BY DEF DevicePacket, PesShape
<1>2. h \in {0, 10} /\ (k = 1 <=> h = 10)
  BY <1>1
<1>3. y # 4 /\ y # 5 /\ y # 6 /\ y # 7 /\ y # 8
  <2>1. p[4] # 0 /\ p[4] # 1
    BY <1>1 DEF Video
  <2>2. p[7] # 1 /\ p[8] # 1
    <3>1. p[7] \in {0, 192} /\ p[8] \in {0, 10}
      BY <1>1, <1>2
    <3> QED
      BY <3>1
  <2>3. y # 4 /\ y # 7 /\ y # 8
    BY <2>1, <2>2
  <2>4. y # 5 /\ y # 6
    BY <2>1
  <2> QED
    BY <2>3, <2>4
<1>4. ~(h = 10 /\ y \in 9 .. 19)
  <2> SUFFICES ASSUME h = 10, y \in 9 .. 19
               PROVE  FALSE
    OBVIOUS
  <2>1. Marked(clocks) /\ \A q \in 1 .. 10 : p[8 + q] = clocks[q]
    BY <1>1, <1>2
  <2>2. p[8 + 1] = clocks[1] /\ p[8 + 3] = clocks[3] /\ p[8 + 5] = clocks[5]
    BY <2>1
  <2>3. p[8 + 6] = clocks[6] /\ p[8 + 8] = clocks[8] /\ p[8 + 10] = clocks[10]
    BY <2>1
  <2>4. p[9] # 0 /\ p[11] # 0 /\ p[13] # 0 /\ p[14] # 0 /\ p[16] # 0 /\ p[18] # 0 /\ p[8] # 0
    <3>1. /\ clocks[1] # 0 /\ clocks[3] # 0 /\ clocks[5] # 0
          /\ clocks[6] # 0 /\ clocks[8] # 0 /\ clocks[10] # 0
      BY <2>1 DEF Marked
    <3>2. p[8] = 10
      BY <1>1
    <3>3. p[8 + 1] # 0 /\ p[8 + 3] # 0 /\ p[8 + 5] # 0
      BY <2>2, <3>1
    <3>4. p[8 + 6] # 0 /\ p[8 + 8] # 0 /\ p[8 + 10] # 0
      BY <2>3, <3>1
    <3>5. p[9] # 0 /\ p[11] # 0 /\ p[13] # 0
      BY <3>3
    <3>6. p[14] # 0 /\ p[16] # 0 /\ p[18] # 0
      BY <3>4
    <3> QED
      BY <3>2, <3>5, <3>6
  <2>5. p[19] = 0
    BY <1>1
  <2>6. y # 9 /\ y # 10 /\ y # 11 /\ y # 12
    BY <2>4
  <2>7. y # 13 /\ y # 14 /\ y # 15 /\ y # 16
    BY <2>4
  <2>8. y # 17 /\ y # 18 /\ y # 19
    BY <2>4, <2>5
  <2> QED
    BY <2>6, <2>7, <2>8
<1>5. ~(h = 0 /\ y = 9)
  BY <1>1
<1>6. CASE y # 3
  <2>1. PICK L : L = Len(payload)
    OBVIOUS
  <2>2. L \in Nat /\ y \in 3 .. 9 + h + L
    BY <1>1, <2>1
  <2>3. y > 9 + h
    BY <1>2, <1>3, <1>4, <1>5, <1>6, <2>2
  <2>4. PICK n : n = y - 9 - h
    OBVIOUS
  <2>5. n \in 1 .. L /\ y = 9 + h + n
    BY <1>2, <2>2, <2>3, <2>4
  <2>6. payload[n] = 1
    BY <1>1, <2>1, <2>5
  <2>7. k = 1 => n >= 2
    <3> SUFFICES ASSUME k = 1, n = 1
                 PROVE  FALSE
      BY <2>2, <2>5
    <3>1. p[8 + 10] = clocks[10] /\ clocks[10] # 0
      BY <1>1, <1>2 DEF Marked
    <3>2. y - 2 = 18
      BY <1>2, <2>5
    <3> QED
      BY <3>1, <3>2
  <2>8. n >= 2 => payload[n - 1] = 0
    <3> SUFFICES ASSUME n >= 2
                 PROVE  payload[n - 1] = 0
      OBVIOUS
    <3>1. PICK i : i = n - 1
      OBVIOUS
    <3>2. i \in 1 .. L /\ y - 1 = 9 + h + i
      BY <1>2, <2>2, <2>5, <3>1
    <3>3. p[9 + h + i] = payload[i] /\ p[y - 1] = 0
      BY <1>1, <2>1, <3>2
    <3> QED
      BY <3>1, <3>2, <3>3, Zenon
  <2>9. n >= 3 => payload[n - 2] = 0
    <3> SUFFICES ASSUME n >= 3
                 PROVE  payload[n - 2] = 0
      OBVIOUS
    <3>1. PICK i : i = n - 2
      OBVIOUS
    <3>2. i \in 1 .. L /\ y - 2 = 9 + h + i
      BY <1>2, <2>2, <2>5, <3>1
    <3>3. p[9 + h + i] = payload[i] /\ p[y - 2] = 0
      BY <1>1, <2>1, <3>2
    <3> QED
      BY <3>1, <3>2, <3>3, Zenon
  <2> QED
    BY <2>1, <2>5, <2>6, <2>7, <2>8, <2>9 DEF EndsInPayload
<1> QED
  BY <1>6

(* The NAL units of well-formed content are found in its elementary        *)
(* stream, and each start code of the stream is one of theirs.             *)
LEMMA CodesOfUnits ==
    ASSUME NEW nalus \in Seq(Seq(Byte)), AllWellFormed(nalus)
    PROVE  \E one : /\ UnitsAt(nalus, Len(nalus), Elementary(nalus), one)
                    /\ \A x \in 1 .. Len(Elementary(nalus)) - 2 :
                           /\ Elementary(nalus)[x] = 0
                           /\ Elementary(nalus)[x + 1] = 0
                           /\ Elementary(nalus)[x + 2] = 1
                           => \E k \in 1 .. Len(nalus) : x + 2 = one[k]
<1>1. PICK N, E : N = Len(nalus) /\ E = Elementary(nalus)
  OBVIOUS
<1>2. E \in Seq(Byte)
  BY <1>1, ElementaryTyped
<1>3. PICK one : UnitsAt(nalus, N, E, one)
  BY <1>1, UnitsFound
<1>4. ASSUME NEW x \in 1 .. Len(E) - 2, E[x] = 0, E[x + 1] = 0, E[x + 2] = 1
      PROVE  \E k \in 1 .. N : x + 2 = one[k]
  BY <1>1, <1>2, <1>3, <1>4, CodesAreStarts
<1>5. \A x \in 1 .. Len(E) - 2 :
          E[x] = 0 /\ E[x + 1] = 0 /\ E[x + 2] = 1 => \E k \in 1 .. N : x + 2 = one[k]
  BY <1>4
<1> QED
  BY <1>1, <1>3, <1>5, Zenon

(* A start code inside one piece is followed by the first byte of a NAL    *)
(* unit, which is no stream id.                                            *)
LEMMA PieceCodes ==
    ASSUME NEW nalus \in Seq(Seq(Byte)), AllWellFormed(nalus), NEW E, E = Elementary(nalus),
           NEW k \in 1 .. Len(Pieces(E)), NEW q, q = Pieces(E)[k],
           NEW n \in 3 .. Len(q) - 1, q[n - 2] = 0, q[n - 1] = 0, q[n] = 1
    PROVE  q[n + 1] \notin AnyVideo
<1>1. PICK s, P, N : s = Pieces(E) /\ P = Len(Pieces(E)) /\ N = Len(nalus)
  OBVIOUS
<1>2. E \in Seq(Byte)
  BY ElementaryTyped
<1>3. s \in Seq(Seq(Byte)) /\ P = Len(s) /\ FlattenSeq(s) = E /\ k \in 1 .. P /\ q = s[k]
  BY <1>1, <1>2, PiecesShape
<1>4. P \in Nat /\ q \in Seq(Byte)
  BY <1>3, ElementOf
<1>5. PICK at \in [0 .. P -> Nat] : Locates(s, at)
  BY <1>3, Located
<1>6. PICK b, L : b = at[k - 1] /\ L = Len(q)
  OBVIOUS
<1>7. b \in Nat /\ L \in Nat /\ Len(E) \in Nat
  <2>1. k - 1 \in 0 .. P
    BY <1>3, <1>4
  <2>2. at[k - 1] \in Nat
    BY <1>5, <2>1
  <2>3. Len(E) \in Nat
    BY <1>2
  <2>4. Len(q) \in Nat
    BY <1>4
  <2> QED
    BY <1>6, <2>2, <2>3, <2>4
<1>8. \A y \in 1 .. L : E[b + y] = q[y]
  BY <1>3, <1>5, <1>6 DEF Locates
<1>9. b + L <= Len(E)
  <2>1. k \in 0 .. P /\ P \in 0 .. P /\ k <= P
    BY <1>3, <1>4
  <2>2. at[k] = b + L /\ at[P] = Len(E) /\ at[k] <= at[P]
    BY <1>3, <1>5, <1>6, <2>1 DEF Locates
  <2> QED
    BY <2>2
<1>10. PICK x : x = b + (n - 2)
  OBVIOUS
<1>21. n \in 3 .. L - 1
  BY <1>6
<1>11. /\ n - 2 \in 1 .. L /\ n - 1 \in 1 .. L /\ n \in 1 .. L /\ n + 1 \in 1 .. L
       /\ x + 1 = b + (n - 1) /\ x + 2 = b + n /\ x + 2 + 1 = b + (n + 1)
       /\ x \in 1 .. Len(E) - 2
  BY <1>7, <1>9, <1>10, <1>21
<1>12. E[x] = 0 /\ E[x + 1] = 0 /\ E[x + 2] = 1
  <2>1. E[b + (n - 2)] = q[n - 2] /\ E[b + (n - 1)] = q[n - 1] /\ E[b + n] = q[n]
    <3>1. PICK c, d : c = n - 2 /\ d = n - 1
      OBVIOUS
    <3>2. c \in 1 .. L /\ d \in 1 .. L /\ n \in 1 .. L
      BY <1>11, <3>1
    <3> QED
      BY <1>8, <3>1, <3>2
  <2> QED
    BY <1>10, <1>11, <2>1
<1>13. PICK one : /\ UnitsAt(nalus, N, E, one)
                  /\ \A y \in 1 .. Len(E) - 2 :
                         E[y] = 0 /\ E[y + 1] = 0 /\ E[y + 2] = 1
                         => \E j \in 1 .. N : y + 2 = one[j]
  BY <1>1, CodesOfUnits, Zenon
<1>14. PICK j \in 1 .. N : x + 2 = one[j]
  BY <1>11, <1>12, <1>13
<1>15. PICK u : u = nalus[j]
  OBVIOUS
<1>16. u \in Seq(Byte) /\ NalWellFormed(u)
  BY <1>1, <1>15, ElementOf DEF AllWellFormed
<1>17. 1 \in 1 .. Len(u) /\ u[1] \notin AnyVideo
  BY <1>16 DEF NalWellFormed
<1>18. E[one[j] + 1] = u[1]
  BY <1>13, <1>15, <1>17 DEF UnitsAt
<1>19. E[b + (n + 1)] = q[n + 1]
  <2>1. PICK c : c = n + 1
    OBVIOUS
  <2>2. c \in 1 .. L
    BY <1>11, <2>1
  <2> QED
    BY <1>8, <2>1, <2>2
<1>20. b + (n + 1) = one[j] + 1
  BY <1>11, <1>14
<1> QED
  BY <1>17, <1>18, <1>19, <1>20

(* The first piece does not start with 00 01.                              *)
LEMMA FirstPieceStarts ==
    ASSUME NEW nalus \in Seq(Seq(Byte)), NEW E, E = Elementary(nalus),
           NEW q, q = Pieces(E)[1], 2 <= Len(q)
    PROVE  q[2] = 0
<1>1. PICK s, P, N : s = Pieces(E) /\ P = Len(Pieces(E)) /\ N = Len(nalus)
  OBVIOUS
<1>2. E \in Seq(Byte) /\ N \in Nat
  BY <1>1, ElementaryTyped
<1>3. s \in Seq(Seq(Byte)) /\ P = Len(s) /\ FlattenSeq(s) = E /\ P >= 1 /\ q = s[1]
  BY <1>1, <1>2, PiecesShape
<1>4. P \in Nat /\ 1 \in 1 .. P /\ q \in Seq(Byte)
  <2>1. P \in Nat /\ 1 \in 1 .. P
    BY <1>3
  <2> QED
    BY <1>3, <2>1, ElementOf
<1>5. PICK at \in [0 .. P -> Nat] : Locates(s, at)
  BY <1>3, Located
<1>6. 2 \in 1 .. Len(q)
  BY <1>4
<1>7. E[at[1 - 1] + 2] = q[2] /\ at[0] = 0
  BY <1>3, <1>4, <1>5, <1>6 DEF Locates
<1>8. E[2] = q[2]
  BY <1>7
<1>9. Len(E) > 0
  <2>1. at[1] = at[1 - 1] + Len(q) /\ at[1] <= at[P] /\ at[P] = Len(E)
    <3>1. 1 \in 0 .. P /\ P \in 0 .. P /\ 1 <= P
      BY <1>4
    <3> QED
      BY <1>3, <1>4, <1>5, <3>1 DEF Locates
  <2>2. PICK L : L = Len(q)
    OBVIOUS
  <2>3. L \in Nat /\ L >= 2 /\ at[1] = L /\ Len(E) \in Nat
    BY <1>2, <1>4, <1>6, <1>7, <2>1, <2>2
  <2> QED
    BY <2>1, <2>3
<1>10. PICK one : UnitsAt(nalus, N, E, one)
  BY <1>1, UnitsFound
<1>11. N > 0
  <2> SUFFICES ASSUME N = 0
               PROVE  FALSE
    BY <1>2
  <2>1. nalus = <<>>
    BY <1>1, NoElements
  <2>2. PICK c : c = Coded(nalus)
    OBVIOUS
  <2>3. c \in Seq(Seq(Byte)) /\ Len(c) = 0 /\ E = FlattenSeq(c)
    BY <1>1, <2>2, CodedShape
  <2>4. PICK z \in [0 .. 0 -> Nat] : Locates(c, z)
    BY <2>3, Located
  <2>5. Len(E) = 0
    BY <2>3, <2>4 DEF Locates
  <2> QED
    BY <1>9, <2>5
<1>12. one[1] = 4 /\ E[one[1] - 2] = 0
  BY <1>2, <1>10, <1>11 DEF UnitsAt
<1>13. E[2] = 0
  BY <1>12
<1> QED
  BY <1>8, <1>13

(* No start code of a packet but its own is followed by a video id.        *)
LEMMA PacketVideo ==
    ASSUME NEW nalus \in Seq(Seq(Byte)), AllWellFormed(nalus), ~FalseStart(nalus),
           NEW E, E = Elementary(nalus),
           NEW k \in 1 .. Len(Pieces(E)), NEW q, q = Pieces(E)[k], NEW p, NEW clocks, NEW h,
           DevicePacket(p, q, clocks, h, k),
           NEW y \in 3 .. Len(p) - 1, p[y - 2] = 0, p[y - 1] = 0, p[y] = 1, y # 3
    PROVE  p[y + 1] \notin AnyVideo
<1>1. k \in Nat /\ k >= 1 /\ q \in Seq(Byte)
  BY DEF DevicePacket
<1>2. /\ Len(p) = 9 + h + Len(q) /\ h \in {0, 10} /\ p \in Seq(Byte)
      /\ \A n \in 1 .. Len(q) : p[9 + h + n] = q[n]
  BY DEF DevicePacket, PesShape
<1>10. PICK L, M : L = Len(q) /\ M = Len(p)
  OBVIOUS
<1>11. L \in Nat /\ M \in Nat /\ y \in 3 .. M - 1 /\ M = 9 + h + L
  <2>1. Len(q) \in Nat /\ Len(p) \in Nat
    BY <1>1, <1>2
  <2>2. y \in 3 .. M - 1
    BY <1>10
  <2> QED
    BY <1>2, <1>10, <2>1, <2>2
<1>3. y \in 3 .. M
  BY <1>11
<1>4. PICK n \in 1 .. Len(q) :
         /\ y = 9 + h + n /\ q[n] = 1 /\ (k = 1 => n >= 2)
         /\ n >= 2 => q[n - 1] = 0
         /\ n >= 3 => q[n - 2] = 0
  <2>1. y \in 3 .. Len(p)
    BY <1>3, <1>10
  <2>2. EndsInPayload(y, q, h, k)
    BY <1>1, <2>1, PacketCodes
  <2> QED
    BY <2>2 DEF EndsInPayload
<1>5. L = Len(q) /\ n \in 1 .. L
  BY <1>10
<1>6. L \in Nat /\ n \in 1 .. L - 1 /\ n + 1 \in 1 .. L /\ y + 1 = 9 + h + (n + 1)
  <2>1. y = 9 + h + n
    BY <1>4
  <2>2. n \in 1 .. L /\ h \in {0, 10}
    BY <1>2, <1>5
  <2>3. n \in 1 .. L - 1
    BY <1>11, <2>1, <2>2
  <2> QED
    BY <1>11, <2>1, <2>2, <2>3
<1>7. p[y + 1] = q[n + 1]
  <2>1. PICK i : i = n + 1
    OBVIOUS
  <2>2. i \in 1 .. L /\ y + 1 = 9 + h + i
    BY <1>6, <2>1
  <2> QED
    BY <1>2, <1>5, <2>1, <2>2
<1>8. CASE n >= 3
  <2>1. n \in 3 .. Len(q) - 1 /\ q[n - 2] = 0 /\ q[n - 1] = 0 /\ q[n] = 1
    BY <1>4, <1>5, <1>6, <1>8
  <2>2. q[n + 1] \notin AnyVideo
    BY <2>1, PieceCodes
  <2> QED
    BY <1>7, <2>2
<1>9. CASE n < 3
  <2>1. CASE k = 1
    <3>1. n = 2
      BY <1>4, <1>6, <1>9, <2>1
    <3>2. q[2] = 0
      BY <1>5, <1>6, <2>1, <3>1, FirstPieceStarts
    <3> QED
      BY <1>4, <3>1, <3>2
  <2>2. CASE k # 1
    <3>1. k \in 2 .. Len(Pieces(E)) /\ n \in 1 .. Len(q) - 1 /\ q[n] = 1
      BY <1>1, <1>4, <1>5, <1>6, <2>2
    <3>2. \A i \in 1 .. n - 1 : q[i] = 0
      <4>1. n = 1 \/ n = 2
        BY <1>6, <1>9
      <4>2. CASE n = 1
        BY <4>2
      <4>3. CASE n = 2
        BY <1>4, <4>3
      <4> QED
        BY <4>1, <4>2, <4>3
    <3>3. q[n + 1] \notin AnyVideo
      BY <3>1, <3>2 DEF FalseStart
    <3> QED
      BY <1>7, <3>3
  <2> QED
    BY <2>1, <2>2
<1> QED
  BY <1>6, <1>8, <1>9

-----------------------------------------------------------------------------
(* The layout of a whole program stream.                                   *)

(* The packets of an elementary stream: one at least, each the device's.   *)
LEMMA PacketsTyped ==
    ASSUME NEW es \in Seq(Byte), NEW v \in Nat, NEW P, P = Len(Pieces(es))
    PROVE  /\ P \in Nat /\ P >= 1
           /\ PacketsOf(es, v) \in Seq(Seq(Byte)) /\ Len(PacketsOf(es, v)) = P
           /\ \A k \in 1 .. P :
                 DevicePacket(PacketsOf(es, v)[k], Pieces(es)[k], ClocksOf(k, v), Len(ClocksOf(k, v)), k)
<1> DEFINE e(k) == Pes(Pieces(es)[k], ClocksOf(k, v))
           A == Seq(Byte)
<1>1. P \in Nat /\ P >= 1
  BY PiecesShape
<1>2. PacketsOf(es, v) = [k \in 1 .. P |-> e(k)]
  BY DEF PacketsOf
<1>3. ASSUME NEW k \in 1 .. P
      PROVE  DevicePacket(e(k), Pieces(es)[k], ClocksOf(k, v), Len(ClocksOf(k, v)), k)
  BY PacketsShaped
<1>4. \A k \in 1 .. P : e(k) \in A
  BY <1>3 DEF DevicePacket, PesShape
<1> HIDE DEF e, A
<1>5. PacketsOf(es, v) \in Seq(A) /\ Len(PacketsOf(es, v)) = P
  BY <1>1, <1>2, <1>4
<1>6. \A k \in 1 .. P : PacketsOf(es, v)[k] = e(k)
  BY <1>2
<1> QED
  BY <1>1, <1>3, <1>5, <1>6 DEF A

(* A program stream: the head H, then the P packets s, of which to[k] ends  *)
(* the k-th.                                                               *)
LaidOut(ps, H, s, to, P) ==
    /\ ps \in Seq(Byte) /\ P \in Nat /\ P >= 1
    /\ to[0] = Len(H) /\ to[P] = Len(ps)
    /\ \A k \in 0 .. P : to[k] \in Nat
    /\ \A k \in 1 .. P : to[k] = to[k - 1] + Len(s[k])
    /\ \A k, l \in 0 .. P : k <= l => to[k] <= to[l]
    /\ \A j \in 1 .. Len(H) : ps[j] = H[j]
    /\ \A k \in 1 .. P : \A y \in 1 .. Len(s[k]) : ps[to[k - 1] + y] = s[k][y]
    /\ \A z \in 1 .. Len(ps) :
          z > Len(H) => \E k \in 1 .. P : \E y \in 1 .. Len(s[k]) : z = to[k - 1] + y

(* A head and packets can be laid out.                                     *)
LEMMA HeadThenPackets ==
    ASSUME NEW H \in Seq(Byte), NEW s \in Seq(Seq(Byte)), NEW P, P = Len(s), P >= 1,
           NEW ps, ps = H \o FlattenSeq(s)
    PROVE  \E to : LaidOut(ps, H, s, to, P)
<1>1. P \in Nat
  OBVIOUS
<1>2. PICK f : f = FlattenSeq(s)
  OBVIOUS
<1>3. f \in Seq(Byte)
  BY <1>2, FlattenTyped
<1>4. PICK at \in [0 .. P -> Nat] : Locates(s, at)
  BY Located
<1>5. /\ at[0] = 0 /\ at[P] = Len(f)
      /\ \A k \in 1 .. P : at[k] = at[k - 1] + Len(s[k])
      /\ \A k, l \in 0 .. P : k <= l => at[k] <= at[l]
      /\ \A k \in 1 .. P : \A y \in 1 .. Len(s[k]) : f[at[k - 1] + y] = s[k][y]
      /\ \A x \in 1 .. Len(f) :
            \E k \in 1 .. P : \E y \in 1 .. Len(s[k]) : x = at[k - 1] + y
  BY <1>2, <1>4 DEF Locates
<1>6. PICK m : m = Len(H)
  OBVIOUS
<1>7. m \in Nat /\ JoinsTo(ps, H, f, m)
  BY <1>2, <1>3, <1>6, JoinShape
<1>8. /\ ps \in Seq(Byte) /\ Len(ps) = m + Len(f)
      /\ \A j \in 1 .. m : ps[j] = H[j]
      /\ \A j \in 1 .. Len(f) : ps[m + j] = f[j]
  BY <1>7 DEF JoinsTo
<1>9. PICK to : to = [k \in 0 .. P |-> m + at[k]]
  OBVIOUS
<1>10. \A k \in 0 .. P : to[k] = m + at[k] /\ at[k] \in Nat /\ to[k] \in Nat
  <2> SUFFICES ASSUME NEW k \in 0 .. P
               PROVE  to[k] = m + at[k] /\ at[k] \in Nat /\ to[k] \in Nat
    OBVIOUS
  <2>1. at[k] \in Nat
    BY <1>4
  <2>2. to[k] = m + at[k]
    BY <1>9
  <2>3. m + at[k] \in Nat
    BY <1>7, <2>1
  <2> QED
    BY <2>1, <2>2, <2>3
<1>11. to[0] = m /\ to[P] = Len(ps)
  <2>1. 0 \in 0 .. P /\ P \in 0 .. P
    BY <1>1
  <2>2. to[0] = m + at[0] /\ to[P] = m + at[P]
    BY <1>10, <2>1
  <2>3. at[0] = 0 /\ at[P] = Len(f)
    BY <1>5
  <2> QED
    BY <1>7, <1>8, <2>2, <2>3
<1>12. ASSUME NEW k \in 1 .. P
       PROVE  /\ k \in 0 .. P /\ k - 1 \in 0 .. P /\ Len(s[k]) \in Nat
              /\ to[k] = to[k - 1] + Len(s[k])
              /\ \A y \in 1 .. Len(s[k]) : ps[to[k - 1] + y] = s[k][y]
  <2>1. k \in 0 .. P /\ k - 1 \in 0 .. P /\ s[k] \in Seq(Byte)
    BY <1>1, ElementOf
  <2>2. PICK b, L : b = at[k - 1] /\ L = Len(s[k])
    OBVIOUS
  <2>3. b \in Nat /\ L \in Nat /\ at[k] = b + L /\ to[k - 1] = m + b /\ to[k] = m + at[k]
    <3>1. L \in Nat
      BY <2>1, <2>2
    <3>2. b \in Nat /\ to[k - 1] = m + b /\ to[k] = m + at[k]
      BY <1>10, <2>1, <2>2
    <3>3. at[k] = b + L
      BY <1>5, <2>2
    <3> QED
      BY <3>1, <3>2, <3>3
  <2>4. b + L <= Len(f)
    <3>1. at[k] <= at[P] /\ at[P] = Len(f)
      <4>1. P \in 0 .. P /\ k <= P
        BY <1>1
      <4> QED
        BY <1>5, <2>1, <4>1
    <3> QED
      BY <2>3, <3>1
  <2>5. ASSUME NEW y \in 1 .. L
        PROVE  ps[to[k - 1] + y] = s[k][y]
    <3>1. b + y \in 1 .. Len(f)
      <4>1. Len(f) \in Nat
        BY <1>3
      <4> QED
        BY <2>3, <2>4, <4>1
    <3>2. ps[m + (b + y)] = f[b + y]
      BY <1>8, <3>1
    <3>3. f[b + y] = s[k][y]
      BY <1>5, <2>2
    <3>4. to[k - 1] + y = m + (b + y)
      BY <1>7, <2>3
    <3> QED
      BY <3>2, <3>3, <3>4
  <2>6. to[k] = to[k - 1] + L
    BY <1>7, <2>3
  <2> QED
    BY <2>1, <2>2, <2>3, <2>5, <2>6
<1>13. ASSUME NEW k \in 0 .. P, NEW l \in 0 .. P, k <= l
       PROVE  to[k] <= to[l]
  <2>1. at[k] <= at[l]
    BY <1>5, <1>13
  <2> QED
    BY <1>7, <1>10, <2>1
<1>14. ASSUME NEW z \in 1 .. Len(ps), z > m
       PROVE  \E k \in 1 .. P : \E y \in 1 .. Len(s[k]) : z = to[k - 1] + y
  <2>1. PICK x : x = z - m
    OBVIOUS
  <2>2. x \in 1 .. Len(f) /\ z = m + x
    <3>1. PICK n, c : n = Len(f) /\ c = Len(ps)
      OBVIOUS
    <3>2. n \in Nat /\ c = m + n /\ z \in 1 .. c
      BY <1>3, <1>8, <3>1
    <3> QED
      BY <1>7, <1>14, <2>1, <3>1, <3>2
  <2>3. PICK k \in 1 .. P : \E y \in 1 .. Len(s[k]) : x = at[k - 1] + y
    BY <1>5, <2>2
  <2>4. PICK y \in 1 .. Len(s[k]) : x = at[k - 1] + y
    BY <2>3
  <2>5. z = to[k - 1] + y
    <3>1. PICK b : b = at[k - 1]
      OBVIOUS
    <3>2. b \in Nat /\ to[k - 1] = m + b
      BY <1>10, <1>12, <3>1
    <3>3. y \in Nat /\ x = b + y /\ z = m + x
      BY <1>12, <2>2, <2>4, <3>1
    <3>4. m + (b + y) = (m + b) + y
      BY <1>7, <3>2, <3>3
    <3> QED
      BY <3>2, <3>3, <3>4
  <2> QED
    BY <2>5
<1>15. LaidOut(ps, H, s, to, P)
  <2>1. \A z \in 1 .. Len(ps) :
          z > m => \E k \in 1 .. P : \E y \in 1 .. Len(s[k]) : z = to[k - 1] + y
    BY <1>14
  <2>2. \A k, l \in 0 .. P : k <= l => to[k] <= to[l]
    BY <1>13
  <2>3. /\ \A k \in 1 .. P : to[k] = to[k - 1] + Len(s[k])
        /\ \A k \in 1 .. P : \A y \in 1 .. Len(s[k]) : ps[to[k - 1] + y] = s[k][y]
    BY <1>12
  <2>4. \A k \in 0 .. P : to[k] \in Nat
    BY <1>10
  <2> QED
    BY <1>1, <1>6, <1>8, <1>11, <2>1, <2>2, <2>3, <2>4 DEF LaidOut
<1> QED
  BY <1>15

(* A unit's program stream is laid out so.                                 *)
LEMMA MuxLaidOut ==
    ASSUME NEW nalus \in Seq(Seq(Byte)), NEW key \in BOOLEAN, NEW v \in Nat,
           NEW E, E = Elementary(nalus), NEW P, P = Len(Pieces(E)),
           NEW ps, ps = Mux(nalus, key, v)
    PROVE  \E to : LaidOut(ps, HeadOf(key, v), PacketsOf(E, v), to, P)
<1>1. E \in Seq(Byte)
  BY ElementaryTyped
<1>2. PICK H, s : H = HeadOf(key, v) /\ s = PacketsOf(E, v)
  OBVIOUS
<1>3. H \in Seq(Byte)
  BY <1>2, HeadShape
<1>4. s \in Seq(Seq(Byte)) /\ Len(s) = P /\ P >= 1
  BY <1>1, <1>2, PacketsTyped
<1>5. ps = H \o FlattenSeq(s)
  BY <1>2, MuxUnfolds
<1> QED
  BY <1>2, <1>3, <1>4, <1>5, HeadThenPackets

(* A video id behind a start code at x.                                    *)
VideoAt(ps, x) ==
    /\ x + 3 <= Len(ps) /\ ps[x] = 0 /\ ps[x + 1] = 0 /\ ps[x + 2] = 1
    /\ ps[x + 3] \in AnyVideo

(* The places of video packets.                                            *)
VideoSet(ps) == {i \in StartCodes(ps) : ps[i + 3] \in AnyVideo}

(* What the parser takes for the start of a video packet.                  *)
LEMMA VideoSetIs ==
    ASSUME NEW ps \in Seq(Byte), NEW x \in 1 .. Len(ps)
    PROVE  x \in VideoSet(ps) <=> VideoAt(ps, x)
<1>1. Matches(ps, x, <<0, 0, 1>>)
        <=> x + 2 <= Len(ps) /\ ps[x] = 0 /\ ps[x + 1] = 0 /\ ps[x + 2] = 1
  BY MatchesThree
<1>2. x + 3 <= Len(ps) => x + 2 <= Len(ps)
  OBVIOUS
<1>3. x \in VideoSet(ps)
        <=> x + 3 <= Len(ps) /\ Matches(ps, x, <<0, 0, 1>>) /\ ps[x + 3] \in AnyVideo
  BY DEF VideoSet, StartCodes
<1> QED
  BY <1>1, <1>2, <1>3 DEF VideoAt

(* Every packet is found at its first byte.                                *)
LEMMA PacketFound ==
    ASSUME NEW es \in Seq(Byte), NEW v \in Nat, NEW P, P = Len(Pieces(es)), NEW H, NEW ps, NEW to,
           LaidOut(ps, H, PacketsOf(es, v), to, P), NEW k \in 1 .. P
    PROVE  VideoAt(ps, to[k - 1] + 1) /\ to[k - 1] + 1 \in 1 .. Len(ps)
<1>1. PICK s, p, q, c, h : /\ s = PacketsOf(es, v) /\ p = s[k] /\ q = Pieces(es)[k]
                           /\ c = ClocksOf(k, v) /\ h = Len(ClocksOf(k, v))
  OBVIOUS
<1>2. DevicePacket(p, q, c, h, k) /\ P \in Nat
  BY <1>1, PacketsTyped
<1>3. /\ p[1] = 0 /\ p[2] = 0 /\ p[3] = 1 /\ p[4] = Video
      /\ Len(p) = 9 + h + Len(q) /\ h \in {0, 10} /\ Len(q) \in Nat
  BY <1>2 DEF DevicePacket, PesShape
<1>4. PICK b, L : b = to[k - 1] /\ L = Len(p)
  OBVIOUS
<1>5. k - 1 \in 0 .. P /\ k \in 0 .. P /\ P \in 0 .. P /\ k <= P
  BY <1>2
<1>6. /\ b \in Nat /\ L \in Nat /\ L >= 9 /\ to[k] = b + L /\ to[k] <= Len(ps) /\ Len(ps) \in Nat
      /\ \A y \in 1 .. L : ps[b + y] = p[y]
  <2>1. b \in Nat /\ to[k] = b + L /\ to[k] <= to[P] /\ to[P] = Len(ps) /\ ps \in Seq(Byte)
        /\ \A y \in 1 .. L : ps[b + y] = p[y]
    BY <1>1, <1>4, <1>5 DEF LaidOut
  <2>2. L \in Nat /\ L >= 9
    BY <1>3, <1>4
  <2> QED
    BY <2>1, <2>2
<1>7. ps[b + 1] = 0 /\ ps[b + 2] = 0 /\ ps[b + 3] = 1 /\ ps[b + 4] = Video
  <2>1. \A y \in 1 .. 4 : y \in 1 .. L
    BY <1>6
  <2>2. \A y \in 1 .. L : ps[b + y] = p[y]
    BY <1>6
  <2>3. 1 \in 1 .. L /\ 2 \in 1 .. L /\ 3 \in 1 .. L /\ 4 \in 1 .. L
    BY <2>1
  <2>4. ps[b + 1] = p[1] /\ ps[b + 2] = p[2] /\ ps[b + 3] = p[3] /\ ps[b + 4] = p[4]
    BY <2>2, <2>3
  <2> QED
    BY <1>3, <2>4
<1>8. PICK x : x = b + 1
  OBVIOUS
<1>9. /\ x \in 1 .. Len(ps) /\ x + 1 = b + 2 /\ x + 2 = b + 3 /\ x + 3 = b + 4
      /\ x + 3 <= Len(ps)
  BY <1>6, <1>8
<1>10. Video \in AnyVideo
  BY DEF Video, AnyVideo
<1>11. VideoAt(ps, x)
  BY <1>7, <1>8, <1>9, <1>10 DEF VideoAt
<1> QED
  BY <1>4, <1>8, <1>9, <1>11

(* And nothing else is.                                                    *)
LEMMA OnlyPackets ==
    ASSUME NEW nalus \in Seq(Seq(Byte)), AllWellFormed(nalus), ~FalseStart(nalus),
           NEW E, E = Elementary(nalus), NEW v \in Nat, NEW P, P = Len(Pieces(E)),
           NEW H \in Seq(Byte), NoVideoIn(H), NEW ps, NEW to,
           LaidOut(ps, H, PacketsOf(E, v), to, P), NEW x \in 1 .. Len(ps), VideoAt(ps, x)
    PROVE  \E k \in 1 .. P : x = to[k - 1] + 1
<1>1. PICK s, m, z : s = PacketsOf(E, v) /\ m = Len(H) /\ z = x + 2
  OBVIOUS
<1>2. E \in Seq(Byte)
  BY ElementaryTyped
<1>3. /\ P \in Nat /\ P >= 1 /\ s \in Seq(Seq(Byte)) /\ Len(s) = P
      /\ \A k \in 1 .. P : DevicePacket(s[k], Pieces(E)[k], ClocksOf(k, v), Len(ClocksOf(k, v)), k)
  BY <1>1, <1>2, PacketsTyped
<1>4. PICK n : n = Len(ps)
  OBVIOUS
<1>5. /\ ps \in Seq(Byte) /\ m \in Nat /\ n \in Nat /\ to[0] = m /\ to[P] = n
      /\ \A k \in 0 .. P : to[k] \in Nat
      /\ \A k \in 1 .. P : to[k] = to[k - 1] + Len(s[k])
      /\ \A k, l \in 0 .. P : k <= l => to[k] <= to[l]
      /\ \A j \in 1 .. m : ps[j] = H[j]
      /\ \A k \in 1 .. P : \A y \in 1 .. Len(s[k]) : ps[to[k - 1] + y] = s[k][y]
      /\ \A w \in 1 .. n : w > m => \E k \in 1 .. P : \E y \in 1 .. Len(s[k]) : w = to[k - 1] + y
  <2>1. LaidOut(ps, H, s, to, P)
    BY <1>1
  <2>2. m \in Nat
    BY <1>1
  <2>3. ps \in Seq(Byte)
    BY <2>1 DEF LaidOut
  <2>4. n \in Nat
    BY <1>4, <2>3
  <2> QED
    BY <1>1, <1>4, <2>1, <2>2, <2>4, Zenon DEF LaidOut
<1>6. /\ z \in 3 .. n - 1 /\ z - 2 = x /\ z - 1 = x + 1 /\ z + 1 = x + 3
      /\ ps[z - 2] = 0 /\ ps[z - 1] = 0 /\ ps[z] = 1 /\ ps[z + 1] \in AnyVideo
  <2>1. /\ x + 3 <= n /\ x \in Nat /\ x >= 1
        /\ ps[x] = 0 /\ ps[x + 1] = 0 /\ ps[x + 2] = 1 /\ ps[x + 3] \in AnyVideo
    BY <1>4, <1>5 DEF VideoAt
  <2>2. z \in 3 .. n - 1 /\ z - 2 = x /\ z - 1 = x + 1 /\ z + 1 = x + 3
    BY <1>1, <1>5, <2>1
  <2> QED
    BY <1>1, <2>1, <2>2
<1>7. \A k \in 1 .. P : k \in 0 .. P /\ k - 1 \in 0 .. P
  BY <1>3
<1>8. 0 \notin AnyVideo
  BY DEF AnyVideo
(* The first byte after the k-th packet is zero, if there is one.          *)
<1>9. ASSUME NEW k \in 0 .. P, to[k] < n
      PROVE  ps[to[k] + 1] = 0
  <2>1. k # P
    BY <1>5, <1>9
  <2>2. PICK l : l = k + 1
    OBVIOUS
  <2>3. l \in 1 .. P /\ l - 1 = k
    BY <1>3, <2>1, <2>2
  <2>4. s[l][1] = 0 /\ 1 \in 1 .. Len(s[l])
    <3>1. PICK p, q, h : p = s[l] /\ q = Pieces(E)[l] /\ h = Len(ClocksOf(l, v))
      OBVIOUS
    <3>2. DevicePacket(p, q, ClocksOf(l, v), h, l)
      BY <1>3, <2>3, <3>1
    <3>3. p[1] = 0 /\ Len(p) = 9 + h + Len(q) /\ h \in {0, 10} /\ Len(q) \in Nat
      BY <3>2 DEF DevicePacket, PesShape
    <3>4. PICK L, M : L = Len(q) /\ M = Len(p)
      OBVIOUS
    <3>5. L \in Nat /\ M = 9 + h + L /\ h \in {0, 10}
      BY <3>3, <3>4
    <3>6. 1 \in 1 .. M
      BY <3>5
    <3> QED
      BY <3>1, <3>3, <3>4, <3>6
  <2>5. ps[to[l - 1] + 1] = s[l][1]
    BY <1>5, <2>3, <2>4
  <2> QED
    BY <2>3, <2>4, <2>5
<1>10. CASE z <= m
  <2>1. z \in 3 .. m
    BY <1>6, <1>10
  <2>2. H[z - 2] = 0 /\ H[z - 1] = 0 /\ H[z] = 1
    <3>1. PICK a, b : a = z - 2 /\ b = z - 1
      OBVIOUS
    <3>2. a \in 1 .. m /\ b \in 1 .. m /\ z \in 1 .. m
      BY <1>5, <2>1, <3>1
    <3>3. H[a] = ps[a] /\ H[b] = ps[b] /\ H[z] = ps[z]
      BY <1>5, <3>2
    <3> QED
      BY <1>6, <3>1, <3>3
  <2>3. z < m /\ H[z + 1] \notin AnyVideo
    BY <1>1, <2>1, <2>2 DEF NoVideoIn
  <2>4. H[z + 1] = ps[z + 1]
    <3>1. PICK a : a = z + 1
      OBVIOUS
    <3>2. a \in 1 .. m
      BY <1>5, <2>1, <2>3, <3>1
    <3> QED
      BY <1>5, <3>1, <3>2
  <2> QED
    BY <1>6, <2>3, <2>4
<1>11. CASE z > m
  <2>1. z \in 1 .. n
    <3>1. z \in 3 .. n - 1 /\ n \in Nat
      BY <1>5, <1>6
    <3> QED
      BY <3>1
  <2>2. PICK k \in 1 .. P : \E y \in 1 .. Len(s[k]) : z = to[k - 1] + y
    BY <1>5, <1>11, <2>1
  <2>3. PICK y \in 1 .. Len(s[k]) : z = to[k - 1] + y
    BY <2>2
  <2>4. PICK b, p, q, c, h : /\ b = to[k - 1] /\ p = s[k] /\ q = Pieces(E)[k]
                             /\ c = ClocksOf(k, v) /\ h = Len(ClocksOf(k, v))
    OBVIOUS
  <2>5. DevicePacket(p, q, c, h, k)
    BY <1>3, <2>4
  <2>6. /\ p[1] = 0 /\ p[2] = 0 /\ p \in Seq(Byte)
    BY <2>5 DEF DevicePacket, PesShape
  <2>7. PICK L : L = Len(p)
    OBVIOUS
  <2>8. b \in Nat /\ L \in Nat /\ y \in 1 .. L /\ z = b + y /\ to[k] = b + L
    <3>1. k - 1 \in 0 .. P
      BY <1>3
    <3>2. b \in Nat
      BY <1>5, <2>4, <3>1
    <3>3. L \in Nat /\ L = Len(s[k])
      BY <2>4, <2>6, <2>7
    <3>4. to[k] = b + L
      BY <1>5, <2>4, <3>3
    <3> QED
      BY <2>3, <2>4, <3>2, <3>3, <3>4
  <2>9. \A w \in 1 .. L : ps[b + w] = p[w]
    BY <1>5, <2>4, <2>7
  <2>10. p[y] = 1
    BY <1>6, <2>8, <2>9
  <2>11. y >= 3
    <3>1. y # 1 /\ y # 2
      BY <2>6, <2>10
    <3> QED
      BY <2>8, <3>1
  <2>12. p[y - 2] = 0 /\ p[y - 1] = 0
    <3>1. PICK d, e : d = y - 2 /\ e = y - 1
      OBVIOUS
    <3>2. d \in 1 .. L /\ e \in 1 .. L /\ z - 2 = b + d /\ z - 1 = b + e
      BY <2>8, <2>11, <3>1
    <3>3. ps[b + d] = p[d] /\ ps[b + e] = p[e]
      BY <2>9, <3>2
    <3> QED
      BY <1>6, <3>1, <3>2, <3>3
  <2>13. CASE y = 3
    <3>1. x = b + 1
      BY <1>6, <2>8, <2>13
    <3> QED
      BY <2>4, <3>1
  <2>14. CASE y # 3 /\ y < L
    <3>1. PICK e : e = y + 1
      OBVIOUS
    <3>2. y \in 3 .. L - 1 /\ e \in 1 .. L /\ z + 1 = b + e
      BY <2>8, <2>11, <2>14, <3>1
    <3>3. y \in 3 .. Len(p) - 1 /\ k \in 1 .. Len(Pieces(E))
      BY <2>7, <3>2
    <3>4. p[y + 1] \notin AnyVideo
      BY <2>4, <2>5, <2>10, <2>12, <2>14, <3>3, PacketVideo
    <3>5. ps[b + e] = p[e]
      BY <2>9, <3>2
    <3> QED
      BY <1>6, <3>1, <3>2, <3>4, <3>5
  <2>15. CASE y = L
    <3>1. z = to[k] /\ k \in 0 .. P
      BY <1>7, <2>8, <2>15
    <3>2. ps[z + 1] = 0
      <4>1. z \in 3 .. n - 1 /\ n \in Nat
        BY <1>5, <1>6
      <4>2. to[k] < n
        BY <3>1, <4>1
      <4>3. ps[to[k] + 1] = 0
        BY <1>9, <3>1, <4>2
      <4> QED
        BY <3>1, <4>3
    <3> QED
      BY <1>6, <1>8, <3>2
  <2> QED
    BY <2>8, <2>13, <2>14, <2>15
<1> QED
  BY <1>5, <1>6, <1>10, <1>11

-----------------------------------------------------------------------------
(* The parser on that stream.                                              *)

(* Everything about one program stream.                                    *)
StreamOf(nalus, ps, H, E, v, to, P) ==
    /\ nalus \in Seq(Seq(Byte)) /\ AllWellFormed(nalus) /\ ~FalseStart(nalus)
    /\ E = Elementary(nalus) /\ E \in Seq(Byte) /\ P = Len(Pieces(E)) /\ v \in Nat
    /\ H \in Seq(Byte) /\ NoVideoIn(H)
    /\ LaidOut(ps, H, PacketsOf(E, v), to, P)

(* A unit's program stream is one, unless a packet starts falsely.         *)
LEMMA MuxIsStream ==
    ASSUME NEW nalus \in Seq(Seq(Byte)), AllWellFormed(nalus), ~FalseStart(nalus),
           NEW key \in BOOLEAN, NEW v \in Nat,
           NEW E, E = Elementary(nalus), NEW P, P = Len(Pieces(E))
    PROVE  \E to : StreamOf(nalus, Mux(nalus, key, v), HeadOf(key, v), E, v, to, P)
<1>1. E \in Seq(Byte)
  BY ElementaryTyped
<1>2. HeadOf(key, v) \in Seq(Byte) /\ NoVideoIn(HeadOf(key, v))
  BY HeadShape
<1>3. PICK to : LaidOut(Mux(nalus, key, v), HeadOf(key, v), PacketsOf(E, v), to, P)
  BY MuxLaidOut
<1> QED
  BY <1>1, <1>2, <1>3 DEF StreamOf

(* The parser finds the packets.                                           *)
LEMMA VideoPacketsAt ==
    ASSUME NEW nalus, NEW ps, NEW H, NEW E, NEW v, NEW to, NEW P,
           StreamOf(nalus, ps, H, E, v, to, P)
    PROVE  VideoPackets(ps) = [k \in 1 .. P |-> to[k - 1] + 1]
<1>1. /\ nalus \in Seq(Seq(Byte)) /\ AllWellFormed(nalus) /\ ~FalseStart(nalus)
      /\ E = Elementary(nalus) /\ E \in Seq(Byte) /\ P = Len(Pieces(E)) /\ v \in Nat
      /\ H \in Seq(Byte) /\ NoVideoIn(H)
      /\ LaidOut(ps, H, PacketsOf(E, v), to, P)
  BY DEF StreamOf
<1>2. PICK n, S : n = Len(ps) /\ S = VideoSet(ps)
  OBVIOUS
<1>3. ps \in Seq(Byte) /\ n \in Nat /\ P \in Nat
  BY <1>1, <1>2 DEF LaidOut
<1>4. S \in SUBSET (1 .. n)
  BY <1>2 DEF VideoSet, StartCodes
<1>5. PICK s : s = [k \in 1 .. P |-> to[k - 1] + 1]
  OBVIOUS
<1>6. ASSUME NEW k \in 1 .. P
      PROVE  s[k] = to[k - 1] + 1 /\ s[k] \in S /\ to[k - 1] \in Nat
  <2>1. s[k] = to[k - 1] + 1
    BY <1>5
  <2>2. VideoAt(ps, to[k - 1] + 1) /\ to[k - 1] + 1 \in 1 .. Len(ps)
    BY <1>1, PacketFound
  <2>3. to[k - 1] + 1 \in S
    BY <1>2, <1>3, <2>2, VideoSetIs
  <2>4. k - 1 \in 0 .. P
    BY <1>3
  <2>5. to[k - 1] \in Nat
    BY <1>1, <2>4 DEF LaidOut
  <2> QED
    BY <2>1, <2>3, <2>5
<1>7. s \in [1 .. P -> S]
  BY <1>5, <1>6
<1>8. ASSUME NEW x \in S
      PROVE  \E k \in 1 .. P : x = s[k]
  <2>1. x \in 1 .. Len(ps) /\ VideoAt(ps, x)
    BY <1>2, <1>3, <1>4, VideoSetIs
  <2>2. PICK k \in 1 .. P : x = to[k - 1] + 1
    BY <1>1, <2>1, OnlyPackets
  <2> QED
    BY <1>6, <2>2
<1>9. ASSUME NEW i \in 1 .. P, NEW j \in 1 .. P, i < j
      PROVE  s[i] < s[j]
  <2>1. i \in 0 .. P /\ i - 1 \in 0 .. P /\ j - 1 \in 0 .. P /\ i <= j - 1
    BY <1>3, <1>9
  <2>2. PICK t, p : t = PacketsOf(E, v) /\ p = t[i]
    OBVIOUS
  <2>3. DevicePacket(p, Pieces(E)[i], ClocksOf(i, v), Len(ClocksOf(i, v)), i)
    BY <1>1, <2>2, PacketsTyped
  <2>4. PICK q, h : q = Pieces(E)[i] /\ h = Len(ClocksOf(i, v))
    OBVIOUS
  <2>5. Len(p) = 9 + h + Len(q) /\ h \in {0, 10} /\ Len(q) \in Nat
    BY <2>3, <2>4 DEF DevicePacket, PesShape
  <2>6. PICK L : L = Len(p)
    OBVIOUS
  <2>7. L \in Nat /\ L > 0
    BY <2>5, <2>6
  <2>8. to[i] = to[i - 1] + L /\ to[i] <= to[j - 1]
    BY <1>1, <2>1, <2>2, <2>6 DEF LaidOut
  <2>9. PICK a, b : a = to[i - 1] /\ b = to[j - 1]
    OBVIOUS
  <2>10. a \in Nat /\ b \in Nat /\ a + L <= b /\ s[i] = a + 1 /\ s[j] = b + 1
    BY <1>6, <2>8, <2>9
  <2> QED
    BY <2>7, <2>10
<1>10. Scan(S, n) = s
  <2>1. /\ \A i, j \in 1 .. P : i < j => s[i] < s[j]
        /\ \A x \in S : \E i \in 1 .. P : x = s[i]
    BY <1>8, <1>9
  <2> QED
    BY <1>3, <1>4, <1>7, <2>1, ScanFinds
<1>11. VideoPackets(ps) = Scan(S, n)
  BY <1>2, Zenon DEF VideoPackets, VideoSet
<1> QED
  BY <1>5, <1>10, <1>11

(* The fields of a packet that follows b bytes of a stream.                *)
FieldsAt(ps, b, q, c, h) ==
    /\ b \in Nat /\ h \in {0, 10} /\ q \in Seq(Byte) /\ Len(q) \in Nat
    /\ ps \in Seq(Byte) /\ b + 9 + h + Len(q) <= Len(ps)
    /\ ps[b + 5] * 256 + ps[b + 6] = 3 + h + Len(q) /\ ps[b + 8] = h
    /\ \A i \in 1 .. h : ps[b + 8 + i] = c[i]
    /\ \A n \in 1 .. Len(q) : ps[b + 9 + h + n] = q[n]

(* A packet inside a stream keeps its fields.                              *)
LEMMA PacketFields ==
    ASSUME NEW ps \in Seq(Byte), NEW b \in Nat, NEW p, NEW q, NEW c, NEW h, NEW k,
           DevicePacket(p, q, c, h, k), b + Len(p) <= Len(ps),
           \A y \in 1 .. Len(p) : ps[b + y] = p[y]
    PROVE  FieldsAt(ps, b, q, c, h)
<1>1. /\ q \in Seq(Byte) /\ h \in {0, 10} /\ PacketLength(h, q) = 3 + h + Len(q)
      /\ p \in Seq(Byte) /\ Len(p) = 9 + h + Len(q)
      /\ p[5] * 256 + p[6] = PacketLength(h, q) /\ p[8] = h
      /\ \A i \in 1 .. h : p[8 + i] = c[i]
      /\ \A n \in 1 .. Len(q) : p[9 + h + n] = q[n]
  BY DEF DevicePacket, PesShape
<1>2. PICK L : L = Len(q)
  OBVIOUS
<1>3. L \in Nat /\ h \in {0, 10} /\ Len(p) = 9 + h + L
  BY <1>1, <1>2
<1>4. PICK M : M = 9 + h + L
  OBVIOUS
<1>5. M = Len(p) /\ M \in Nat /\ M >= 9
  BY <1>3, <1>4
<1>6. \A y \in 1 .. M : ps[b + y] = p[y]
  BY <1>5
<1>7. ps[b + 5] = p[5] /\ ps[b + 6] = p[6] /\ ps[b + 8] = p[8]
  <2>1. 5 \in 1 .. M /\ 6 \in 1 .. M /\ 8 \in 1 .. M
    BY <1>5
  <2> QED
    BY <1>6, <2>1
<1>8. ASSUME NEW i \in 1 .. h
      PROVE  ps[b + 8 + i] = c[i]
  <2>1. PICK y : y = 8 + i
    OBVIOUS
  <2>2. y \in 1 .. M /\ b + 8 + i = b + y
    BY <1>3, <1>4, <2>1
  <2> QED
    BY <1>1, <1>6, <2>1, <2>2
<1>9. ASSUME NEW j \in 1 .. L
      PROVE  ps[b + 9 + h + j] = q[j]
  <2>1. PICK y : y = 9 + h + j
    OBVIOUS
  <2>2. y \in 1 .. M /\ b + 9 + h + j = b + y
    BY <1>3, <1>4, <2>1
  <2>3. p[9 + h + j] = q[j]
    BY <1>1, <1>2
  <2> QED
    BY <1>6, <2>1, <2>2, <2>3
<1>10. b + 9 + h + L <= Len(ps)
  <2>1. b + M <= Len(ps)
    BY <1>5
  <2>2. b + M = b + 9 + h + L
    BY <1>3, <1>4
  <2> QED
    BY <2>1, <2>2
<1>11. ps[b + 5] * 256 + ps[b + 6] = 3 + h + L /\ ps[b + 8] = h
  BY <1>1, <1>2, <1>7
<1> QED
  BY <1>1, <1>2, <1>3, <1>8, <1>9, <1>10, <1>11 DEF FieldsAt

(* The fields of the k-th packet of a stream.                              *)
LEMMA FieldsInStream ==
    ASSUME NEW nalus, NEW ps, NEW H, NEW E, NEW v, NEW to, NEW P,
           StreamOf(nalus, ps, H, E, v, to, P), NEW k \in 1 .. P
    PROVE  FieldsAt(ps, to[k - 1], Pieces(E)[k], ClocksOf(k, v), Len(ClocksOf(k, v)))
<1>1. /\ E \in Seq(Byte) /\ P = Len(Pieces(E)) /\ v \in Nat
      /\ LaidOut(ps, H, PacketsOf(E, v), to, P)
  BY DEF StreamOf
<1>2. PICK s, p, q, c, h : /\ s = PacketsOf(E, v) /\ p = s[k] /\ q = Pieces(E)[k]
                           /\ c = ClocksOf(k, v) /\ h = Len(ClocksOf(k, v))
  OBVIOUS
<1>3. DevicePacket(p, q, c, h, k)
  BY <1>1, <1>2, PacketsTyped
<1>4. P \in Nat /\ k - 1 \in 0 .. P /\ k \in 0 .. P /\ P \in 0 .. P /\ k <= P
  BY <1>1 DEF LaidOut
<1>5. PICK b : b = to[k - 1]
  OBVIOUS
<1>6. /\ b \in Nat /\ to[k] = b + Len(p) /\ to[k] <= to[P] /\ to[P] = Len(ps) /\ ps \in Seq(Byte)
      /\ \A y \in 1 .. Len(p) : ps[b + y] = p[y]
  BY <1>1, <1>2, <1>4, <1>5 DEF LaidOut
<1>7. FieldsAt(ps, b, q, c, h)
  BY <1>3, <1>6, PacketFields
<1> QED
  BY <1>2, <1>5, <1>7

(* Consecutive bytes of a sequence of bytes.                               *)
LEMMA PartOf ==
    ASSUME NEW s \in Seq(Byte), NEW d \in Nat, NEW n \in Nat, d + n <= Len(s)
    PROVE  /\ SubSeq(s, d + 1, d + n) \in Seq(Byte)
           /\ Len(SubSeq(s, d + 1, d + n)) = n
           /\ \A i \in 1 .. n : SubSeq(s, d + 1, d + n)[i] = s[d + i]
<1>1. \A i \in d + 1 .. d + n : i \in 1 .. Len(s)
  OBVIOUS
<1>2. Len(SubSeq(s, d + 1, d + n)) = n
  OBVIOUS
<1>3. \A i \in 1 .. n : SubSeq(s, d + 1, d + n)[i] = s[d + i]
  OBVIOUS
<1>4. SubSeq(s, d + 1, d + n) \in Seq(Byte)
  BY <1>1
<1> QED
  BY <1>2, <1>3, <1>4

(* The parser reads the payload that the multiplexer wrote.                *)
LEMMA PayloadRead ==
    ASSUME NEW ps, NEW b, NEW q, NEW c, NEW h, FieldsAt(ps, b, q, c, h)
    PROVE  PesPayload(ps, b + 1) = q
<1>1. /\ b \in Nat /\ h \in {0, 10} /\ q \in Seq(Byte) /\ Len(q) \in Nat
      /\ ps \in Seq(Byte) /\ b + 9 + h + Len(q) <= Len(ps)
      /\ ps[b + 5] * 256 + ps[b + 6] = 3 + h + Len(q) /\ ps[b + 8] = h
      /\ \A n \in 1 .. Len(q) : ps[b + 9 + h + n] = q[n]
  BY DEF FieldsAt
<1>2. PICK L, N : L = Len(q) /\ N = Len(ps)
  OBVIOUS
<1>3. L \in Nat /\ N \in Nat /\ b \in Nat /\ h \in {0, 10} /\ b + 9 + h + L <= N
  BY <1>1, <1>2
<1>4. PICK length : length = 3 + h + L
  OBVIOUS
<1>5. /\ b + 1 + 4 = b + 5 /\ b + 1 + 5 = b + 6 /\ b + 1 + 7 = b + 8
      /\ b + 1 + 9 + h = b + 10 + h /\ b + 1 + 8 <= N /\ b + 1 + 7 + h <= N
  BY <1>3
<1>6. ps[b + 1 + 4] * 256 + ps[b + 1 + 5] = length /\ ps[b + 1 + 7] = h
  BY <1>1, <1>2, <1>4, <1>5
<1>7. PICK from : from = b + 10 + h
  OBVIOUS
<1>8. length # 0 /\ (IF length > 3 + h THEN length - 3 - h ELSE 0) = L
  BY <1>3, <1>4
<1>9. PICK to : to = IF length = 0 THEN N
                     ELSE from - 1 + (IF length > 3 + h THEN length - 3 - h ELSE 0)
  OBVIOUS
<1>10. to = from - 1 + L /\ to = b + 9 + h + L
  BY <1>3, <1>7, <1>8, <1>9
<1>11. (IF to < N THEN to ELSE N) = to
  BY <1>3, <1>10
<1>12. PesPayload(ps, b + 1) = SubSeq(ps, from, IF to < N THEN to ELSE N)
  <2>1. ~(b + 1 + 8 > N \/ b + 1 + 7 + h > N)
    BY <1>3, <1>5
  <2>2. b + 1 + 9 + h = from
    BY <1>5, <1>7
  <2>3. PICK i, z : i = b + 1 /\ z = i + 9 + ps[i + 7]
    OBVIOUS
  <2>4. PICK g, k : g = ps[i + 4] * 256 + ps[i + 5] /\ k = ps[i + 7]
    OBVIOUS
  <2>5. PICK t : t = IF g = 0 THEN Len(ps) ELSE z - 1 + (IF g > 3 + k THEN g - 3 - k ELSE 0)
    OBVIOUS
  <2>6. PesPayload(ps, i) = IF i + 8 > Len(ps) \/ i + 7 + k > Len(ps) THEN <<>>
                            ELSE SubSeq(ps, z, IF t < Len(ps) THEN t ELSE Len(ps))
    <3>1. /\ z = i + 9 + ps[i + 7] /\ k = ps[i + 7] /\ g = ps[i + 4] * 256 + ps[i + 5]
          /\ t = IF g = 0 THEN Len(ps) ELSE z - 1 + (IF g > 3 + k THEN g - 3 - k ELSE 0)
      BY <2>3, <2>4, <2>5
    <3> QED
      BY <3>1 DEF PesPayload
  <2>7. g = length /\ k = h /\ z = from
    BY <1>6, <2>2, <2>3, <2>4, Zenon
  <2>8. t = to
    BY <1>2, <1>9, <2>5, <2>7
  <2>9. ~(i + 8 > N \/ i + 7 + k > N)
    BY <2>1, <2>3, <2>7, Zenon
  <2> QED
    BY <1>2, <2>3, <2>6, <2>7, <2>8, <2>9, Zenon
<1>13. PICK u : u = SubSeq(ps, from, to)
  OBVIOUS
<1>14. u \in Seq(Byte) /\ Len(u) = L /\ \A n \in 1 .. L : u[n] = ps[b + 9 + h + n]
  <2>1. PICK d : d = b + 9 + h
    OBVIOUS
  <2>2. d \in Nat /\ from = d + 1 /\ to = d + L /\ d + L <= N
    BY <1>3, <1>7, <1>10, <2>1
  <2>3. u = SubSeq(ps, d + 1, d + L)
    BY <1>13, <2>2
  <2>4. u \in Seq(Byte) /\ Len(u) = L /\ \A n \in 1 .. L : u[n] = ps[d + n]
    <3>1. d + L <= Len(ps) /\ ps \in Seq(Byte) /\ L \in Nat
      BY <1>1, <1>2, <1>3, <2>2
    <3> QED
      BY <2>2, <2>3, <3>1, PartOf
  <2> QED
    BY <2>1, <2>4
<1>15. u = q
  <2>1. \A n \in 1 .. Len(u) : u[n] = q[n]
    BY <1>1, <1>2, <1>14
  <2> QED
    BY <1>1, <1>2, <1>14, <2>1, SameElements
<1> QED
  BY <1>11, <1>12, <1>13, <1>15

(* The parser's elementary stream is the multiplexer's.                    *)
LEMMA ElementaryBack ==
    ASSUME NEW nalus, NEW ps, NEW H, NEW E, NEW v, NEW to, NEW P,
           StreamOf(nalus, ps, H, E, v, to, P)
    PROVE  ParseElementary(ps) = E
<1>1. E \in Seq(Byte) /\ P = Len(Pieces(E)) /\ P \in Nat
  <2>1. LaidOut(ps, H, PacketsOf(E, v), to, P) /\ E \in Seq(Byte) /\ P = Len(Pieces(E))
    BY DEF StreamOf
  <2> QED
    BY <2>1 DEF LaidOut
<1>2. PICK at : at = VideoPackets(ps)
  OBVIOUS
<1>3. at = [k \in 1 .. P |-> to[k - 1] + 1]
  BY <1>2, VideoPacketsAt
<1>4. Len(at) = P /\ \A k \in 1 .. P : at[k] = to[k - 1] + 1
  BY <1>1, <1>3
<1>5. PICK s : s = Pieces(E)
  OBVIOUS
<1>6. ASSUME NEW k \in 1 .. P
      PROVE  PesPayload(ps, at[k]) = s[k]
  <2>1. FieldsAt(ps, to[k - 1], Pieces(E)[k], ClocksOf(k, v), Len(ClocksOf(k, v)))
    BY FieldsInStream
  <2>2. PesPayload(ps, to[k - 1] + 1) = Pieces(E)[k]
    BY <2>1, PayloadRead
  <2> QED
    BY <1>4, <1>5, <2>2
<1>7. s \in Seq(Seq(Byte)) /\ Len(s) = P /\ FlattenSeq(s) = E
  BY <1>1, <1>5, PiecesShape
<1>8. s = [k \in 1 .. P |-> s[k]]
  BY <1>7
<1>9. [k \in 1 .. P |-> PesPayload(ps, at[k])] = s
  <2>1. [k \in 1 .. P |-> PesPayload(ps, at[k])] = [k \in 1 .. P |-> s[k]]
    BY <1>6, Zenon
  <2> QED
    BY <1>8, <2>1
<1>10. ParseElementary(ps) = FlattenSeq([k \in 1 .. Len(at) |-> PesPayload(ps, at[k])])
  BY <1>2, Zenon DEF ParseElementary
<1> QED
  BY <1>4, <1>7, <1>9, <1>10

(* The NAL units of a unit come back out of its program stream, in order,  *)
(* byte for byte.                                                          *)
THEOREM UnitsComeBack ==
    ASSUME NEW nalus \in Seq(Seq(Byte)), AllWellFormed(nalus), NEW key \in BOOLEAN, NEW v \in Nat
    PROVE  NalUnits(Mux(nalus, key, v)) = nalus \/ FalseStart(nalus)
<1> SUFFICES ASSUME ~FalseStart(nalus)
             PROVE  NalUnits(Mux(nalus, key, v)) = nalus
  OBVIOUS
<1>1. PICK E, P, ps : E = Elementary(nalus) /\ P = Len(Pieces(E)) /\ ps = Mux(nalus, key, v)
  OBVIOUS
<1>2. PICK to : StreamOf(nalus, ps, HeadOf(key, v), E, v, to, P)
  BY <1>1, MuxIsStream
<1>3. ParseElementary(ps) = E
  BY <1>2, ElementaryBack
<1>4. SplitNalUnits(E) = nalus
  BY <1>1, UnitsSplitBack
<1> QED
  BY <1>1, <1>3, <1>4 DEF NalUnits

(* The clock modulo 2^33, in the two parts TLC can compute.                *)
LEMMA ClockInParts ==
    ASSUME NEW v \in Nat
    PROVE  v % 2^33 = Bits(v, 30, 3) * 2^30 + (v % 2^30)
<1>1. PICK q, r : q = v \div 2^30 /\ r = v % 2^30
  OBVIOUS
<1>2. q \in Nat /\ r \in 0 .. 2^30 - 1 /\ v = q * 2^30 + r
  BY <1>1
<1>3. PICK d, a : d = q \div 8 /\ a = q % 8
  OBVIOUS
<1>4. d \in Nat /\ a \in 0 .. 7 /\ q = d * 8 + a
  BY <1>2, <1>3
<1>5. Bits(v, 30, 3) = a
  BY <1>1, <1>3 DEF Bits
<1>6. v = d * 2^33 + (a * 2^30 + r) /\ a * 2^30 + r \in 0 .. 2^33 - 1
  BY <1>2, <1>4
<1>7. PICK z : z = a * 2^30 + r
  OBVIOUS
<1>8. v = d * 2^33 + z /\ z \in 0 .. 2^33 - 1
  BY <1>6, <1>7
<1>9. v % 2^33 = z
  BY <1>4, <1>8
<1> QED
  BY <1>1, <1>5, <1>7, <1>9

(* Every packet is bounded, and the first carries the clock.               *)
THEOREM StreamDeclares ==
    ASSUME NEW nalus \in Seq(Seq(Byte)), AllWellFormed(nalus), NEW key \in BOOLEAN, NEW v \in Nat,
           NEW u, u.nalus = nalus, u.pts = v
    PROVE  Declares(Mux(nalus, key, v), u)
<1> SUFFICES ASSUME ~FalseStart(nalus)
             PROVE  Declares(Mux(nalus, key, v), u)
  BY DEF Declares
<1>1. PICK E, P, ps : E = Elementary(nalus) /\ P = Len(Pieces(E)) /\ ps = Mux(nalus, key, v)
  OBVIOUS
<1>2. PICK to : StreamOf(nalus, ps, HeadOf(key, v), E, v, to, P)
  BY <1>1, MuxIsStream
<1>3. P \in Nat /\ P >= 1
  <2>1. LaidOut(ps, HeadOf(key, v), PacketsOf(E, v), to, P)
    BY <1>2 DEF StreamOf
  <2> QED
    BY <2>1 DEF LaidOut
<1>4. PICK at : at = VideoPackets(ps)
  OBVIOUS
<1>5. at = [k \in 1 .. P |-> to[k - 1] + 1]
  BY <1>2, <1>4, VideoPacketsAt
<1>6. Len(at) = P /\ at # <<>> /\ \A k \in 1 .. P : at[k] = to[k - 1] + 1
  <2> DEFINE e(k) == to[k - 1] + 1
  <2>1. at = [k \in 1 .. P |-> e(k)]
    BY <1>5
  <2> HIDE DEF e
  <2>2. Len(at) = P /\ \A k \in 1 .. P : at[k] = e(k)
    BY <1>3, <2>1
  <2>3. Len(at) # 0
    BY <1>3, <2>2
  <2>4. at # <<>>
    BY <2>3
  <2>5. \A k \in 1 .. P : at[k] = to[k - 1] + 1
    BY <2>2 DEF e
  <2> QED
    BY <2>2, <2>4, <2>5
<1>7. ASSUME NEW k \in 1 .. P
      PROVE  ps[at[k] + 4] * 256 + ps[at[k] + 5] > 0
  <2>1. PICK b, q, h : b = to[k - 1] /\ q = Pieces(E)[k] /\ h = Len(ClocksOf(k, v))
    OBVIOUS
  <2>2. FieldsAt(ps, b, q, ClocksOf(k, v), h)
    BY <1>2, <2>1, FieldsInStream
  <2>3. b \in Nat /\ h \in {0, 10} /\ Len(q) \in Nat /\ ps[b + 5] * 256 + ps[b + 6] = 3 + h + Len(q)
    BY <2>2 DEF FieldsAt
  <2>4. at[k] = b + 1
    BY <1>6, <2>1
  <2>5. b + 1 + 4 = b + 5 /\ b + 1 + 5 = b + 6
    BY <2>3
  <2>6. PICK L : L = Len(q)
    OBVIOUS
  <2>7. 3 + h + L > 0
    BY <2>3, <2>6
  <2> QED
    BY <2>3, <2>4, <2>5, <2>6, <2>7
<1>8. DecodeClock(SubSeq(ps, at[1] + 8, at[1] + 12)) = Bits(v, 30, 3) * 2^30 + (v % 2^30)
  <2>1. PICK b, q, c, h : b = to[0] /\ q = Pieces(E)[1] /\ c = ClocksOf(1, v) /\ h = Len(ClocksOf(1, v))
    OBVIOUS
  <2>2. FieldsAt(ps, b, q, c, h)
    <3>1. 1 \in 1 .. P /\ 1 - 1 = 0
      BY <1>3
    <3>2. FieldsAt(ps, to[1 - 1], Pieces(E)[1], ClocksOf(1, v), Len(ClocksOf(1, v)))
      BY <1>2, <3>1, FieldsInStream
    <3> QED
      BY <2>1, <3>1, <3>2
  <2>3. c \in Seq(Byte) /\ h = 10 /\ \A i \in 1 .. 5 : c[i] = EncodeClock(v, 3)[i]
    BY <2>1, ClocksMarked
  <2>4. PICK w : w = EncodeClock(v, 3)
    OBVIOUS
  <2>5. w \in Seq(Byte) /\ Len(w) = 5
    <3>1. 3 \in 0 .. 15
      OBVIOUS
    <3> QED
      BY <2>4, <3>1, ClockTyped
  <2>6. PICK d, N : d = b + 8 /\ N = Len(ps)
    OBVIOUS
  <2>7. /\ d \in Nat /\ N \in Nat /\ d + 5 <= N /\ ps \in Seq(Byte)
        /\ \A i \in 1 .. 10 : ps[b + 8 + i] = c[i]
    <3>1. PICK L : L = Len(q)
      OBVIOUS
    <3>2. b \in Nat /\ L \in Nat /\ b + 9 + h + L <= N /\ ps \in Seq(Byte)
          /\ \A i \in 1 .. h : ps[b + 8 + i] = c[i]
      BY <2>2, <2>6, <3>1 DEF FieldsAt
    <3>3. N \in Nat
      BY <2>6, <3>2
    <3> QED
      BY <2>3, <2>6, <3>2, <3>3
  <2>8. at[1] + 8 = d + 1 /\ at[1] + 12 = d + 5
    <3>1. at[1] = b + 1
      <4>1. 1 \in 1 .. P /\ 1 - 1 = 0
        BY <1>3
      <4>2. at[1] = to[1 - 1] + 1
        BY <1>6, <4>1
      <4> QED
        BY <2>1, <4>1, <4>2
    <3>2. b \in Nat
      BY <2>2 DEF FieldsAt
    <3> QED
      BY <2>6, <3>1, <3>2
  <2>9. PICK x : x = SubSeq(ps, d + 1, d + 5)
    OBVIOUS
  <2>10. x \in Seq(Byte) /\ Len(x) = 5 /\ \A i \in 1 .. 5 : x[i] = ps[d + i]
    <3>1. d \in Nat /\ d + 5 <= Len(ps) /\ ps \in Seq(Byte)
      BY <2>6, <2>7
    <3>2. 5 \in Nat
      OBVIOUS
    <3>3. /\ SubSeq(ps, d + 1, d + 5) \in Seq(Byte)
          /\ Len(SubSeq(ps, d + 1, d + 5)) = 5
          /\ \A i \in 1 .. 5 : SubSeq(ps, d + 1, d + 5)[i] = ps[d + i]
      BY <3>1, <3>2, PartOf, Zenon
    <3> QED
      BY <2>9, <3>3, Zenon
  <2>11. x = w
    <3>1. \A i \in 1 .. 5 : ps[d + i] = c[i]
      <4> SUFFICES ASSUME NEW i \in 1 .. 5
                   PROVE  ps[d + i] = c[i]
        OBVIOUS
      <4>1. i \in 1 .. 10
        OBVIOUS
      <4>2. ps[b + 8 + i] = c[i]
        BY <2>7, <4>1
      <4> QED
        BY <2>6, <4>2
    <3>2. \A i \in 1 .. Len(x) : x[i] = w[i]
      BY <2>3, <2>4, <2>10, <3>1
    <3> QED
      BY <2>5, <2>10, <3>2, SameElements
  <2>12. DecodeClock(w) = v % 2^33
    <3>1. 3 \in 0 .. 15
      OBVIOUS
    <3> QED
      BY <2>4, <3>1, ClockReadsBack
  <2>13. SubSeq(ps, at[1] + 8, at[1] + 12) = w
    BY <2>8, <2>9, <2>11
  <2> QED
    BY <2>12, <2>13, ClockInParts
<1>9. \A k \in 1 .. Len(at) : ps[at[k] + 4] * 256 + ps[at[k] + 5] > 0
  BY <1>6, <1>7
<1>10. Declares(ps, u)
  BY <1>4, <1>6, <1>8, <1>9, Zenon DEF Declares
<1> QED
  BY <1>1, <1>10

-----------------------------------------------------------------------------
(* Types.                                                                  *)

(* The longest step of the clock, 100 s.                                   *)
LongestStep == 9000000

(* The constants, the long step without its digits.                        *)
LEMMA Constants ==
    /\ SeqSpace \in Nat \ {0} /\ TearDownAus \in Nat \ {0} /\ SeqSpace > TearDownAus
    /\ ClockSpace \in Nat \ {0} /\ LongestStep \in Nat /\ ClockSpace > LongestStep
    /\ MaxPayload \in Nat \ {0} /\ Gap \subseteq Nat
    /\ \A c \in Content : c.nalus \in Seq(Seq(Byte)) /\ c.key \in BOOLEAN
BY MediaTaskAssumption, SMT DEF LongestStep

(* The types, with what a step of a unit under way needs of them: there is *)
(* that unit, and the streak has not reached its end.                      *)
Typed ==
    /\ TypeOK
    /\ phase = "sending" => aus # <<>>
    /\ streak = TearDownAus => phase = "torn_down"

(* The types hold at first.                                                *)
LEMMA TypeInit == Init => Typed
<1> SUFFICES ASSUME Init
             PROVE  Typed
  OBVIOUS
<1>1. seq \in 0 .. SeqSpace - 1 /\ clock \in 0 .. ClockSpace - 1 /\ streak \in 0 .. TearDownAus
  BY Constants DEF Init
<1>2. phase \in {"accepting", "idle", "sending", "torn_down", "ended"} /\ tcp \in BOOLEAN /\ broken \in BOOLEAN
  BY DEF Init
<1>3. pts \in Nat /\ delta \in Nat /\ pieces = <<>> /\ aus = <<>> /\ wire = <<>>
  BY DEF Init
<1>4. phase # "sending" /\ streak # TearDownAus
  BY Constants DEF Init
<1> QED
  BY <1>1, <1>2, <1>3, <1>4 DEF TypeOK, Typed

(* A step of the clock is at least 1 and at most the longest.              *)
LEMMA TicksBounded ==
    ASSUME NEW gap \in Nat
    PROVE  Delta(gap) \in 1 .. LongestStep
<1>1. LongestStep \in Nat /\ 3000 <= LongestStep
  BY SMT DEF LongestStep
<1>2. Ticks(gap) = IF gap * 90 < 1 THEN 1
                   ELSE IF gap * 90 > LongestStep THEN LongestStep ELSE gap * 90
  BY SMT DEF Ticks, LongestStep
<1>3. Ticks(gap) \in 1 .. LongestStep
  BY <1>1, <1>2
<1> QED
  BY <1>1, <1>3 DEF Delta

(* The numbers stay in their space.                                        *)
LEMMA SeqTyped ==
    ASSUME TypeOK
    PROVE  NextSeq \in 0 .. SeqSpace - 1
<1>1. SeqSpace \in Nat \ {0} /\ seq + 1 \in Nat
  BY Constants DEF TypeOK
<1>2. (seq + 1) % SeqSpace \in 0 .. SeqSpace - 1
  BY <1>1
<1> QED
  BY <1>2 DEF NextSeq

(* So does the clock.                                                      *)
LEMMA ClockStays ==
    ASSUME TypeOK
    PROVE  NextClock \in 0 .. ClockSpace - 1
<1>1. ClockSpace \in Nat \ {0} /\ clock + delta \in Nat
  BY Constants DEF TypeOK
<1>2. (clock + delta) % ClockSpace \in 0 .. ClockSpace - 1
  BY <1>1
<1> QED
  BY <1>2 DEF NextClock

(* The type of a packet on the wire.                                       *)
Packet == [seq : Nat, clock : Nat, marker : BOOLEAN, payload : Seq(Byte)]

(* A packet that arrives has the type of one.                              *)
LEMMA WireTyped ==
    ASSUME TypeOK, PacketReaches, Len(pieces) >= 1
    PROVE  wire' \in Seq(Packet)
<1>. DEFINE p == [seq |-> seq, clock |-> clock, marker |-> Len(pieces) = 1,
                  payload |-> Head(pieces)]
<1>1. pieces \in Seq(Seq(Byte)) /\ seq \in Nat /\ clock \in Nat /\ wire \in Seq(Packet)
  BY Constants DEF TypeOK, Packet
<1>2. Head(pieces) \in Seq(Byte)
  BY <1>1
<1>3. (Len(pieces) = 1) \in BOOLEAN
  OBVIOUS
<1>4. p \in Packet
  BY <1>1, <1>2, <1>3 DEF Packet
<1>5. wire' = Append(wire, p)
  BY DEF PacketReaches
<1>. HIDE DEF p
<1> QED
  BY <1>1, <1>4, <1>5

(* A unit gets its fate, the others keep theirs.                           *)
LEMMA FateTyped ==
    ASSUME TypeOK, aus # <<>>, NEW f \in {"sent", "cut"}
    PROVE  /\ Fate(f) \in Seq(Unit) /\ Len(Fate(f)) = Len(aus)
           /\ Fate(f)[Len(aus)].fate = f
           /\ \A k \in 1 .. Len(aus) - 1 : Fate(f)[k] = aus[k]
<1>. DEFINE n == Len(aus)
            N == {c.nalus : c \in Content}
            u == [aus[n] EXCEPT !.fate = f]
<1>1. aus \in Seq(Unit) /\ n \in 1 .. n /\ n \in Nat
  BY DEF TypeOK
<1>2. aus[n] \in [nalus : N, key : BOOLEAN, gap : Nat, pts : Nat, clock : Nat,
                   fate : {"open", "sent", "cut"}]
  <2>1. aus[n] \in Unit
    BY <1>1
  <2>. HIDE DEF n
  <2> QED
    BY <2>1 DEF Unit
<1>3. u \in Unit /\ u.fate = f
  <2>. HIDE DEF N, n
  <2>1. u \in [nalus : N, key : BOOLEAN, gap : Nat, pts : Nat, clock : Nat,
                fate : {"open", "sent", "cut"}]
    BY <1>2
  <2>2. u.fate = f
    BY <1>2
  <2> QED
    BY <2>1, <2>2 DEF Unit, N
<1>4. Fate(f) = [aus EXCEPT ![n] = u]
  BY DEF Fate
<1>. HIDE DEF u, n
<1>5. [aus EXCEPT ![n] = u] \in Seq(Unit) /\ Len([aus EXCEPT ![n] = u]) = Len(aus)
  <2>1. n \in 1 .. Len(aus)
    BY <1>1 DEF n
  <2> QED
    BY <1>1, <1>3, <2>1
<1>6. [aus EXCEPT ![n] = u][n] = u
  BY <1>1 DEF n
<1>7. \A k \in 1 .. Len(aus) - 1 : [aus EXCEPT ![n] = u][k] = aus[k]
  BY <1>1 DEF n
<1> QED
  BY <1>3, <1>4, <1>5, <1>6, <1>7 DEF n

(* A unit is taken.                                                        *)
LEMMA TakeTyped ==
    ASSUME Typed, NEW c \in Content, NEW gap \in Gap, TakeUnit(c, gap)
    PROVE  Typed'
<1>1. gap \in Nat /\ c.nalus \in Seq(Seq(Byte)) /\ c.key \in BOOLEAN
  BY Constants
<1>2. Delta(gap) \in Nat /\ pts + Delta(gap) \in Nat
  <2>1. pts \in Nat /\ LongestStep \in Nat
    BY Constants DEF TypeOK, Typed
  <2>2. Delta(gap) \in 1 .. LongestStep
    BY <1>1, TicksBounded
  <2> QED
    BY <2>1, <2>2
<1>. DEFINE v == pts + Delta(gap)
            u == [nalus |-> c.nalus, key |-> c.key, gap |-> gap,
                  pts |-> v, clock |-> clock, fate |-> "open"]
<1>3. Chunks(Mux(c.nalus, c.key, v)) \in Seq(Seq(Byte))
  <2>. HIDE DEF v
  <2> QED
    BY <1>1, <1>2, MuxTyped, ChunksRejoin DEF v
<1>4. aus' = Append(aus, u) /\ pts' = v /\ pieces' = Chunks(Mux(c.nalus, c.key, v))
  BY DEF TakeUnit
<1>5. u \in Unit
  BY <1>1, <1>2, Constants DEF TypeOK, Typed, Unit
<1>. HIDE DEF u
<1>6. aus' \in Seq(Unit) /\ aus' # <<>>
  <2>1. aus \in Seq(Unit)
    BY DEF TypeOK, Typed
  <2> QED
    BY <1>4, <1>5, <2>1
<1>. HIDE DEF v
<1>7. pts' \in Nat /\ delta' \in Nat /\ pieces' \in Seq(Seq(Byte)) /\ phase' = "sending"
  BY <1>2, <1>3, <1>4 DEF TakeUnit, v
<1>8. UNCHANGED <<tcp, broken, seq, clock, streak, wire>>
  BY DEF TakeUnit
<1>9. streak # TearDownAus
  BY DEF TakeUnit, Typed
<1> QED
  BY <1>6, <1>7, <1>8, <1>9 DEF TypeOK, Typed

(* Every step keeps the types.                                             *)
LEMMA TypeStep == Typed /\ [Next]_vars => Typed'
<1> SUFFICES ASSUME Typed, [Next]_vars
             PROVE  Typed'
  OBVIOUS
<1>1. CASE UNCHANGED vars
  BY <1>1 DEF vars, TypeOK, Typed
<1>2. CASE PlatformDials
  BY <1>2 DEF PlatformDials, TypeOK, Typed
<1>3. CASE Ends
  BY <1>3 DEF Ends, TypeOK, Typed
<1>4. CASE \E c \in Content, gap \in Gap : TakeUnit(c, gap)
  BY <1>4, TakeTyped
<1>5. CASE SendPacket
  <2>1. Len(pieces) >= 1 /\ pieces' \in Seq(Seq(Byte))
    BY <1>5 DEF SendPacket, TypeOK, Typed
  <2>2. wire' \in Seq(Packet) /\ NextSeq \in 0 .. SeqSpace - 1
    BY <1>5, <2>1, WireTyped, SeqTyped DEF SendPacket, Typed
  <2> QED
    BY <1>5, <2>1, <2>2 DEF SendPacket, TypeOK, Typed, Packet
<1>6. CASE SendLast
  <2>1. wire' \in Seq(Packet) /\ NextSeq \in 0 .. SeqSpace - 1 /\ NextClock \in 0 .. ClockSpace - 1
    BY <1>6, WireTyped, SeqTyped, ClockStays DEF SendLast, TypeOK, Typed
  <2>2. Fate("sent") \in Seq(Unit)
    BY <1>6, FateTyped DEF SendLast, Typed
  <2>3. streak' \in 0 .. TearDownAus /\ streak' # TearDownAus
    BY <1>6, Constants DEF StreakReset, SendLast
  <2> QED
    BY <1>6, <2>1, <2>2, <2>3 DEF SendLast, TypeOK, Typed, Packet
<1>7. CASE SendFails
  <2>1. NextSeq \in 0 .. SeqSpace - 1 /\ NextClock \in 0 .. ClockSpace - 1
    BY SeqTyped, ClockStays DEF Typed
  <2>2. Fate("cut") \in Seq(Unit)
    BY <1>7, FateTyped DEF SendFails, Typed
  <2>3. streak \in 0 .. TearDownAus /\ streak # TearDownAus /\ TearDownAus \in Nat
    BY <1>7, Constants DEF SendFails, TypeOK, Typed
  <2>4. streak' \in 0 .. TearDownAus /\ (streak' = TearDownAus => phase' = "torn_down")
    BY <1>7, <2>3 DEF SendFails
  <2>5. /\ seq' \in 0 .. SeqSpace - 1 /\ clock' \in 0 .. ClockSpace - 1
        /\ aus' \in Seq(Unit) /\ phase' \in {"torn_down", "idle"} /\ pieces' = <<>>
    BY <1>7, <2>1, <2>2 DEF SendFails, SeqAfterFailure, TypeOK, Typed
  <2>6. broken' \in BOOLEAN /\ UNCHANGED <<tcp, pts, delta, wire>>
    BY <1>7 DEF SendFails, TypeOK, Typed
  <2> QED
    BY <2>4, <2>5, <2>6 DEF TypeOK, Typed
<1> QED
  BY <1>1, <1>2, <1>3, <1>4, <1>5, <1>6, <1>7 DEF Next

-----------------------------------------------------------------------------
(* The streak.                                                             *)

(* What the streak counts: of the n units that are settled, those cut since*)
(* the last one sent whole.  Only the unit being sent is open, and the one *)
(* the session ended in.                                                   *)
Streaks(n) ==
    /\ \A k \in 1 .. Len(aus) : aus[k].fate = "open" <=> k > n
    /\ n = Len(aus) \/ (n + 1 = Len(aus) /\ phase \in {"sending", "ended"})
    /\ phase = "sending" => n + 1 = Len(aus)
    /\ streak <= n
    /\ \A i \in n - streak + 1 .. n : aus[i].fate = "cut"
    /\ streak < n => aus[n - streak].fate = "sent"
    /\ streak = TearDownAus <=> phase = "torn_down"
    /\ \A k \in TearDownAus .. n :
          (\A i \in k - TearDownAus + 1 .. k : aus[i].fate = "cut")
              => streak = TearDownAus /\ k = n

StreakInv == \E n \in 0 .. Len(aus) : Streaks(n)

(* No unit, no streak.                                                     *)
LEMMA StreakInit == Init => StreakInv
<1> SUFFICES ASSUME Init
             PROVE  StreakInv
  OBVIOUS
<1>1. aus = <<>> /\ streak = 0 /\ phase \in {"accepting", "idle"} /\ Len(aus) = 0
  BY DEF Init
<1>2. 0 # TearDownAus /\ TearDownAus \in Nat
  BY Constants
<1>3. Streaks(0)
  BY <1>1, <1>2 DEF Streaks
<1> QED
  BY <1>1, <1>3 DEF StreakInv

(* A step that leaves the units and the streak alone.                      *)
LEMMA StreakSame ==
    ASSUME StreakInv, UNCHANGED <<aus, streak>>,
           phase' = phase \/ (phase \in {"accepting", "idle", "sending"} /\ phase' = "ended")
                          \/ (phase = "accepting" /\ phase' = "idle")
    PROVE  StreakInv'
<1>1. PICK n \in 0 .. Len(aus) : Streaks(n)
  BY DEF StreakInv
<1>2. Streaks(n)'
  BY <1>1 DEF Streaks
<1> QED
  BY <1>1, <1>2 DEF StreakInv

(* A unit taken is open.                                                   *)
LEMMA StreakTakes ==
    ASSUME Typed, Typed', StreakInv, NEW c \in Content, NEW gap \in Gap, TakeUnit(c, gap)
    PROVE  StreakInv'
<1>1. PICK n \in 0 .. Len(aus) : Streaks(n)
  BY DEF StreakInv
<1>2. PICK u : aus' = Append(aus, u) /\ u.fate = "open"
  BY DEF TakeUnit
<1>3. n = Len(aus) /\ phase = "idle" /\ phase' = "sending" /\ streak' = streak
  BY <1>1 DEF Streaks, TakeUnit
<1>4. /\ Len(aus') = n + 1 /\ n \in Nat
      /\ \A k \in 1 .. n : aus'[k] = aus[k]
      /\ aus'[n + 1].fate = "open"
  <2>1. aus \in Seq(Unit)
    BY DEF Typed, TypeOK
  <2> QED
    BY <1>2, <1>3, <2>1
<1>5. streak \in Nat /\ TearDownAus \in Nat \ {0}
  BY Constants DEF Typed, TypeOK
<1>6. Streaks(n)'
  <2>1. \A k \in 1 .. n + 1 : aus'[k].fate = "open" <=> k > n
    BY <1>1, <1>3, <1>4 DEF Streaks
  <2>2. streak <= n /\ (\A i \in n - streak + 1 .. n : aus[i].fate = "cut")
        /\ (streak < n => aus[n - streak].fate = "sent")
    BY <1>1 DEF Streaks
  <2>3. \A i \in n - streak + 1 .. n : aus'[i].fate = "cut"
    <3>1. \A i \in n - streak + 1 .. n : i \in 1 .. n
      BY <1>4, <1>5, <2>2
    <3> QED
      BY <1>4, <2>2, <3>1
  <2>4. streak < n => aus'[n - streak].fate = "sent"
    <3>1. streak < n => n - streak \in 1 .. n
      BY <1>4, <1>5
    <3> QED
      BY <1>4, <2>2, <3>1
  <2>5. streak # TearDownAus
    BY <1>1, <1>3 DEF Streaks
  <2>6. ASSUME NEW k \in TearDownAus .. n,
               \A i \in k - TearDownAus + 1 .. k : aus'[i].fate = "cut"
        PROVE  FALSE
    <3>1. \A i \in k - TearDownAus + 1 .. k : i \in 1 .. n
      BY <1>4, <1>5
    <3>2. \A i \in k - TearDownAus + 1 .. k : aus[i].fate = "cut"
      BY <1>4, <2>6, <3>1
    <3> QED
      BY <1>1, <2>5, <3>2 DEF Streaks
  <2> QED
    BY <1>3, <1>4, <2>1, <2>2, <2>3, <2>4, <2>5, <2>6 DEF Streaks
<1>7. n \in 0 .. Len(aus')
  BY <1>4
<1> QED
  BY <1>6, <1>7 DEF StreakInv

(* The unit under way is the last one; its fate is settled.                *)
LEMMA Settles ==
    ASSUME Typed, NEW n \in 0 .. Len(aus), Streaks(n), phase = "sending",
           NEW f \in {"sent", "cut"}, aus' = Fate(f)
    PROVE  /\ n \in Nat /\ streak \in 0 .. n /\ streak < TearDownAus
           /\ Len(aus') = n + 1 /\ aus'[n + 1].fate = f
           /\ \A k \in 1 .. n : aus'[k] = aus[k]
           /\ \A k \in 1 .. n : aus[k].fate # "open"
<1>1. n + 1 = Len(aus) /\ n \in Nat /\ streak <= n /\ streak # TearDownAus
  BY DEF Streaks
<1>2. streak \in 0 .. TearDownAus /\ TearDownAus \in Nat
  BY Constants DEF Typed, TypeOK
<1>3. /\ Len(aus') = n + 1 /\ aus'[n + 1].fate = f
      /\ \A k \in 1 .. n + 1 - 1 : aus'[k] = aus[k]
  <2>1. TypeOK /\ aus # <<>>
    BY DEF Typed
  <2>2. /\ Len(Fate(f)) = Len(aus) /\ Fate(f)[Len(aus)].fate = f
        /\ \A k \in 1 .. Len(aus) - 1 : Fate(f)[k] = aus[k]
    BY <2>1, FateTyped
  <2> QED
    BY <1>1, <2>2
<1>4. n + 1 - 1 = n
  BY <1>1
<1>5. \A k \in 1 .. n : aus'[k] = aus[k]
  BY <1>3, <1>4
<1>6. \A k \in 1 .. n : aus[k].fate # "open"
  <2> SUFFICES ASSUME NEW k \in 1 .. n
               PROVE  aus[k].fate # "open"
    OBVIOUS
  <2>1. k \in 1 .. Len(aus) /\ ~ k > n
    BY <1>1
  <2> QED
    BY <2>1 DEF Streaks
<1> QED
  BY <1>1, <1>2, <1>3, <1>5, <1>6

(* No run of cuts was long enough before.                                  *)
LEMMA NoLongRun ==
    ASSUME Typed, NEW n \in 0 .. Len(aus), Streaks(n), phase = "sending",
           NEW k \in TearDownAus .. n
    PROVE  \E i \in k - TearDownAus + 1 .. k : i \in 1 .. n /\ aus[i].fate # "cut"
<1>1. streak # TearDownAus
  BY DEF Streaks
<1>2. PICK i \in k - TearDownAus + 1 .. k : aus[i].fate # "cut"
  BY <1>1 DEF Streaks
<1>3. i \in 1 .. n
  BY Constants
<1> QED
  BY <1>2, <1>3

(* A unit sent whole ends the streak.                                      *)
LEMMA StreakSent ==
    ASSUME Typed, StreakInv, SendLast
    PROVE  StreakInv'
<1>1. PICK n \in 0 .. Len(aus) : Streaks(n)
  BY DEF StreakInv
<1>2. phase = "sending" /\ aus' = Fate("sent") /\ phase' = "idle" /\ streak' = 0
  BY DEF SendLast, StreakReset
<1>3. /\ n \in Nat /\ Len(aus') = n + 1 /\ aus'[n + 1].fate = "sent"
      /\ \A k \in 1 .. n : aus'[k] = aus[k] /\ aus[k].fate # "open"
  BY <1>1, <1>2, Settles
<1>4. TearDownAus \in Nat \ {0}
  BY Constants
<1>5. ASSUME NEW k \in 1 .. n + 1
      PROVE  aus'[k].fate # "open"
  <2>1. k \in 1 .. n \/ k = n + 1
    BY <1>3
  <2> QED
    BY <1>3, <2>1
<1>6. ASSUME NEW k \in TearDownAus .. n + 1
      PROVE  \E i \in k - TearDownAus + 1 .. k : aus'[i].fate # "cut"
  <2>1. CASE k = n + 1
    <3>1. k \in k - TearDownAus + 1 .. k
      BY <1>3, <1>4
    <3> QED
      BY <1>3, <2>1, <3>1
  <2>2. CASE k # n + 1
    <3>1. k \in TearDownAus .. n
      BY <1>3, <2>2
    <3>2. PICK i \in k - TearDownAus + 1 .. k : i \in 1 .. n /\ aus[i].fate # "cut"
      BY <1>1, <1>2, <3>1, NoLongRun
    <3> QED
      BY <1>3, <3>2
  <2> QED
    BY <2>1, <2>2
<1>7. Streaks(n + 1)'
  <2>1. \A k \in 1 .. n + 1 : aus'[k].fate = "open" <=> k > n + 1
    BY <1>3, <1>5
  <2>2. 0 <= n + 1 /\ n + 1 - 0 = n + 1 /\ ~ (0 = TearDownAus)
    BY <1>3, <1>4
  <2>3. \A i \in n + 1 - 0 + 1 .. n + 1 : aus'[i].fate = "cut"
    BY <1>3
  <2>4. \A k \in TearDownAus .. n + 1 :
           (\A i \in k - TearDownAus + 1 .. k : aus'[i].fate = "cut") => FALSE
    BY <1>6
  <2> QED
    BY <1>2, <1>3, <2>1, <2>2, <2>3, <2>4 DEF Streaks
<1>8. n + 1 \in 0 .. Len(aus')
  BY <1>3
<1> QED
  BY <1>7, <1>8 DEF StreakInv

(* A unit cut makes it one longer, and the last one ends the session.      *)
LEMMA StreakCut ==
    ASSUME Typed, StreakInv, SendFails
    PROVE  StreakInv'
<1>1. PICK n \in 0 .. Len(aus) : Streaks(n)
  BY DEF StreakInv
<1>2. /\ phase = "sending" /\ aus' = Fate("cut") /\ streak' = streak + 1
      /\ phase' = IF streak + 1 >= TearDownAus THEN "torn_down" ELSE "idle"
  BY DEF SendFails
<1>3. /\ n \in Nat /\ Len(aus') = n + 1 /\ aus'[n + 1].fate = "cut"
      /\ streak \in 0 .. n /\ streak < TearDownAus
      /\ \A k \in 1 .. n : aus'[k] = aus[k] /\ aus[k].fate # "open"
  BY <1>1, <1>2, Settles
<1>4. TearDownAus \in Nat \ {0} /\ streak \in Nat
  BY <1>3, Constants
<1>5. ASSUME NEW k \in 1 .. n + 1
      PROVE  aus'[k].fate # "open"
  <2>1. k \in 1 .. n \/ k = n + 1
    BY <1>3
  <2> QED
    BY <1>3, <2>1
<1>6. ASSUME NEW i \in n + 1 - (streak + 1) + 1 .. n + 1
      PROVE  aus'[i].fate = "cut"
  <2>1. CASE i = n + 1
    BY <1>3, <2>1
  <2>2. CASE i # n + 1
    <3>1. i \in n - streak + 1 .. n /\ i \in 1 .. n
      BY <1>3, <1>4, <2>2
    <3>2. aus[i].fate = "cut"
      BY <1>1, <3>1 DEF Streaks
    <3> QED
      BY <1>3, <3>1, <3>2
  <2> QED
    BY <2>1, <2>2
<1>7. streak + 1 < n + 1 => aus'[n + 1 - (streak + 1)].fate = "sent"
  <2> SUFFICES ASSUME streak + 1 < n + 1
               PROVE  aus'[n + 1 - (streak + 1)].fate = "sent"
    OBVIOUS
  <2>1. n + 1 - (streak + 1) = n - streak /\ n - streak \in 1 .. n /\ streak < n
    BY <1>3, <1>4
  <2>2. aus[n - streak].fate = "sent"
    BY <1>1, <2>1 DEF Streaks
  <2> QED
    BY <1>3, <2>1, <2>2
<1>8. ASSUME NEW k \in TearDownAus .. n + 1,
             \A i \in k - TearDownAus + 1 .. k : aus'[i].fate = "cut"
      PROVE  streak + 1 = TearDownAus /\ k = n + 1
  <2>1. k = n + 1
    <3> SUFFICES ASSUME k # n + 1
                 PROVE  FALSE
      OBVIOUS
    <3>1. k \in TearDownAus .. n
      BY <1>3
    <3>2. PICK i \in k - TearDownAus + 1 .. k : i \in 1 .. n /\ aus[i].fate # "cut"
      BY <1>1, <1>2, <3>1, NoLongRun
    <3> QED
      BY <1>3, <1>8, <3>2
  <2>2. streak + 1 >= TearDownAus
    <3> SUFFICES ASSUME streak + 1 < TearDownAus
                 PROVE  FALSE
      BY <1>4
    <3>1. n - streak \in k - TearDownAus + 1 .. k /\ n - streak \in 1 .. n /\ streak < n
      BY <1>3, <1>4, <2>1
    <3>2. aus'[n - streak].fate = "cut"
      BY <1>8, <3>1
    <3>3. aus[n - streak].fate = "sent"
      BY <1>1, <3>1 DEF Streaks
    <3> QED
      BY <1>3, <3>1, <3>2, <3>3
  <2> QED
    BY <1>3, <1>4, <2>1, <2>2
<1>9. Streaks(n + 1)'
  <2>1. \A k \in 1 .. n + 1 : aus'[k].fate = "open" <=> k > n + 1
    BY <1>3, <1>5
  <2>2. streak + 1 <= n + 1 /\ (streak + 1 = TearDownAus <=> phase' = "torn_down")
    BY <1>2, <1>3, <1>4
  <2>3. phase' # "sending"
    BY <1>2
  <2>4. \A k \in TearDownAus .. n + 1 :
           (\A i \in k - TearDownAus + 1 .. k : aus'[i].fate = "cut")
               => streak + 1 = TearDownAus /\ k = n + 1
    BY <1>8
  <2> QED
    BY <1>2, <1>3, <1>6, <1>7, <2>1, <2>2, <2>3, <2>4 DEF Streaks
<1>10. n + 1 \in 0 .. Len(aus')
  BY <1>3
<1> QED
  BY <1>9, <1>10 DEF StreakInv

(* Every step keeps it.                                                    *)
LEMMA StreakStep ==
    ASSUME Typed, Typed', StreakInv, [Next]_vars
    PROVE  StreakInv'
<1>1. CASE UNCHANGED vars \/ PlatformDials \/ Ends \/ SendPacket
  BY <1>1, StreakSame DEF vars, PlatformDials, Ends, SendPacket
<1>2. CASE \E c \in Content, gap \in Gap : TakeUnit(c, gap)
  BY <1>2, StreakTakes
<1>3. CASE SendLast
  BY <1>3, StreakSent
<1>4. CASE SendFails
  BY <1>4, StreakCut
<1> QED
  BY <1>1, <1>2, <1>3, <1>4 DEF Next

(* The property is a part of the invariant.                                *)
LEMMA StreakImplies == Typed /\ StreakInv => TornDownByStreak
<1> SUFFICES ASSUME Typed, StreakInv
             PROVE  TornDownByStreak
  OBVIOUS
<1>1. PICK n \in 0 .. Len(aus) : Streaks(n)
  BY DEF StreakInv
<1>2. n \in Nat /\ Len(aus) \in Nat /\ n <= Len(aus) /\ TearDownAus \in Nat \ {0} /\ streak \in Nat
  BY Constants DEF Typed, TypeOK
<1>. DEFINE cut(k) == \A i \in k - TearDownAus + 1 .. k : aus[i].fate = "cut"
<1>3. phase = "torn_down" => Len(aus) >= TearDownAus /\ cut(Len(aus))
  BY <1>1, <1>2 DEF Streaks
<1>4. ASSUME NEW k \in TearDownAus .. Len(aus), cut(k)
      PROVE  phase = "torn_down" /\ k = Len(aus)
  <2>1. aus[k].fate = "cut"
    <3>1. k \in k - TearDownAus + 1 .. k
      BY <1>2
    <3> QED
      BY <1>4, <3>1
  <2>2. k \in TearDownAus .. n
    <3>1. k \in 1 .. Len(aus)
      BY <1>2
    <3>2. ~ k > n
      BY <1>1, <2>1, <3>1 DEF Streaks
    <3> QED
      BY <1>2, <3>1, <3>2
  <2>3. streak = TearDownAus /\ k = n
    BY <1>1, <1>4, <2>2 DEF Streaks
  <2>4. phase = "torn_down"
    BY <1>1, <2>3 DEF Streaks
  <2>5. n = Len(aus)
    BY <1>1, <2>4 DEF Streaks
  <2> QED
    BY <2>3, <2>4, <2>5
<1> QED
  BY <1>3, <1>4 DEF TornDownByStreak

-----------------------------------------------------------------------------
(* Losses.                                                                 *)

(* Since the last packet that arrived f numbers were spent on failed sends.*)
Spent(f) ==
    LET last == wire[Len(wire)]
    IN /\ (seq = last.seq + 1 + f \/ seq = last.seq + 1 + f - SeqSpace)
       /\ f = 0 => (last.marker <=> last.clock # clock)

LossInv ==
    /\ phase = "sending" => delta \in 1 .. LongestStep
    /\ wire # <<>> => \E f \in 0 .. streak : Spent(f)

(* Counting up by one around a space of M numbers.                         *)
LEMMA Successor ==
    ASSUME NEW M \in Nat \ {0}, NEW x \in 0 .. M - 1
    PROVE  (x + 1) % M = IF x + 1 = M THEN 0 ELSE x + 1
OBVIOUS

(* A clock that moves by less than its space is not where it was.          *)
LEMMA ClockMoves ==
    ASSUME NEW M \in Nat \ {0}, NEW x \in 0 .. M - 1, NEW d \in Nat, 1 <= d, d < M
    PROVE  (x + d) % M # x
<1>1. CASE x + d < M
  <2>1. (x + d) % M = x + d
    BY <1>1
  <2> QED
    BY <2>1
<1>2. CASE ~ x + d < M
  <2>1. (x + d) % M = x + d - M
    BY <1>2
  <2> QED
    BY <2>1
<1> QED
  BY <1>1, <1>2

(* No packet, no loss.                                                     *)
LEMMA LossInit == Init => LossInv /\ LossVisible
<1> SUFFICES ASSUME Init
             PROVE  LossInv /\ LossVisible
  OBVIOUS
<1>1. wire = <<>> /\ phase # "sending" /\ Len(wire) = 0
  BY DEF Init
<1> QED
  BY <1>1 DEF LossInv, LossVisible

(* A step that sends nothing and spends no number.                         *)
LEMMA LossSame ==
    ASSUME LossInv, LossVisible, UNCHANGED <<wire, seq, clock, streak>>,
           phase' = "sending" => delta' \in 1 .. LongestStep
    PROVE  LossInv' /\ LossVisible'
<1>1. LossVisible'
  BY DEF LossVisible
<1>2. LossInv'
  BY DEF LossInv, Spent
<1> QED
  BY <1>1, <1>2

(* What the next packet shows of the numbers spent since the last one.     *)
LEMMA NextPacketTells ==
    ASSUME Typed, LossInv, wire # <<>>, phase = "sending",
           seq = (wire[Len(wire)].seq + 1) % SeqSpace,
           wire[Len(wire)].seq \in 0 .. SeqSpace - 1
    PROVE  wire[Len(wire)].marker <=> wire[Len(wire)].clock # clock
<1>. DEFINE s == wire[Len(wire)].seq
<1>1. PICK f \in 0 .. streak : Spent(f)
  BY DEF LossInv
<1>2. /\ SeqSpace \in Nat \ {0} /\ streak \in Nat /\ streak < SeqSpace /\ s \in 0 .. SeqSpace - 1
      /\ seq \in 0 .. SeqSpace - 1
  BY Constants DEF Typed, TypeOK
<1>3. seq = s + 1 + f \/ seq = s + 1 + f - SeqSpace
  BY <1>1 DEF Spent
<1>4. seq = IF s + 1 = SeqSpace THEN 0 ELSE s + 1
  BY <1>2, Successor
<1>. HIDE DEF s
<1>5. f = 0
  BY <1>2, <1>3, <1>4
<1> QED
  BY <1>1, <1>5 DEF Spent

(* The numbers of the packets are numbers of the space.                    *)
NumbersTyped == \A i \in 1 .. Len(wire) : wire[i].seq \in 0 .. SeqSpace - 1

(* A packet that arrives.                                                  *)
LEMMA LossSends ==
    ASSUME Typed, LossInv, LossVisible, NumbersTyped, phase = "sending", PacketReaches,
           seq' = NextSeq, streak' \in Nat,
           Len(pieces) = 1 <=> clock' # clock,
           phase' = "sending" => delta' \in 1 .. LongestStep
    PROVE  LossInv' /\ LossVisible' /\ NumbersTyped'
<1>. DEFINE p == [seq |-> seq, clock |-> clock, marker |-> Len(pieces) = 1,
                  payload |-> Head(pieces)]
            n == Len(wire)
<1>1. wire \in Seq(Packet) /\ wire' = Append(wire, p) /\ n \in Nat
  BY DEF Typed, TypeOK, PacketReaches, Packet
<1>2. p.seq = seq /\ p.clock = clock /\ (p.marker <=> Len(pieces) = 1)
  OBVIOUS
<1>3. seq \in 0 .. SeqSpace - 1 /\ SeqSpace \in Nat \ {0}
  BY Constants DEF Typed, TypeOK
<1>. HIDE DEF p
<1>4. /\ Len(wire') = n + 1 /\ wire'[n + 1] = p
      /\ \A i \in 1 .. n : wire'[i] = wire[i]
  BY <1>1
<1>5. NumbersTyped'
  <2> SUFFICES ASSUME NEW i \in 1 .. n + 1
               PROVE  wire'[i].seq \in 0 .. SeqSpace - 1
    BY <1>4 DEF NumbersTyped
  <2>1. CASE i = n + 1
    BY <1>2, <1>3, <1>4, <2>1
  <2>2. CASE i # n + 1
    <3>1. i \in 1 .. n
      BY <1>1, <2>2
    <3> QED
      BY <1>4, <3>1 DEF NumbersTyped
  <2> QED
    BY <2>1, <2>2
<1>6. LossVisible'
  <2> SUFFICES ASSUME NEW i \in 1 .. n,
                      wire'[i + 1].seq = (wire'[i].seq + 1) % SeqSpace
               PROVE  wire'[i].marker <=> wire'[i].clock # wire'[i + 1].clock
    <3>1. n + 1 - 1 = n
      BY <1>1
    <3> QED
      BY <1>4, <3>1 DEF LossVisible
  <2>1. CASE i = n
    <3>1. wire'[i] = wire[n] /\ wire'[i + 1] = p /\ n \in 1 .. n /\ wire # <<>>
      BY <1>1, <1>4, <2>1
    <3>2. seq = (wire[n].seq + 1) % SeqSpace /\ wire[n].seq \in 0 .. SeqSpace - 1
      BY <1>2, <3>1 DEF NumbersTyped
    <3>3. wire[n].marker <=> wire[n].clock # clock
      BY <3>1, <3>2, NextPacketTells
    <3> QED
      BY <1>2, <3>1, <3>3
  <2>2. CASE i # n
    <3>1. i \in 1 .. n - 1 /\ i \in 1 .. n /\ i + 1 \in 1 .. n
      BY <1>1, <2>2
    <3>2. wire'[i] = wire[i] /\ wire'[i + 1] = wire[i + 1]
      BY <1>4, <3>1
    <3> QED
      BY <3>1, <3>2 DEF LossVisible
  <2> QED
    BY <2>1, <2>2
<1>7. wire'[Len(wire')] = p
  BY <1>4
<1>8. seq' = IF seq + 1 = SeqSpace THEN 0 ELSE seq + 1
  BY <1>3, Successor DEF NextSeq
<1>9. Spent(0)'
  <2>1. seq' = seq + 1 + 0 \/ seq' = seq + 1 + 0 - SeqSpace
    BY <1>3, <1>8
  <2>2. Len(pieces) = 1 <=> clock # clock'
    OBVIOUS
  <2> QED
    BY <1>2, <1>7, <2>1, <2>2 DEF Spent
<1>10. LossInv'
  <2>1. 0 \in 0 .. streak'
    OBVIOUS
  <2> QED
    BY <1>9, <2>1 DEF LossInv
<1> QED
  BY <1>5, <1>6, <1>10

(* A send that fails spends a number.                                      *)
LEMMA LossFails ==
    ASSUME Typed, Typed', LossInv, LossVisible, NumbersTyped, SendFails
    PROVE  LossInv' /\ LossVisible' /\ NumbersTyped'
<1>1. /\ wire' = wire /\ seq' = NextSeq /\ streak' = streak + 1 /\ phase' # "sending"
  BY DEF SendFails, SeqAfterFailure
<1>2. LossVisible' /\ NumbersTyped'
  BY <1>1 DEF LossVisible, NumbersTyped
<1>3. /\ seq \in 0 .. SeqSpace - 1 /\ SeqSpace \in Nat \ {0} /\ streak \in Nat
      /\ streak + 1 < SeqSpace
  <2>1. streak' \in 0 .. TearDownAus /\ streak \in 0 .. TearDownAus
    BY DEF Typed, TypeOK
  <2> QED
    BY <1>1, <2>1, Constants DEF Typed, TypeOK
<1>4. seq' = IF seq + 1 = SeqSpace THEN 0 ELSE seq + 1
  BY <1>1, <1>3, Successor DEF NextSeq
<1>5. ASSUME wire # <<>>
      PROVE  \E f \in 0 .. streak' : Spent(f)'
  <2>1. PICK f \in 0 .. streak : Spent(f)
    BY <1>5 DEF LossInv
  <2>. DEFINE s == wire[Len(wire)].seq
  <2>2. seq = s + 1 + f \/ seq = s + 1 + f - SeqSpace
    BY <2>1 DEF Spent
  <2>3. wire' = wire /\ s \in 0 .. SeqSpace - 1
    <3>1. Len(wire) \in 1 .. Len(wire)
      BY <1>5 DEF Typed, TypeOK
    <3> QED
      BY <1>1, <3>1 DEF NumbersTyped
  <2>. HIDE DEF s
  <2>4. f + 1 \in 0 .. streak' /\ f + 1 # 0
    BY <1>1, <1>3
  <2>5. seq' = s + 1 + (f + 1) \/ seq' = s + 1 + (f + 1) - SeqSpace
    BY <1>3, <1>4, <2>2, <2>3
  <2>6. Spent(f + 1)'
    BY <2>3, <2>4, <2>5 DEF Spent, s
  <2> QED
    BY <2>4, <2>6
<1> QED
  BY <1>1, <1>2, <1>5 DEF LossInv

(* A packet before the last of its unit.                                   *)
LEMMA PacketInside ==
    ASSUME Typed, SendPacket
    PROVE  streak' \in Nat /\ (Len(pieces) = 1 <=> clock' # clock)
<1>1. streak \in Nat /\ pieces \in Seq(Seq(Byte))
  BY Constants DEF Typed, TypeOK
<1>2. streak' = streak /\ clock' = clock
  BY DEF SendPacket
<1>3. Len(pieces) # 1
  <2>1. Len(pieces) > 1 /\ 1 \in Nat
    BY DEF SendPacket
  <2>2. ASSUME NEW n \in Nat, n > 1
        PROVE  n # 1
    BY <2>2
  <2>3. Len(pieces) \in Nat
    BY <1>1
  <2> QED
    BY <2>1, <2>2, <2>3, SMT
<1> QED
  BY <1>1, <1>2, <1>3

(* The clock moves with the last packet of a unit.                         *)
LEMMA LastMoves ==
    ASSUME Typed, LossInv, SendLast
    PROVE  clock' # clock
<1>1. delta \in 1 .. LongestStep /\ clock \in 0 .. ClockSpace - 1
  BY DEF SendLast, LossInv, Typed, TypeOK
<1>2. delta \in Nat /\ 1 <= delta /\ delta < ClockSpace /\ ClockSpace \in Nat \ {0}
  BY <1>1, Constants
<1>3. (clock + delta) % ClockSpace # clock
  BY <1>1, <1>2, ClockMoves
<1> QED
  BY <1>3 DEF SendLast, NextClock

(* Every step keeps it.                                                    *)
LEMMA LossStep ==
    ASSUME Typed, Typed', LossInv, LossVisible, NumbersTyped, [Next]_vars
    PROVE  LossInv' /\ LossVisible' /\ NumbersTyped'
<1>1. ASSUME UNCHANGED <<wire, seq, clock, streak>>,
             phase' = "sending" => delta' \in 1 .. LongestStep
      PROVE  LossInv' /\ LossVisible' /\ NumbersTyped'
  <2>1. NumbersTyped'
    BY <1>1 DEF NumbersTyped
  <2> QED
    BY <1>1, <2>1, LossSame
<1>2. CASE UNCHANGED vars
  BY <1>1, <1>2 DEF vars, LossInv
<1>3. CASE PlatformDials
  BY <1>1, <1>3 DEF PlatformDials
<1>4. CASE Ends
  BY <1>1, <1>4 DEF Ends
<1>5. CASE \E c \in Content, gap \in Gap : TakeUnit(c, gap)
  <2>1. PICK c \in Content, gap \in Gap : TakeUnit(c, gap)
    BY <1>5
  <2>2. Delta(gap) \in 1 .. LongestStep
    BY Constants, TicksBounded
  <2> QED
    BY <1>1, <2>1, <2>2 DEF TakeUnit
<1>6. CASE SendPacket
  <2>1. streak' \in Nat /\ (Len(pieces) = 1 <=> clock' # clock)
    BY <1>6, PacketInside DEF SendPacket
  <2>2. phase' = "sending" => delta' \in 1 .. LongestStep
    BY <1>6 DEF SendPacket, LossInv
  <2> QED
    BY <1>6, <2>1, <2>2, LossSends DEF SendPacket
<1>7. CASE SendLast
  <2>1. streak' \in Nat /\ (Len(pieces) = 1 <=> clock' # clock) /\ phase' # "sending"
    BY <1>7, LastMoves DEF SendLast, StreakReset
  <2> QED
    BY <1>7, <2>1, LossSends DEF SendLast
<1>8. CASE SendFails
  BY <1>8, LossFails
<1> QED
  BY <1>2, <1>3, <1>4, <1>5, <1>6, <1>7, <1>8 DEF Next

-----------------------------------------------------------------------------
(* Frames.                                                                 *)

(* The RTP payloads of a unit.                                             *)
Payloads(u) == Chunks(Mux(u.nalus, u.key, u.pts))

(* The packets j to i are those of the unit k, which was sent whole.       *)
Delivers(j, i, k) ==
    /\ j = 1 \/ ~Joined(j - 1)
    /\ \A x \in j .. i - 1 : Joined(x)
    /\ wire[i].marker
    /\ aus[k].fate = "sent" /\ aus[k].clock = wire[i].clock
    /\ Len(Payloads(aus[k])) = i - j + 1
    /\ \A x \in 1 .. i - j + 1 : wire[j + x - 1].payload = Payloads(aus[k])[x]

(* Every packet with a marker is the last of such a unit.                  *)
Delivered ==
    \A i \in 1 .. Len(wire) :
        wire[i].marker => \E j \in 1 .. i, k \in 1 .. Len(aus) : Delivers(j, i, k)

(* Every unit sent whole has arrived.                                      *)
SentArrive ==
    \A k \in 1 .. Len(aus) :
        aus[k].fate = "sent" =>
            \E i \in 1 .. Len(wire) : \E j \in 1 .. i : Delivers(j, i, k)

(* A receiver would join the next packet to the last one.                  *)
NextJoins ==
    /\ wire # <<>>
    /\ seq = (wire[Len(wire)].seq + 1) % SeqSpace
    /\ wire[Len(wire)].clock = clock

(* Of the unit under way m packets arrived, and nothing of it was lost.    *)
Underway(m) ==
    LET n == Len(aus)
        at == Len(wire) - m
        all == Payloads(aus[n])
    IN /\ aus[n].fate = "open" /\ aus[n].clock = clock
       /\ Len(all) = m + Len(pieces)
       /\ \A x \in 1 .. Len(pieces) : pieces[x] = all[m + x]
       /\ \A x \in 1 .. m : wire[at + x].payload = all[x]
       /\ \A x \in at + 1 .. at + m - 1 : Joined(x)
       /\ m = 0 => ~NextJoins
       /\ m > 0 => NextJoins /\ (at = 0 \/ ~Joined(at))

FrameInv ==
    /\ Delivered /\ SentArrive
    /\ phase \in {"idle", "accepting"} => ~NextJoins
    /\ phase = "sending" => \E m \in 0 .. Len(wire) : Underway(m)

(* The lengths are numbers.                                                *)
LEMMA Lengths ==
    ASSUME Typed
    PROVE  Len(wire) \in Nat /\ Len(aus) \in Nat /\ Len(pieces) \in Nat
BY DEF Typed, TypeOK

(* A unit sent or cut keeps its bytes and its clock.                       *)
LEMMA FateKeeps ==
    ASSUME Typed, aus # <<>>, NEW f \in {"sent", "cut"}
    PROVE  /\ Payloads(Fate(f)[Len(aus)]) = Payloads(aus[Len(aus)])
           /\ Fate(f)[Len(aus)].clock = aus[Len(aus)].clock
<1>. DEFINE n == Len(aus)
            N == {c.nalus : c \in Content}
            u == [aus[n] EXCEPT !.fate = f]
<1>1. aus \in Seq(Unit) /\ n \in 1 .. n /\ n \in Nat
  BY DEF Typed, TypeOK
<1>2. aus[n] \in [nalus : N, key : BOOLEAN, gap : Nat, pts : Nat, clock : Nat,
                   fate : {"open", "sent", "cut"}]
  <2>1. aus[n] \in Unit
    BY <1>1
  <2>. HIDE DEF n
  <2> QED
    BY <2>1 DEF Unit
<1>3. /\ u.nalus = aus[n].nalus /\ u.key = aus[n].key
      /\ u.pts = aus[n].pts /\ u.clock = aus[n].clock
  <2>. HIDE DEF N, n
  <2> QED
    BY <1>2
<1>4. Fate(f) = [aus EXCEPT ![n] = u]
  BY DEF Fate
<1>. HIDE DEF u, n
<1>5. [aus EXCEPT ![n] = u][n] = u
  BY <1>1 DEF n
<1>6. Fate(f)[n] = u
  BY <1>4, <1>5
<1> QED
  BY <1>3, <1>6 DEF Payloads, n

(* What a packet that arrives leaves of the wire and adds to it.           *)
Grown ==
    LET L == Len(wire)
    IN /\ L \in Nat /\ Len(wire') = L + 1
       /\ \A x \in 1 .. L : wire'[x] = wire[x]
       /\ wire'[L + 1].seq = seq /\ wire'[L + 1].clock = clock
       /\ wire'[L + 1].payload = pieces[1]
       /\ wire'[L + 1].marker <=> Len(pieces) = 1

LEMMA WireGrows ==
    ASSUME Typed, PacketReaches, Len(pieces) >= 1
    PROVE  Grown
<1>. DEFINE p == [seq |-> seq, clock |-> clock, marker |-> Len(pieces) = 1,
                  payload |-> Head(pieces)]
<1>1. wire \in Seq(Packet) /\ pieces \in Seq(Seq(Byte))
  BY DEF Typed, TypeOK, Packet
<1>2. /\ p.seq = seq /\ p.clock = clock /\ p.payload = Head(pieces)
      /\ p.marker <=> Len(pieces) = 1
  OBVIOUS
<1>3. wire' = Append(wire, p)
  BY DEF PacketReaches
<1>. HIDE DEF p
<1>4. /\ Len(wire) \in Nat /\ Len(wire') = Len(wire) + 1
      /\ \A x \in 1 .. Len(wire) : wire'[x] = wire[x]
      /\ wire'[Len(wire) + 1] = p
  BY <1>1, <1>3
<1>5. Head(pieces) = pieces[1]
  BY <1>1
<1> QED
  BY <1>2, <1>4, <1>5 DEF Grown

(* Packets joined stay so, the others too.                                 *)
LEMMA JoinsKept ==
    ASSUME Grown, NEW x \in 1 .. Len(wire) - 1
    PROVE  Joined(x)' <=> Joined(x)
<1>1. x \in 1 .. Len(wire) /\ x + 1 \in 1 .. Len(wire)
  BY DEF Grown
<1>2. wire'[x] = wire[x] /\ wire'[x + 1] = wire[x + 1]
  BY <1>1 DEF Grown
<1> QED
  BY <1>2 DEF Joined

(* The next packet is joined to the last one when NextJoins said so.       *)
LEMMA NextJoined ==
    ASSUME Grown, NEW x \in Nat \ {0}, x = Len(wire)
    PROVE  Joined(x)' <=> NextJoins
<1>1. wire'[x] = wire[x] /\ wire'[x + 1].seq = seq /\ wire'[x + 1].clock = clock
  BY DEF Grown
<1>2. NextJoins <=> seq = (wire[x].seq + 1) % SeqSpace /\ wire[x].clock = clock
  <2>1. wire # <<>>
    OBVIOUS
  <2> QED
    BY <2>1 DEF NextJoins
<1>3. Joined(x)' <=> seq = (wire[x].seq + 1) % SeqSpace /\ clock = wire[x].clock
  BY <1>1 DEF Joined
<1> QED
  BY <1>2, <1>3

(* A unit that was delivered stays so.                                     *)
LEMMA DeliversKept ==
    ASSUME Grown \/ wire' = wire,
           NEW i \in 1 .. Len(wire), NEW j \in 1 .. i, NEW k \in 1 .. Len(aus),
           Delivers(j, i, k), aus'[k] = aus[k], Len(wire) \in Nat
    PROVE  Delivers(j, i, k)'
<1>1. ASSUME NEW x \in 1 .. Len(wire)
      PROVE  wire'[x] = wire[x]
  BY <1>1 DEF Grown
<1>2. ASSUME NEW x \in 1 .. Len(wire) - 1
      PROVE  Joined(x)' <=> Joined(x)
  BY <1>2, JoinsKept DEF Joined
<1>3. j = 1 \/ ~Joined(j - 1)'
  <2>1. CASE j = 1
    BY <2>1
  <2>2. CASE j # 1
    <3>1. j - 1 \in 1 .. Len(wire) - 1
      BY <2>2
    <3> QED
      BY <1>2, <2>2, <3>1 DEF Delivers
  <2> QED
    BY <2>1, <2>2
<1>4. ASSUME NEW x \in j .. i - 1
      PROVE  Joined(x)'
  <2>1. x \in 1 .. Len(wire) - 1
    OBVIOUS
  <2> QED
    BY <1>2, <2>1 DEF Delivers
<1>5. ASSUME NEW x \in 1 .. i - j + 1
      PROVE  wire'[j + x - 1].payload = Payloads(aus[k])[x]
  <2>1. j + x - 1 \in 1 .. Len(wire)
    OBVIOUS
  <2>2. wire'[j + x - 1] = wire[j + x - 1]
    BY <1>1, <2>1
  <2> QED
    BY <2>2 DEF Delivers
<1>6. aus'[k].fate = "sent" /\ aus'[k].clock = wire'[i].clock /\ wire'[i].marker
  BY <1>1 DEF Delivers
<1>7. Payloads(aus'[k]) = Payloads(aus[k]) /\ Len(Payloads(aus[k])) = i - j + 1
  BY DEF Delivers
<1> QED
  BY <1>3, <1>4, <1>5, <1>6, <1>7 DEF Delivers, Payloads

(* So the units delivered stay delivered in a step that puts no marker on  *)
(* the wire and settles no unit again.                                     *)
LEMMA DeliveredKept ==
    ASSUME Delivered, Len(wire) \in Nat, Len(aus) \in Nat, Len(aus') \in Nat,
           Len(aus) <= Len(aus'),
           \A k \in 1 .. Len(aus) : aus[k].fate = "sent" => aus'[k] = aus[k],
           wire' = wire \/ Grown
    PROVE  \A i \in 1 .. Len(wire) :
              wire'[i].marker => \E j \in 1 .. i, k \in 1 .. Len(aus') : Delivers(j, i, k)'
<1> SUFFICES ASSUME NEW i \in 1 .. Len(wire), wire'[i].marker
             PROVE  \E j \in 1 .. i, k \in 1 .. Len(aus') : Delivers(j, i, k)'
  OBVIOUS
<1>1. wire'[i] = wire[i]
  BY DEF Grown
<1>2. PICK j \in 1 .. i, k \in 1 .. Len(aus) : Delivers(j, i, k)
  BY <1>1 DEF Delivered
<1>3. aus'[k] = aus[k]
  BY <1>2 DEF Delivers
<1>4. Delivers(j, i, k)'
  BY <1>2, <1>3, DeliversKept
<1>5. k \in 1 .. Len(aus')
  OBVIOUS
<1> QED
  BY <1>4, <1>5

(* A step that puts nothing on the wire delivers nothing and loses nothing.*)
LEMMA DeliveredSame ==
    ASSUME Typed, Typed', Delivered, wire' = wire, Len(aus) <= Len(aus'),
           \A k \in 1 .. Len(aus) : aus[k].fate = "sent" => aus'[k] = aus[k]
    PROVE  Delivered'
<1>1. Len(wire) \in Nat /\ Len(aus) \in Nat /\ Len(aus') \in Nat
  <2>1. aus' \in Seq(Unit)
    BY DEF Typed, TypeOK
  <2> QED
    BY <2>1, Lengths
<1>2. \A i \in 1 .. Len(wire) :
        wire'[i].marker => \E j \in 1 .. i, k \in 1 .. Len(aus') : Delivers(j, i, k)'
  BY <1>1, DeliveredKept
<1> QED
  BY <1>2 DEF Delivered

(* A unit sent before has arrived, and the other units have no part in it. *)
LEMMA SentKept ==
    ASSUME Typed, SentArrive, wire' = wire \/ Grown,
           NEW k \in 1 .. Len(aus), aus[k].fate = "sent", aus'[k] = aus[k]
    PROVE  \E i \in 1 .. Len(wire') : \E j \in 1 .. i : Delivers(j, i, k)'
<1>1. PICK i \in 1 .. Len(wire) : \E j \in 1 .. i : Delivers(j, i, k)
  BY DEF SentArrive
<1>2. PICK j \in 1 .. i : Delivers(j, i, k)
  BY <1>1
<1>3. Len(wire) \in Nat
  BY Lengths
<1>4. Delivers(j, i, k)'
  BY <1>2, <1>3, DeliversKept
<1>5. i \in 1 .. Len(wire')
  BY <1>3 DEF Grown
<1> QED
  BY <1>4, <1>5

(* No unit but those sent before counts as sent.                           *)
LEMMA SentSame ==
    ASSUME Typed, SentArrive, wire' = wire \/ Grown,
           \A k \in 1 .. Len(aus') :
              aus'[k].fate = "sent" => k \in 1 .. Len(aus) /\ aus'[k] = aus[k]
    PROVE  SentArrive'
<1> SUFFICES ASSUME NEW k \in 1 .. Len(aus'), aus'[k].fate = "sent"
             PROVE  \E i \in 1 .. Len(wire') : \E j \in 1 .. i : Delivers(j, i, k)'
  BY DEF SentArrive
<1>1. k \in 1 .. Len(aus) /\ aus'[k] = aus[k] /\ aus[k].fate = "sent"
  OBVIOUS
<1> QED
  BY <1>1, SentKept

(* Nothing changes what the next packet joins.                             *)
LEMMA NextSame ==
    ASSUME UNCHANGED <<wire, seq, clock>>
    PROVE  NextJoins' <=> NextJoins
BY DEF NextJoins

(* No packet, no frame.                                                    *)
LEMMA FrameInit == Init => FrameInv
<1> SUFFICES ASSUME Init
             PROVE  FrameInv
  OBVIOUS
<1>1. wire = <<>> /\ phase # "sending" /\ Len(wire) = 0
  BY DEF Init
<1>2. Len(aus) = 0
  BY DEF Init
<1> QED
  BY <1>1, <1>2 DEF FrameInv, Delivered, SentArrive, NextJoins

(* A step that leaves the unit under way and the wire alone.               *)
LEMMA FrameSame ==
    ASSUME Typed, Typed', FrameInv, UNCHANGED <<wire, seq, clock, aus, pieces>>,
           \/ phase' = phase
           \/ phase' = "ended"
           \/ phase = "accepting" /\ phase' = "idle"
    PROVE  FrameInv'
<1>1. Delivered'
  <2>1. Len(aus) <= Len(aus')
    BY DEF Typed, TypeOK
  <2> QED
    BY <2>1, DeliveredSame DEF FrameInv
<1>2. NextJoins' <=> NextJoins
  BY NextSame
<1>3. ASSUME NEW m, Underway(m)
      PROVE  Underway(m)'
  BY <1>2, <1>3 DEF Underway, Joined
<1>4. ASSUME phase' = "sending"
      PROVE  \E m \in 0 .. Len(wire') : Underway(m)'
  BY <1>3, <1>4 DEF FrameInv
<1>5. ASSUME phase' \in {"idle", "accepting"}
      PROVE  ~NextJoins'
  BY <1>2, <1>5 DEF FrameInv
<1>6. SentArrive'
  BY SentSame DEF FrameInv
<1> QED
  BY <1>1, <1>4, <1>5, <1>6 DEF FrameInv

(* Of a unit just taken nothing is on the wire.                            *)
LEMMA FrameTakes ==
    ASSUME Typed, Typed', FrameInv, NEW c \in Content, NEW gap \in Gap, TakeUnit(c, gap)
    PROVE  FrameInv'
<1>. DEFINE u == [nalus |-> c.nalus, key |-> c.key, gap |-> gap,
                  pts |-> pts + Delta(gap), clock |-> clock, fate |-> "open"]
<1>1. /\ aus' = Append(aus, u) /\ pieces' = Payloads(u) /\ phase = "idle" /\ phase' = "sending"
      /\ UNCHANGED <<wire, seq, clock>>
  BY DEF TakeUnit, Payloads
<1>2. u.fate = "open" /\ u.clock = clock
  OBVIOUS
<1>. HIDE DEF u
<1>3. PICK n \in Nat : n = Len(aus)
  BY DEF Typed, TypeOK
<1>4. /\ Len(aus') = n + 1 /\ aus'[n + 1] = u
      /\ \A k \in 1 .. n : aus'[k] = aus[k]
  BY <1>1, <1>3 DEF Typed, TypeOK
<1>5. Delivered'
  BY <1>1, <1>3, <1>4, DeliveredSame DEF FrameInv
<1>6. ~NextJoins'
  BY <1>1, NextSame DEF FrameInv
<1>7. Underway(0)'
  <2>1. aus'[Len(aus')] = u
    BY <1>4
  <2>2. Len(pieces') \in Nat /\ Len(wire') \in Nat
    BY DEF Typed, TypeOK
  <2>3. Len(Payloads(u)) = 0 + Len(pieces') /\ \A x \in 1 .. Len(pieces') : pieces'[x] = Payloads(u)[0 + x]
    BY <1>1, <2>2
  <2>4. Len(wire') - 0 + 0 - 1 < Len(wire') - 0 + 1
    BY <2>2
  <2>5. Len(wire') - 0 + 1 .. Len(wire') - 0 + 0 - 1 = {}
    BY <2>2
  <2>6. Payloads(u) = Payloads(aus[Len(aus)])'
    BY <2>1 DEF Payloads
  <2> QED
    BY <1>1, <1>2, <1>6, <2>1, <2>3, <2>5, <2>6 DEF Underway
<1>8. 0 \in 0 .. Len(wire')
  BY DEF Typed, TypeOK
<1>9. SentArrive'
  <2>1. ASSUME NEW k \in 1 .. Len(aus'), aus'[k].fate = "sent"
        PROVE  k \in 1 .. Len(aus) /\ aus'[k] = aus[k]
    <3>1. k # n + 1
      BY <1>2, <1>4, <2>1
    <3>2. k \in 1 .. n
      BY <1>4, <3>1
    <3> QED
      BY <1>3, <1>4, <3>2
  <2> QED
    BY <1>1, <2>1, SentSame DEF FrameInv
<1> QED
  BY <1>1, <1>5, <1>7, <1>8, <1>9 DEF FrameInv

(* The packet that arrives is the next one of its unit.                    *)
Arrived(m, at, all) ==
    /\ \A x \in 1 .. m + 1 : wire'[at + x].payload = all[x]
    /\ \A x \in at + 1 .. at + m : Joined(x)'
    /\ at = 0 \/ ~Joined(at)'

LEMMA Arrives ==
    ASSUME Typed, Grown, NEW L \in Nat, L = Len(wire), NEW m \in 0 .. L, Underway(m),
           Len(pieces) >= 1, NEW all, all = Payloads(aus[Len(aus)]),
           NEW at \in Nat, at = L - m
    PROVE  Arrived(m, at, all)
<1>1. /\ Len(pieces) \in Nat
      /\ \A x \in 1 .. Len(pieces) : pieces[x] = all[m + x]
      /\ \A x \in 1 .. m : wire[at + x].payload = all[x]
      /\ \A x \in at + 1 .. at + m - 1 : Joined(x)
      /\ m = 0 => ~NextJoins
      /\ m > 0 => NextJoins /\ (at = 0 \/ ~Joined(at))
  <2>1. Len(pieces) \in Nat
    BY DEF Typed, TypeOK
  <2>2. Len(wire) - m = at
    OBVIOUS
  <2> QED
    BY <2>1, <2>2 DEF Underway
<1>2. ASSUME NEW x \in 1 .. m + 1
      PROVE  wire'[at + x].payload = all[x]
  <2>1. CASE x = m + 1
    <3>1. at + x = L + 1 /\ m + 1 = x
      BY <2>1
    <3>2. wire'[L + 1].payload = pieces[1]
      BY DEF Grown
    <3>3. pieces[1] = all[m + 1]
      <4>1. Len(pieces) \in Nat
        BY <1>1
      <4>2. 1 \in 1 .. Len(pieces)
        BY <4>1
      <4>3. \A y \in 1 .. Len(pieces) : pieces[y] = all[m + y]
        BY <1>1
      <4> QED
        BY <4>2, <4>3
    <3> QED
      BY <3>1, <3>2, <3>3
  <2>2. CASE x # m + 1
    <3>1. at + x \in 1 .. L /\ x \in 1 .. m
      BY <2>2
    <3>2. wire'[at + x] = wire[at + x]
      BY <3>1 DEF Grown
    <3> QED
      BY <1>1, <3>1, <3>2
  <2> QED
    BY <2>1, <2>2
<1>3. ASSUME NEW x \in at + 1 .. at + m
      PROVE  Joined(x)'
  <2>1. CASE x = L
    <3>1. L \in Nat \ {0} /\ m > 0
      BY <2>1
    <3> QED
      BY <1>1, <2>1, <3>1, NextJoined
  <2>2. CASE x # L
    <3>1. x \in 1 .. Len(wire) - 1 /\ x \in at + 1 .. at + m - 1
      BY <2>2
    <3> QED
      BY <1>1, <3>1, JoinsKept
  <2> QED
    BY <2>1, <2>2
<1>4. at = 0 \/ ~Joined(at)'
  <2>1. CASE m = 0 /\ L # 0
    <3>1. at = L /\ L \in Nat \ {0}
      BY <2>1
    <3> QED
      BY <1>1, <2>1, <3>1, NextJoined
  <2>2. CASE m = 0 /\ L = 0
    BY <2>2
  <2>3. CASE m > 0 /\ at # 0
    <3>1. at \in 1 .. Len(wire) - 1
      BY <2>3
    <3> QED
      BY <1>1, <2>3, <3>1, JoinsKept
  <2> QED
    BY <2>1, <2>2, <2>3
<1> QED
  BY <1>2, <1>3, <1>4 DEF Arrived

(* A packet before the last of its unit.                                   *)
LEMMA FrameSends ==
    ASSUME Typed, Typed', FrameInv, SendPacket
    PROVE  FrameInv'
<1>1. /\ phase = "sending" /\ phase' = "sending" /\ seq' = NextSeq /\ pieces' = Tail(pieces)
      /\ Len(pieces) > 1 /\ clock' = clock /\ aus' = aus /\ PacketReaches
  BY DEF SendPacket
<1>2. Grown
  <2>1. Len(pieces) >= 1
    BY <1>1 DEF Typed, TypeOK
  <2> QED
    BY <1>1, <2>1, WireGrows
<1>3. PICK L \in Nat : L = Len(wire)
  BY DEF Grown, Typed, TypeOK
<1>4. PICK m \in 0 .. L : Underway(m)
  BY <1>1, <1>3 DEF FrameInv
<1>5. PICK at \in Nat : at = L - m
  OBVIOUS
<1>6. PICK all : all = Payloads(aus[Len(aus)])
  OBVIOUS
<1>7. PICK q \in Nat : q = Len(pieces) /\ q > 1
  BY <1>1 DEF Typed, TypeOK
<1>8. /\ \A x \in 1 .. m + 1 : wire'[at + x].payload = all[x]
      /\ \A x \in at + 1 .. at + m : Joined(x)'
      /\ at = 0 \/ ~Joined(at)'
  <2>1. Len(pieces) >= 1
    BY <1>7
  <2>2. Arrived(m, at, all)
    BY <1>2, <1>3, <1>4, <1>5, <1>6, <2>1, Arrives
  <2> QED
    BY <2>2 DEF Arrived
<1>9. /\ Len(wire') = L + 1 /\ Len(wire') - (m + 1) = at /\ wire'[L + 1].seq = seq
      /\ wire'[L + 1].clock = clock /\ wire'[L + 1].marker = FALSE
  <2>1. wire'[L + 1].marker <=> Len(pieces) = 1
    BY <1>2, <1>3 DEF Grown
  <2>2. wire'[L + 1].marker \in BOOLEAN
    <3>1. wire' \in Seq(Packet) /\ L + 1 \in 1 .. Len(wire')
      BY <1>2, <1>3 DEF Typed, TypeOK, Packet, Grown
    <3>2. wire'[L + 1] \in Packet
      BY <3>1
    <3> QED
      BY <3>2 DEF Packet
  <2>3. Len(pieces) # 1
    BY <1>7
  <2>4. Len(wire') = L + 1 /\ wire'[L + 1].seq = seq /\ wire'[L + 1].clock = clock
    BY <1>2, <1>3 DEF Grown
  <2>5. Len(wire') - (m + 1) = at
    BY <1>5, <2>4
  <2> QED
    BY <1>1, <2>1, <2>2, <2>3, <2>4, <2>5
<1>10. /\ Len(pieces') = q - 1 /\ \A x \in 1 .. q - 1 : pieces'[x] = pieces[x + 1]
  BY <1>1, <1>7 DEF Typed, TypeOK
<1>11. Delivered'
  <2>1. \A i \in 1 .. Len(wire) :
          wire'[i].marker => \E j \in 1 .. i, k \in 1 .. Len(aus') : Delivers(j, i, k)'
    <3>1. Len(wire) \in Nat /\ Len(aus) \in Nat /\ Len(aus') = Len(aus)
      BY <1>1, Lengths
    <3>2. Len(aus') \in Nat /\ Len(aus) <= Len(aus') /\ Delivered
      BY <3>1 DEF FrameInv
    <3>3. \A k \in 1 .. Len(aus) : aus[k].fate = "sent" => aus'[k] = aus[k]
      BY <1>1
    <3> QED
      BY <1>2, <3>1, <3>2, <3>3, DeliveredKept
  <2> SUFFICES ASSUME NEW i \in 1 .. L + 1, wire'[i].marker
               PROVE  \E j \in 1 .. i, k \in 1 .. Len(aus') : Delivers(j, i, k)'
    BY <1>9 DEF Delivered
  <2>2. i # L + 1
    BY <1>9
  <2>3. i \in 1 .. Len(wire)
    BY <1>3, <2>2
  <2> QED
    BY <2>1, <2>3
<1>12. NextJoins'
  <2>1. wire' # <<>> /\ wire'[Len(wire')] = wire'[L + 1]
    BY <1>9
  <2> QED
    BY <1>1, <1>9, <2>1 DEF NextJoins, NextSeq
<1>13. Underway(m + 1)'
  <2>1. /\ aus[Len(aus)].fate = "open" /\ aus[Len(aus)].clock = clock
        /\ Len(all) = m + q
        /\ \A x \in 1 .. q : pieces[x] = all[m + x]
    BY <1>4, <1>6, <1>7 DEF Underway
  <2>2. Len(all) = (m + 1) + Len(pieces')
    BY <1>10, <2>1
  <2>3. ASSUME NEW x \in 1 .. q - 1
        PROVE  pieces'[x] = all[m + 1 + x]
    <3>1. x + 1 \in 1 .. q /\ m + (x + 1) = m + 1 + x
      BY <1>7
    <3> QED
      BY <1>10, <2>1, <3>1
  <2>4. \A x \in 1 .. Len(pieces') : pieces'[x] = all[(m + 1) + x]
    BY <1>10, <2>3
  <2>5. at + (m + 1) - 1 = at + m /\ m + 1 # 0
    OBVIOUS
  <2>6. all = Payloads(aus[Len(aus)])' /\ aus'[Len(aus')] = aus[Len(aus)]
    BY <1>1, <1>6 DEF Payloads
  <2> QED
    BY <1>1, <1>8, <1>9, <1>12, <2>1, <2>2, <2>4, <2>5, <2>6 DEF Underway
<1>14. m + 1 \in 0 .. Len(wire')
  BY <1>9
<1>15. SentArrive'
  BY <1>1, <1>2, SentSame DEF FrameInv
<1> QED
  BY <1>1, <1>11, <1>13, <1>14, <1>15 DEF FrameInv

(* The last packet of a unit ends its frame.                               *)
LEMMA FrameEnds ==
    ASSUME Typed, Typed', FrameInv, SendLast, clock' # clock
    PROVE  FrameInv'
<1>1. /\ phase = "sending" /\ phase' = "idle" /\ Len(pieces) = 1
      /\ aus' = Fate("sent") /\ PacketReaches /\ aus # <<>>
  BY DEF SendLast, Typed
<1>2. Grown
  <2>1. Len(pieces) >= 1
    BY <1>1
  <2> QED
    BY <1>1, <2>1, WireGrows
<1>3. PICK L \in Nat : L = Len(wire)
  BY Lengths
<1>4. PICK m \in 0 .. L : Underway(m)
  BY <1>1, <1>3 DEF FrameInv
<1>5. PICK at \in Nat : at = L - m
  OBVIOUS
<1>6. PICK all : all = Payloads(aus[Len(aus)])
  OBVIOUS
<1>7. PICK n \in Nat \ {0} : n = Len(aus)
  <2>1. aus \in Seq(Unit) /\ aus # <<>>
    BY <1>1 DEF Typed, TypeOK
  <2>2. Len(aus) \in Nat \ {0}
    BY <2>1
  <2> QED
    BY <2>2
<1>8. Arrived(m, at, all)
  <2>1. Len(pieces) >= 1
    BY <1>1
  <2> QED
    BY <1>2, <1>3, <1>4, <1>5, <1>6, <2>1, Arrives
<1>9. Len(wire') = L + 1 /\ wire'[L + 1].clock = clock /\ wire'[L + 1].marker
  BY <1>1, <1>2, <1>3 DEF Grown
<1>10. Len(all) = m + 1 /\ aus[n].fate = "open" /\ aus[n].clock = clock
  BY <1>1, <1>4, <1>6, <1>7 DEF Underway
<1>11. /\ Len(aus') = n /\ aus'[n].fate = "sent" /\ aus'[n].clock = aus[n].clock
       /\ Payloads(aus'[n]) = all
       /\ \A k \in 1 .. n - 1 : aus'[k] = aus[k]
  <2>1. /\ Len(Fate("sent")) = n /\ Fate("sent")[n].fate = "sent"
        /\ \A k \in 1 .. n - 1 : Fate("sent")[k] = aus[k]
    BY <1>1, <1>7, FateTyped DEF Typed
  <2>2. Payloads(Fate("sent")[n]) = all /\ Fate("sent")[n].clock = aus[n].clock
    BY <1>1, <1>6, <1>7, FateKeeps
  <2> QED
    BY <1>1, <2>1, <2>2
<1>12. PICK j \in Nat, i \in Nat : j = at + 1 /\ i = L + 1
  OBVIOUS
<1>13. Delivers(j, i, n)'
  <2>1. j = 1 \/ ~Joined(j - 1)'
    <3>1. j - 1 = at
      BY <1>12
    <3> QED
      BY <1>8, <1>12, <3>1 DEF Arrived
  <2>2. \A x \in j .. i - 1 : Joined(x)'
    <3>1. i - 1 = at + m
      BY <1>5, <1>12
    <3> QED
      BY <1>8, <1>12, <3>1 DEF Arrived
  <2>3. i - j + 1 = m + 1
    BY <1>5, <1>12
  <2>4. ASSUME NEW x \in 1 .. i - j + 1
        PROVE  wire'[j + x - 1].payload = all[x]
    <3>1. j + x - 1 = at + x /\ x \in 1 .. m + 1
      BY <1>12, <2>3
    <3> QED
      BY <1>8, <3>1 DEF Arrived
  <2>5. all = Payloads(aus[n])' /\ Len(all) = i - j + 1
    BY <1>10, <1>11, <2>3 DEF Payloads
  <2>6. aus'[n].fate = "sent" /\ aus'[n].clock = wire'[i].clock /\ wire'[i].marker
    BY <1>9, <1>10, <1>11, <1>12
  <2> QED
    BY <2>1, <2>2, <2>4, <2>5, <2>6 DEF Delivers
<1>14. Delivered'
  <2>1. \A y \in 1 .. Len(wire) :
          wire'[y].marker => \E x \in 1 .. y, k \in 1 .. Len(aus') : Delivers(x, y, k)'
    <3>1. Len(wire) \in Nat /\ Len(aus) \in Nat /\ Len(aus') = Len(aus)
      BY <1>7, <1>11, Lengths
    <3>2. Len(aus') \in Nat /\ Len(aus) <= Len(aus') /\ Delivered
      BY <3>1 DEF FrameInv
    <3>3. ASSUME NEW k \in 1 .. Len(aus), aus[k].fate = "sent"
          PROVE  aus'[k] = aus[k]
      <4>1. k # n
        BY <1>10, <3>3
      <4>2. k \in 1 .. n - 1
        BY <1>7, <4>1
      <4> QED
        BY <1>11, <4>2
    <3> QED
      BY <1>2, <3>1, <3>2, <3>3, DeliveredKept
  <2> SUFFICES ASSUME NEW y \in 1 .. L + 1, wire'[y].marker
               PROVE  \E x \in 1 .. y, k \in 1 .. Len(aus') : Delivers(x, y, k)'
    BY <1>9 DEF Delivered
  <2>2. CASE y = i
    <3>1. j \in 1 .. i /\ n \in 1 .. Len(aus')
      BY <1>5, <1>11, <1>12
    <3> QED
      BY <1>13, <2>2, <3>1
  <2>3. CASE y # i
    <3>1. y \in 1 .. Len(wire)
      BY <1>3, <1>12, <2>3
    <3> QED
      BY <2>1, <3>1
  <2> QED
    BY <2>2, <2>3
<1>15. ~NextJoins'
  <2>1. wire'[Len(wire')].clock = clock
    BY <1>9
  <2> QED
    BY <2>1 DEF NextJoins
<1>16. SentArrive'
  <2> SUFFICES ASSUME NEW k \in 1 .. Len(aus'), aus'[k].fate = "sent"
               PROVE  \E y \in 1 .. Len(wire') : \E x \in 1 .. y : Delivers(x, y, k)'
    BY DEF SentArrive
  <2>1. CASE k = n
    <3>1. i \in 1 .. Len(wire') /\ j \in 1 .. i
      BY <1>5, <1>9, <1>12
    <3> QED
      BY <1>13, <2>1, <3>1
  <2>2. CASE k # n
    <3>1. k \in 1 .. n - 1 /\ k \in 1 .. Len(aus)
      BY <1>7, <1>11, <2>2
    <3>2. aus'[k] = aus[k] /\ aus[k].fate = "sent"
      BY <1>11, <3>1
    <3> QED
      BY <1>2, <3>1, <3>2, SentKept DEF FrameInv
  <2> QED
    BY <2>1, <2>2
<1> QED
  BY <1>1, <1>14, <1>15, <1>16 DEF FrameInv

(* The number of a packet that fails is missing on the wire.               *)
LEMMA NumberMissing ==
    ASSUME Typed, Typed', LossInv, NumbersTyped, SendFails, wire # <<>>
    PROVE  seq' # (wire[Len(wire)].seq + 1) % SeqSpace
<1>1. /\ seq' = NextSeq /\ streak' = streak + 1
  BY DEF SendFails, SeqAfterFailure
<1>2. /\ seq \in 0 .. SeqSpace - 1 /\ SeqSpace \in Nat \ {0} /\ streak \in Nat
      /\ streak + 1 < SeqSpace
  <2>1. streak' \in 0 .. TearDownAus /\ streak \in 0 .. TearDownAus
    BY DEF Typed, TypeOK
  <2> QED
    BY <1>1, <2>1, Constants DEF Typed, TypeOK
<1>3. seq' = IF seq + 1 = SeqSpace THEN 0 ELSE seq + 1
  BY <1>1, <1>2, Successor DEF NextSeq
<1>4. PICK f \in 0 .. streak : Spent(f)
  BY DEF LossInv
<1>5. PICK s \in 0 .. SeqSpace - 1 : s = wire[Len(wire)].seq
  <2>1. Len(wire) \in 1 .. Len(wire)
    BY DEF Typed, TypeOK
  <2> QED
    BY <2>1 DEF NumbersTyped
<1>6. seq = s + 1 + f \/ seq = s + 1 + f - SeqSpace
  BY <1>4, <1>5 DEF Spent
<1>7. (s + 1) % SeqSpace = IF s + 1 = SeqSpace THEN 0 ELSE s + 1
  BY <1>2, Successor
<1>8. seq' # (s + 1) % SeqSpace
  BY <1>2, <1>3, <1>6, <1>7
<1> QED
  BY <1>5, <1>8

(* A unit cut delivers nothing, and its number keeps the next one apart.   *)
LEMMA FrameCut ==
    ASSUME Typed, Typed', FrameInv, LossInv, NumbersTyped, SendFails
    PROVE  FrameInv'
<1>1. /\ phase = "sending" /\ phase' # "sending" /\ aus' = Fate("cut") /\ aus # <<>>
      /\ wire' = wire
  BY DEF SendFails, Typed
<1>2. PICK n \in Nat \ {0} : n = Len(aus)
  <2>1. aus \in Seq(Unit) /\ aus # <<>>
    BY <1>1 DEF Typed, TypeOK
  <2>2. Len(aus) \in Nat \ {0}
    BY <2>1
  <2> QED
    BY <2>2
<1>3. aus[n].fate = "open"
  BY <1>1, <1>2 DEF FrameInv, Underway
<1>4. /\ Len(aus') = n /\ aus'[n].fate = "cut"
      /\ \A k \in 1 .. n - 1 : aus'[k] = aus[k]
  <2>1. /\ Len(Fate("cut")) = n /\ Fate("cut")[n].fate = "cut"
        /\ \A k \in 1 .. n - 1 : Fate("cut")[k] = aus[k]
    BY <1>1, <1>2, FateTyped DEF Typed
  <2> QED
    BY <1>1, <2>1
<1>5. Delivered'
  <2>1. ASSUME NEW k \in 1 .. Len(aus), aus[k].fate = "sent"
        PROVE  aus'[k] = aus[k]
    <3>1. k # n
      BY <1>3, <2>1
    <3>2. k \in 1 .. n - 1
      BY <1>2, <3>1
    <3> QED
      BY <1>4, <3>2
  <2>2. Len(aus) <= Len(aus')
    BY <1>2, <1>4
  <2> QED
    BY <1>1, <2>1, <2>2, DeliveredSame DEF FrameInv
<1>6. ~NextJoins'
  <2>1. CASE wire = <<>>
    BY <1>1, <2>1 DEF NextJoins
  <2>2. CASE wire # <<>>
    BY <1>1, <2>2, NumberMissing DEF NextJoins
  <2> QED
    BY <2>1, <2>2
<1>7. SentArrive'
  <2>1. ASSUME NEW k \in 1 .. Len(aus'), aus'[k].fate = "sent"
        PROVE  k \in 1 .. Len(aus) /\ aus'[k] = aus[k]
    <3>1. k # n
      BY <1>4, <2>1
    <3>2. k \in 1 .. n - 1
      BY <1>4, <3>1
    <3> QED
      BY <1>2, <1>4, <3>2
  <2> QED
    BY <1>1, <2>1, SentSame DEF FrameInv
<1> QED
  BY <1>1, <1>5, <1>6, <1>7 DEF FrameInv

(* Every step keeps it.                                                    *)
LEMMA FrameStep ==
    ASSUME Typed, Typed', LossInv, NumbersTyped, FrameInv, [Next]_vars
    PROVE  FrameInv'
<1>1. CASE UNCHANGED vars
  BY <1>1, FrameSame DEF vars
<1>2. CASE PlatformDials
  BY <1>2, FrameSame DEF PlatformDials
<1>3. CASE Ends
  BY <1>3, FrameSame DEF Ends
<1>4. CASE \E c \in Content, gap \in Gap : TakeUnit(c, gap)
  BY <1>4, FrameTakes
<1>5. CASE SendPacket
  BY <1>5, FrameSends
<1>6. CASE SendLast
  BY <1>6, LastMoves, FrameEnds
<1>7. CASE SendFails
  BY <1>7, FrameCut
<1> QED
  BY <1>1, <1>2, <1>3, <1>4, <1>5, <1>6, <1>7 DEF Next

(* A sequence is the function of its elements.                             *)
LEMMA AsFunction ==
    ASSUME NEW S, NEW s \in Seq(S)
    PROVE  s = [x \in 1 .. Len(s) |-> s[x]]
OBVIOUS

(* The packets delivered are a frame, which is the unit's.                 *)
LEMMA DeliveredIs ==
    ASSUME Typed, NEW i \in 1 .. Len(wire), NEW j \in 1 .. i, NEW k \in 1 .. Len(aus),
           Delivers(j, i, k)
    PROVE  Frame(j, i) /\ FrameIs(j, i, aus[k])
<1>1. Frame(j, i)
  BY DEF Delivers, Frame
<1>2. Mux(aus[k].nalus, aus[k].key, aus[k].pts) \in Seq(Byte)
  <2>1. aus[k] \in Unit
    BY DEF Typed, TypeOK
  <2>2. aus[k].nalus \in Seq(Seq(Byte)) /\ aus[k].key \in BOOLEAN /\ aus[k].pts \in Nat
    BY <2>1, Constants DEF Unit
  <2> QED
    BY <2>2, MuxTyped
<1>3. /\ Payloads(aus[k]) \in Seq(Seq(Byte))
      /\ FlattenSeq(Payloads(aus[k])) = Mux(aus[k].nalus, aus[k].key, aus[k].pts)
  BY <1>2, ChunksRejoin DEF Payloads
<1>4. Payloads(aus[k]) = [x \in 1 .. i - j + 1 |-> wire[j + x - 1].payload]
  <2>1. /\ Len(Payloads(aus[k])) = i - j + 1
        /\ \A x \in 1 .. i - j + 1 : wire[j + x - 1].payload = Payloads(aus[k])[x]
    BY DEF Delivers
  <2>2. Payloads(aus[k]) = [x \in 1 .. i - j + 1 |-> Payloads(aus[k])[x]]
    BY <1>3, <2>1, AsFunction
  <2> QED
    BY <2>1, <2>2
<1>5. aus[k].clock = wire[i].clock
  BY DEF Delivers
<1> QED
  BY <1>1, <1>3, <1>4, <1>5 DEF FrameIs, Received

(* A frame has one beginning.                                              *)
LEMMA FrameBegins ==
    ASSUME Typed, NEW i \in 1 .. Len(wire), NEW j \in 1 .. i, NEW first \in 1 .. i,
           Frame(j, i), Frame(first, i)
    PROVE  first = j
<1>1. i \in Nat /\ j \in Nat /\ first \in Nat
  BY Lengths
<1>2. ~ first < j
  <2> SUFFICES ASSUME first < j
               PROVE  FALSE
    OBVIOUS
  <2>1. j - 1 \in first .. i - 1 /\ j # 1
    BY <1>1
  <2>2. Joined(j - 1)
    BY <2>1 DEF Frame
  <2> QED
    BY <2>1, <2>2 DEF Frame
<1>3. ~ j < first
  <2> SUFFICES ASSUME j < first
               PROVE  FALSE
    OBVIOUS
  <2>1. first - 1 \in j .. i - 1 /\ first # 1
    BY <1>1
  <2>2. Joined(first - 1)
    BY <2>1 DEF Frame
  <2> QED
    BY <2>1, <2>2 DEF Frame
<1> QED
  BY <1>1, <1>2, <1>3

(* What was delivered is whole, and a frame is nothing else.               *)
LEMMA FrameImplies == Typed /\ FrameInv => FramesWhole
<1> SUFFICES ASSUME Typed, Delivered, SentArrive
             PROVE  FramesWhole
  BY DEF FrameInv
<1>1. ASSUME NEW i \in 1 .. Len(wire), NEW j \in 1 .. Len(wire), j <= i, Frame(j, i)
      PROVE  \E k \in 1 .. Len(aus) : aus[k].fate = "sent" /\ FrameIs(j, i, aus[k])
  <2>1. PICK first \in 1 .. i, k \in 1 .. Len(aus) : Delivers(first, i, k)
    BY <1>1 DEF Delivered, Frame
  <2>2. Frame(first, i) /\ FrameIs(first, i, aus[k])
    BY <2>1, DeliveredIs
  <2>3. j \in 1 .. i
    BY <1>1
  <2>4. first = j
    BY <1>1, <2>2, <2>3, FrameBegins
  <2>5. aus[k].fate = "sent"
    BY <2>1 DEF Delivers
  <2> QED
    BY <2>2, <2>4, <2>5
<1>2. ASSUME NEW k \in 1 .. Len(aus), aus[k].fate = "sent"
      PROVE  \E i \in 1 .. Len(wire) : \E j \in 1 .. i : Frame(j, i) /\ FrameIs(j, i, aus[k])
  <2>1. PICK i \in 1 .. Len(wire) : \E j \in 1 .. i : Delivers(j, i, k)
    BY <1>2 DEF SentArrive
  <2>2. PICK j \in 1 .. i : Delivers(j, i, k)
    BY <2>1
  <2>3. Frame(j, i) /\ FrameIs(j, i, aus[k])
    BY <2>2, DeliveredIs
  <2> QED
    BY <2>3
<1> QED
  BY <1>1, <1>2 DEF FramesWhole

(* NAL units, in every access unit, as coding standards make them.         *)
ContentStandard == \A c \in Content : AllWellFormed(c.nalus)

(* A unit taken is one of the content's.                                   *)
LEMMA UnitStandard ==
    ASSUME ContentStandard, Typed, NEW k \in 1 .. Len(aus)
    PROVE  /\ aus[k].nalus \in Seq(Seq(Byte)) /\ AllWellFormed(aus[k].nalus)
           /\ aus[k].key \in BOOLEAN /\ aus[k].pts \in Nat
<1>1. aus[k] \in Unit
  BY DEF Typed, TypeOK
<1>2. aus[k].nalus \in {c.nalus : c \in Content} /\ aus[k].key \in BOOLEAN /\ aus[k].pts \in Nat
  BY <1>1 DEF Unit
<1>3. PICK c \in Content : aus[k].nalus = c.nalus
  BY <1>2
<1>4. c.nalus \in Seq(Seq(Byte))
  BY Constants
<1>5. AllWellFormed(c.nalus)
  BY DEF ContentStandard
<1> QED
  BY <1>2, <1>3, <1>4, <1>5

(* What joins to a unit's program stream gives the unit back.              *)
LEMMA UnitParses ==
    ASSUME ContentStandard, Typed, NEW i, NEW j, NEW k \in 1 .. Len(aus), FrameIs(j, i, aus[k])
    PROVE  /\ aus[k].clock = wire[i].clock
           /\ GivesBack(Received(j, i), aus[k])
           /\ Declares(Received(j, i), aus[k])
<1>1. PICK u : u = aus[k]
  OBVIOUS
<1>2. u.nalus \in Seq(Seq(Byte)) /\ AllWellFormed(u.nalus) /\ u.key \in BOOLEAN /\ u.pts \in Nat
  BY <1>1, UnitStandard
<1>3. Received(j, i) = Mux(u.nalus, u.key, u.pts) /\ wire[i].clock = u.clock
  BY <1>1 DEF FrameIs
<1>4. GivesBack(Mux(u.nalus, u.key, u.pts), u)
  BY <1>2, UnitsComeBack DEF GivesBack
<1>5. Declares(Mux(u.nalus, u.key, u.pts), u)
  BY <1>2, StreamDeclares
<1> QED
  BY <1>1, <1>3, <1>4, <1>5

-----------------------------------------------------------------------------
(* The invariant, and what it gives.                                       *)

IInv == Typed /\ StreakInv /\ LossInv /\ LossVisible /\ NumbersTyped /\ FrameInv

(* It holds at first.                                                      *)
LEMMA InvInit == Init => IInv
<1> SUFFICES ASSUME Init
             PROVE  IInv
  OBVIOUS
<1>1. Typed /\ StreakInv /\ LossInv /\ LossVisible /\ FrameInv
  BY TypeInit, StreakInit, LossInit, FrameInit
<1>2. NumbersTyped
  BY DEF Init, NumbersTyped
<1> QED
  BY <1>1, <1>2 DEF IInv

(* Every step keeps it.                                                    *)
LEMMA InvStep == IInv /\ [Next]_vars => IInv'
<1> SUFFICES ASSUME IInv, [Next]_vars
             PROVE  IInv'
  OBVIOUS
<1>1. Typed /\ StreakInv /\ LossInv /\ LossVisible /\ NumbersTyped /\ FrameInv
  BY DEF IInv
<1>2. Typed'
  BY <1>1, TypeStep
<1>3. StreakInv'
  BY <1>1, <1>2, StreakStep
<1>4. LossInv' /\ LossVisible' /\ NumbersTyped'
  BY <1>1, <1>2, LossStep
<1>5. FrameInv'
  BY <1>1, <1>2, FrameStep
<1> QED
  BY <1>2, <1>3, <1>4, <1>5 DEF IInv

(* It holds throughout.                                                    *)
LEMMA InvHolds == Spec => []IInv
BY InvInit, InvStep, PTL DEF Spec

(* The task keeps its types whatever the units, their gaps and the sends   *)
(* that fail: the numbers and the clock of RtpPusher stay in their fields, *)
(* the streak of MediaSendPolicy never passes its limit, and every payload *)
(* on the wire is bytes.                                                   *)
THEOREM MediaTypeCorrect == Spec => []TypeOK
<1>1. IInv => TypeOK
  BY DEF IInv, Typed
<1> QED
  BY <1>1, InvHolds, PTL

(* A session is given up for TearDownAus units cut in a row and for nothing*)
(* else, and no unit follows them, however many units went through between *)
(* earlier failures and wherever in a unit each failure struck: the count  *)
(* of MediaSendPolicy is exact.                                            *)
THEOREM TornDownExactly == Spec => []TornDownByStreak
<1>1. IInv => TornDownByStreak
  BY StreakImplies DEF IInv
<1> QED
  BY <1>1, InvHolds, PTL

(* A receiver sees every loss: RtpPusher spends a number on a send that    *)
(* fails and fewer units fail in a row than there are numbers, so packets  *)
(* with numbers in sequence are packets in sequence, of one unit or the last*)
(* of one and the first of the next.                                       *)
THEOREM LossesShow == Spec => []LossVisible
<1>1. IInv => LossVisible
  BY DEF IInv
<1> QED
  BY <1>1, InvHolds, PTL

(* The platform gets units and nothing else: what it takes for a complete  *)
(* frame, packets in sequence on one clock up to a marker, joins to the    *)
(* program stream of one unit that RtpPusher sent whole, and every unit sent*)
(* whole is such a frame, however units are cut in between and however the *)
(* numbers and the clock wrap.                                             *)
THEOREM FramesAreWhole == Spec => []FramesWhole
<1>1. IInv => FramesWhole
  BY FrameImplies DEF IInv
<1> QED
  BY <1>1, InvHolds, PTL

(* A unit sent whole comes out of the platform's parser as it went in, and *)
(* nothing else does.                                                      *)
THEOREM UnitsAlwaysSurvive ==
    ASSUME \A c \in Content : AllWellFormed(c.nalus)
    PROVE  Spec => []UnitsSurvive
<1>1. ContentStandard
  BY DEF ContentStandard
<1>2. IInv => UnitsSurvive
  <2> SUFFICES ASSUME IInv
               PROVE  UnitsSurvive
    OBVIOUS
  <2>1. Typed /\ FramesWhole
    BY FrameImplies DEF IInv
  <2>2. ASSUME NEW i \in 1 .. Len(wire), NEW j \in 1 .. Len(wire), j <= i, Frame(j, i)
        PROVE  \E k \in 1 .. Len(aus) : /\ aus[k].fate = "sent" /\ aus[k].clock = wire[i].clock
                                        /\ GivesBack(Received(j, i), aus[k])
    <3>1. PICK k \in 1 .. Len(aus) : aus[k].fate = "sent" /\ FrameIs(j, i, aus[k])
      BY <2>1, <2>2 DEF FramesWhole
    <3> QED
      BY <1>1, <2>1, <3>1, UnitParses
  <2>3. ASSUME NEW k \in 1 .. Len(aus), aus[k].fate = "sent"
        PROVE  \E i \in 1 .. Len(wire) : \E j \in 1 .. i :
                  Frame(j, i) /\ aus[k].clock = wire[i].clock
                  /\ GivesBack(Received(j, i), aus[k])
    <3>1. PICK i \in 1 .. Len(wire) : \E j \in 1 .. i : Frame(j, i) /\ FrameIs(j, i, aus[k])
      BY <2>1, <2>3 DEF FramesWhole
    <3>2. PICK j \in 1 .. i : Frame(j, i) /\ FrameIs(j, i, aus[k])
      BY <3>1
    <3> QED
      BY <1>1, <2>1, <3>2, UnitParses
  <2> QED
    BY <2>2, <2>3 DEF UnitsSurvive
<1> QED
  BY <1>2, InvHolds, PTL

(* Every PES packet on the wire has a length.                              *)
THEOREM PacketsAlwaysBounded ==
    ASSUME \A c \in Content : AllWellFormed(c.nalus)
    PROVE  Spec => []PacketsBounded
<1>1. ContentStandard
  BY DEF ContentStandard
<1>2. IInv => PacketsBounded
  <2> SUFFICES ASSUME IInv, NEW i \in 1 .. Len(wire), NEW j \in 1 .. Len(wire), j <= i, Frame(j, i)
               PROVE  \E k \in 1 .. Len(aus) : /\ aus[k].fate = "sent"
                                               /\ aus[k].clock = wire[i].clock
                                               /\ Declares(Received(j, i), aus[k])
    BY DEF PacketsBounded
  <2>1. Typed /\ FramesWhole
    BY FrameImplies DEF IInv
  <2>2. PICK k \in 1 .. Len(aus) : aus[k].fate = "sent" /\ FrameIs(j, i, aus[k])
    BY <2>1 DEF FramesWhole
  <2> QED
    BY <1>1, <2>1, <2>2, UnitParses
<1> QED
  BY <1>2, InvHolds, PTL

=============================================================================
