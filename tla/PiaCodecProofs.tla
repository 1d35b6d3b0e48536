---------------------------- MODULE PiaCodecProofs ----------------------------
(***************************************************************************)
(* What the encoders and decoders of PiaCodec compute, for bytes of any    *)
(* length.  They are recursive functions; an induction over sets and       *)
(* functions, below, unfolds them.  Then: varints, fields and messages are *)
(* read back as they were written, wherever they stand; a frame has its    *)
(* length in its header; the value of an entry is that of the preferred    *)
(* kind; and the searches through nested messages visit what they should.  *)
(***************************************************************************)
EXTENDS PiaCodec, SequenceTheorems, FiniteSetTheorems, WellFoundedInduction, TLAPS

---------------------------------------------------------------------------
(* Least elements, induction and recursion.  The library's induction      *)
(* theorems take an operator, which the provers cannot instantiate; these *)
(* take sets and functions.                                               *)

\* The order of the naturals is well-founded.
LEMMA OrderOfNat == \E R : IsWellFoundedOn(R, Nat) /\ \A i, j \in Nat : i < j => <<i, j>> \in R
<1> DEFINE R == OpToRel(<, Nat)
<1>1. IsWellFoundedOn(R, Nat)   BY Zenon, NatLessThanWellFounded
<1>2. \A i, j \in Nat : i < j => <<i, j>> \in R   BY DEF OpToRel
<1> HIDE DEF R
<1> QED  BY <1>1, <1>2

\* A set of naturals that is not empty has a least element.
LEMMA LeastNat ==
    ASSUME NEW S \in SUBSET Nat, S # {}
    PROVE  \E n \in S : \A m \in S : n <= m
<1>1. PICK R : IsWellFoundedOn(R, Nat) /\ \A i, j \in Nat : i < j => <<i, j>> \in R   BY OrderOfNat
<1>2. PICK n \in S : \A m \in S : ~ (<<m, n>> \in R)
  <2>1. S \subseteq Nat /\ S # {}   OBVIOUS
  <2>2. IsWellFoundedOn(R, Nat)   BY <1>1
  <2>3. \A RR, SS, T : IsWellFoundedOn(RR, SS) /\ T \subseteq SS /\ T # {}
            => \E x \in T : \A y \in T : ~ (<<y, x>> \in RR)   BY WFMin
  <2> QED  BY ONLY <2>1, <2>2, <2>3
<1>3. \A m \in S : ~(m < n)   BY <1>1, <1>2
<1> QED  BY <1>2, <1>3

\* Induction over the naturals, of a set rather than of a predicate.
LEMMA Induction ==
    ASSUME NEW S \in SUBSET Nat, 0 \in S, \A n \in Nat : n \in S => n + 1 \in S
    PROVE  Nat \subseteq S
<1> DEFINE Bad == Nat \ S
<1> SUFFICES ASSUME Bad # {} PROVE FALSE   OBVIOUS
<1>1. PICK n \in Bad : \A m \in Bad : n <= m   BY LeastNat
<1>2. n # 0 /\ n - 1 \in Nat /\ n - 1 \notin Bad   BY <1>1
<1>3. n - 1 \in S   BY <1>2
<1>4. (n - 1) + 1 \in S   BY <1>2, <1>3
<1>5. (n - 1) + 1 = n   BY <1>1
<1> QED  BY <1>1, <1>4, <1>5

\* What a definition by recursion has to satisfy: g[x] gives the value at x from a
\* function, and looks at it only where the measure m is smaller.
Recursion(D, V, m, g) ==
    /\ V # {} /\ m \in [D -> Nat] /\ g \in [D -> [[D -> V] -> V]]
    /\ \A x \in D, f1 \in [D -> V], f2 \in [D -> V] :
           (\A y \in D : m[y] < m[x] => f1[y] = f2[y]) => g[x][f1] = g[x][f2]

\* Such a definition has a solution.  The recursive functions of the codec, which TLA+
\* defines by CHOOSE, are unfolded with this.
LEMMA RecursiveFunction ==
    ASSUME NEW D, NEW V, NEW m, NEW g, Recursion(D, V, m, g)
    PROVE  \E f \in [D -> V] : \A x \in D : f[x] = g[x][f]
<1>a. V # {} /\ m \in [D -> Nat] /\ g \in [D -> [[D -> V] -> V]]   BY DEF Recursion
<1>b. \A x \in D : \A f1, f2 \in [D -> V] :
          (\A y \in D : m[y] < m[x] => f1[y] = f2[y]) => g[x][f1] = g[x][f2]
  BY DEF Recursion
<1> USE <1>a, <1>b
<1> DEFINE Upto(f, n) == \A x \in D : m[x] < n => f[x] = g[x][f]
<1> DEFINE S == {n \in Nat : \E f \in [D -> V] : Upto(f, n)}
<1>1. 0 \in S
  <2>1. PICK v : v \in V   OBVIOUS
  <2>2. [x \in D |-> v] \in [D -> V]   BY <2>1
  <2>3. Upto([x \in D |-> v], 0)   OBVIOUS
  <2> QED  BY <2>2, <2>3
<1>2. ASSUME NEW n \in Nat, n \in S PROVE n + 1 \in S
  <2>1. PICK f \in [D -> V] : Upto(f, n)   BY <1>2
  <2> DEFINE h == [x \in D |-> IF m[x] < n THEN f[x] ELSE g[x][f]]
  <2>2. h \in [D -> V]   OBVIOUS
  <2>3. ASSUME NEW x \in D, m[x] < n + 1 PROVE h[x] = g[x][h]
    <3>1. \A y \in D : m[y] < m[x] => h[y] = f[y]   BY <2>3
    <3>2. g[x][h] = g[x][f]   BY <3>1, <2>2
    <3>3. h[x] = g[x][f]   BY <2>1, <2>3
    <3> QED  BY <3>2, <3>3
  <2>4. Upto(h, n + 1)   BY <2>3
  <2> HIDE DEF h, Upto
  <2> QED  BY <2>2, <2>4
<1> HIDE DEF S
<1>3. Nat \subseteq S   BY <1>1, <1>2, Induction DEF S
<1>4. \A n \in Nat : \E f \in [D -> V] : Upto(f, n)   BY <1>3 DEF S
<1>5. ASSUME NEW f1 \in [D -> V], NEW f2 \in [D -> V], NEW n \in Nat, Upto(f1, n), Upto(f2, n)
      PROVE  \A x \in D : m[x] < n => f1[x] = f2[x]
  <2> DEFINE T == {k \in Nat : \A x \in D : m[x] < k /\ m[x] < n => f1[x] = f2[x]}
  <2>1. 0 \in T   OBVIOUS
  <2>2. ASSUME NEW k \in Nat, k \in T PROVE k + 1 \in T
    <3>1. ASSUME NEW x \in D, m[x] < k + 1, m[x] < n PROVE f1[x] = f2[x]
      <4>3. m[x] \in Nat /\ \A y \in D : m[y] \in Nat   OBVIOUS
      <4>4. ASSUME NEW y \in D, m[y] < m[x] PROVE f1[y] = f2[y]
        <5>1. m[y] < k /\ m[y] < n   BY <3>1, <4>3, <4>4
        <5> QED  BY <2>2, <5>1
      <4>1. \A y \in D : m[y] < m[x] => f1[y] = f2[y]   BY <4>4
      <4>2. g[x][f1] = g[x][f2]   BY <4>1
      <4> QED  BY <1>5, <3>1, <4>2
    <3> QED  BY <3>1
  <2> HIDE DEF T
  <2>3. Nat \subseteq T   BY <2>1, <2>2, Induction DEF T
  <2>4. n \in T   BY <2>3
  <2> QED  BY <2>4 DEF T
<1> DEFINE at(n) == CHOOSE f \in [D -> V] : Upto(f, n)
<1> DEFINE lim == [x \in D |-> at(m[x] + 1)[x]]
<1>6. \A n \in Nat : at(n) \in [D -> V] /\ Upto(at(n), n)   BY <1>4
<1> HIDE DEF at
<1>7. lim \in [D -> V]   BY <1>6
<1>8. ASSUME NEW x \in D PROVE lim[x] = g[x][lim]
  <2>1. m[x] \in Nat /\ m[x] + 1 \in Nat   OBVIOUS
  <2>2. PICK f : f = at(m[x] + 1)   OBVIOUS
  <2>3. f \in [D -> V] /\ Upto(f, m[x] + 1)   BY <1>6, <2>1, <2>2
  <2>4. f[x] = g[x][f]   BY <2>1, <2>3
  <2>8. lim[x] = f[x]   BY <2>2
  <2>5. ASSUME NEW y \in D, m[y] < m[x] PROVE lim[y] = f[y]
    <3>1. PICK h : h = at(m[y] + 1)   OBVIOUS
    <3>5. m[y] + 1 \in Nat /\ m[y] < m[y] + 1   OBVIOUS
    <3>2. h \in [D -> V] /\ Upto(h, m[y] + 1)
      <4> HIDE DEF Upto
      <4> QED  BY <1>6, <3>1, <3>5
    <3>3. Upto(f, m[y] + 1)   BY <2>1, <2>3, <2>5
    <3>4. lim[y] = h[y]   BY <3>1
    <3> HIDE DEF Upto, lim
    <3>6. h[y] = f[y]   BY ZenonT(40), <1>5, <2>3, <3>2, <3>3, <3>5
    <3> QED  BY <3>4, <3>6
  <2>6. lim \in [D -> V]   BY <1>7
  <2> HIDE DEF lim, Upto
  <2>7. g[x][lim] = g[x][f]   BY <2>3, <2>5, <2>6
  <2> QED  BY <2>4, <2>7, <2>8
<1> HIDE DEF lim
<1> QED  BY <1>7, <1>8

---------------------------------------------------------------------------
(* Varints and the checksum.                                              *)

\* The scaled widths of the model.
LEMMA Widths == Group = 8 /\ Wide = 512 /\ MaxGroups = 3 /\ Byte = 0..15 /\ None = -1
BY DEF Group, Wide, MaxGroups, Byte, None

\* The recursion of _encode_varint unfolds.
LEMMA EncodeVarintUnfolds ==
    ASSUME NEW v \in 0..511
    PROVE  /\ v < 8 => EncodeVarint(v) = <<v>>
           /\ v >= 8 => EncodeVarint(v) = <<(v % 8) + 8>> \o EncodeVarint(v \div 8)
<1> DEFINE D == 0..511
           V == Seq(Int)
           E(f, x) == IF x < 8 THEN <<x>> ELSE <<(x % 8) + 8>> \o f[x \div 8]
           g == [x \in D |-> [f \in [D -> V] |-> E(f, x)]]
           m == [x \in D |-> x]
           enc == CHOOSE f : f = [x \in D |-> E(f, x)]
<1>1. \A x \in D : x >= 8 => x \div 8 \in D /\ x \div 8 < x   OBVIOUS
<1>2. \A x \in D, f \in [D -> V] : E(f, x) \in V
  <2> TAKE x \in D, f \in [D -> V]
  <2>1. CASE x < 8   BY <2>1
  <2>2. CASE x >= 8
    <3>1. f[x \div 8] \in V   BY ZenonT(40), <1>1, <2>2
    <3> QED  BY <2>2, <3>1
  <2> QED  BY <2>1, <2>2
<1>3. ASSUME NEW x \in D, NEW f1 \in [D -> V], NEW f2 \in [D -> V], \A y \in D : m[y] < m[x] => f1[y] = f2[y]
      PROVE  E(f1, x) = E(f2, x)
  <2>1. CASE x < 8   BY <2>1
  <2>2. CASE x >= 8
    <3>1. f1[x \div 8] = f2[x \div 8]   BY ZenonT(40), <1>1, <1>3, <2>2
    <3> QED  BY <3>1
  <2> QED  BY <2>1, <2>2
<1>4. V # {} /\ m \in [D -> Nat]
  <2>1. <<>> \in V   OBVIOUS
  <2>2. \A x \in D : x \in Nat   OBVIOUS
  <2>3. m \in [D -> Nat]   BY <2>2
  <2> QED  BY <2>1, <2>3
<1> HIDE DEF E
<1>5. g \in [D -> [[D -> V] -> V]]   BY ZenonT(40), <1>2
<1>6. Recursion(D, V, m, g)
  <2>1. \A x \in D, f1 \in [D -> V], f2 \in [D -> V] :
            (\A y \in D : m[y] < m[x] => f1[y] = f2[y]) => g[x][f1] = g[x][f2]
    <3> HIDE DEF m, D, V
    <3> QED  BY <1>3
  <2> HIDE DEF D, V, g, m
  <2> QED  BY <1>4, <1>5, <2>1 DEF Recursion
<1>7. \E f \in [D -> V] : \A x \in D : f[x] = g[x][f]
  <2> HIDE DEF D, V, g, m
  <2> QED  BY <1>6, RecursiveFunction
<1>8. \E f : f = [x \in D |-> E(f, x)]
  <2> HIDE DEF D, V
  <2> QED  BY <1>7
<1>9. enc = [x \in D |-> E(enc, x)]   BY Zenon, <1>8
<1> USE DEF E
<1>10. \A u \in D : EncodeVarint(u) = enc[u]   BY DEF EncodeVarint, Group, Wide
<1> HIDE DEF enc
<1>11. EncodeVarint(v) = enc[v]   BY <1>10
<1>12. v >= 8 => EncodeVarint(v \div 8) = enc[v \div 8]   BY <1>1, <1>10
<1>13. enc[v] = E(enc, v)   BY Zenon, <1>9
<1>14. CASE v < 8
  <2>1. EncodeVarint(v) = <<v>>   BY ONLY Zenon, <1>11, <1>13, <1>14
  <2>2. ~(v >= 8)   BY <1>14
  <2> QED  BY ONLY Zenon, <2>1, <2>2
<1>15. CASE ~(v < 8)
  <2>1. v >= 8   BY <1>15
  <2>2. EncodeVarint(v) = <<(v % 8) + 8>> \o enc[v \div 8]   BY ONLY Zenon, <1>11, <1>13, <1>15
  <2> QED  BY ONLY Zenon, <1>12, <1>15, <2>1, <2>2
<1> QED  BY ONLY Zenon, <1>14, <1>15

\* The bytes e are the varint of v: one to three groups, the lowest first, all but the
\* last with the continuation bit.
IsVarint(e, v) ==
    /\ e \in Seq(Byte)
    /\ \/ Len(e) = 1 /\ v \in 0..7 /\ e[1] = v
       \/ Len(e) = 2 /\ e[1] \in 8..15 /\ e[2] \in 0..7 /\ v = (e[1] - 8) + 8 * e[2]
       \/ Len(e) = 3 /\ e[1] \in 8..15 /\ e[2] \in 8..15 /\ e[3] \in 0..7
          /\ v = (e[1] - 8) + 8 * (e[2] - 8) + 64 * e[3]

\* f is the byte a followed by e.
Prefixed(f, a, e) == f \in Seq(Byte) /\ Len(f) = Len(e) + 1 /\ f[1] = a /\ \A i \in 1..Len(e) : f[i + 1] = e[i]

\* A byte may be put in front of bytes.
LEMMA Prepend ==
    ASSUME NEW a \in Byte, NEW s \in Seq(Byte)
    PROVE  Prefixed(<<a>> \o s, a, s)
<1>1. <<a>> \in Seq(Byte) /\ Len(<<a>>) = 1 /\ <<a>>[1] = a   OBVIOUS
<1>2. <<a>> \o s \in Seq(Byte) /\ Len(<<a>> \o s) = Len(s) + 1 /\ (<<a>> \o s)[1] = a
      /\ \A i \in 1..Len(s) : (<<a>> \o s)[i + 1] = s[i]
  BY <1>1, ConcatProperties
<1> QED  BY <1>2 DEF Prefixed

\* A number of one group is its own varint.
LEMMA VarintOne ==
    ASSUME NEW w \in 0..7
    PROVE  EncodeVarint(w) \in Seq(Byte) /\ Len(EncodeVarint(w)) = 1 /\ EncodeVarint(w)[1] = w
<1>1. w \in 0..511 /\ w < 8   OBVIOUS
<1>2. EncodeVarint(w) = <<w>>   BY Zenon, <1>1, EncodeVarintUnfolds
<1>3. w \in Byte   BY Widths
<1>4. <<w>> \in Seq(Byte) /\ Len(<<w>>) = 1 /\ <<w>>[1] = w   BY <1>3
<1> QED  BY <1>2, <1>4

\* A larger number begins with its lowest group and the continuation bit.
LEMMA VarintMore ==
    ASSUME NEW lo \in 0..7, NEW hi \in 1..63, NEW w \in 8..511, w = lo + 8 * hi, EncodeVarint(hi) \in Seq(Byte)
    PROVE  Prefixed(EncodeVarint(w), lo + 8, EncodeVarint(hi))
<1>2. w \in 0..511 /\ w >= 8 /\ w % 8 = lo /\ w \div 8 = hi   OBVIOUS
<1>3. EncodeVarint(w) = <<(w % 8) + 8>> \o EncodeVarint(w \div 8)   BY Zenon, <1>2, EncodeVarintUnfolds
<1>5. PICK a \in Byte : a = lo + 8   BY Widths
<1>4. EncodeVarint(w) = <<a>> \o EncodeVarint(hi)   BY <1>2, <1>3, <1>5
<1>6. Prefixed(<<a>> \o EncodeVarint(hi), a, EncodeVarint(hi))   BY Prepend
<1> QED  BY <1>4, <1>5, <1>6

\* A number of more than one group splits into its lowest group and the others.
LEMMA DigitsOf == \A w \in 8..511 : \E lo \in 0..7, hi \in 1..63 : w = lo + 8 * hi
<1> TAKE w \in 8..511
<1>1. w % 8 \in 0..7 /\ w \div 8 \in 1..63 /\ w = (w % 8) + 8 * (w \div 8)   OBVIOUS
<1> QED  BY <1>1

\* _encode_varint writes the varint of every number of the scaled width.
LEMMA EncodeVarintIs ==
    ASSUME NEW v \in 0..511
    PROVE  IsVarint(EncodeVarint(v), v)
<1>1. CASE v \in 0..7
  BY <1>1, VarintOne DEF IsVarint
<1>2. ASSUME NEW w \in 8..63
      PROVE  \E x \in 0..7, y \in 0..7 : /\ w = x + 8 * y /\ EncodeVarint(w) \in Seq(Byte)
                 /\ Len(EncodeVarint(w)) = 2 /\ EncodeVarint(w)[1] = x + 8 /\ EncodeVarint(w)[2] = y
  <2>1. w \in 8..511   OBVIOUS
  <2>2. PICK lo \in 0..7, hi \in 1..63 : w = lo + 8 * hi   BY <2>1, DigitsOf
  <2>3. hi \in 0..7   BY <2>2
  <2>4. PICK e : e = EncodeVarint(hi)   OBVIOUS
  <2>5. e \in Seq(Byte) /\ Len(e) = 1 /\ e[1] = hi   BY <2>3, <2>4, VarintOne
  <2>6. PICK f : f = EncodeVarint(w)   OBVIOUS
  <2>14. Prefixed(EncodeVarint(w), lo + 8, EncodeVarint(hi))   BY ZenonT(40), <2>1, <2>2, <2>4, <2>5, VarintMore
  <2>7. f \in Seq(Byte) /\ Len(f) = Len(e) + 1 /\ f[1] = lo + 8 /\ \A i \in 1..Len(e) : f[i + 1] = e[i]
    BY <2>4, <2>6, <2>14 DEF Prefixed
  <2>8. f[1 + 1] = e[1] /\ Len(f) = 2   BY <2>5, <2>7
  <2>9. f[2] = hi   BY <2>5, <2>8
  <2> QED  BY <2>2, <2>3, <2>7, <2>8, <2>9, <2>6
<1>3. CASE v \in 8..63
  <2>1. PICK x \in 0..7, y \in 0..7 : /\ v = x + 8 * y /\ EncodeVarint(v) \in Seq(Byte)
                 /\ Len(EncodeVarint(v)) = 2 /\ EncodeVarint(v)[1] = x + 8 /\ EncodeVarint(v)[2] = y
    BY <1>2, <1>3
  <2>2. PICK f : f = EncodeVarint(v)   OBVIOUS
  <2>3. f[1] \in 8..15 /\ f[2] \in 0..7 /\ v = (f[1] - 8) + 8 * f[2] /\ Len(f) = 2 /\ f \in Seq(Byte)   BY SMTT(40), <2>1, <2>2
  <2> QED  BY <2>2, <2>3 DEF IsVarint
<1>4. CASE v \in 64..511
  <2>1. v \in 8..511   BY <1>4
  <2>2. PICK lo \in 0..7, hi \in 1..63 : v = lo + 8 * hi   BY <2>1, DigitsOf
  <2>3. hi \in 8..63   BY <1>4, <2>2
  <2>4. PICK e : e = EncodeVarint(hi)   OBVIOUS
  <2>5. PICK x \in 0..7, y \in 0..7 : hi = x + 8 * y /\ e \in Seq(Byte) /\ Len(e) = 2 /\ e[1] = x + 8 /\ e[2] = y
    BY <1>2, <2>3, <2>4
  <2>6. PICK f : f = EncodeVarint(v)   OBVIOUS
  <2>14. Prefixed(EncodeVarint(v), lo + 8, EncodeVarint(hi))   BY ZenonT(40), <2>1, <2>2, <2>4, <2>5, VarintMore
  <2>7. f \in Seq(Byte) /\ Len(f) = Len(e) + 1 /\ f[1] = lo + 8 /\ \A i \in 1..Len(e) : f[i + 1] = e[i]
    BY <2>4, <2>6, <2>14 DEF Prefixed
  <2>8. f[1 + 1] = e[1] /\ f[2 + 1] = e[2] /\ Len(f) = 3   BY <2>5, <2>7
  <2>9. f[1] = lo + 8 /\ f[2] = x + 8 /\ f[3] = y   BY <2>5, <2>7, <2>8
  <2>10. v = lo + 8 * x + 64 * y   BY <2>2, <2>5
  <2>11. v = (f[1] - 8) + 8 * (f[2] - 8) + 64 * f[3]   BY <2>9, <2>10
  <2>12. f[1] \in 8..15 /\ f[2] \in 8..15 /\ f[3] \in 0..7   BY <2>9
  <2> QED  BY ZenonT(40), <2>7, <2>8, <2>11, <2>12, <2>6 DEF IsVarint
<1> QED  BY <1>1, <1>3, <1>4

\* The checksum is a byte, for bytes of any length.
LEMMA CrcType ==
    ASSUME NEW b \in Seq(Byte)
    PROVE  Crc(b) \in Byte
<1> DEFINE D == 0..Len(b)
           V == 0..15
           E(f, i) == IF i = 0 THEN 0 ELSE (f[i - 1] + i * b[i]) % 16
           g == [i \in D |-> [f \in [D -> V] |-> E(f, i)]]
           m == [i \in D |-> i]
           sum == CHOOSE f : f = [i \in D |-> E(f, i)]
<1>1. Len(b) \in Nat /\ \A i \in D : i # 0 => b[i] \in 0..15 /\ i \in 1..Len(b) /\ i - 1 \in D   BY Widths
<1>2. \A i \in D, f \in [D -> V] : E(f, i) \in V
  <2> TAKE i \in D, f \in [D -> V]
  <2>1. CASE i = 0   BY <2>1
  <2>2. CASE i # 0
    <3>6. i - 1 \in D /\ b[i] \in 0..15 /\ i \in Int   BY <1>1, <2>2
    <3>7. f[i - 1] \in V   BY <3>6
    <3>1. f[i - 1] \in 0..15 /\ b[i] \in 0..15 /\ i \in Int   BY <3>6, <3>7
    <3>2. i * b[i] \in Int   BY <3>1
    <3>3. \A x \in Int : x % 16 \in 0..15   OBVIOUS
    <3>4. f[i - 1] + i * b[i] \in Int
      <4>1. \A x \in 0..15, y \in Int : x + y \in Int   OBVIOUS
      <4> QED  BY <3>1, <3>2, <4>1
    <3>5. (f[i - 1] + i * b[i]) % 16 \in 0..15   BY <3>3, <3>4
    <3> QED  BY <2>2, <3>5
  <2> QED  BY <2>1, <2>2
<1>3. ASSUME NEW i \in D, NEW f1 \in [D -> V], NEW f2 \in [D -> V], \A y \in D : m[y] < m[i] => f1[y] = f2[y]
      PROVE  E(f1, i) = E(f2, i)
  <2>1. CASE i = 0   BY <2>1
  <2>2. CASE i # 0
    <3>1. f1[i - 1] = f2[i - 1]   BY <1>1, <1>3, <2>2
    <3> QED  BY <3>1
  <2> QED  BY <2>1, <2>2
<1>4. V # {} /\ m \in [D -> Nat]
  <2>1. 0 \in V   OBVIOUS
  <2>2. \A i \in D : i \in Nat   OBVIOUS
  <2>3. m \in [D -> Nat]   BY <2>2
  <2> QED  BY <2>1, <2>3
<1> HIDE DEF E
<1>5. g \in [D -> [[D -> V] -> V]]   BY <1>2
<1>6. Recursion(D, V, m, g)
  <2>1. \A x \in D, f1 \in [D -> V], f2 \in [D -> V] :
            (\A y \in D : m[y] < m[x] => f1[y] = f2[y]) => g[x][f1] = g[x][f2]
    <3> HIDE DEF m, D, V
    <3> QED  BY <1>3
  <2> HIDE DEF D, V, g, m
  <2> QED  BY <1>4, <1>5, <2>1 DEF Recursion
<1>7. \E f \in [D -> V] : \A x \in D : f[x] = g[x][f]
  <2> HIDE DEF D, V, g, m
  <2> QED  BY <1>6, RecursiveFunction
<1>8. \E f : f = [x \in D |-> E(f, x)]
  <2> HIDE DEF D, V
  <2> QED  BY <1>7
<1>9. sum = [x \in D |-> E(sum, x)]   BY <1>8
<1> USE DEF E
<1>10. Crc(b) = sum[Len(b)]   BY DEF Crc
<1> HIDE DEF sum
<1>11. \A i \in D : sum[i] \in V
  <2> DEFINE S == {k \in Nat : k \in D => sum[k] \in V}
  <2>1. 0 \in S   BY <1>9
  <2>2. ASSUME NEW k \in Nat, k \in S PROVE k + 1 \in S
    <3> SUFFICES ASSUME k + 1 \in D PROVE sum[k + 1] \in V   OBVIOUS
    <3>1. k \in D /\ b[k + 1] \in 0..15   BY <1>1
    <3>2. sum[k] \in 0..15   BY <2>2, <3>1
    <3>3. sum[k + 1] = (sum[k] + (k + 1) * b[k + 1]) % 16   BY <1>9
    <3>4. PICK y \in Int : y = (k + 1) * b[k + 1]   BY <3>1
    <3>5. \A x \in 0..15 : (x + y) % 16 \in 0..15   OBVIOUS
    <3> QED  BY <3>2, <3>3, <3>4, <3>5
  <2> HIDE DEF S
  <2>3. S \in SUBSET Nat   BY DEF S
  <2>4. Nat \subseteq S   BY <2>1, <2>2, <2>3, Induction
  <2> QED  BY <2>4, <1>1 DEF S
<1>12. sum[Len(b)] \in V   BY <1>1, <1>11
<1> QED  BY <1>10, <1>12, Widths

---------------------------------------------------------------------------
(* Frames.                                                                *)

\* Concatenation associates.
Associates(s, t, u) == (s \o t) \o u = s \o (t \o u)

\* What the concatenation of two sequences is, element by element.
LEMMA Concat ==
    ASSUME NEW T, NEW s \in Seq(T), NEW t \in Seq(T), NEW u, u = s \o t
    PROVE  /\ u \in Seq(T) /\ Len(u) = Len(s) + Len(t)
           /\ \A i \in 1..Len(s) : u[i] = s[i]
           /\ \A i \in 1..Len(t) : u[Len(s) + i] = t[i]
           /\ SubSeq(u, 1, Len(s)) = s /\ SubSeq(u, Len(s) + 1, Len(u)) = t
OBVIOUS

\* A whole frame: it begins with the magic and is as long as its header says.
WholeFrame(f) ==
    /\ f \in Seq(Byte) /\ Len(f) >= 5 /\ f[1] = 10 /\ f[2] = 11
    /\ Len(f) = 5 + 16 * f[3] + f[4]

\* u is s followed by t, both bytes.
Joined(u, s, t) ==
    /\ u = s \o t /\ u \in Seq(Byte) /\ Len(u) = Len(s) + Len(t)
    /\ \A i \in 1..Len(s) : u[i] = s[i]
    /\ \A i \in 1..Len(t) : u[Len(s) + i] = t[i]
    /\ SubSeq(u, 1, Len(s)) = s /\ SubSeq(u, Len(s) + 1, Len(u)) = t

\* The concatenation of bytes joins them.
LEMMA ConcatIs ==
    ASSUME NEW s \in Seq(Byte), NEW t \in Seq(Byte)
    PROVE  Joined(s \o t, s, t)
<1>1. PICK u : u = s \o t   OBVIOUS
<1>2. Joined(u, s, t)   BY <1>1, Concat DEF Joined
<1> QED  BY <1>1, <1>2

\* build_ble_pia_header: magic, the length in two bytes, the checksum.
LEMMA HeaderIs ==
    ASSUME NEW n \in 0..255, NEW c \in Byte
    PROVE  /\ Header(n, c) \in Seq(Byte) /\ Len(Header(n, c)) = 5
           /\ Header(n, c)[1] = 10 /\ Header(n, c)[2] = 11 /\ Header(n, c)[5] = c
           /\ n = 16 * Header(n, c)[3] + Header(n, c)[4]
           /\ SubSeq(Header(n, c), 1, 2) = Magic
<1>1. n \div 16 \in Byte /\ n % 16 \in Byte /\ n = 16 * (n \div 16) + (n % 16)   BY Widths
<1>2. PICK hi \in Byte, lo \in Byte : hi = n \div 16 /\ lo = n % 16 /\ n = 16 * hi + lo   BY <1>1
<1>3. Magic \in Seq(Byte) /\ Len(Magic) = 2 /\ Magic[1] = 10 /\ Magic[2] = 11   BY Widths DEF Magic
<1>4. PICK s : s = <<hi, lo>>   OBVIOUS
<1>5. s \in Seq(Byte) /\ Len(s) = 2 /\ s[1] = hi /\ s[2] = lo   BY <1>4
<1>6. PICK t : t = <<c>>   OBVIOUS
<1>7. t \in Seq(Byte) /\ Len(t) = 1 /\ t[1] = c   BY <1>6
<1>8. PICK u : u = Magic \o s   OBVIOUS
<1>9. /\ u \in Seq(Byte) /\ Len(u) = Len(Magic) + Len(s)
      /\ \A i \in 1..Len(Magic) : u[i] = Magic[i]
      /\ \A i \in 1..Len(s) : u[Len(Magic) + i] = s[i]
      /\ SubSeq(u, 1, Len(Magic)) = Magic
  <2>1. Magic \in Seq(Byte) /\ s \in Seq(Byte)   BY <1>3, <1>5
  <2>2. Joined(u, Magic, s)   BY <2>1, <1>8, ConcatIs
  <2> QED  BY <2>2 DEF Joined
<1>10. u[1] = Magic[1] /\ u[2] = Magic[2] /\ u[2 + 1] = s[1] /\ u[2 + 2] = s[2] /\ Len(u) = 4
  BY <1>3, <1>5, <1>9
<1>11. PICK h : h = u \o t   OBVIOUS
<1>12. /\ h \in Seq(Byte) /\ Len(h) = Len(u) + Len(t)
       /\ \A i \in 1..Len(u) : h[i] = u[i]
       /\ \A i \in 1..Len(t) : h[Len(u) + i] = t[i]
       /\ SubSeq(h, 1, Len(u)) = u
  <2>1. u \in Seq(Byte) /\ t \in Seq(Byte)   BY <1>7, <1>9
  <2>2. Joined(h, u, t)   BY <2>1, <1>11, ConcatIs
  <2> QED  BY <2>2 DEF Joined
<1>13. h[1] = u[1] /\ h[2] = u[2] /\ h[3] = u[3] /\ h[4] = u[4] /\ h[4 + 1] = t[1] /\ Len(h) = 5
  BY <1>7, <1>10, <1>12
<1>14. h = Header(n, c)   BY <1>2, <1>4, <1>6, <1>8, <1>11 DEF Header
<1>15. h[1] = 10 /\ h[2] = 11 /\ h[3] = hi /\ h[4] = lo /\ h[5] = c   BY <1>3, <1>5, <1>7, <1>10, <1>13
<1>16. SubSeq(h, 1, 2) = Magic
  <2>1. SubSeq(h, 1, 2) = SubSeq(u, 1, 2)   BY <1>12, <1>13, <1>10, <1>9
  <2> QED  BY <2>1, <1>3, <1>9
<1>17. n = 16 * h[3] + h[4]   BY SMTT(40), <1>2, <1>15
<1> QED  BY <1>12, <1>13, <1>14, <1>15, <1>16, <1>17

\* A frame that encode_ble_pia_frame builds is whole, and decode_ble_pia_frame gives its
\* payload back.
LEMMA FrameIs ==
    ASSUME NEW payload \in Seq(Byte), NEW n \in 0..255, n = Len(payload)
    PROVE  /\ WholeFrame(EncodeFrame(payload))
           /\ DecodeFrame(EncodeFrame(payload)) = [payload |-> payload, ok |-> TRUE]
<1>2. PICK c : c = Crc(Header(n, 0) \o payload)   BY SMTT(40)
<1>3. c \in Byte
  <2>1. 0 \in Byte   BY SMTT(40), Widths
  <2>2. PICK z : z = Header(n, 0)   OBVIOUS
  <2>3. z \in Seq(Byte)   BY Zenon, <2>1, <2>2, HeaderIs
  <2>5. PICK y : y = z \o payload   BY Zenon
  <2>4. y \in Seq(Byte)   BY Zenon, <2>3, <2>5, ConcatIs DEF Joined
  <2> QED  BY <1>2, <2>2, <2>4, <2>5, CrcType
<1>4. PICK h : h = Header(n, c)   OBVIOUS
<1>5. h \in Seq(Byte) /\ Len(h) = 5   BY Zenon, <1>3, <1>4, HeaderIs
<1>6. h[1] = 10 /\ h[2] = 11 /\ h[5] = c   BY Zenon, <1>3, <1>4, HeaderIs
<1>7. n = 16 * h[3] + h[4]   BY ZenonT(40), <1>3, <1>4, HeaderIs
<1>8. SubSeq(h, 1, 2) = Magic   BY Zenon, <1>3, <1>4, HeaderIs
<1>9. PICK f : f = h \o payload   BY Zenon
<1>10. EncodeFrame(payload) = f   BY <1>2, <1>4, <1>9 DEF EncodeFrame
<1>11. /\ f \in Seq(Byte) /\ Len(f) = Len(h) + Len(payload)
       /\ \A i \in 1..Len(h) : f[i] = h[i]
       /\ SubSeq(f, 1, Len(h)) = h /\ SubSeq(f, Len(h) + 1, Len(f)) = payload
  <2>1. h \in Seq(Byte)   BY SMTT(40), <1>5
  <2>2. Joined(f, h, payload)   BY SMTT(40), <2>1, <1>9, ConcatIs
  <2> QED  BY Zenon, <2>2 DEF Joined
<1>12. f[1] = h[1] /\ f[2] = h[2] /\ f[3] = h[3] /\ f[4] = h[4] /\ f[5] = h[5]   BY SMTT(40), <1>5, <1>11
<1>13. Len(f) = 5 + n   BY <1>5, <1>11
<1>14. n = 16 * f[3] + f[4]   BY <1>7, <1>12
<1>15. f[3] \in Byte /\ f[4] \in Byte
  <2>1. f \in Seq(Byte) /\ 3 \in 1..Len(f) /\ 4 \in 1..Len(f)   BY <1>11, <1>13
  <2> QED  BY SMTT(40), <2>1
<1>16. Len(f) = 5 + 16 * f[3] + f[4]
  <2>1. PICK x, y : x = f[3] /\ y = f[4]   BY SMTT(40)
  <2>2. x \in 0..15 /\ y \in 0..15   BY <1>15, <2>1, Widths
  <2>3. n = 16 * x + y   BY <1>14, <2>1
  <2>4. 5 + n = 5 + 16 * x + y   BY <2>2, <2>3
  <2> QED  BY SMTT(40), <1>13, <2>1, <2>4
<1>17. WholeFrame(f)
  <2>1. f \in Seq(Byte) /\ f[1] = 10 /\ f[2] = 11   BY <1>6, <1>11, <1>12
  <2>2. Len(f) >= 5   BY <1>13
  <2> QED  BY SMTT(40), <2>1, <2>2, <1>16 DEF WholeFrame
<1>18. SubSeq(f, 1, 2) = Magic
  <2>1. SubSeq(f, 1, 2) = SubSeq(h, 1, 2)   BY <1>5, <1>11, <1>13
  <2> QED  BY SMTT(40), <2>1, <1>8
<1>19. SubSeq(f, HeaderSize + 1, Len(f)) = payload   BY Zenon, <1>5, <1>11 DEF HeaderSize
<1>20. Len(payload) = 16 * f[3] + f[4]   BY SMTT(40), <1>14
<1>21. f[5] = Crc(Header(Len(payload), 0) \o payload)   BY <1>2, <1>6, <1>12
<1>22. Len(f) >= HeaderSize   BY <1>13 DEF HeaderSize
<1>23. DecodeFrame(f) = [payload |-> payload, ok |-> TRUE]
  BY <1>18, <1>19, <1>20, <1>21, <1>22 DEF DecodeFrame
<1> QED  BY SMTT(40), <1>10, <1>17, <1>23

---------------------------------------------------------------------------
(* Sizes.                                                                 *)

\* Bytes of a length between two numbers
Sized(b, min, max) == b \in Seq(Byte) /\ Len(b) >= min /\ Len(b) <= max

\* The sizes of bytes that are joined add up.
LEMMA SizedJoin ==
    ASSUME NEW s, NEW t, NEW a \in Nat, NEW b \in Nat, NEW c \in Nat, NEW d \in Nat, Sized(s, a, b), Sized(t, c, d)
    PROVE  Sized(s \o t, a + c, b + d)
<1>1. PICK u : u = s \o t   OBVIOUS
<1>2. s \in Seq(Byte) /\ t \in Seq(Byte)   BY DEF Sized
<1>3. Joined(u, s, t)   BY <1>1, <1>2, ConcatIs
<1>4. u \in Seq(Byte) /\ Len(u) = Len(s) + Len(t)   BY <1>3 DEF Joined
<1>5. PICK x \in Nat, y \in Nat : x = Len(s) /\ y = Len(t)   BY <1>2
<1>6. x >= a /\ x <= b /\ y >= c /\ y <= d   BY <1>5 DEF Sized
<1>7. x + y >= a + c /\ x + y <= b + d   BY <1>6
<1> QED  BY <1>1, <1>4, <1>5, <1>7 DEF Sized

\* Bounds on a size may be widened.
LEMMA SizedWider ==
    ASSUME NEW s, NEW a \in Nat, NEW b \in Nat, NEW c \in Nat, NEW d \in Nat, Sized(s, a, b), c <= a, b <= d
    PROVE  Sized(s, c, d)
<1>1. PICK x \in Nat : x = Len(s)   BY DEF Sized
<1>2. x >= a /\ x <= b   BY <1>1 DEF Sized
<1>3. x >= c /\ x <= d   BY <1>2
<1> QED  BY <1>1, <1>3 DEF Sized

\* No bytes.
LEMMA EmptySized == Sized(<<>>, 0, 0)
BY DEF Sized

\* The size of a varint.
LEMMA VarintSized ==
    ASSUME NEW v \in 0..511
    PROVE  Sized(EncodeVarint(v), 1, 3)
<1>1. PICK e : e = EncodeVarint(v)   OBVIOUS
<1>2. IsVarint(e, v)   BY <1>1, EncodeVarintIs
<1>3. e \in Seq(Byte) /\ (Len(e) = 1 \/ Len(e) = 2 \/ Len(e) = 3)   BY <1>2 DEF IsVarint
<1>5. PICK n : n = Len(e)   OBVIOUS
<1>6. n = 1 \/ n = 2 \/ n = 3   BY <1>3, <1>5
<1>7. n >= 1 /\ n <= 3   BY ONLY <1>6
<1>4. Len(e) >= 1 /\ Len(e) <= 3   BY <1>5, <1>7
<1> QED  BY <1>1, <1>3, <1>4 DEF Sized

\* The size of the key of a field.
LEMMA KeySized ==
    ASSUME NEW field \in 0..63, NEW type \in 0..7
    PROVE  Sized(Key(field, type), 1, 3)
<1>1. field * 8 + type \in 0..511   OBVIOUS
<1> QED  BY <1>1, VarintSized DEF Key

\* The size of a varint field.
LEMMA VarintFieldSized ==
    ASSUME NEW field \in 0..63, NEW v \in 0..511
    PROVE  Sized(VarintField(field, v), 2, 6)
<1>0. 0 \in 0..7   OBVIOUS
<1>1. Sized(Key(field, 0), 1, 3) /\ Sized(EncodeVarint(v), 1, 3)   BY Zenon, <1>0, KeySized, VarintSized
<1>2. Sized(Key(field, 0) \o EncodeVarint(v), 1 + 1, 3 + 3)   BY <1>1, SizedJoin
<1> QED  BY <1>2 DEF VarintField

\* The size of a field of bytes.
LEMMA BytesFieldSized ==
    ASSUME NEW field \in 0..63, NEW b, NEW m \in 0..511, NEW n \in 0..511, Sized(b, m, n)
    PROVE  Sized(BytesField(field, b), 2 + m, 6 + n)
<1>1. PICK x \in Nat : x = Len(b)   BY DEF Sized
<1>2. x <= n   BY <1>1 DEF Sized
<1>3. x \in 0..511   BY <1>2
<1>0. 2 \in 0..7   OBVIOUS
<1>4. Sized(Key(field, 2), 1, 3) /\ Sized(EncodeVarint(x), 1, 3)   BY Zenon, <1>0, <1>3, KeySized, VarintSized
<1>5. Sized(Key(field, 2) \o EncodeVarint(x), 1 + 1, 3 + 3)   BY <1>4, SizedJoin
<1>6. PICK h : h = Key(field, 2) \o EncodeVarint(x)   OBVIOUS
<1>7. Sized(h, 2, 6)   BY <1>5, <1>6
<1>8. Sized(h \o b, 2 + m, 6 + n)   BY <1>7, SizedJoin
<1> QED  BY <1>1, <1>6, <1>8 DEF BytesField

\* So does a push.
LEMMA PushSized == Sized(<<4>>, 1, 1) /\ Sized(BytesField(3, <<4>>), 0, 255)
<1>1. 4 \in Byte   BY Widths
<1>2. PICK b : b = <<4>>   OBVIOUS
<1>3. b \in Seq(Byte) /\ Len(b) = 1   BY <1>1, <1>2
<1>4. Sized(b, 1, 1)   BY <1>3 DEF Sized
<1>5. PICK c : c = BytesField(3, b)   OBVIOUS
<1>0. 3 \in 0..63 /\ 1 \in 0..511   OBVIOUS
<1>6. Sized(c, 2 + 1, 6 + 1)   BY ZenonT(40), <1>0, <1>4, <1>5, BytesFieldSized
<1>7. Sized(c, 3, 7)   BY <1>6
<1>8. Sized(c, 0, 255)   BY <1>7, SizedWider
<1> QED  BY <1>2, <1>4, <1>5, <1>8

\* A payload that fits a frame makes a whole one, and is decoded from it.
LEMMA FrameOf ==
    ASSUME NEW payload, Sized(payload, 0, 255)
    PROVE  /\ WholeFrame(EncodeFrame(payload))
           /\ DecodeFrame(EncodeFrame(payload)) = [payload |-> payload, ok |-> TRUE]
<1>1. PICK n \in Nat : n = Len(payload)   BY DEF Sized
<1>2. n <= 255   BY <1>1 DEF Sized
<1>3. n \in 0..255   BY <1>2
<1>4. payload \in Seq(Byte)   BY DEF Sized
<1> QED  BY Zenon, <1>1, <1>3, <1>4, FrameIs

---------------------------------------------------------------------------
(* Varints read back.                                                     *)

\* The values of the groups of a varint, from every byte of it on
Groups(b, at, last) ==
    CHOOSE f : f = [i \in at..(last + 1) |-> IF i > last THEN 0 ELSE (b[i] % Group) + Group * f[i + 1]]

\* The recursion of _decode_varint unfolds.
LEMMA GroupsUnfold ==
    ASSUME NEW b \in Seq(Byte), NEW at \in 1..Len(b), NEW last \in at..Len(b), NEW j \in at..(last + 1)
    PROVE  /\ Groups(b, at, last)[j] \in Nat
           /\ Groups(b, at, last)[j] = IF j > last THEN 0 ELSE (b[j] % 8) + 8 * Groups(b, at, last)[j + 1]
<1> DEFINE D == at..(last + 1)
           V == Nat
           E(f, i) == IF i > last THEN 0 ELSE (b[i] % 8) + 8 * f[i + 1]
           g == [i \in D |-> [f \in [D -> V] |-> E(f, i)]]
           m == [i \in D |-> last + 1 - i]
           val == Groups(b, at, last)
<1>1. Len(b) \in Nat /\ \A i \in D : i <= last => b[i] \in 0..15 /\ i + 1 \in D
  <2>1. \A i \in D : i <= last => i \in 1..Len(b)   OBVIOUS
  <2>2. \A i \in D : i <= last => b[i] \in 0..15   BY <2>1, Widths
  <2> QED  BY <2>2
<1>2. \A i \in D, f \in [D -> V] : E(f, i) \in V
  <2> TAKE i \in D, f \in [D -> V]
  <2>1. CASE i > last   BY <2>1
  <2>2. CASE ~(i > last)
    <3>1. f[i + 1] \in Nat /\ b[i] \in 0..15   BY <1>1, <2>2
    <3>2. \A x \in 0..15, y \in Nat : (x % 8) + 8 * y \in Nat   OBVIOUS
    <3>3. (b[i] % 8) + 8 * f[i + 1] \in Nat   BY ONLY <3>1, <3>2
    <3> QED  BY <2>2, <3>3
  <2> QED  BY <2>1, <2>2
<1>3. ASSUME NEW i \in D, NEW f1 \in [D -> V], NEW f2 \in [D -> V], \A y \in D : m[y] < m[i] => f1[y] = f2[y]
      PROVE  E(f1, i) = E(f2, i)
  <2>1. CASE i > last   BY <2>1
  <2>2. CASE ~(i > last)
    <3>1. f1[i + 1] = f2[i + 1]   BY <1>1, <1>3, <2>2
    <3> QED  BY <3>1
  <2> QED  BY <2>1, <2>2
<1>4. V # {} /\ m \in [D -> Nat]
  <2>2. \A i \in D : last + 1 - i \in Nat   OBVIOUS
  <2>3. m \in [D -> Nat]   BY <2>2
  <2> QED  BY <2>3
<1> HIDE DEF E
<1>5. g \in [D -> [[D -> V] -> V]]   BY <1>2
<1>6. Recursion(D, V, m, g)
  <2>1. \A x \in D, f1 \in [D -> V], f2 \in [D -> V] :
            (\A y \in D : m[y] < m[x] => f1[y] = f2[y]) => g[x][f1] = g[x][f2]
    <3> HIDE DEF m, D, V
    <3> QED  BY <1>3
  <2> HIDE DEF D, V, g, m
  <2> QED  BY <1>4, <1>5, <2>1 DEF Recursion
<1>7. \E f \in [D -> V] : \A x \in D : f[x] = g[x][f]
  <2> HIDE DEF D, V, g, m
  <2> QED  BY <1>6, RecursiveFunction
<1>8. \E f \in [D -> V] : f = [x \in D |-> E(f, x)]
  <2> HIDE DEF D, V
  <2> QED  BY <1>7
<1>9. val = CHOOSE f : f = [x \in D |-> E(f, x)]   BY DEF Groups, Group, E
<1> HIDE DEF val
<1>10. val = [x \in D |-> E(val, x)]   BY <1>8, <1>9
<1>13. \A x \in D : val[x] = E(val, x)   BY <1>10
<1>11. \A n \in Nat : last + 1 - n \in D => val[last + 1 - n] \in Nat
  <2> DEFINE S == {n \in Nat : last + 1 - n \in D => val[last + 1 - n] \in Nat}
  <2>1. 0 \in S
    <3>1. last + 1 \in D /\ last + 1 > last /\ last + 1 - 0 = last + 1   OBVIOUS
    <3>2. val[last + 1] = 0   BY <1>13, <3>1 DEF E
    <3> QED  BY <3>1, <3>2
  <2>2. ASSUME NEW n \in Nat, n \in S PROVE n + 1 \in S
    <3> SUFFICES ASSUME last + 1 - (n + 1) \in D PROVE val[last + 1 - (n + 1)] \in Nat   OBVIOUS
    <3>1. PICK i \in D : i = last + 1 - (n + 1)   OBVIOUS
    <3>2. i <= last /\ ~(i > last) /\ i + 1 = last + 1 - n   BY <3>1
    <3>3. b[i] \in 0..15 /\ i + 1 \in D   BY <1>1, <3>2
    <3>4. val[i + 1] \in Nat   BY <2>2, <3>2, <3>3
    <3>5. val[i] = (b[i] % 8) + 8 * val[i + 1]   BY <1>13, <3>2 DEF E
    <3>6. \A x \in 0..15, y \in Nat : (x % 8) + 8 * y \in Nat   OBVIOUS
    <3>7. val[i] \in Nat   BY ONLY <3>3, <3>4, <3>5, <3>6
    <3> QED  BY <3>1, <3>7
  <2> HIDE DEF S
  <2>3. S \in SUBSET Nat   BY DEF S
  <2>4. Nat \subseteq S   BY <2>1, <2>2, <2>3, Induction
  <2> QED  BY <2>4 DEF S
<1>12. val[j] \in Nat
  <2>1. PICK n \in Nat : n = last + 1 - j   OBVIOUS
  <2>2. last + 1 - n = j   BY <2>1
  <2> QED  BY <1>11, <2>2
<1>14. val[j] = IF j > last THEN 0 ELSE (b[j] % 8) + 8 * val[j + 1]   BY <1>13 DEF E
<1> QED  BY <1>12, <1>14 DEF val

\* A least element is the minimum.
LEMMA MinimumIs ==
    ASSUME NEW S \in SUBSET Nat, NEW n \in S, \A k \in S : n <= k
    PROVE  Min(S) = n
<1>1. Min(S) = CHOOSE i \in S : \A k \in S : i <= k   BY DEF Min
<1>2. Min(S) \in S /\ \A k \in S : Min(S) <= k   BY <1>1
<1>3. PICK m \in Nat : m = Min(S)   BY <1>2
<1>4. n \in Nat /\ m <= n /\ n <= m   BY <1>2, <1>3
<1>5. m = n   BY ONLY <1>4, m \in Nat
<1> QED  BY <1>3, <1>5

\* A set of naturals has a minimum.
LEMMA MinimumOf ==
    ASSUME NEW S \in SUBSET Nat, S # {}
    PROVE  Min(S) \in S /\ \A k \in S : Min(S) <= k
<1>1. PICK n \in S : \A k \in S : n <= k   BY LeastNat
<1> QED  BY <1>1, MinimumIs

\* Where a varint ends.
LEMMA VarintEndIs ==
    ASSUME NEW b \in Seq(Byte), NEW at \in 1..(Len(b) + 1)
    PROVE  VarintEnd(b, at) = None \/ VarintEnd(b, at) \in at..Len(b)
<1> DEFINE ends == {i \in at..Len(b) : b[i] < Group}
<1>1. CASE ends = {}   BY <1>1 DEF VarintEnd
<1>2. CASE ends # {}
  <2>1. ends \in SUBSET Nat   OBVIOUS
  <2>2. Min(ends) \in ends   BY <1>2, <2>1, MinimumOf
  <2>3. VarintEnd(b, at) = Min(ends)   BY <1>2 DEF VarintEnd
  <2> QED  BY <2>2, <2>3
<1> QED  BY <1>1, <1>2

\* A varint that begins at a place
LEMMA VarintIs ==
    ASSUME NEW b \in Seq(Byte), NEW at \in 1..(Len(b) + 1), NEW strict \in BOOLEAN, NEW r, r = Varint(b, at, strict)
    PROVE  /\ r.value \in Nat /\ r.next \in at..(Len(b) + 1) /\ r.ok \in BOOLEAN
           /\ at <= Len(b) => r.next \in (at + 1)..(Len(b) + 1)
<1>1. PICK end : end = VarintEnd(b, at)   OBVIOUS
<1>2. end = None \/ end \in at..Len(b)   BY <1>1, VarintEndIs
<1>3. PICK last : last = IF end = None THEN Len(b) ELSE end   OBVIOUS
<1>0. Len(b) \in Nat   OBVIOUS
<1>4. last \in (at - 1)..Len(b) /\ (at <= Len(b) => last \in at..Len(b))   BY <1>0, <1>2, <1>3, Widths
<1>5. r.value = (IF at > Len(b) THEN 0 ELSE Groups(b, at, last)[at]) /\ r.next = last + 1
  BY <1>1, <1>3 DEF Varint, VarintUpTo, Groups
<1>6. r.ok \in BOOLEAN
  <2>1. r.ok = Accepted(at, end, strict)   BY <1>1 DEF Varint, VarintUpTo
  <2>2. Accepted(at, end, strict) \in BOOLEAN   BY DEF Accepted
  <2> QED  BY <2>1, <2>2
<1>7. r.value \in Nat
  <2>1. CASE at > Len(b)   BY <1>5, <2>1
  <2>2. CASE at <= Len(b)
    <3>1. at \in 1..Len(b) /\ last \in at..Len(b) /\ at \in at..(last + 1) /\ ~(at > Len(b))   BY <1>0, <1>4, <2>2
    <3> QED  BY <1>5, <3>1, GroupsUnfold
  <2> QED  BY <1>0, <2>1, <2>2
<1>8. last + 1 \in at..(Len(b) + 1) /\ (at <= Len(b) => last + 1 \in (at + 1)..(Len(b) + 1))   BY <1>0, <1>4
<1> QED  BY <1>5, <1>6, <1>7, <1>8

\* Bytes that are those of a sequence from a place on
Sits(u, f, p) ==
    /\ u \in Seq(Byte) /\ f \in Seq(Byte) /\ p \in 1..(Len(u) + 1) /\ p + Len(f) <= Len(u) + 1
    /\ \A k \in 1..Len(f) : u[p + k - 1] = f[k]

\* A varint by its length.
LEMMA VarintShape ==
    ASSUME NEW e, NEW v, IsVarint(e, v), NEW n, n = Len(e)
    PROVE  /\ e \in Seq(Byte) /\ (n = 1 \/ n = 2 \/ n = 3)
           /\ \A k \in 1..n : e[k] \in 0..15 /\ (k < n => e[k] >= 8) /\ (k = n => e[k] < 8)
           /\ n = 1 => v = e[1]
           /\ n = 2 => v = (e[1] - 8) + 8 * e[2]
           /\ n = 3 => v = (e[1] - 8) + 8 * (e[2] - 8) + 64 * e[3]
<1>1. e \in Seq(Byte)   BY DEF IsVarint
<1>2. CASE n = 1 /\ v \in 0..7 /\ e[1] = v
  <2>1. 1..n = {1}   BY <1>2
  <2> QED  BY <1>1, <1>2, <2>1
<1>3. CASE n = 2 /\ e[1] \in 8..15 /\ e[2] \in 0..7 /\ v = (e[1] - 8) + 8 * e[2]
  <2>1. \A k \in 1..n : k = 1 \/ k = 2   BY <1>3
  <2>2. \A k \in 1..n : e[k] \in 0..15 /\ (k < n => e[k] >= 8) /\ (k = n => e[k] < 8)   BY <1>3, <2>1
  <2> QED  BY <1>1, <1>3, <2>2
<1>4. CASE n = 3 /\ e[1] \in 8..15 /\ e[2] \in 8..15 /\ e[3] \in 0..7
           /\ v = (e[1] - 8) + 8 * (e[2] - 8) + 64 * e[3]
  <2>1. \A k \in 1..n : k = 1 \/ k = 2 \/ k = 3   BY <1>4
  <2>2. \A k \in 1..n : e[k] \in 0..15 /\ (k < n => e[k] >= 8) /\ (k = n => e[k] < 8)   BY <1>4, <2>1
  <2> QED  BY <1>1, <1>4, <2>2
<1> QED  BY <1>2, <1>3, <1>4 DEF IsVarint

\* A varint within bytes ends with its own last byte, whatever follows.
LEMMA VarintEndInPlace ==
    ASSUME NEW u, NEW p, NEW e, NEW v, IsVarint(e, v), Sits(u, e, p)
    PROVE  VarintEnd(u, p) = p + Len(e) - 1 /\ p + Len(e) - 1 \in p..Len(u)
<1>1. PICK n : n = Len(e)   OBVIOUS
<1>2. /\ e \in Seq(Byte) /\ (n = 1 \/ n = 2 \/ n = 3)
      /\ \A k \in 1..n : e[k] \in 0..15 /\ (k < n => e[k] >= 8) /\ (k = n => e[k] < 8)
  BY <1>1, VarintShape
<1>3. PICK z \in Nat : z = Len(u)   BY DEF Sits
<1>4. p \in 1..(z + 1) /\ p + n <= z + 1   BY <1>1, <1>3 DEF Sits
<1>5. \A k \in 1..n : u[p + k - 1] = e[k]   BY <1>1 DEF Sits
<1>6. PICK end : end = p + n - 1   OBVIOUS
<1>7. end \in p..z /\ n \in 1..n /\ n \in Nat   BY <1>2, <1>4, <1>6
<1> DEFINE ends == {i \in p..Len(u) : u[i] < Group}
<1>8. end \in ends
  <2>1. u[p + n - 1] = e[n] /\ e[n] < 8   BY <1>2, <1>5, <1>7
  <2> QED  BY <1>3, <1>6, <1>7, <2>1, Widths
<1>9. ASSUME NEW i \in ends PROVE end <= i
  <2> SUFFICES ASSUME i < end PROVE FALSE   BY <1>3, <1>7
  <2>1. PICK k \in 1..n : k < n /\ p + k - 1 = i
    <3>1. i - p + 1 \in 1..n /\ i - p + 1 < n /\ p + (i - p + 1) - 1 = i   BY <1>3, <1>4, <1>6, <1>7
    <3> QED  BY <3>1
  <2>2. u[i] = e[k] /\ e[k] >= 8 /\ e[k] \in 0..15   BY <1>2, <1>5, <2>1
  <2>3. u[i] < 8   BY Widths
  <2> QED  BY SMTT(40), <2>2, <2>3
<1>10. ends \in SUBSET Nat   BY <1>4
<1>11. VarintEnd(u, p) = Min(ends)   BY <1>8 DEF VarintEnd
<1>12. Min(ends) = end
  <2> HIDE DEF ends
  <2> QED  BY <1>8, <1>9, <1>10, MinimumIs
<1> QED  BY <1>1, <1>3, <1>6, <1>7, <1>11, <1>12

\* A varint that is read at a place, and where what follows begins
ReadsTo(u, p, strict, v, q) ==
    /\ Varint(u, p, strict).value = v /\ Varint(u, p, strict).next = q /\ Varint(u, p, strict).ok = TRUE
    /\ p \in 1..Len(u)

\* A varint within bytes is read back, by the strict decoder and by the other.
LEMMA VarintReads ==
    ASSUME NEW u, NEW p, NEW e, NEW v, IsVarint(e, v), Sits(u, e, p), NEW strict \in BOOLEAN
    PROVE  ReadsTo(u, p, strict, v, p + Len(e))
<1>0. PICK r : r = Varint(u, p, strict)   OBVIOUS
<1>1. PICK n : n = Len(e)   OBVIOUS
<1>2. /\ (n = 1 \/ n = 2 \/ n = 3)
      /\ \A k \in 1..n : e[k] \in 0..15 /\ (k < n => e[k] >= 8) /\ (k = n => e[k] < 8)
      /\ n = 1 => v = e[1]
      /\ n = 2 => v = (e[1] - 8) + 8 * e[2]
      /\ n = 3 => v = (e[1] - 8) + 8 * (e[2] - 8) + 64 * e[3]
  BY SMTT(40), <1>1, VarintShape
<1>3. PICK z \in Nat : z = Len(u)   BY DEF Sits
<1>4. u \in Seq(Byte) /\ p \in 1..(z + 1) /\ \A k \in 1..n : u[p + k - 1] = e[k]   BY <1>1, <1>3 DEF Sits
<1>5. PICK last : last = p + n - 1   OBVIOUS
<1>6. VarintEnd(u, p) = last /\ last \in p..z   BY <1>1, <1>3, <1>5, VarintEndInPlace
<1>7. p \in 1..z /\ last \in Nat /\ last # None /\ last + 1 = p + n   BY <1>2, <1>4, <1>5, <1>6, Widths
<1>8. r = VarintUpTo(u, p, last, strict)   BY <1>0, <1>6 DEF Varint
<1>9. r.value = Groups(u, p, last)[p] /\ r.next = last + 1
  <2>1. ~(p > z)   BY <1>7
  <2> QED  BY <1>3, <1>7, <1>8, <2>1 DEF VarintUpTo, Groups
<1>10. r.ok = TRUE
  <2>1. last - p < MaxGroups   BY <1>2, <1>4, <1>5, Widths
  <2>2. Accepted(p, last, strict) = TRUE   BY <1>7, <2>1 DEF Accepted
  <2>3. r.ok = Accepted(p, last, strict)   BY <1>8 DEF VarintUpTo
  <2> QED  BY <2>2, <2>3
<1>11. \A j \in p..(last + 1) : /\ Groups(u, p, last)[j] \in Nat
           /\ Groups(u, p, last)[j] = IF j > last THEN 0 ELSE (u[j] % 8) + 8 * Groups(u, p, last)[j + 1]
  <2>1. p \in 1..Len(u) /\ last \in p..Len(u)   BY <1>3, <1>6, <1>7
  <2> QED  BY <1>4, <2>1, GroupsUnfold
<1>12. PICK G : G = Groups(u, p, last)   OBVIOUS
<1>13. \A j \in p..(last + 1) : G[j] = IF j > last THEN 0 ELSE (u[j] % 8) + 8 * G[j + 1]   BY <1>11, <1>12
<1>14. G[last + 1] = 0
  <2>1. last + 1 \in p..(last + 1) /\ last + 1 > last   BY ONLY <1>6, <1>7
  <2> QED  BY <1>13, <2>1
<1>15. \A k \in 1..n : G[p + k - 1] = (e[k] % 8) + 8 * G[p + k]
  <2> TAKE k \in 1..n
  <2>1. PICK j \in p..(last + 1) : j = p + k - 1 /\ ~(j > last) /\ j + 1 = p + k   BY <1>4, <1>5, <1>2
  <2>2. G[j] = (u[j] % 8) + 8 * G[j + 1] /\ u[j] = e[k]   BY <1>4, <1>13, <2>1
  <2> QED  BY <2>1, <2>2
<1>16. p \in Nat   BY <1>4
<1>17. G[p] = v
  <2>1. CASE n = 1
    <3>1. 1 \in 1..n /\ p + 1 - 1 = p /\ last + 1 = p + 1   BY <1>7, <1>16, <2>1
    <3>2. G[p] = (e[1] % 8) + 8 * 0   BY <1>14, <1>15, <3>1
    <3>3. e[1] \in 0..7   BY <1>2, <2>1, <3>1
    <3>4. G[p] = e[1]   BY ONLY <3>2, <3>3
    <3> QED  BY <1>2, <2>1, <3>4
  <2>2. CASE n = 2
    <3>1. 1 \in 1..n /\ 2 \in 1..n /\ p + 1 - 1 = p /\ p + 2 - 1 = p + 1 /\ last + 1 = p + 2   BY <1>7, <1>16, <2>2
    <3>2. G[p + 1] = (e[2] % 8) + 8 * 0   BY <1>14, <1>15, <3>1
    <3>3. G[p] = (e[1] % 8) + 8 * G[p + 1]   BY <1>15, <3>1
    <3>4. PICK x \in 8..15, y \in 0..7 : x = e[1] /\ y = e[2]   BY <1>2, <2>2, <3>1
    <3>5. G[p + 1] = y   BY ONLY <3>2, <3>4
    <3>6. G[p] = (x - 8) + 8 * y   BY ONLY <3>3, <3>4, <3>5
    <3> QED  BY <1>2, <2>2, <3>4, <3>6
  <2>3. CASE n = 3
    <3>1. /\ 1 \in 1..n /\ 2 \in 1..n /\ 3 \in 1..n
          /\ p + 1 - 1 = p /\ p + 2 - 1 = p + 1 /\ p + 3 - 1 = p + 2 /\ last + 1 = p + 3
      BY <1>7, <1>16, <2>3
    <3>2. G[p + 2] = (e[3] % 8) + 8 * 0   BY <1>14, <1>15, <3>1
    <3>3. G[p + 1] = (e[2] % 8) + 8 * G[p + 2] /\ G[p] = (e[1] % 8) + 8 * G[p + 1]   BY <1>15, <3>1
    <3>4. PICK x \in 8..15, y \in 8..15, w \in 0..7 : x = e[1] /\ y = e[2] /\ w = e[3]   BY <1>2, <2>3, <3>1
    <3>5. G[p + 2] = w   BY ONLY <3>2, <3>4
    <3>8. x % 8 = x - 8 /\ y % 8 = y - 8   OBVIOUS
    <3>9. G[p + 1] = (y % 8) + 8 * w   BY ONLY <3>3, <3>4, <3>5
    <3>6. G[p + 1] = (y - 8) + 8 * w   BY ONLY <3>8, <3>9
    <3>10. G[p] = (x % 8) + 8 * ((y - 8) + 8 * w)   BY ONLY <3>3, <3>4, <3>6
    <3>11. 8 * ((y - 8) + 8 * w) = 8 * (y - 8) + 64 * w   BY ONLY y \in 8..15, w \in 0..7
    <3>12. G[p] = (x - 8) + 8 * ((y - 8) + 8 * w)   BY ONLY <3>8, <3>10
    <3>13. (x - 8) + 8 * ((y - 8) + 8 * w) = (x - 8) + 8 * (y - 8) + 64 * w   BY ONLY <3>11, x \in 8..15, y \in 8..15, w \in 0..7
    <3>7. G[p] = (x - 8) + 8 * (y - 8) + 64 * w   BY ONLY <3>12, <3>13
    <3> QED  BY <1>2, <2>3, <3>4, <3>7
  <2> QED  BY <1>2, <2>1, <2>2, <2>3
<1>18. r.value = v /\ r.next = p + Len(e)   BY ONLY <1>1, <1>7, <1>9, <1>12, <1>17
<1>19. p \in 1..Len(u)   BY ONLY <1>3, <1>7
<1> QED  BY ONLY <1>0, <1>10, <1>18, <1>19 DEF ReadsTo

---------------------------------------------------------------------------
(* Fields read back.  Carries(b, fs) says that the parser, strict or not, *)
(* reads the fields fs wherever the bytes b are.                          *)

\* A field of a message.
FieldType == [field : Nat, type : Nat, num : Nat, bytes : Seq(Byte)]

\* What a field that begins at a place may be
FieldAt(f, b, at) ==
    /\ f.field \in FieldType /\ f.ok \in BOOLEAN
    /\ f.ok => f.next \in (at + 1)..(Len(b) + 1) /\ Len(f.field.bytes) < Len(b)

\* Part of bytes.
LEMMA PartBytes ==
    ASSUME NEW b \in Seq(Byte), NEW x \in 1..(Len(b) + 1), NEW y \in x..(Len(b) + 1)
    PROVE  SubSeq(b, x, y - 1) \in Seq(Byte) /\ Len(SubSeq(b, x, y - 1)) = y - x
<1>1. PICK z \in Nat : z = Len(b)   OBVIOUS
<1>2. PICK w \in Nat : w = y - 1   BY <1>1
<1>3. w \in (x - 1)..z /\ x \in 1..(z + 1) /\ w - x + 1 = y - x   BY <1>1, <1>2
<1>4. CASE x = w + 1
  <2>1. SubSeq(b, x, w) = <<>>   BY <1>4, SubSeqProperties
  <2>2. y - x = 0   BY <1>3, <1>4
  <2> QED  BY <1>2, <2>1, <2>2
<1>5. CASE x <= w
  <2>1. x \in 1..Len(b) /\ w \in x..Len(b)   BY <1>1, <1>3, <1>5
  <2>2. SubSeq(b, x, w) \in Seq(Byte) /\ Len(SubSeq(b, x, w)) = w - x + 1
    <3>1. \A i \in x..w : b[i] \in Byte   BY <2>1
    <3>2. w >= x - 1   BY <1>3
    <3>3. x \in Int /\ w \in Int   BY <1>3
    <3> QED  BY <3>1, <2>1, SubSeqProperties
  <2> QED  BY <1>2, <1>3, <2>2
<1> QED  BY <1>3, <1>4, <1>5

\* Whatever the bytes, a field that is read lies within them and ends further on: the
\* parser never reads beyond the end and always advances.
LEMMA ParseFieldIs ==
    ASSUME NEW b \in Seq(Byte), NEW at \in 1..Len(b), NEW strict \in BOOLEAN
    PROVE  FieldAt(ParseField(b, at, strict), b, at)
<1>1. PICK key, arg : key = Varint(b, at, strict) /\ arg = Varint(b, key.next, strict)   OBVIOUS
<1>2. PICK z \in Nat : z = Len(b)   OBVIOUS
<1>3. at \in 1..(z + 1) /\ at <= z /\ at \in 1..z   BY <1>2
<1>4. key.value \in Nat /\ key.next \in (at + 1)..(z + 1)   BY <1>1, <1>2, <1>3, VarintIs
<1>5. PICK k \in Nat, kv \in Nat : k = key.next /\ kv = key.value   BY <1>3, <1>4
<1>6. k \in (at + 1)..(z + 1) /\ k \in 1..(z + 1)   BY <1>3, <1>4, <1>5
<1>7. arg.value \in Nat /\ arg.next \in k..(z + 1)   BY <1>1, <1>2, <1>5, <1>6, VarintIs
<1>8. PICK a \in Nat, av \in Nat : a = arg.next /\ av = arg.value   BY <1>6, <1>7
<1>9. a \in (at + 1)..(z + 1) /\ a >= k   BY <1>3, <1>6, <1>7, <1>8
<1>10. PICK n \in Nat, type \in Nat : n = kv \div 8 /\ type = kv % 8
  <2>1. kv \div 8 \in Nat /\ kv % 8 \in Nat   OBVIOUS
  <2> QED  BY <2>1
<1>11. PICK end \in Nat : end = a + av   OBVIOUS
<1>12. PICK f : f = ParseField(b, at, strict)   OBVIOUS
<1>13. CASE key.ok /\ type = 0 /\ arg.ok
  <2>1. f = Read(n, type, av, <<>>, a)   BY SMTT(40), <1>1, <1>5, <1>8, <1>10, <1>12, <1>13 DEF ParseField, FieldOf
  <2>2. Len(<<>>) = 0 /\ <<>> \in Seq(Byte) /\ 0 < z   BY <1>3
  <2>3. f.field = Field(n, type, av, <<>>) /\ f.ok = TRUE /\ f.next = a   BY <2>1 DEF Read
  <2>4. f.field \in FieldType /\ f.field.bytes = <<>>   BY <2>2, <2>3 DEF Field, FieldType
  <2> QED  BY <1>2, <1>9, <1>12, <2>2, <2>3, <2>4 DEF FieldAt
<1>14. CASE key.ok /\ type = 2 /\ arg.ok /\ end - 1 <= Len(b)
  <2>a. arg.next + arg.value = end /\ key.value \div 8 = n /\ key.value % 8 = type   BY <1>5, <1>8, <1>10, <1>11
  <2>b. ~(key.value % 8 = 0) /\ key.value % 8 = 2 /\ (arg.next + arg.value) - 1 <= Len(b)   BY <1>14, <2>a
  <2>d. ~(key.value % 8 \in DOMAIN FixedWidth)   BY <2>b DEF FixedWidth
  <2>e. PICK s : s = SubSeq(b, arg.next, (arg.next + arg.value) - 1)   OBVIOUS
  <2>f. f = Read(key.value \div 8, key.value % 8, 0, s, arg.next + arg.value)
    BY ONLY <1>1, <1>12, <1>14, <2>b, <2>d, <2>e, Zenon DEF ParseField, FieldOf
  <2>c. f = Read(key.value \div 8, key.value % 8, 0, SubSeq(b, arg.next, (arg.next + arg.value) - 1), arg.next + arg.value)
    BY <2>e, <2>f
  <2>1. f = Read(n, type, 0, SubSeq(b, a, end - 1), end)   BY ONLY <1>8, <2>a, <2>c
  <2>2. a \in 1..(z + 1) /\ end \in a..(z + 1) /\ end \in (at + 1)..(z + 1) /\ end - a < z
    BY <1>2, <1>3, <1>9, <1>11, <1>14
  <2>3. PICK part : part = SubSeq(b, a, end - 1)   OBVIOUS
  <2>4. part \in Seq(Byte) /\ Len(part) = end - a   BY <1>2, <2>2, <2>3, PartBytes
  <2>5. f.field = Field(n, type, 0, part) /\ f.ok = TRUE /\ f.next = end   BY <2>1, <2>3 DEF Read
  <2>6. f.field \in FieldType /\ f.field.bytes = part   BY <2>4, <2>5 DEF Field, FieldType
  <2>7. Len(f.field.bytes) < Len(b)   BY <1>2, <2>2, <2>4, <2>6
  <2> QED  BY <1>2, <1>12, <2>2, <2>5, <2>6, <2>7 DEF FieldAt
<1>15. CASE key.ok /\ type \in DOMAIN FixedWidth /\ k + FixedWidth[type] - 1 <= Len(b)
  <2>1. type \in {1, 5}   BY <1>15 DEF FixedWidth
  <2>2. f = Read(n, type, b[k], <<>>, k + FixedWidth[type])
    BY <1>1, <1>5, <1>8, <1>10, <1>11, <1>12, <1>15, <2>1 DEF ParseField, FieldOf
  <2>3. FixedWidth[type] = 1 \/ FixedWidth[type] = 2   BY <2>1 DEF FixedWidth
  <2>4. PICK w \in Nat : w = FixedWidth[type] /\ (w = 1 \/ w = 2)   BY <2>3
  <2>5. k \in 1..z /\ k + w \in (at + 1)..(z + 1)   BY <1>2, <1>3, <1>6, <1>15, <2>4
  <2>6. b[k] \in Nat
    <3>1. b[k] \in Byte   BY <1>2, <2>5
    <3> QED  BY SMTT(40), <3>1, Widths
  <2>7. Len(<<>>) = 0 /\ <<>> \in Seq(Byte) /\ 0 < z   BY <1>3
  <2>8. f.field = Field(n, type, b[k], <<>>) /\ f.ok = TRUE /\ f.next = k + w   BY <2>2, <2>4 DEF Read
  <2>9. f.field \in FieldType /\ f.field.bytes = <<>>   BY <2>6, <2>7, <2>8 DEF Field, FieldType
  <2> QED  BY <1>2, <1>12, <2>5, <2>7, <2>8, <2>9 DEF FieldAt
<1>16. CASE f = Refused
  <2>1. f.ok = FALSE /\ f.field = Field(0, 0, 0, <<>>)   BY <1>16 DEF Refused
  <2>2. f.field \in FieldType   BY <2>1 DEF Field, FieldType
  <2> QED  BY <1>12, <2>1, <2>2 DEF FieldAt
<1>17. \/ key.ok /\ type = 0 /\ arg.ok
       \/ key.ok /\ type = 2 /\ arg.ok /\ end - 1 <= Len(b)
       \/ key.ok /\ type \in DOMAIN FixedWidth /\ k + FixedWidth[type] - 1 <= Len(b)
       \/ f = Refused
  BY <1>1, <1>5, <1>8, <1>10, <1>11, <1>12 DEF ParseField, FieldOf
<1> QED  BY <1>13, <1>14, <1>15, <1>16, <1>17

\* One turn of the parser: f gives the fields that follow.
ParseStep(f, b, at, strict) ==
    IF at > Len(b) THEN [fields |-> <<>>, ok |-> TRUE]
    ELSE IF ~ParseField(b, at, strict).ok THEN [fields |-> <<>>, ok |-> FALSE]
    ELSE [fields |-> <<ParseField(b, at, strict).field>> \o f[ParseField(b, at, strict).next].fields,
          ok |-> f[ParseField(b, at, strict).next].ok]
\* What the parser yields.
Parsed == [fields : Seq(FieldType), ok : BOOLEAN]

\* One turn of the parser keeps its types.
LEMMA ParseStepType ==
    ASSUME NEW b \in Seq(Byte), NEW at \in 1..(Len(b) + 1), NEW strict \in BOOLEAN, NEW f \in [1..(Len(b) + 1) -> Parsed]
    PROVE  ParseStep(f, b, at, strict) \in Parsed
<1>1. <<>> \in Seq(FieldType)   OBVIOUS
<1>2. CASE at > Len(b)   BY <1>1, <1>2 DEF ParseStep, Parsed
<1>3. CASE ~(at > Len(b))
  <2>1. at \in 1..Len(b)   BY <1>3
  <2>2. PICK p : p = ParseField(b, at, strict)   OBVIOUS
  <2>3. FieldAt(p, b, at)   BY <2>1, <2>2, ParseFieldIs
  <2>4. CASE ~p.ok
    <3>1. ParseStep(f, b, at, strict) = [fields |-> <<>>, ok |-> FALSE]   BY <1>3, <2>2, <2>4 DEF ParseStep
    <3> QED  BY <1>1, <3>1 DEF Parsed
  <2>5. CASE p.ok
    <3>1. p.next \in (at + 1)..(Len(b) + 1) /\ p.field \in FieldType   BY <2>3, <2>5 DEF FieldAt
    <3>2. p.next \in 1..(Len(b) + 1)   BY <3>1
    <3>3. PICK r \in Parsed : r = f[p.next]   BY <3>2
    <3>4. PICK s \in Seq(FieldType) : s = r.fields   BY DEF Parsed
    <3>5. r.ok \in BOOLEAN   BY DEF Parsed
    <3>6. PICK x \in FieldType : x = p.field   BY <3>1
    <3>7. <<x>> \o s \in Seq(FieldType)   OBVIOUS
    <3>8. ParseStep(f, b, at, strict) = [fields |-> <<x>> \o s, ok |-> r.ok]
      BY <1>3, <2>2, <2>5, <3>3, <3>4, <3>6 DEF ParseStep
    <3> QED  BY <3>5, <3>7, <3>8 DEF Parsed
  <2> QED  BY <2>3, <2>4, <2>5
<1> QED  BY <1>2, <1>3

\* It looks only at what follows.
LEMMA ParseStepSame ==
    ASSUME NEW b \in Seq(Byte), NEW x \in 1..(Len(b) + 1), NEW strict \in BOOLEAN, NEW f1, NEW f2,
           \A y \in (x + 1)..(Len(b) + 1) : f1[y] = f2[y]
    PROVE  ParseStep(f1, b, x, strict) = ParseStep(f2, b, x, strict)
<1>1. CASE x > Len(b) \/ ~ParseField(b, x, strict).ok   BY <1>1 DEF ParseStep
<1>2. CASE ~(x > Len(b)) /\ ParseField(b, x, strict).ok
  <2>1. PICK p : p = ParseField(b, x, strict)   OBVIOUS
  <2>2. x \in 1..Len(b)   BY <1>2
  <2>3. FieldAt(p, b, x)   BY <2>1, <2>2, ParseFieldIs
  <2>4. p.next \in (x + 1)..(Len(b) + 1)   BY <1>2, <2>1, <2>3 DEF FieldAt
  <2>5. PICK e : e = p.next   OBVIOUS
  <2>6. f1[e] = f2[e]   BY <2>4, <2>5
  <2> QED  BY <2>1, <2>5, <2>6 DEF ParseStep
<1> QED  BY <1>1, <1>2

\* The recursion of the parser unfolds.
LEMMA ParseUnfolds ==
    ASSUME NEW b \in Seq(Byte), NEW at \in 1..(Len(b) + 1), NEW strict \in BOOLEAN
    PROVE  /\ ParseFrom(b, strict)[at] = ParseStep(ParseFrom(b, strict), b, at, strict)
           /\ ParseFrom(b, strict)[at] \in Parsed
<1> DEFINE D == 1..(Len(b) + 1)
           V == Parsed
           g == [x \in D |-> [f \in [D -> V] |-> ParseStep(f, b, x, strict)]]
           m == [x \in D |-> Len(b) + 1 - x]
           parse == CHOOSE f : f = [x \in D |-> ParseStep(f, b, x, strict)]
<1>1. \A x \in D, f \in [D -> V] : ParseStep(f, b, x, strict) \in V   BY ParseStepType
<1>2. ASSUME NEW x \in D, NEW f1 \in [D -> V], NEW f2 \in [D -> V], \A y \in D : m[y] < m[x] => f1[y] = f2[y]
      PROVE  ParseStep(f1, b, x, strict) = ParseStep(f2, b, x, strict)
  <2>1. \A y \in (x + 1)..(Len(b) + 1) : y \in D /\ m[y] < m[x]   OBVIOUS
  <2>2. \A y \in (x + 1)..(Len(b) + 1) : f1[y] = f2[y]   BY <1>2, <2>1
  <2> QED  BY <2>2, ParseStepSame
<1>3. V # {} /\ m \in [D -> Nat]
  <2>1. [fields |-> <<>>, ok |-> TRUE] \in V   BY DEF Parsed
  <2>2. \A x \in D : Len(b) + 1 - x \in Nat   OBVIOUS
  <2>3. m \in [D -> Nat]   BY <2>2
  <2>4. V # {}   BY <2>1
  <2> QED  BY <2>3, <2>4
<1>4. g \in [D -> [[D -> V] -> V]]   BY <1>1
<1>5. Recursion(D, V, m, g)
  <2>1. \A x \in D, f1 \in [D -> V], f2 \in [D -> V] :
            (\A y \in D : m[y] < m[x] => f1[y] = f2[y]) => g[x][f1] = g[x][f2]
    <3> HIDE DEF m, D, V
    <3> QED  BY <1>2
  <2> HIDE DEF D, V, g, m
  <2> QED  BY <1>3, <1>4, <2>1 DEF Recursion
<1>6. \E f \in [D -> V] : \A x \in D : f[x] = g[x][f]
  <2> HIDE DEF D, V, g, m
  <2> QED  BY <1>5, RecursiveFunction
<1>7. \E f : f = [x \in D |-> ParseStep(f, b, x, strict)]
  <2> HIDE DEF D, V
  <2> QED  BY <1>6
<1>8. parse = [x \in D |-> ParseStep(parse, b, x, strict)]   BY <1>7
<1>9. ParseFrom(b, strict) = parse   BY DEF ParseFrom, ParseStep, AndAfter
<1> HIDE DEF parse
<1>10. \A x \in D : parse[x] = ParseStep(parse, b, x, strict)   BY <1>8
<1>11. \A x \in D : parse[x] \in V
  <2> DEFINE Bad == {k \in Nat : \E x \in D : m[x] = k /\ parse[x] \notin V}
  <2>1. ASSUME NEW k \in Bad, \A i \in Bad : k <= i PROVE FALSE
    <3>1. PICK x \in D : m[x] = k /\ parse[x] \notin V   OBVIOUS
    <3>2. \A y \in (x + 1)..(Len(b) + 1) : y \in D /\ m[y] < m[x] /\ m[y] \in Nat /\ m[x] \in Nat   OBVIOUS
    <3>3. \A y \in (x + 1)..(Len(b) + 1) : parse[y] \in V
      <4> SUFFICES ASSUME NEW y \in (x + 1)..(Len(b) + 1), parse[y] \notin V PROVE FALSE   OBVIOUS
      <4>1. y \in D /\ m[y] < m[x] /\ m[y] \in Nat /\ m[x] \in Nat   BY <3>2
      <4>2. m[y] \in Bad   BY <4>1
      <4>3. k <= m[y] /\ m[x] = k   BY <2>1, <3>1, <4>2
      <4> HIDE DEF m
      <4> QED  BY <4>1, <4>3
    <3>4. PICK v : v \in V   BY <1>3
    <3>5. PICK f : f = [y \in D |-> IF parse[y] \in V THEN parse[y] ELSE v]   OBVIOUS
    <3>6. f \in [D -> V]   BY <3>4, <3>5
    <3>7. \A y \in (x + 1)..(Len(b) + 1) : parse[y] = f[y]   BY <3>2, <3>3, <3>5
    <3>8. ParseStep(parse, b, x, strict) = ParseStep(f, b, x, strict)
      <4> HIDE DEF V, m
      <4> QED  BY <3>7, ParseStepSame
    <3>9. ParseStep(f, b, x, strict) \in V   BY <1>1, <3>6
    <3> QED  BY <1>10, <3>1, <3>8, <3>9
  <2>2. Bad \in SUBSET Nat   OBVIOUS
  <2>3. Bad = {}
    <3> HIDE DEF Bad
    <3> QED  BY <2>1, <2>2, LeastNat
  <2>4. \A x \in D : m[x] \in Nat   OBVIOUS
  <2> QED  BY <2>3, <2>4
<1> QED  BY <1>9, <1>10, <1>11

\* Parsing from one place reads some fields and goes on at another
Onward(u, strict, p, fs, q) ==
    /\ p \in 1..(Len(u) + 1) /\ q \in 1..(Len(u) + 1)
    /\ ParseFrom(u, strict)[p].fields = fs \o ParseFrom(u, strict)[q].fields
    /\ ParseFrom(u, strict)[p].ok = ParseFrom(u, strict)[q].ok

\* Wherever the bytes are, they are read as the fields
Carries(b, fs) ==
    /\ b \in Seq(Byte) /\ fs \in Seq(FieldType)
    /\ \A u, p : \A strict \in BOOLEAN : Sits(u, b, p) => Onward(u, strict, p, fs, p + Len(b))

\* The parser yields fields.
LEMMA ParsedType ==
    ASSUME NEW u \in Seq(Byte), NEW p \in 1..(Len(u) + 1), NEW strict \in BOOLEAN
    PROVE  ParseFrom(u, strict)[p].fields \in Seq(FieldType) /\ ParseFrom(u, strict)[p].ok \in BOOLEAN
<1>1. ParseFrom(u, strict)[p] \in Parsed   BY ParseUnfolds
<1> QED  BY <1>1 DEF Parsed

\* No bytes carry no fields.
LEMMA OnwardNone ==
    ASSUME NEW u \in Seq(Byte), NEW p \in 1..(Len(u) + 1), NEW strict \in BOOLEAN
    PROVE  Onward(u, strict, p, <<>>, p)
<1>1. PICK s \in Seq(FieldType) : s = ParseFrom(u, strict)[p].fields   BY ParsedType
<1>2. <<>> \o s = s   OBVIOUS
<1> QED  BY <1>1, <1>2 DEF Onward

\* Concatenation of fields associates.
LEMMA FieldsAssociate ==
    ASSUME NEW s \in Seq(FieldType), NEW t \in Seq(FieldType), NEW u \in Seq(FieldType)
    PROVE  Associates(s, t, u)
BY ConcatAssociative DEF Associates

\* Fields that follow one another are read one after the other.
LEMMA OnwardJoin ==
    ASSUME NEW u \in Seq(Byte), NEW strict \in BOOLEAN, NEW p, NEW q, NEW r,
           NEW fs \in Seq(FieldType), NEW gs \in Seq(FieldType), Onward(u, strict, p, fs, q), Onward(u, strict, q, gs, r)
    PROVE  Onward(u, strict, p, fs \o gs, r)
<1>1. r \in 1..(Len(u) + 1)   BY DEF Onward
<1>2. PICK s \in Seq(FieldType) : s = ParseFrom(u, strict)[r].fields   BY <1>1, ParsedType
<1>3. ParseFrom(u, strict)[p].fields = fs \o (gs \o s)   BY <1>2 DEF Onward
<1>4. Associates(fs, gs, s)   BY FieldsAssociate
<1> QED  BY <1>1, <1>2, <1>3, <1>4 DEF Onward, Associates

\* A field that is read is followed by the fields behind it.
LEMMA OnwardField ==
    ASSUME NEW u \in Seq(Byte), NEW strict \in BOOLEAN, NEW p \in 1..Len(u), NEW f, f = ParseField(u, p, strict), f.ok = TRUE
    PROVE  Onward(u, strict, p, <<f.field>>, f.next)
<1>1. FieldAt(f, u, p)   BY ParseFieldIs
<1>2. f.next \in (p + 1)..(Len(u) + 1)   BY <1>1 DEF FieldAt
<1>3. f.next \in 1..(Len(u) + 1) /\ p \in 1..(Len(u) + 1) /\ ~(p > Len(u))   BY <1>2
<1>4. ParseFrom(u, strict)[p] = ParseStep(ParseFrom(u, strict), u, p, strict)   BY <1>3, ParseUnfolds
<1>5. ParseFrom(u, strict)[p] = [fields |-> <<f.field>> \o ParseFrom(u, strict)[f.next].fields,
                                 ok |-> ParseFrom(u, strict)[f.next].ok]
  BY <1>3, <1>4 DEF ParseStep
<1> QED  BY <1>3, <1>5 DEF Onward

\* The same of the fields alone.
LEMMA FieldsFrom ==
    ASSUME NEW b \in Seq(Byte), NEW strict \in BOOLEAN, NEW x \in 1..Len(b), NEW p, p = ParseField(b, x, strict), p.ok
    PROVE  ParseFrom(b, strict)[x].fields = <<p.field>> \o ParseFrom(b, strict)[p.next].fields
<1>1. ~(x > Len(b)) /\ x \in 1..(Len(b) + 1)   OBVIOUS
<1>2. PICK g : g = ParseFrom(b, strict)   OBVIOUS
<1>3. g[x] = ParseStep(g, b, x, strict)   BY <1>1, <1>2, ParseUnfolds
<1>4. PICK s, o : s = <<p.field>> \o g[p.next].fields /\ o = g[p.next].ok   OBVIOUS
<1>5. ParseStep(g, b, x, strict) = [fields |-> s, ok |-> o]
  BY ONLY Zenon, <1>1, <1>4, p = ParseField(b, x, strict), p.ok DEF ParseStep
<1>6. g[x].fields = s   BY ONLY <1>3, <1>5
<1> QED  BY ONLY Zenon, <1>2, <1>4, <1>6

\* No bytes carry no fields.
LEMMA CarriesNone == Carries(<<>>, <<>>)
<1>1. PICK e : e = <<>>   OBVIOUS
<1>2. e \in Seq(Byte) /\ e \in Seq(FieldType) /\ Len(e) = 0   BY <1>1
<1>3. ASSUME NEW u, NEW p, NEW strict \in BOOLEAN, Sits(u, e, p) PROVE Onward(u, strict, p, e, p + Len(e))
  <2>1. u \in Seq(Byte) /\ p \in 1..(Len(u) + 1)   BY <1>3 DEF Sits
  <2>2. Onward(u, strict, p, <<>>, p)   BY <2>1, OnwardNone
  <2>3. p + 0 = p   BY <2>1
  <2> QED  BY <1>1, <1>2, <2>2, <2>3
<1> QED  BY <1>1, <1>2, <1>3 DEF Carries

\* Bytes a and b that follow one another, in u from p on.
Splits(u, p, a, b, c) == Sits(u, a, p) /\ Sits(u, b, p + Len(a)) /\ p + Len(c) = (p + Len(a)) + Len(b)

\* Joined bytes within others follow one another.
LEMMA SitsJoin ==
    ASSUME NEW u, NEW p, NEW a, NEW b, NEW c, Joined(c, a, b), a \in Seq(Byte), b \in Seq(Byte), Sits(u, c, p)
    PROVE  Splits(u, p, a, b, c)
<1>1. PICK x \in Nat, y \in Nat, z \in Nat : x = Len(a) /\ y = Len(b) /\ z = Len(u)
  <2>1. u \in Seq(Byte)   BY DEF Sits
  <2>2. Len(a) \in Nat /\ Len(b) \in Nat /\ Len(u) \in Nat   BY ONLY <2>1, a \in Seq(Byte), b \in Seq(Byte)
  <2> QED  BY ONLY <2>2
<1>2. Len(c) = x + y /\ (\A i \in 1..x : c[i] = a[i]) /\ (\A i \in 1..y : c[x + i] = b[i])   BY <1>1 DEF Joined
<1>3. u \in Seq(Byte) /\ p \in 1..(z + 1) /\ p + (x + y) <= z + 1 /\ \A k \in 1..(x + y) : u[p + k - 1] = c[k]
  BY <1>1, <1>2 DEF Sits
<1>4. p + x <= z + 1 /\ p + x \in 1..(z + 1) /\ (p + x) + y <= z + 1 /\ p + (x + y) = (p + x) + y   BY <1>3
<1>5. \A k \in 1..x : u[p + k - 1] = a[k]
  <2> TAKE k \in 1..x
  <2>1. k \in 1..(x + y)   OBVIOUS
  <2> QED  BY <1>2, <1>3, <2>1
<1>6. \A k \in 1..y : u[(p + x) + k - 1] = b[k]
  <2> TAKE k \in 1..y
  <2>1. PICK j \in 1..(x + y) : j = x + k   OBVIOUS
  <2>2. p + j - 1 = (p + x) + k - 1   BY <1>3, <2>1
  <2>3. u[p + j - 1] = c[j] /\ c[j] = b[k]   BY <1>2, <1>3, <2>1
  <2> QED  BY <2>2, <2>3
<1> QED  BY <1>1, <1>2, <1>3, <1>4, <1>5, <1>6 DEF Sits, Splits

\* Joined bytes carry the fields of both.
LEMMA CarriesJoin ==
    ASSUME NEW a, NEW fa, NEW b, NEW fb, Carries(a, fa), Carries(b, fb)
    PROVE  Carries(a \o b, fa \o fb)
<1>1. a \in Seq(Byte) /\ b \in Seq(Byte) /\ fa \in Seq(FieldType) /\ fb \in Seq(FieldType)   BY DEF Carries
<1>2. PICK c, fc : c = a \o b /\ fc = fa \o fb   OBVIOUS
<1>3. Joined(c, a, b)   BY <1>1, <1>2, ConcatIs
<1>4. c \in Seq(Byte)   BY <1>3 DEF Joined
<1>5. fc \in Seq(FieldType)   BY <1>1, <1>2
<1>6. ASSUME NEW u, NEW p, NEW strict \in BOOLEAN, Sits(u, c, p) PROVE Onward(u, strict, p, fc, p + Len(c))
  <2>1. PICK q, r : q = p + Len(a) /\ r = q + Len(b)   OBVIOUS
  <2>6. Splits(u, p, a, b, c)   BY <1>1, <1>3, <1>6, SitsJoin
  <2>2. Sits(u, a, p) /\ Sits(u, b, q) /\ p + Len(c) = r   BY ONLY <2>1, <2>6 DEF Splits
  <2>3. Onward(u, strict, p, fa, q) /\ Onward(u, strict, q, fb, r)   BY <2>1, <2>2 DEF Carries
  <2>4. u \in Seq(Byte)   BY <1>6 DEF Sits
  <2>5. Onward(u, strict, p, fa \o fb, r)   BY <1>1, <2>3, <2>4, OnwardJoin
  <2> QED  BY <1>2, <2>2, <2>5
<1> QED  BY <1>2, <1>4, <1>5, <1>6 DEF Carries

\* What bytes that carry fields are parsed to
LEMMA CarriesParsed ==
    ASSUME NEW b, NEW fs, Carries(b, fs), NEW strict \in BOOLEAN
    PROVE  Parse(b, strict).fields = fs /\ Parse(b, strict).ok = TRUE
<1>1. b \in Seq(Byte) /\ fs \in Seq(FieldType)   BY DEF Carries
<1>2. PICK z \in Nat : z = Len(b)   BY <1>1
<1>3. 1 \in 1..(z + 1) /\ 1 + z <= z + 1 /\ z + 1 \in 1..(z + 1) /\ z + 1 > z /\ 1 + z = z + 1   OBVIOUS
<1>4. \A k \in 1..z : b[1 + k - 1] = b[k]
  <2>1. \A k \in 1..z : 1 + k - 1 = k   OBVIOUS
  <2> QED  BY <2>1
<1>5. Sits(b, b, 1)   BY <1>1, <1>2, <1>3, <1>4 DEF Sits
<1>6. Onward(b, strict, 1, fs, z + 1)   BY <1>2, <1>3, <1>5 DEF Carries
<1>7. ParseFrom(b, strict)[z + 1] = ParseStep(ParseFrom(b, strict), b, z + 1, strict)   BY <1>1, <1>2, <1>3, ParseUnfolds
<1>8. ParseFrom(b, strict)[z + 1] = [fields |-> <<>>, ok |-> TRUE]   BY <1>2, <1>3, <1>7 DEF ParseStep
<1>9. ParseFrom(b, strict)[1].fields = fs \o <<>> /\ ParseFrom(b, strict)[1].ok = TRUE   BY <1>6, <1>8 DEF Onward
<1>10. fs \o <<>> = fs   BY <1>1
<1> QED  BY <1>9, <1>10 DEF Parse

\* A single field.
One(f) == <<f>>

\* A field has its type.
LEMMA FieldTyped ==
    ASSUME NEW n \in Nat, NEW type \in Nat, NEW num \in Nat, NEW b \in Seq(Byte)
    PROVE  Field(n, type, num, b) \in FieldType /\ One(Field(n, type, num, b)) \in Seq(FieldType)
<1>1. PICK f : f = Field(n, type, num, b)   OBVIOUS
<1>2. f \in FieldType   BY <1>1 DEF Field, FieldType
<1>3. <<f>> \in Seq(FieldType)   BY <1>2
<1> QED  BY <1>1, <1>2, <1>3 DEF One

\* A key is the varint of its number and its type.
LEMMA KeyIs ==
    ASSUME NEW n \in 0..63, NEW type \in 0..7
    PROVE  \E w \in 0..511 : /\ IsVarint(Key(n, type), w) /\ w \div 8 = n /\ w % 8 = type
                             /\ Key(n, type) \in Seq(Byte)
<1>1. PICK w \in 0..511 : w = n * 8 + type
  <2>1. n * 8 + type \in 0..511   OBVIOUS
  <2> QED  BY <2>1
<1>2. w \div 8 = n /\ w % 8 = type   BY <1>1
<1>3. IsVarint(Key(n, type), w)   BY <1>1, EncodeVarintIs DEF Key
<1>4. Key(n, type) \in Seq(Byte)   BY <1>3 DEF IsVarint
<1> QED  BY <1>2, <1>3, <1>4

\* A key that is read at a place, and where its argument begins
KeyReads(u, p, strict, n, type, q) ==
    /\ Varint(u, p, strict).value \div 8 = n /\ Varint(u, p, strict).value % 8 = type
    /\ Varint(u, p, strict).next = q /\ Varint(u, p, strict).ok = TRUE
    /\ p \in 1..Len(u)

\* A key is read back.
LEMMA KeyInPlace ==
    ASSUME NEW n \in 0..63, NEW type \in 0..7, NEW u, NEW p, Sits(u, Key(n, type), p), NEW strict \in BOOLEAN
    PROVE  KeyReads(u, p, strict, n, type, p + Len(Key(n, type)))
<1>1. PICK w \in 0..511 : IsVarint(Key(n, type), w) /\ w \div 8 = n /\ w % 8 = type   BY ZenonT(40), KeyIs
<1>2. ReadsTo(u, p, strict, w, p + Len(Key(n, type)))   BY <1>1, VarintReads
<1> QED  BY <1>1, <1>2 DEF ReadsTo, KeyReads

\* All numbers of the scaled width are written as varints.
LEMMA VarintsAre == \A v \in 0..511 : IsVarint(EncodeVarint(v), v)
BY EncodeVarintIs

\* A varint field is read back.
LEMMA CarriesVarint ==
    ASSUME NEW n \in 0..63, NEW v \in 0..511
    PROVE  Carries(VarintField(n, v), One(Field(n, 0, v, <<>>)))
<1>0. 0 \in 0..7 /\ 0 \in Nat /\ n \in Nat /\ v \in Nat /\ <<>> \in Seq(Byte)   OBVIOUS
<1>1. PICK k, e, c : k = Key(n, 0) /\ e = EncodeVarint(v) /\ c = k \o e   OBVIOUS
<1>2. k \in Seq(Byte)   BY ZenonT(40), <1>0, <1>1, KeyIs
<1>e. IsVarint(EncodeVarint(v), v)   BY EncodeVarintIs
<1>3. IsVarint(e, v)   BY <1>1, <1>e
<1>4. e \in Seq(Byte)   BY <1>3 DEF IsVarint
<1>5. Joined(c, k, e)   BY <1>1, <1>2, <1>4, ConcatIs
<1>6. c \in Seq(Byte)   BY <1>5 DEF Joined
<1>7. PICK x : x = Field(n, 0, v, <<>>)   OBVIOUS
<1>8. One(x) \in Seq(FieldType)   BY <1>0, <1>7, FieldTyped
<1>9. ASSUME NEW u, NEW p, NEW strict \in BOOLEAN, Sits(u, c, p) PROVE Onward(u, strict, p, One(x), p + Len(c))
  <2>1. PICK q, r : q = p + Len(k) /\ r = q + Len(e)   OBVIOUS
  <2>2. Splits(u, p, k, e, c)   BY <1>2, <1>4, <1>5, <1>9, SitsJoin
  <2>3. Sits(u, k, p) /\ Sits(u, e, q) /\ p + Len(c) = r   BY ONLY <2>1, <2>2 DEF Splits
  <2>4. PICK key, arg : key = Varint(u, p, strict) /\ arg = Varint(u, q, strict)   OBVIOUS
  <2>k. KeyReads(u, p, strict, n, 0, p + Len(Key(n, 0)))   BY <1>0, <1>1, <2>3, KeyInPlace
  <2>5. key.value \div 8 = n /\ key.value % 8 = 0 /\ key.ok = TRUE /\ key.next = q /\ p \in 1..Len(u)
    BY ONLY <1>1, <2>1, <2>4, <2>k DEF KeyReads
  <2>v. ReadsTo(u, q, strict, v, q + Len(e))   BY <1>3, <2>3, VarintReads
  <2>6. arg.value = v /\ arg.ok = TRUE /\ arg.next = r   BY ONLY <2>1, <2>4, <2>v DEF ReadsTo
  <2>7. ParseField(u, p, strict) = Read(key.value \div 8, key.value % 8, arg.value, <<>>, arg.next)
    BY ONLY <2>4, <2>5, <2>6 DEF ParseField, FieldOf
  <2>8. PICK f : f = ParseField(u, p, strict)   OBVIOUS
  <2>9. f.ok = TRUE /\ f.field = x /\ f.next = r   BY ONLY <1>7, <2>5, <2>6, <2>7, <2>8 DEF Read
  <2>10. u \in Seq(Byte)   BY <2>3 DEF Sits
  <2>11. Onward(u, strict, p, <<f.field>>, f.next)   BY <2>5, <2>8, <2>9, <2>10, OnwardField
  <2> QED  BY <2>3, <2>9, <2>11 DEF One
<1>10. Carries(c, One(x))   BY <1>6, <1>8, <1>9 DEF Carries
<1> QED  BY <1>1, <1>7, <1>10 DEF VarintField

\* The m bytes of u from p on are b.
TakenAt(u, p, m, b) == SubSeq(u, p, (p + m) - 1) = b /\ (p + m) - 1 <= Len(u)

\* The part of bytes where others are is those.
LEMMA SitsPart ==
    ASSUME NEW u, NEW b, NEW p, Sits(u, b, p), NEW m, m = Len(b)
    PROVE  TakenAt(u, p, m, b)
<1>1. PICK z \in Nat : z = Len(u)   BY DEF Sits
<1>2. b \in Seq(Byte) /\ m \in Nat /\ u \in Seq(Byte)   BY DEF Sits
<1>3. p \in 1..(z + 1) /\ p + m <= z + 1 /\ \A k \in 1..m : u[p + k - 1] = b[k]   BY <1>1 DEF Sits
<1>4. PICK s : s = SubSeq(u, p, (p + m) - 1)   OBVIOUS
<1>5. p + m \in p..(z + 1) /\ (p + m) - 1 <= z /\ (p + m) - p = m   BY <1>2, <1>3
<1>6. s \in Seq(Byte) /\ Len(s) = m   BY <1>1, <1>2, <1>3, <1>4, <1>5, PartBytes
<1>7. ASSUME NEW k \in 1..m PROVE s[k] = b[k]
  <2>1. p \in 1..Len(u) /\ (p + m) - 1 \in p..Len(u) /\ m >= 1   BY <1>1, <1>2, <1>3, <1>5
  <2>2. PICK w : w = (p + m) - 1   OBVIOUS
  <2>3. w \in 1..Len(u) /\ w - p + 1 = m   BY <1>1, <1>2, <1>3, <2>1, <2>2
  <2>4. \A e \in 1..(w - p + 1) : s[e] = u[p + e - 1]   BY <1>2, <1>4, <2>1, <2>2, <2>3, SubSeqProperties
  <2> QED  BY <1>3, <2>3, <2>4
<1>8. s = b   BY <1>2, <1>6, <1>7
<1> QED  BY <1>1, <1>4, <1>5, <1>8 DEF TakenAt

\* Bytes of a given length.
OfLength(b, n) == b \in Seq(Byte) /\ Len(b) = n

\* A field of bytes is read back.
LEMMA CarriesBytes ==
    ASSUME NEW n \in 0..63, NEW b, NEW w \in 0..511, OfLength(b, w)
    PROVE  Carries(BytesField(n, b), One(Field(n, 2, 0, b)))
<1>l. b \in Seq(Byte)   BY DEF OfLength
<1>m. PICK m : m = Len(b) /\ w = m   BY DEF OfLength
<1>0. 2 \in 0..7 /\ 0 \in Nat /\ 2 \in Nat /\ n \in Nat   BY ONLY n \in 0..63
<1>1. PICK k, e, h, c : k = Key(n, 2) /\ e = EncodeVarint(m) /\ h = k \o e /\ c = h \o b   BY Zenon
<1>2. k \in Seq(Byte)   BY ZenonT(40), <1>0, <1>1, KeyIs
<1>e. IsVarint(EncodeVarint(w), w)   BY ONLY VarintsAre, w \in 0..511
<1>f. IsVarint(EncodeVarint(m), m)   BY ONLY Zenon, <1>e, <1>m
<1>3. IsVarint(e, m)   BY ONLY <1>1, <1>f
<1>4. e \in Seq(Byte)   BY <1>3 DEF IsVarint
<1>5. Joined(h, k, e)   BY <1>1, <1>2, <1>4, ConcatIs
<1>11. h \in Seq(Byte)   BY <1>5 DEF Joined
<1>12. Joined(c, h, b)   BY <1>1, <1>l, <1>11, ConcatIs
<1>6. c \in Seq(Byte)   BY <1>12 DEF Joined
<1>7. PICK x : x = Field(n, 2, 0, b)   OBVIOUS
<1>8. One(x) \in Seq(FieldType)   BY <1>0, <1>l, <1>7, FieldTyped
<1>9. ASSUME NEW u, NEW p, NEW strict \in BOOLEAN, Sits(u, c, p) PROVE Onward(u, strict, p, One(x), p + Len(c))
  <2>1. PICK q, r, end : q = p + Len(k) /\ r = q + Len(e) /\ end = r + m   OBVIOUS
  <2>2. Splits(u, p, h, b, c)   BY <1>l, <1>11, <1>12, <1>9, SitsJoin
  <2>12. Sits(u, h, p)   BY <2>2 DEF Splits
  <2>13. Splits(u, p, k, e, h)   BY <1>2, <1>4, <1>5, <2>12, SitsJoin
  <2>3. Sits(u, k, p) /\ Sits(u, e, q) /\ p + Len(h) = r   BY ONLY <2>1, <2>13 DEF Splits
  <2>14. Sits(u, b, r) /\ p + Len(c) = end   BY ONLY Zenon, <2>1, <2>2, <2>3, <1>m DEF Splits
  <2>4. PICK key, arg : key = Varint(u, p, strict) /\ arg = Varint(u, q, strict)   OBVIOUS
  <2>k. KeyReads(u, p, strict, n, 2, p + Len(Key(n, 2)))   BY <1>0, <1>1, <2>3, KeyInPlace
  <2>5. key.value \div 8 = n /\ key.value % 8 = 2 /\ key.ok = TRUE /\ key.next = q /\ p \in 1..Len(u)
    BY ONLY <1>1, <2>1, <2>4, <2>k DEF KeyReads
  <2>v. ReadsTo(u, q, strict, m, q + Len(e))   BY <1>3, <2>3, VarintReads
  <2>6. arg.value = m /\ arg.ok = TRUE /\ arg.next = r   BY ONLY <2>1, <2>4, <2>v DEF ReadsTo
  <2>15. TakenAt(u, r, m, b)   BY Zenon, <1>m, <2>14, SitsPart
  <2>16. ~(2 \in DOMAIN FixedWidth)   BY ONLY DEF FixedWidth
  <2>7. ParseField(u, p, strict)
            = Read(key.value \div 8, key.value % 8, 0, SubSeq(u, arg.next, (arg.next + arg.value) - 1), arg.next + arg.value)
    <3>1. (arg.next + arg.value) - 1 <= Len(u) /\ ~(key.value % 8 = 0) /\ ~(key.value % 8 \in DOMAIN FixedWidth)
      BY ONLY <2>5, <2>6, <2>15, <2>16 DEF TakenAt
    <3> QED  BY ONLY <2>4, <2>5, <2>6, <3>1, Zenon DEF ParseField, FieldOf
  <2>8. PICK f : f = ParseField(u, p, strict)   OBVIOUS
  <2>17. SubSeq(u, r, (r + m) - 1) = b   BY ONLY <2>15 DEF TakenAt
  <2>18. f = Read(n, 2, 0, b, end)   BY ONLY <2>1, <2>5, <2>6, <2>7, <2>8, <2>17
  <2>9. f.ok = TRUE /\ f.field = x /\ f.next = end   BY ONLY <1>7, <2>18 DEF Read
  <2>10. u \in Seq(Byte)   BY <2>3 DEF Sits
  <2>11. Onward(u, strict, p, <<f.field>>, f.next)   BY <2>5, <2>8, <2>9, <2>10, OnwardField
  <2> QED  BY <2>9, <2>11, <2>14 DEF One
<1>10. Carries(c, One(x))   BY <1>6, <1>8, <1>9 DEF Carries
<1> QED  BY Zenon, <1>1, <1>7, <1>10, <1>m DEF BytesField

\* A float field is read back.
LEMMA CarriesFloat ==
    ASSUME NEW n \in 0..63, NEW v \in Byte
    PROVE  Carries(FloatField(n, v), One(Field(n, 5, v, <<>>)))
<1>0. 5 \in 0..7 /\ 5 \in Nat /\ n \in Nat /\ v \in Nat /\ <<>> \in Seq(Byte)   BY Widths
<1>1. PICK k, e, c : k = Key(n, 5) /\ e = <<v>> /\ c = k \o e   BY Zenon
<1>2. k \in Seq(Byte)   BY ZenonT(40), <1>0, <1>1, KeyIs
<1>4. e \in Seq(Byte) /\ Len(e) = 1 /\ e[1] = v   BY <1>1
<1>5. Joined(c, k, e)   BY <1>1, <1>2, <1>4, ConcatIs
<1>6. c \in Seq(Byte)   BY <1>5 DEF Joined
<1>7. PICK x : x = Field(n, 5, v, <<>>)   OBVIOUS
<1>8. One(x) \in Seq(FieldType)   BY <1>0, <1>7, FieldTyped
<1>9. ASSUME NEW u, NEW p, NEW strict \in BOOLEAN, Sits(u, c, p) PROVE Onward(u, strict, p, One(x), p + Len(c))
  <2>1. PICK q : q = p + Len(k)   OBVIOUS
  <2>2. Splits(u, p, k, e, c)   BY <1>2, <1>4, <1>5, <1>9, SitsJoin
  <2>3. Sits(u, k, p) /\ Sits(u, e, q) /\ p + Len(c) = q + Len(e)   BY ONLY <2>1, <2>2 DEF Splits
  <2>4. PICK key : key = Varint(u, p, strict)   OBVIOUS
  <2>k. KeyReads(u, p, strict, n, 5, p + Len(Key(n, 5)))   BY <1>0, <1>1, <2>3, KeyInPlace
  <2>5. key.value \div 8 = n /\ key.value % 8 = 5 /\ key.ok = TRUE /\ key.next = q /\ p \in 1..Len(u)
    BY ONLY <1>1, <2>1, <2>4, <2>k DEF KeyReads
  <2>12. q \in 1..(Len(u) + 1) /\ q + 1 <= Len(u) + 1 /\ u[q] = v
    <3>1. PICK z \in Nat : z = Len(u)   BY <2>3 DEF Sits
    <3>2. q \in 1..(z + 1) /\ q + 1 <= z + 1   BY <1>4, <2>3, <3>1 DEF Sits
    <3>3. \A j \in 1..1 : u[q + j - 1] = e[j]   BY <1>4, <2>3 DEF Sits
    <3>4. 1 \in 1..1 /\ q + 1 - 1 = q   BY <3>2
    <3>5. u[q] = v   BY <1>4, <3>3, <3>4
    <3> QED  BY <3>1, <3>2, <3>5
  <2>13. FixedWidth[5] = 1 /\ 5 \in DOMAIN FixedWidth   BY DEF FixedWidth
  <2>7. ParseField(u, p, strict) = Read(key.value \div 8, key.value % 8, u[key.next], <<>>, key.next + FixedWidth[key.value % 8])
    <3>1. key.next + FixedWidth[key.value % 8] - 1 <= Len(u) /\ ~(key.value % 8 = 0) /\ ~(key.value % 8 = 2)
          /\ key.value % 8 \in DOMAIN FixedWidth
      BY <2>5, <2>12, <2>13
    <3> QED  BY ONLY <2>4, <2>5, <3>1, Zenon DEF ParseField, FieldOf
  <2>8. PICK f : f = ParseField(u, p, strict)   OBVIOUS
  <2>9. f.ok = TRUE /\ f.field = x /\ f.next = q + 1   BY ONLY <1>7, <2>5, <2>7, <2>8, <2>12, <2>13 DEF Read
  <2>10. u \in Seq(Byte)   BY <2>3 DEF Sits
  <2>11. Onward(u, strict, p, <<f.field>>, f.next)   BY Zenon, <2>5, <2>8, <2>9, <2>10, OnwardField
  <2> QED  BY <1>4, <2>3, <2>9, <2>11 DEF One
<1>10. Carries(c, One(x))   BY <1>6, <1>8, <1>9 DEF Carries
<1> QED  BY <1>1, <1>7, <1>10 DEF FloatField

---------------------------------------------------------------------------
(* The numbers and the bytes of the fields of a message.                  *)

\* A field of bytes of bounded size is read back.
LEMMA CarriesSized ==
    ASSUME NEW n \in 0..63, NEW b, NEW max \in 0..511, Sized(b, 0, max)
    PROVE  Carries(BytesField(n, b), One(Field(n, 2, 0, b)))
<1>1. b \in Seq(Byte)   BY DEF Sized
<1>2. PICK m \in Nat : m = Len(b)   BY <1>1
<1>3. m <= max   BY <1>2 DEF Sized
<1>4. PICK w \in 0..511 : w = m   BY ONLY <1>3, m \in Nat, max \in 0..511
<1>5. OfLength(b, w)   BY Zenon, <1>1, <1>2, <1>4 DEF OfLength
<1> QED  BY ZenonT(40), <1>5, CarriesBytes

\* The only element is the largest and the least.
LEMMA OnlyOne ==
    ASSUME NEW x \in Nat
    PROVE  Max({x}) = x /\ Min({x}) = x
<1>1. x >= x /\ x <= x   OBVIOUS
<1>2. \E y \in {x} : \A z \in {x} : y >= z   BY <1>1
<1>3. \E y \in {x} : \A z \in {x} : y <= z   BY <1>1
<1>4. Max({x}) \in {x}   BY <1>2 DEF Max
<1>5. Min({x}) \in {x}   BY <1>3 DEF Min
<1> QED  BY <1>4, <1>5

\* The number, or the bytes, of the only field with a number
LEMMA NumIs ==
    ASSUME NEW fs, NEW n, NEW i \in Nat, Where(fs, n, 0) = {i}, NEW f, f = fs[i]
    PROVE  LastNum(fs, n) = f.num /\ FirstNum(fs, n) = f.num
<1>1. Max({i}) = i /\ Min({i}) = i /\ {i} # {}   BY OnlyOne
<1> QED  BY <1>1 DEF LastNum, FirstNum

\* The same for bytes.
LEMMA BytesAre ==
    ASSUME NEW fs, NEW n, NEW i \in Nat, Where(fs, n, 2) = {i}, NEW f, f = fs[i]
    PROVE  LastBytes(fs, n) = f.bytes /\ HasBytes(fs, n)
<1>1. Max({i}) = i /\ {i} # {}   BY OnlyOne
<1> QED  BY <1>1 DEF LastBytes, HasBytes

\* A number that no field has is None.
LEMMA NoNum ==
    ASSUME NEW fs, NEW n, Where(fs, n, 0) = {}
    PROVE  LastNum(fs, n) = None /\ FirstNum(fs, n) = None
BY DEF LastNum, FirstNum

\* Bytes that no field has are empty.
LEMMA NoBytes ==
    ASSUME NEW fs, NEW n, Where(fs, n, 2) = {}
    PROVE  LastBytes(fs, n) = <<>> /\ ~HasBytes(fs, n)
BY DEF LastBytes, HasBytes

\* A single field.
IsOne(s, f) == s \in Seq(FieldType) /\ Len(s) = 1 /\ s[1] = f
\* Two fields.
IsTwo(s, f, g) == s \in Seq(FieldType) /\ Len(s) = 2 /\ s[1] = f /\ s[2] = g
\* Three fields.
IsThree(s, f, g, h) == s \in Seq(FieldType) /\ Len(s) = 3 /\ s[1] = f /\ s[2] = g /\ s[3] = h

\* One field is one.
LEMMA OneIs == \A f \in FieldType : IsOne(One(f), f)
BY DEF IsOne, One

\* c is the fields a and then b.
FieldsJoined(c, a, b) ==
    /\ c \in Seq(FieldType) /\ Len(c) = Len(a) + Len(b) /\ (\A i \in 1..Len(a) : c[i] = a[i])
    /\ \A i \in 1..Len(b) : c[Len(a) + i] = b[i]

\* Concatenation joins fields.
LEMMA FieldsJoin ==
    ASSUME NEW a \in Seq(FieldType), NEW b \in Seq(FieldType), NEW c, c = a \o b
    PROVE  FieldsJoined(c, a, b)
BY ConcatProperties DEF FieldsJoined

\* One and one are two.
LEMMA TwoIs == \A f, g \in FieldType : IsTwo(One(f) \o One(g), f, g)
<1> TAKE f, g \in FieldType
<1>1. PICK a, b : a = One(f) /\ b = One(g)   OBVIOUS
<1>2. a \in Seq(FieldType) /\ b \in Seq(FieldType) /\ Len(a) = 1 /\ Len(b) = 1 /\ a[1] = f /\ b[1] = g
  BY <1>1, OneIs DEF IsOne
<1>3. PICK c : c = a \o b   OBVIOUS
<1>f. FieldsJoined(c, a, b)
  <2>1. a \in Seq(FieldType) /\ b \in Seq(FieldType)   BY <1>2
  <2> QED  BY <1>3, <2>1, FieldsJoin
<1>4. c \in Seq(FieldType) /\ Len(c) = Len(a) + Len(b) /\ (\A i \in 1..Len(a) : c[i] = a[i])
      /\ \A i \in 1..Len(b) : c[Len(a) + i] = b[i]
  BY <1>2, <1>f DEF FieldsJoined
<1>5. c[1] = a[1] /\ c[1 + 1] = b[1] /\ Len(c) = 2   BY <1>2, <1>4
<1>6. c[2] = b[1]   BY <1>5
<1> QED  BY <1>1, <1>2, <1>3, <1>4, <1>5, <1>6 DEF IsTwo

\* And three.
LEMMA ThreeIs == \A f, g, h \in FieldType : IsThree((One(f) \o One(g)) \o One(h), f, g, h)
<1> TAKE f, g, h \in FieldType
<1>1. PICK a, b : a = One(f) \o One(g) /\ b = One(h)   OBVIOUS
<1>2. a \in Seq(FieldType) /\ Len(a) = 2 /\ a[1] = f /\ a[2] = g   BY <1>1, TwoIs DEF IsTwo
<1>7. b \in Seq(FieldType) /\ Len(b) = 1 /\ b[1] = h   BY <1>1, OneIs DEF IsOne
<1>3. PICK c : c = a \o b   OBVIOUS
<1>f. FieldsJoined(c, a, b)
  <2>1. a \in Seq(FieldType) /\ b \in Seq(FieldType)   BY <1>2, <1>7
  <2> QED  BY <1>3, <2>1, FieldsJoin
<1>4. c \in Seq(FieldType) /\ Len(c) = Len(a) + Len(b) /\ (\A i \in 1..Len(a) : c[i] = a[i])
      /\ \A i \in 1..Len(b) : c[Len(a) + i] = b[i]
  BY <1>2, <1>f DEF FieldsJoined
<1>5. c[1] = a[1] /\ c[2] = a[2] /\ c[2 + 1] = b[1] /\ Len(c) = 3   BY <1>2, <1>4, <1>7
<1>6. c[3] = b[1]   BY <1>5
<1> QED  BY <1>1, <1>2, <1>3, <1>4, <1>5, <1>6, <1>7 DEF IsThree

\* Where a field is, if there is one ...
LEMMA WhereInOne ==
    ASSUME NEW s, NEW f, IsOne(s, f), NEW n, NEW type
    PROVE  Where(s, n, type) = {i \in {1} : f.field = n /\ f.type = type}
<1>1. DOMAIN s = {1} /\ s[1] = f   BY DEF IsOne
<1> QED  BY <1>1 DEF Where

\* ... two ...
LEMMA WhereInTwo ==
    ASSUME NEW s, NEW f, NEW g, IsTwo(s, f, g), NEW n, NEW type
    PROVE  Where(s, n, type) = {i \in {1} : f.field = n /\ f.type = type} \cup {i \in {2} : g.field = n /\ g.type = type}
<1>1. DOMAIN s = {1, 2} /\ s[1] = f /\ s[2] = g   BY DEF IsTwo
<1> QED  BY <1>1 DEF Where

\* ... or three.
LEMMA WhereInThree ==
    ASSUME NEW s, NEW f, NEW g, NEW h, IsThree(s, f, g, h), NEW n, NEW type
    PROVE  Where(s, n, type) = ({i \in {1} : f.field = n /\ f.type = type} \cup {i \in {2} : g.field = n /\ g.type = type})
                               \cup {i \in {3} : h.field = n /\ h.type = type}
<1>1. DOMAIN s = {1, 2, 3} /\ s[1] = f /\ s[2] = g /\ s[3] = h   BY DEF IsThree
<1> QED  BY <1>1 DEF Where

---------------------------------------------------------------------------
(* Typed values, and messages of many parts.                              *)

\* The field of a typed value.
TypedField(v) ==
    CASE v.kind = "int" -> Field(3, 0, IF v.v < 0 THEN v.v + 512 ELSE v.v, <<>>)
      [] v.kind = "str" -> Field(4, 2, 0, v.s)
      [] v.kind = "bool" -> Field(5, 0, v.v, <<>>)
      [] v.kind = "float" -> Field(6, 5, v.v, <<>>)
      [] v.kind = "name" -> Field(10, 2, 0, v.s)

\* The kinds of values.
LEMMA ValueKinds ==
    ASSUME NEW v \in Values
    PROVE  \/ v.kind = "int" /\ v.v \in -256..255 /\ v = Value("int", v.v, <<>>)
           \/ v.kind = "bool" /\ v.v \in {0, 1} /\ v = Value("bool", v.v, <<>>)
           \/ v.kind = "float" /\ v.v \in Byte /\ v = Value("float", v.v, <<>>)
           \/ v.kind \in {"str", "name"} /\ v.s \in Seq(Byte) /\ v = Value(v.kind, 0, v.s)
<1>1. -(512 \div 2)..(512 \div 2 - 1) = -256..255   OBVIOUS
<1>2. CASE v \in [kind : {"int"}, v : -256..255, s : {<<>>}]   BY <1>2 DEF Value
<1>3. CASE v \in [kind : {"bool"}, v : {0, 1}, s : {<<>>}]   BY <1>3 DEF Value
<1>4. CASE v \in [kind : {"float"}, v : Byte, s : {<<>>}]   BY <1>4 DEF Value
<1>5. CASE v \in [kind : {"str", "name"}, v : {0}, s : Seq(Byte)]   BY <1>5 DEF Value
<1> QED  BY <1>1, <1>2, <1>3, <1>4, <1>5 DEF Values, Wide

\* The fields of a slot.
SlotFields(c) == (One(Field(1, 0, c.sid, <<>>)) \o One(Field(2, 0, c.bus, <<>>))) \o One(TypedField(c.value))

\* One element of a concatenation, f giving those before it.
FlattenStep(S, f, i) == IF i = 1 THEN S[i] ELSE f[i - 1] \o S[i]

\* The recursion of FlattenSeq unfolds.
LEMMA FlattenUnfolds ==
    ASSUME NEW n \in Nat \ {0}, NEW S \in [1..n -> Seq(Byte)]
    PROVE  \E f : f[n] = FlattenSeq(S) /\ \A i \in 1..n : f[i] = FlattenStep(S, f, i)
<1> DEFINE D == 1..n
           V == Seq(Byte)
           m == [x \in D |-> x]
           g == [x \in D |-> [f \in [D -> V] |-> FlattenStep(S, f, x)]]
           flatten == CHOOSE f : f = [x \in D |-> FlattenStep(S, f, x)]
<1>1. \A x \in D, f \in [D -> V] : FlattenStep(S, f, x) \in V
  <2> TAKE x \in D, f \in [D -> V]
  <2>1. CASE x = 1   BY <2>1 DEF FlattenStep
  <2>2. CASE x # 1
    <3>1. x - 1 \in D   BY <2>2
    <3>2. PICK s \in Seq(Byte), t \in Seq(Byte) : s = f[x - 1] /\ t = S[x]   BY <3>1
    <3>3. s \o t \in Seq(Byte)   OBVIOUS
    <3> QED  BY <2>2, <3>2, <3>3 DEF FlattenStep
  <2> QED  BY <2>1, <2>2
<1>2. ASSUME NEW x \in D, NEW f1 \in [D -> V], NEW f2 \in [D -> V], \A y \in D : m[y] < m[x] => f1[y] = f2[y]
      PROVE  FlattenStep(S, f1, x) = FlattenStep(S, f2, x)
  <2>1. CASE x = 1   BY <2>1 DEF FlattenStep
  <2>2. CASE x # 1
    <3>1. PICK y \in D : y = x - 1
      <4>1. x - 1 \in D   BY <2>2
      <4> QED  BY <4>1
    <3>2. m[y] < m[x]   BY <3>1
    <3>3. f1[y] = f2[y]   BY <1>2, <3>2
    <3> QED  BY <2>2, <3>1, <3>3 DEF FlattenStep
  <2> QED  BY <2>1, <2>2
<1>3. V # {} /\ m \in [D -> Nat]
  <2>1. <<>> \in V   OBVIOUS
  <2> QED  BY <2>1
<1>4. g \in [D -> [[D -> V] -> V]]   BY <1>1
<1>5. Recursion(D, V, m, g)
  <2>1. \A x \in D, f1 \in [D -> V], f2 \in [D -> V] :
            (\A y \in D : m[y] < m[x] => f1[y] = f2[y]) => g[x][f1] = g[x][f2]
    <3> HIDE DEF m, D, V
    <3> QED  BY <1>2
  <2> HIDE DEF D, V, g, m
  <2> QED  BY <1>3, <1>4, <2>1 DEF Recursion
<1>6. \E f \in [D -> V] : \A x \in D : f[x] = g[x][f]
  <2> HIDE DEF D, V, g, m
  <2> QED  BY <1>5, RecursiveFunction
<1>7. \E f : f = [x \in D |-> FlattenStep(S, f, x)]
  <2> HIDE DEF D, V
  <2> QED  BY <1>6
<1>8. flatten = [x \in D |-> FlattenStep(S, flatten, x)]   BY <1>7
<1>9. Len(S) = n /\ ~(Len(S) = 0)   OBVIOUS
<1>10. FlattenSeq(S) = flatten[n]   BY <1>9 DEF FlattenSeq, FlattenStep
<1> HIDE DEF flatten
<1>11. \A x \in D : flatten[x] = FlattenStep(S, flatten, x)   BY <1>8
<1> QED  BY <1>10, <1>11

\* The fields of one slot more.
LEMMA FieldsGrow ==
    ASSUME NEW i \in Nat, NEW s, NEW t, NEW f, s \in [1..i -> FieldType], t \in [1..(i + 1) -> FieldType], f \in FieldType,
           t[i + 1] = f, \A j \in 1..i : t[j] = s[j]
    PROVE  s \o One(f) = t
<1>1. s \in Seq(FieldType) /\ Len(s) = i /\ t \in Seq(FieldType) /\ Len(t) = i + 1   OBVIOUS
<1>2. PICK u : u = One(f)   OBVIOUS
<1>3. u \in Seq(FieldType) /\ Len(u) = 1 /\ u[1] = f   BY <1>2, OneIs DEF IsOne
<1>4. PICK c : c = s \o u   OBVIOUS
<1>5. FieldsJoined(c, s, u)
  <2>1. s \in Seq(FieldType) /\ u \in Seq(FieldType)   BY <1>1, <1>3
  <2> QED  BY <1>4, <2>1, FieldsJoin
<1>6. c \in Seq(FieldType) /\ Len(c) = i + 1 /\ (\A j \in 1..i : c[j] = s[j]) /\ (\A j \in 1..1 : c[i + j] = u[j])
  BY <1>1, <1>3, <1>5 DEF FieldsJoined
<1>7. c[i + 1] = f   BY <1>3, <1>6
<1>8. \A j \in 1..(i + 1) : c[j] = t[j]
  <2> TAKE j \in 1..(i + 1)
  <2>1. CASE j = i + 1   BY <1>7, <2>1
  <2>2. CASE j # i + 1
    <3>1. j \in 1..i   BY <2>2
    <3> QED  BY <1>6, <3>1
  <2> QED  BY <2>1, <2>2
<1>9. c = t   BY <1>1, <1>6, <1>8
<1> QED  BY <1>2, <1>4, <1>9

\* The first fields of a sequence.
UpTo(F, i) == [j \in 1..i |-> F[j]]

\* Bytes of one field each, one after the other, carry the fields.
LEMMA FlattenCarries ==
    ASSUME NEW n \in Nat, NEW S \in [1..n -> Seq(Byte)], NEW F \in [1..n -> FieldType],
           \A i \in 1..n : Carries(S[i], One(F[i]))
    PROVE  Carries(FlattenSeq(S), F)
<1>1. CASE n = 0
  <2>1. S = <<>> /\ F = <<>>   BY <1>1
  <2>2. FlattenSeq(S) = <<>>   BY <2>1 DEF FlattenSeq
  <2> QED  BY <2>1, <2>2, CarriesNone
<1>2. CASE n # 0
  <2>1. PICK f : f[n] = FlattenSeq(S) /\ \A i \in 1..n : f[i] = FlattenStep(S, f, i)
    <3>1. n \in Nat \ {0}   BY <1>2
    <3> QED  BY <3>1, FlattenUnfolds
  <2> DEFINE Good == {i \in Nat : i \in 1..n => Carries(f[i], UpTo(F, i))}
  <2>2. 0 \in Good   OBVIOUS
  <2>3. ASSUME NEW i \in Nat, i \in Good PROVE i + 1 \in Good
    <3> SUFFICES ASSUME i + 1 \in 1..n PROVE Carries(f[i + 1], UpTo(F, i + 1))   OBVIOUS
    <3>1. \A j \in 1..(i + 1) : F[j] \in FieldType
      <4>1. \A j \in 1..(i + 1) : j \in 1..n   OBVIOUS
      <4> QED  BY <4>1
    <3>2. PICK x : x = F[i + 1]   OBVIOUS
    <3>3. Carries(S[i + 1], One(x)) /\ x \in FieldType   BY <3>2
    <3>4. PICK s, t : s = UpTo(F, i) /\ t = UpTo(F, i + 1)   OBVIOUS
    <3>5. s \in [1..i -> FieldType] /\ t \in [1..(i + 1) -> FieldType] /\ t[i + 1] = x /\ \A j \in 1..i : t[j] = s[j]
      <4>1. \A j \in 1..i : j \in 1..(i + 1)   OBVIOUS
      <4>2. i + 1 \in 1..(i + 1)   OBVIOUS
      <4> QED  BY <3>1, <3>2, <3>4, <4>1, <4>2 DEF UpTo
    <3>6. s \o One(x) = t   BY ZenonT(40), <3>3, <3>5, FieldsGrow
    <3>7. CASE i = 0
      <4>1. f[i + 1] = S[i + 1]   BY <2>1, <3>7 DEF FlattenStep
      <4>2. s = <<>>   BY <3>5, <3>7
      <4>3. One(x) \in Seq(FieldType)   BY <3>3, OneIs DEF IsOne
      <4>4. <<>> \o One(x) = One(x)   BY <4>3
      <4> QED  BY <3>3, <3>4, <3>6, <4>1, <4>2, <4>4
    <3>8. CASE i # 0
      <4>1. f[i + 1] = f[i] \o S[i + 1]
        <5>1. i + 1 # 1 /\ (i + 1) - 1 = i   BY <3>8
        <5> QED  BY <2>1, <5>1 DEF FlattenStep
      <4>2. i \in 1..n   BY <3>8
      <4>3. Carries(f[i], s)   BY <2>3, <3>4, <4>2
      <4>4. Carries(f[i] \o S[i + 1], s \o One(x))   BY <3>3, <4>3, CarriesJoin
      <4> QED  BY <3>4, <3>6, <4>1, <4>4
    <3> QED  BY <3>7, <3>8
  <2> HIDE DEF Good
  <2>4. Nat \subseteq Good   BY <2>2, <2>3, Induction DEF Good
  <2>5. n \in 1..n   BY <1>2
  <2>6. Carries(f[n], UpTo(F, n))   BY <2>4, <2>5 DEF Good
  <2>7. UpTo(F, n) = F   BY DEF UpTo
  <2> QED  BY <2>1, <2>6, <2>7
<1> QED  BY <1>1, <1>2

\* The field of a slot within a message.
SlotField(c, via) == Field(1, 2, 0, ConnectedComponentValue(c, via))
\* The fields of the first i slots.
FieldsUpTo(values, via, i) == [j \in 1..i |-> SlotField(values[j], via)]

---------------------------------------------------------------------------
(* Requests: the message and its topic ...                                *)

\* Four fields.
IsFour(s, f, g, h, k) == s \in Seq(FieldType) /\ Len(s) = 4 /\ s[1] = f /\ s[2] = g /\ s[3] = h /\ s[4] = k

\* Two more than two.
LEMMA FourIs == \A f, g, h, k \in FieldType : IsFour(((One(f) \o One(g)) \o One(h)) \o One(k), f, g, h, k)
<1> TAKE f, g, h, k \in FieldType
<1>1. PICK a, b : a = (One(f) \o One(g)) \o One(h) /\ b = One(k)   OBVIOUS
<1>2. a \in Seq(FieldType) /\ Len(a) = 3 /\ a[1] = f /\ a[2] = g /\ a[3] = h
  <2>1. IsThree((One(f) \o One(g)) \o One(h), f, g, h)   BY ThreeIs
  <2>2. IsThree(a, f, g, h)   BY <1>1, <2>1
  <2> QED  BY <2>2 DEF IsThree
<1>3. b \in Seq(FieldType) /\ Len(b) = 1 /\ b[1] = k   BY <1>1, OneIs DEF IsOne
<1>4. PICK c : c = a \o b   OBVIOUS
<1>5. FieldsJoined(c, a, b)
  <2>1. a \in Seq(FieldType) /\ b \in Seq(FieldType)   BY <1>2, <1>3
  <2> QED  BY <1>4, <2>1, FieldsJoin
<1>6. c \in Seq(FieldType) /\ Len(c) = Len(a) + Len(b) /\ (\A i \in 1..Len(a) : c[i] = a[i])
      /\ \A i \in 1..Len(b) : c[Len(a) + i] = b[i]
  BY <1>5 DEF FieldsJoined
<1>7. c[1] = a[1] /\ c[2] = a[2] /\ c[3] = a[3] /\ c[3 + 1] = b[1] /\ Len(c) = 4   BY <1>2, <1>3, <1>6
<1>8. c[4] = b[1]   BY <1>7
<1> QED  BY <1>1, <1>2, <1>3, <1>4, <1>6, <1>7, <1>8 DEF IsFour

\* Where a field is, if there are four.
LEMMA WhereInFour ==
    ASSUME NEW s, NEW f, NEW g, NEW h, NEW k, IsFour(s, f, g, h, k), NEW n, NEW type
    PROVE  Where(s, n, type)
               = (({i \in {1} : f.field = n /\ f.type = type} \cup {i \in {2} : g.field = n /\ g.type = type})
                  \cup {i \in {3} : h.field = n /\ h.type = type}) \cup {i \in {4} : k.field = n /\ k.type = type}
<1>1. DOMAIN s = {1, 2, 3, 4} /\ s[1] = f /\ s[2] = g /\ s[3] = h /\ s[4] = k   BY DEF IsFour
<1> QED  BY <1>1 DEF Where

\* A varint field and its size.
LEMMA VarintPart ==
    \A n \in 0..63, v \in 0..511 : Carries(VarintField(n, v), One(Field(n, 0, v, <<>>))) /\ Sized(VarintField(n, v), 2, 6)
BY ZenonT(40), CarriesVarint, VarintFieldSized

\* A field of bytes and its size.
LEMMA BytesPart ==
    ASSUME NEW n \in 0..63, NEW max \in 0..511, NEW hi, hi = 6 + max, NEW s, Sized(s, 0, max)
    PROVE  Carries(BytesField(n, s), One(Field(n, 2, 0, s))) /\ Sized(BytesField(n, s), 2, hi)
<1>1. Carries(BytesField(n, s), One(Field(n, 2, 0, s)))   BY Zenon, CarriesSized
<1>2. PICK m \in 0..511 : m = 0   OBVIOUS
<1>3. Sized(s, m, max)   BY <1>2
<1>4. Sized(BytesField(n, s), 2 + m, 6 + max)   BY ONLY ZenonT(40), <1>3, BytesFieldSized, n \in 0..63, m \in 0..511, max \in 0..511
<1>5. 2 + m = 2   BY <1>2
<1> QED  BY <1>1, <1>4, <1>5

\* The fields of a request.
MessageFields(id, n, topic) ==
    ((One(Field(1, 0, id, <<>>)) \o One(Field(2, 2, 0, Version))) \o One(Field(3, 0, 7, <<>>))) \o One(Field(n, 2, 0, topic))

\* The size of the version.
LEMMA VersionIs == Sized(Version, 0, 2)
BY Widths DEF Version, Sized

\* A request carries them.
LEMMA MessageCarries ==
    ASSUME NEW id \in 0..511, NEW n \in {4, 8, 9}, NEW topic, Sized(topic, 0, 212)
    PROVE  Carries(RequestMessage(id, n, topic), MessageFields(id, n, topic)) /\ Sized(RequestMessage(id, n, topic), 8, 238)
<1>0. /\ 1 \in 0..63 /\ 2 \in 0..63 /\ 3 \in 0..63 /\ 7 \in 0..511 /\ 0 \in 0..511 /\ 2 \in 0..511 /\ 212 \in 0..511
      /\ 2 \in Nat /\ 4 \in Nat /\ 6 \in Nat /\ 8 \in Nat /\ 12 \in Nat /\ 14 \in Nat /\ 20 \in Nat /\ 218 \in Nat
      /\ 6 + 2 = 8 /\ 2 + 2 = 4 /\ 6 + 8 = 14 /\ 4 + 2 = 6 /\ 14 + 6 = 20 /\ 20 + 218 = 238
  OBVIOUS
<1>n. n \in 0..63   OBVIOUS
<1>1. PICK a, b, c, d : a = VarintField(1, id) /\ b = BytesField(2, Version) /\ c = VarintField(3, 7) /\ d = BytesField(n, topic)
  OBVIOUS
<1>2. Carries(a, One(Field(1, 0, id, <<>>))) /\ Sized(a, 2, 6)   BY ONLY <1>0, <1>1, VarintPart, id \in 0..511, ZenonT(40)
<1>3. Carries(b, One(Field(2, 2, 0, Version))) /\ Sized(b, 2, 8)
  <2>1. PICK max \in 0..511, k \in 0..63, hi \in 0..511 : max = 2 /\ hi = 6 + max /\ hi = 8 /\ k = 2   OBVIOUS
  <2>2. Sized(Version, 0, max) /\ hi = 6 + max   BY <2>1, VersionIs
  <2>3. Carries(BytesField(k, Version), One(Field(k, 2, 0, Version))) /\ Sized(BytesField(k, Version), 2, hi)
    BY ONLY Zenon, <2>2, BytesPart, max \in 0..511, k \in 0..63
  <2> QED  BY <1>1, <2>1, <2>3
<1>4. Carries(c, One(Field(3, 0, 7, <<>>))) /\ Sized(c, 2, 6)
  <2>1. PICK k \in 0..63, v \in 0..511 : k = 3 /\ v = 7   OBVIOUS
  <2>2. Carries(VarintField(k, v), One(Field(k, 0, v, <<>>))) /\ Sized(VarintField(k, v), 2, 6)
    BY ONLY Zenon, VarintPart, k \in 0..63, v \in 0..511
  <2> QED  BY ONLY Zenon, <1>1, <2>1, <2>2
<1>5. Carries(d, One(Field(n, 2, 0, topic))) /\ Sized(d, 2, 218)
  <2>1. PICK max \in 0..511, hi \in 0..511 : max = 212 /\ hi = 6 + max /\ hi = 218   OBVIOUS
  <2>2. Sized(topic, 0, max) /\ hi = 6 + max   BY <2>1
  <2>3. Carries(d, One(Field(n, 2, 0, topic))) /\ Sized(d, 2, hi)   BY ONLY ZenonT(40), <1>n, <1>1, <2>2, BytesPart, max \in 0..511
  <2> QED  BY <2>1, <2>3
<1>6. Carries(a \o b, One(Field(1, 0, id, <<>>)) \o One(Field(2, 2, 0, Version)))   BY <1>2, <1>3, CarriesJoin
<1>7. Carries((a \o b) \o c, (One(Field(1, 0, id, <<>>)) \o One(Field(2, 2, 0, Version))) \o One(Field(3, 0, 7, <<>>)))
  BY <1>4, <1>6, CarriesJoin
<1>8. Carries(((a \o b) \o c) \o d, MessageFields(id, n, topic))   BY <1>5, <1>7, CarriesJoin DEF MessageFields
<1>12. Sized(a \o b, 2 + 2, 6 + 8)   BY <1>0, <1>2, <1>3, SizedJoin
<1>13. Sized(a \o b, 4, 14)   BY <1>0, <1>12
<1>14. Sized((a \o b) \o c, 4 + 2, 14 + 6)   BY <1>0, <1>4, <1>13, SizedJoin
<1>15. Sized((a \o b) \o c, 6, 20)   BY <1>0, <1>14
<1>16. Sized(((a \o b) \o c) \o d, 6 + 2, 20 + 218)   BY <1>0, <1>5, <1>15, SizedJoin
<1>17. Sized(((a \o b) \o c) \o d, 8, 238)   BY <1>0, <1>16
<1>18. RequestMessage(id, n, topic) = ((a \o b) \o c) \o d   BY <1>1 DEF RequestMessage, Timestamp
<1> QED  BY <1>8, <1>17, <1>18

\* What the fields of a request tell
Requested(fs, id, n, topic) ==
    /\ FirstNum(fs, 1) = id /\ FirstNum(fs, 3) = 7 /\ LastBytes(fs, n) = topic
    /\ \A k \in {4, 8, 9} : HasBytes(fs, k) <=> k = n

\* They tell its id, its timestamp and its one topic.
LEMMA MessageTells ==
    ASSUME NEW id \in 0..511, NEW n \in {4, 8, 9}, NEW topic, Sized(topic, 0, 212), NEW strict \in BOOLEAN
    PROVE  Requested(Parse(RequestMessage(id, n, topic), strict).fields, id, n, topic)
<1>0. /\ 0 \in Nat /\ 1 \in Nat /\ 2 \in Nat /\ 3 \in Nat /\ 4 \in Nat /\ 7 \in Nat /\ id \in Nat /\ n \in Nat
      /\ <<>> \in Seq(Byte)
  OBVIOUS
<1>1. PICK x, v, t, p : /\ x = Field(1, 0, id, <<>>) /\ v = Field(2, 2, 0, Version) /\ t = Field(3, 0, 7, <<>>)
                        /\ p = Field(n, 2, 0, topic)
  OBVIOUS
<1>2. x \in FieldType /\ v \in FieldType /\ t \in FieldType /\ p \in FieldType
  <2>1. Version \in Seq(Byte) /\ topic \in Seq(Byte)   BY VersionIs DEF Sized
  <2> QED  BY <1>0, <1>1, <2>1, FieldTyped
<1>3. PICK fs : fs = Parse(RequestMessage(id, n, topic), strict).fields   OBVIOUS
<1>4. fs = MessageFields(id, n, topic)
  <2>1. Carries(RequestMessage(id, n, topic), MessageFields(id, n, topic))   BY MessageCarries
  <2> QED  BY <1>3, <2>1, CarriesParsed
<1>5. IsFour(fs, x, v, t, p)   BY <1>1, <1>2, <1>4, FourIs DEF MessageFields
<1>6. /\ x.field = 1 /\ x.type = 0 /\ x.num = id /\ v.field = 2 /\ v.type = 2 /\ t.field = 3 /\ t.type = 0 /\ t.num = 7
      /\ p.field = n /\ p.type = 2 /\ p.bytes = topic
  BY <1>1 DEF Field
<1>7. fs[1] = x /\ fs[3] = t /\ fs[4] = p   BY <1>5 DEF IsFour
<1>8. Where(fs, 1, 0) = {1}   BY <1>5, <1>6, WhereInFour
<1>9. Where(fs, 3, 0) = {3}   BY <1>5, <1>6, WhereInFour
<1>10. Where(fs, n, 2) = {4}   BY <1>5, <1>6, WhereInFour
<1>11. ASSUME NEW k \in {4, 8, 9}, k # n PROVE ~HasBytes(fs, k)
  <2>1. Where(fs, k, 2) = {}   BY <1>5, <1>6, <1>11, WhereInFour
  <2> QED  BY <2>1, NoBytes
<1>12. FirstNum(fs, 1) = x.num   BY ONLY <1>0, <1>7, <1>8, NumIs
<1>13. FirstNum(fs, 3) = t.num   BY ONLY <1>0, <1>7, <1>9, NumIs
<1>14. LastBytes(fs, n) = p.bytes /\ HasBytes(fs, n)   BY ONLY <1>0, <1>7, <1>10, BytesAre
<1> QED  BY <1>3, <1>6, <1>11, <1>12, <1>13, <1>14 DEF Requested

\* A topic has one field, of a number, or none
TopicTells(topic, k, inner) ==
    /\ Sized(topic, 0, 212)
    /\ \A m \in {2, 3, 4, 6} : HasBytes(Parse(topic, TRUE).fields, m) <=> m = k
    /\ k # 0 => LastBytes(Parse(topic, TRUE).fields, k) = inner
    /\ k = 0 => topic = <<>>

\* A topic of one field tells it.
LEMMA TopicIs ==
    ASSUME NEW k \in 1..10, NEW inner, Sized(inner, 0, 206)
    PROVE  TopicTells(BytesField(k, inner), k, inner)
<1>0. 1 \in Nat /\ 2 \in Nat /\ 0 \in Nat /\ k \in Nat /\ k \in 0..63 /\ TRUE \in BOOLEAN /\ k # 0   OBVIOUS
<1>1. PICK topic, x : topic = BytesField(k, inner) /\ x = Field(k, 2, 0, inner)   OBVIOUS
<1>2. Carries(topic, One(x)) /\ Sized(topic, 2, 212)
  <2>1. PICK max \in 0..511, hi \in 0..511 : max = 206 /\ hi = 6 + max /\ hi = 212   OBVIOUS
  <2>2. Sized(inner, 0, max) /\ hi = 6 + max   BY <2>1
  <2>3. Carries(BytesField(k, inner), One(Field(k, 2, 0, inner))) /\ Sized(BytesField(k, inner), 2, hi)
    BY ONLY ZenonT(40), <1>0, <2>2, BytesPart, max \in 0..511
  <2> QED  BY <1>1, <2>1, <2>3
<1>3. Sized(topic, 0, 212)
  <2>1. topic \in Seq(Byte) /\ Len(topic) <= 212   BY <1>2 DEF Sized
  <2> QED  BY <2>1 DEF Sized
<1>4. PICK fs : fs = Parse(topic, TRUE).fields   OBVIOUS
<1>5. fs = One(x)   BY <1>0, <1>2, <1>4, CarriesParsed
<1>6. x \in FieldType
  <2>1. inner \in Seq(Byte)   BY DEF Sized
  <2> QED  BY <1>0, <1>1, <2>1, FieldTyped
<1>7. IsOne(fs, x)   BY <1>5, <1>6, OneIs
<1>8. x.field = k /\ x.type = 2 /\ x.bytes = inner   BY <1>1 DEF Field
<1>9. Where(fs, k, 2) = {1}   BY <1>7, <1>8, WhereInOne
<1>10. fs[1] = x   BY <1>7 DEF IsOne
<1>11. LastBytes(fs, k) = x.bytes /\ HasBytes(fs, k)   BY ONLY <1>0, <1>9, <1>10, BytesAre
<1>12. ASSUME NEW m, m # k PROVE ~HasBytes(fs, m)
  <2>1. Where(fs, m, 2) = {}   BY <1>7, <1>8, <1>12, WhereInOne
  <2> QED  BY <2>1, NoBytes
<1> QED  BY <1>0, <1>1, <1>3, <1>4, <1>8, <1>11, <1>12 DEF TopicTells

\* An empty topic tells nothing.
LEMMA NoTopicIs == TopicTells(<<>>, 0, <<>>)
<1>0. TRUE \in BOOLEAN   OBVIOUS
<1>1. PICK e : e = <<>>   OBVIOUS
<1>2. Parse(e, TRUE).fields = <<>>   BY <1>0, <1>1, CarriesNone, CarriesParsed
<1>3. PICK fs : fs = Parse(e, TRUE).fields   BY Zenon
<1>4. \A m : Where(fs, m, 2) = {}
  <2>1. DOMAIN fs = {}
    <3>3. fs = <<>>   BY ONLY <1>2, <1>3, Zenon
    <3>1. fs \in Seq(FieldType) /\ Len(fs) = 0   BY ONLY <3>3
    <3>2. DOMAIN fs = 1..0 /\ 1..0 = {}   BY <3>1
    <3> QED  BY <3>2
  <2> QED  BY <2>1 DEF Where
<1>5. \A m : ~HasBytes(fs, m)   BY <1>4, NoBytes
<1>6. Sized(e, 0, 212)   BY <1>1 DEF Sized
<1>7. \A m \in {2, 3, 4, 6} : m # 0   OBVIOUS
<1> QED  BY <1>1, <1>3, <1>5, <1>6, <1>7 DEF TopicTells

\* The topics that there are.
Kinded(n, k) == <<n, k>> \in {<<4, 2>>, <<4, 3>>, <<8, 4>>, <<8, 6>>, <<9, 2>>, <<9, 0>>}

---------------------------------------------------------------------------
(* ... the topics that say the same to everyone ...                       *)

\* The topics that are always the same.
LEMMA FixedTopics ==
    /\ \E inner : TopicTells(RestartTopic, 2, inner)
    /\ \E inner : TopicTells(PairTopic, 4, inner)
    /\ \E inner : TopicTells(ConfirmTopic, 6, inner)
<1>0. /\ 1 \in 0..63 /\ 4 \in 0..63 /\ 1 \in 0..511 /\ 2 \in 1..10 /\ 4 \in 1..10 /\ 6 \in 1..10
      /\ 2 \in Nat /\ 3 \in Nat /\ 6 \in Nat /\ 7 \in Nat /\ 13 \in Nat /\ 0 \in Nat /\ 206 \in Nat
  OBVIOUS
<1>1. Sized(VarintField(1, 1), 2, 6) /\ Sized(VarintField(4, 1), 2, 6)   BY Zenon, <1>0, VarintFieldSized
<1>2. Sized(VarintField(1, 1), 0, 206)   BY <1>1 DEF Sized
<1>3. TopicTells(RestartTopic, 2, VarintField(1, 1))   BY <1>0, <1>2, TopicIs DEF RestartTopic
<1>4. TopicTells(ConfirmTopic, 6, VarintField(1, 1))   BY <1>0, <1>2, TopicIs DEF ConfirmTopic
<1>5. PICK a, b : a = BytesField(1, <<4>>) /\ b = VarintField(4, 1)   OBVIOUS
<1>6. Sized(a, 2, 7)
  <2>1. PICK max \in 0..511, hi, k \in 0..63 : max = 1 /\ hi = 6 + max /\ hi = 7 /\ k = 1   OBVIOUS
  <2>4. PICK e : e = <<4>>   OBVIOUS
  <2>2. Sized(e, 0, max) /\ hi = 6 + max   BY <2>1, <2>4, Widths DEF Sized
  <2>3. Sized(BytesField(k, e), 2, hi)   BY ONLY Zenon, <2>2, BytesPart, max \in 0..511, k \in 0..63
  <2> QED  BY <1>5, <2>1, <2>3, <2>4
<1>7. Sized(a \o b, 2 + 2, 7 + 6)   BY <1>0, <1>1, <1>5, <1>6, SizedJoin
<1>8. Sized(a \o b, 0, 206)   BY <1>7 DEF Sized
<1>9. TopicTells(PairTopic, 4, a \o b)   BY <1>0, <1>5, <1>8, TopicIs DEF PairTopic
<1> QED  BY <1>3, <1>4, <1>9

---------------------------------------------------------------------------
(* ... and the search for one.                                            *)

\* The only field of some bytes
LEMMA WithinOne ==
    ASSUME NEW n \in 1..10, NEW b, Sized(b, 8, 238), NEW strict \in BOOLEAN, NEW fs,
           fs = Parse(BytesField(n, b), strict).fields
    PROVE  /\ IsOne(fs, Field(n, 2, 0, b)) /\ LastBytes(fs, n) = b /\ Sized(BytesField(n, b), 0, 255)
<1>0. 1 \in Nat /\ 2 \in Nat /\ 0 \in Nat /\ n \in Nat /\ n \in 0..63   OBVIOUS
<1>1. PICK x : x = Field(n, 2, 0, b)   OBVIOUS
<1>2. Sized(b, 0, 238) /\ b \in Seq(Byte)   BY DEF Sized
<1>3. Carries(BytesField(n, b), One(x)) /\ Sized(BytesField(n, b), 2, 244)
  <2>1. PICK max \in 0..511, hi \in 0..511 : max = 238 /\ hi = 6 + max /\ hi = 244   OBVIOUS
  <2>2. Sized(b, 0, max) /\ hi = 6 + max   BY <1>2, <2>1
  <2>3. Carries(BytesField(n, b), One(Field(n, 2, 0, b))) /\ Sized(BytesField(n, b), 2, hi)
    BY ONLY Zenon, <1>0, <2>2, BytesPart, max \in 0..511
  <2> QED  BY <1>1, <2>1, <2>3
<1>4. fs = One(x)   BY <1>3, CarriesParsed
<1>5. x \in FieldType   BY <1>0, <1>1, <1>2, FieldTyped
<1>6. IsOne(fs, x)   BY <1>4, <1>5, OneIs
<1>7. x.field = n /\ x.type = 2 /\ x.bytes = b   BY <1>1 DEF Field
<1>8. Where(fs, n, 2) = {1}   BY <1>6, <1>7, WhereInOne
<1>9. fs[1] = x   BY <1>6 DEF IsOne
<1>10. LastBytes(fs, n) = x.bytes   BY ONLY <1>0, <1>8, <1>9, BytesAre
<1>11. Sized(BytesField(n, b), 0, 255)
  <2>1. PICK c : c = BytesField(n, b)   OBVIOUS
  <2>2. c \in Seq(Byte) /\ Len(c) <= 244   BY <1>3, <2>1 DEF Sized
  <2>3. Len(c) >= 0 /\ Len(c) <= 255   BY <2>2
  <2> QED  BY <2>1, <2>2, <2>3 DEF Sized
<1> QED  BY <1>1, <1>6, <1>7, <1>10, <1>11

\* The fields of some bytes, each shorter than these
Shorter(fs, n) == \A i \in 1..Len(fs) : Len(fs[i].bytes) < n

\* The parts of a message are shorter than it.
LEMMA PartsAreShorter ==
    ASSUME NEW b \in Seq(Byte), NEW strict \in BOOLEAN
    PROVE  Parse(b, strict).fields \in Seq(FieldType) /\ Shorter(Parse(b, strict).fields, Len(b))
<1>1. PICK z \in Nat : z = Len(b)   OBVIOUS
<1> DEFINE F(x) == ParseFrom(b, strict)[x].fields
           Bad == {k \in Nat : \E x \in 1..(z + 1) : k = z + 1 - x /\ ~Shorter(F(x), z)}
<1>2. \A x \in 1..(z + 1) : F(x) \in Seq(FieldType)   BY <1>1, ParsedType
<1>3. ASSUME NEW k \in Bad, \A j \in Bad : k <= j PROVE FALSE
  <2>1. PICK x \in 1..(z + 1) : k = z + 1 - x /\ ~Shorter(F(x), z)   OBVIOUS
  <2>2. ParseFrom(b, strict)[x] = ParseStep(ParseFrom(b, strict), b, x, strict)   BY <1>1, ParseUnfolds
  <2>3. PICK p : p = ParseField(b, x, strict)   OBVIOUS
  <2>4. CASE x > z \/ ~p.ok
    <3>1. F(x) = <<>>   BY <1>1, <2>2, <2>3, <2>4 DEF ParseStep
    <3>2. Len(F(x)) = 0   BY <3>1
    <3> HIDE DEF F
    <3> QED  BY <2>1, <3>2 DEF Shorter
  <2>5. CASE ~(x > z) /\ p.ok
    <3>1. x \in 1..Len(b)   BY <1>1, <2>5
    <3>2. FieldAt(p, b, x)   BY <2>3, <3>1, ParseFieldIs
    <3>3. p.next \in (x + 1)..(z + 1) /\ Len(p.field.bytes) < z /\ p.field \in FieldType   BY <1>1, <2>5, <3>2 DEF FieldAt
    <3>4. PICK y \in (x + 1)..(z + 1) : y = p.next   BY <3>3
    <3>5. y \in 1..(z + 1) /\ z + 1 - y \in Nat /\ z + 1 - y < k   BY <2>1, <3>4
    <3>6. Shorter(F(y), z)
      <4> SUFFICES ASSUME ~Shorter(F(y), z) PROVE FALSE   OBVIOUS
      <4>1. z + 1 - y \in Bad   BY <3>5
      <4>2. k <= z + 1 - y   BY <1>3, <4>1
      <4>3. k \in Nat /\ z + 1 - y \in Nat   BY <2>1, <3>5
      <4>4. PICK w \in Nat : w = z + 1 - y   BY <3>5
      <4> HIDE DEF Bad
      <4> QED  BY <3>5, <4>2, <4>3, <4>4
    <3>7. F(x) = <<p.field>> \o F(y)
      <4>1. ParseFrom(b, strict)[x].fields = <<p.field>> \o ParseFrom(b, strict)[p.next].fields
        BY SMTT(40), <2>3, <2>5, <3>1, FieldsFrom
      <4> QED  BY ONLY Zenon, <3>4, <4>1
    <3>8. PICK f, s : f = p.field /\ s = F(y)   OBVIOUS
    <3>9. f \in FieldType /\ s \in Seq(FieldType) /\ Len(f.bytes) < z /\ Shorter(s, z)   BY <1>2, <3>3, <3>5, <3>6, <3>8
    <3>10. PICK o : o = One(f)   OBVIOUS
    <3>11. o \in Seq(FieldType) /\ Len(o) = 1 /\ o[1] = f   BY <3>9, <3>10, OneIs DEF IsOne
    <3>12. PICK c : c = o \o s   OBVIOUS
    <3>13. FieldsJoined(c, o, s)
      <4>1. o \in Seq(FieldType) /\ s \in Seq(FieldType)   BY <3>9, <3>11
      <4> QED  BY <3>12, <4>1, FieldsJoin
    <3>14. Len(c) = 1 + Len(s) /\ (\A i \in 1..1 : c[i] = o[i]) /\ \A i \in 1..Len(s) : c[1 + i] = s[i]
      BY <3>11, <3>13 DEF FieldsJoined
    <3>15. Shorter(c, z)
      <4>1. Len(s) \in Nat   BY <3>9
      <4>2. ASSUME NEW i \in 1..(1 + Len(s)) PROVE Len(c[i].bytes) < z
        <5>1. CASE i = 1   BY <3>9, <3>11, <3>14, <5>1
        <5>2. CASE i # 1
          <6>1. PICK j \in 1..Len(s) : i = 1 + j
            <7>1. i - 1 \in 1..Len(s) /\ i = 1 + (i - 1)   BY <4>1, <5>2
            <7> QED  BY <7>1
          <6>2. c[i] = s[j]   BY <3>14, <6>1
          <6> QED  BY <3>9, <6>2 DEF Shorter
        <5> QED  BY <5>1, <5>2
      <4> QED  BY <3>14, <4>2 DEF Shorter
    <3>16. F(x) = c   BY <3>7, <3>8, <3>10, <3>12 DEF One
    <3> QED  BY <2>1, <3>15, <3>16
  <2> QED  BY <2>4, <2>5
<1>4. Bad \in SUBSET Nat   OBVIOUS
<1>5. Bad = {}
  <2> HIDE DEF Bad
  <2> QED  BY <1>3, <1>4, LeastNat
<1>6. 1 \in 1..(z + 1) /\ z + 1 - 1 \in Nat   OBVIOUS
<1>7. Shorter(F(1), z)   BY <1>5, <1>6
<1>8. F(1) \in Seq(FieldType)   BY <1>2, <1>6
<1> QED  BY <1>1, <1>7, <1>8 DEF Parse

\* The nested fields of some bytes in which a request's id is found
FoundIn(f, fs) == {i \in Nested(fs) : f[fs[i].bytes] # None}
\* One turn of _find_request_message: f gives what is found in the parts.
FindStep(f, x) ==
    LET fs == Parse(x, FALSE).fields
    IN  IF FirstNum(fs, 1) # None /\ FirstNum(fs, 3) # None THEN FirstNum(fs, 1)
        ELSE IF FoundIn(f, fs) = {} THEN None
        ELSE f[fs[Min(FoundIn(f, fs))].bytes]

\* A number that was found, or None.
LEMMA FirstNumType ==
    ASSUME NEW fs \in Seq(FieldType), NEW n
    PROVE  FirstNum(fs, n) \in Int
<1>1. PICK S : S = Where(fs, n, 0)   OBVIOUS
<1>2. CASE S = {}   BY <1>1, <1>2, Widths DEF FirstNum
<1>3. CASE S # {}
  <2>1. S \in SUBSET (1..Len(fs)) /\ S \in SUBSET Nat
    <3>1. S \in SUBSET (1..Len(fs))   BY <1>1 DEF Where
    <3> QED  BY <3>1
  <2>2. Min(S) \in S   BY <1>3, <2>1, MinimumOf
  <2>3. PICK i \in 1..Len(fs) : i = Min(S)   BY <2>1, <2>2
  <2>4. fs[i] \in FieldType   OBVIOUS
  <2>5. fs[i].num \in Int   BY <2>4 DEF FieldType
  <2> QED  BY <1>1, <1>3, <2>3, <2>5 DEF FirstNum
<1> QED  BY <1>2, <1>3

\* The part in which a request was found is shorter.
LEMMA FoundIs ==
    ASSUME NEW x \in Seq(Byte), NEW f, FoundIn(f, Parse(x, FALSE).fields) # {}
    PROVE  LET b == Parse(x, FALSE).fields[Min(FoundIn(f, Parse(x, FALSE).fields))].bytes
           IN  b \in Seq(Byte) /\ Len(b) < Len(x)
<1>0. FALSE \in BOOLEAN   OBVIOUS
<1>1. PICK fs, S : fs = Parse(x, FALSE).fields /\ S = FoundIn(f, fs)   OBVIOUS
<1>2. fs \in Seq(FieldType) /\ Shorter(fs, Len(x))   BY <1>0, <1>1, PartsAreShorter
<1>3. S \in SUBSET (1..Len(fs))
  <2>1. DOMAIN fs = 1..Len(fs)   BY <1>2
  <2> QED  BY <1>1, <2>1 DEF FoundIn, Nested
<1>4. S \in SUBSET Nat   BY <1>3
<1>5. Min(S) \in S   BY <1>1, <1>4, MinimumOf
<1>6. PICK i \in 1..Len(fs) : i = Min(S)   BY <1>3, <1>5
<1>7. fs[i] \in FieldType   BY <1>2
<1>8. fs[i].bytes \in Seq(Byte) /\ Len(fs[i].bytes) < Len(x)   BY <1>2, <1>7 DEF FieldType, Shorter
<1> QED  BY <1>1, <1>6, <1>8

\* One turn keeps its types.
LEMMA FindStepType ==
    ASSUME NEW x \in Seq(Byte), NEW f \in [Seq(Byte) -> Int]
    PROVE  FindStep(f, x) \in Int
<1>0. FALSE \in BOOLEAN /\ None \in Int   BY Widths
<1>1. PICK fs : fs = Parse(x, FALSE).fields   OBVIOUS
<1>2. fs \in Seq(FieldType)   BY <1>0, <1>1, PartsAreShorter
<1>3. FirstNum(fs, 1) \in Int   BY <1>2, FirstNumType
<1>4. CASE FirstNum(fs, 1) # None /\ FirstNum(fs, 3) # None   BY <1>1, <1>3, <1>4 DEF FindStep
<1>5. CASE ~(FirstNum(fs, 1) # None /\ FirstNum(fs, 3) # None) /\ FoundIn(f, fs) = {}   BY <1>0, <1>1, <1>5 DEF FindStep
<1>6. CASE ~(FirstNum(fs, 1) # None /\ FirstNum(fs, 3) # None) /\ FoundIn(f, fs) # {}
  <2>1. PICK b : b = fs[Min(FoundIn(f, fs))].bytes   OBVIOUS
  <2>2. b \in Seq(Byte)   BY <1>1, <1>6, <2>1, FoundIs
  <2>3. FindStep(f, x) = f[b]   BY <1>1, <1>6, <2>1 DEF FindStep
  <2> QED  BY <2>2, <2>3
<1> QED  BY <1>4, <1>5, <1>6

\* It looks only at shorter parts.
LEMMA FindStepSame ==
    ASSUME NEW x \in Seq(Byte), NEW f1, NEW f2, \A y \in Seq(Byte) : Len(y) < Len(x) => f1[y] = f2[y]
    PROVE  FindStep(f1, x) = FindStep(f2, x)
<1>0. FALSE \in BOOLEAN   OBVIOUS
<1>1. PICK fs : fs = Parse(x, FALSE).fields   OBVIOUS
<1>2. fs \in Seq(FieldType) /\ Shorter(fs, Len(x))   BY <1>0, <1>1, PartsAreShorter
<1>3. FoundIn(f1, fs) = FoundIn(f2, fs)
  <2>1. ASSUME NEW i \in Nested(fs) PROVE f1[fs[i].bytes] = f2[fs[i].bytes]
    <3>1. i \in 1..Len(fs)   BY <1>2 DEF Nested
    <3>2. fs[i] \in FieldType   BY <1>2, <3>1
    <3>3. PICK b : b = fs[i].bytes   OBVIOUS
    <3>4. b \in Seq(Byte) /\ Len(b) < Len(x)   BY <1>2, <3>1, <3>2, <3>3 DEF FieldType, Shorter
    <3> QED  BY <3>3, <3>4
  <2> QED  BY <2>1 DEF FoundIn
<1>4. CASE FoundIn(f1, fs) = {}   BY <1>1, <1>3, <1>4 DEF FindStep
<1>5. CASE FoundIn(f1, fs) # {}
  <2>1. PICK b : b = fs[Min(FoundIn(f1, fs))].bytes   OBVIOUS
  <2>2. b \in Seq(Byte) /\ Len(b) < Len(x)   BY <1>1, <1>5, <2>1, FoundIs
  <2>3. f1[b] = f2[b]   BY <2>2
  <2> QED  BY <1>1, <1>3, <1>5, <2>1, <2>3 DEF FindStep
<1> QED  BY <1>4, <1>5

\* The recursion of _find_request_message unfolds.
LEMMA FindRequestUnfolds ==
    \E find : \A x \in Seq(Byte) : FindRequest(x) = find[x] /\ find[x] = FindStep(find, x)
<1> DEFINE D == Seq(Byte)
           V == Int
           m == [x \in D |-> Len(x)]
           g == [x \in D |-> [f \in [D -> V] |-> FindStep(f, x)]]
           find == CHOOSE f : f = [x \in D |-> FindStep(f, x)]
<1>1. \A x \in D, f \in [D -> V] : FindStep(f, x) \in V   BY FindStepType
<1>2. ASSUME NEW x \in D, NEW f1 \in [D -> V], NEW f2 \in [D -> V], \A y \in D : m[y] < m[x] => f1[y] = f2[y]
      PROVE  FindStep(f1, x) = FindStep(f2, x)
  <2>1. \A y \in Seq(Byte) : Len(y) < Len(x) => f1[y] = f2[y]   BY <1>2
  <2> QED  BY ONLY <2>1, FindStepSame, x \in Seq(Byte)
<1>3. V # {} /\ m \in [D -> Nat]   OBVIOUS
<1>4. g \in [D -> [[D -> V] -> V]]   BY <1>1
<1>5. Recursion(D, V, m, g)
  <2>1. \A x \in D, f1 \in [D -> V], f2 \in [D -> V] :
            (\A y \in D : m[y] < m[x] => f1[y] = f2[y]) => g[x][f1] = g[x][f2]
    <3> HIDE DEF m, D, V
    <3> QED  BY <1>2
  <2> HIDE DEF D, V, g, m
  <2> QED  BY <1>3, <1>4, <2>1 DEF Recursion
<1>6. \E f \in [D -> V] : \A x \in D : f[x] = g[x][f]
  <2> HIDE DEF D, V, g, m
  <2> QED  BY <1>5, RecursiveFunction
<1>7. \E f : f = [x \in D |-> FindStep(f, x)]
  <2> HIDE DEF D, V
  <2> QED  BY <1>6
<1>8. find = [x \in D |-> FindStep(find, x)]   BY <1>7
<1>9. \A x \in D : FindRequest(x) = find[x]   BY DEF FindRequest, FindStep, FoundIn
<1> HIDE DEF find
<1>10. \A x \in D : find[x] = FindStep(find, x)   BY <1>8
<1> QED  BY <1>9, <1>10

---------------------------------------------------------------------------
(* Reports.  An entry is read back: its fields ...                        *)

\* The field a reported value is written in.
ValueField(v, n) ==
    CASE v.kind = "int" -> Field(n, 0, v.v, <<>>)
      [] v.kind = "str" -> Field(4, 2, 0, v.s)
      [] v.kind = "bool" -> Field(5, 0, v.v, <<>>)
      [] v.kind = "float" -> Field(6, 5, v.v, <<>>)
\* A field, and bytes that carry it and nothing else.
Carried(b, f) == Carries(b, One(f)) /\ f \in FieldType /\ b \in Seq(Byte)

\* A varint field of a report is read back.
LEMMA VarintCarried ==
    ASSUME NEW n \in 0..63, NEW w \in 0..511
    PROVE  Carried(VarintField(n, w), Field(n, 0, w, <<>>))
<1>1. Carries(VarintField(n, w), One(Field(n, 0, w, <<>>)))   BY Zenon, CarriesVarint
<1>2. n \in Nat /\ 0 \in Nat /\ w \in Nat /\ <<>> \in Seq(Byte)   OBVIOUS
<1>3. Field(n, 0, w, <<>>) \in FieldType   BY <1>2, FieldTyped
<1> QED  BY <1>1, <1>3 DEF Carried, Carries

\* So is a field of four bytes ...
LEMMA FloatCarried ==
    ASSUME NEW n \in 0..63, NEW w \in Byte
    PROVE  Carried(FloatField(n, w), Field(n, 5, w, <<>>))
<1>1. Carries(FloatField(n, w), One(Field(n, 5, w, <<>>)))   BY CarriesFloat
<1>2. n \in Nat /\ 5 \in Nat /\ w \in Nat /\ <<>> \in Seq(Byte)   BY Widths
<1>3. Field(n, 5, w, <<>>) \in FieldType   BY <1>2, FieldTyped
<1> QED  BY <1>1, <1>3 DEF Carried, Carries

\* ... and a field of bytes.
LEMMA BytesCarried ==
    ASSUME NEW n \in 0..63, NEW max \in 0..511, NEW s, Sized(s, 0, max)
    PROVE  Carried(BytesField(n, s), Field(n, 2, 0, s))
<1>1. Carries(BytesField(n, s), One(Field(n, 2, 0, s)))   BY Zenon, CarriesSized
<1>2. n \in Nat /\ 2 \in Nat /\ 0 \in Nat /\ s \in Seq(Byte)   BY DEF Sized
<1>3. Field(n, 2, 0, s) \in FieldType   BY <1>2, FieldTyped
<1> QED  BY <1>1, <1>3 DEF Carried, Carries

\* The fields of an entry
EntryFields(fs, e) ==
    /\ fs \in Seq(FieldType) /\ Len(fs) = 2 + Len(e.values)
    /\ fs[1] = Field(1, 0, e.sid, <<>>) /\ fs[2] = Field(2, 0, e.bus, <<>>)
    /\ \A i \in 1..Len(e.values) : fs[2 + i] = ValueField(e.values[i], e.intField)

---------------------------------------------------------------------------
(* ... and its value, of the preferred kind.                              *)

\* Where a kind of value is found among the fields of an entry
Tagged(kind, n, type, intField) ==
    \/ kind = "str" /\ n = 4 /\ type = 2
    \/ kind = "float" /\ n = 6 /\ type = 5
    \/ kind = "int" /\ n = intField /\ type = 0
    \/ kind = "bool" /\ n = 5 /\ type = 0
\* A field tells a value: the decoder makes that value of it.
TellsValue(f, v, n) ==
    /\ v.kind \in {"str", "float", "int", "bool"}
    /\ v.kind = "str" => f.field = 4 /\ f.type = 2 /\ Value("str", 0, f.bytes) = v /\ Printable(f.bytes)
    /\ v.kind = "float" => f.field = 6 /\ f.type = 5 /\ Value("float", f.num, <<>>) = v
    /\ v.kind = "int" => f.field = n /\ f.type = 0 /\ Value("int", f.num, <<>>) = v
    /\ v.kind = "bool" => f.field = 5 /\ f.type = 0 /\ f.num \in {0, 1} /\ Value("bool", f.num, <<>>) = v

\* An entry as it is parsed: its fields in order
Entered(fs, e, n) ==
    /\ n \in Nat \ {0} /\ Len(fs) = 2 + n /\ DOMAIN fs = 1..(2 + n) /\ DOMAIN e.values = 1..n
    /\ fs[1] = Field(1, 0, e.sid, <<>>) /\ fs[2] = Field(2, 0, e.bus, <<>>)
    /\ e.intField \in {3, 7} /\ e.sid \in 0..5 /\ e.bus \in 0..5
    /\ \A i \in 1..n : TellsValue(fs[2 + i], e.values[i], e.intField)
    /\ \A i, j \in 1..n : e.values[i].kind = e.values[j].kind => i = j

\* Every field of an entry but the first two is that of a value
LEMMA PlacesLaid ==
    ASSUME NEW n \in Nat \ {0}, NEW j \in 1..(2 + n)
    PROVE  j = 1 \/ j = 2 \/ \E i \in 1..n : j = 2 + i
<1>1. CASE j >= 3
  <2>1. j - 2 \in 1..n /\ j = 2 + (j - 2)   BY <1>1
  <2> QED  BY <2>1
<1> QED  BY <1>1

\* Where the fields of a kind are: where its value is, or nowhere
FoundAt(e, n, kind, at) ==
    /\ \A i \in 1..n : e.values[i].kind = kind => at = {2 + i}
    /\ (\A i \in 1..n : e.values[i].kind # kind) => at = {}
\* The fields of one kind are where the values of that kind are.
LEMMA WhereKind ==
    ASSUME NEW fs, NEW e, NEW n, Entered(fs, e, n), NEW kind, NEW num, NEW type, Tagged(kind, num, type, e.intField)
    PROVE  FoundAt(e, n, kind, Where(fs, num, type))
<1>1. n \in Nat \ {0} /\ DOMAIN fs = 1..(2 + n)   BY DEF Entered
<1>2. fs[1].field = 1 /\ fs[2].field = 2   BY DEF Entered, Field
<1>3. num \notin {1, 2}   BY DEF Tagged, Entered
<1>4. \A i \in 1..n : fs[2 + i].field = num /\ fs[2 + i].type = type <=> e.values[i].kind = kind
  <2> TAKE i \in 1..n
  <2>1. TellsValue(fs[2 + i], e.values[i], e.intField) /\ e.intField \in {3, 7}   BY DEF Entered
  <2> QED  BY <2>1 DEF TellsValue, Tagged
<1>5. \A j \in Where(fs, num, type) : \E i \in 1..n : j = 2 + i /\ e.values[i].kind = kind
  <2> TAKE j \in Where(fs, num, type)
  <2>1. j \in 1..(2 + n) /\ fs[j].field = num /\ fs[j].type = type   BY <1>1 DEF Where
  <2>2. j # 1 /\ j # 2   BY <1>2, <1>3, <2>1
  <2>3. PICK i \in 1..n : j = 2 + i   BY <1>1, <2>1, <2>2, PlacesLaid
  <2> QED  BY <1>4, <2>1, <2>3
<1>6. ASSUME NEW i \in 1..n, e.values[i].kind = kind PROVE Where(fs, num, type) = {2 + i}
  <2>1. 2 + i \in Where(fs, num, type)
    <3>1. 2 + i \in 1..(2 + n)   BY <1>1
    <3> QED  BY <1>1, <1>4, <1>6, <3>1 DEF Where
  <2>2. \A k \in 1..n : e.values[k].kind = kind => k = i   BY <1>6 DEF Entered
  <2> QED  BY <1>5, <2>1, <2>2
<1> QED  BY <1>5, <1>6 DEF FoundAt

\* The slot and the bus are found first, the fields make an entry, and of the two fields
\* for integers only one is used.
LEMMA WhereHead ==
    ASSUME NEW fs, NEW e, NEW n, Entered(fs, e, n)
    PROVE  /\ FirstNum(fs, 1) = e.sid /\ FirstNum(fs, 2) = e.bus /\ IsEntry(fs)
           /\ Where(fs, 10 - e.intField, 0) = {}
<1>1. n \in Nat \ {0} /\ DOMAIN fs = 1..(2 + n)   BY DEF Entered
<1>2. fs[1].field = 1 /\ fs[2].field = 2 /\ fs[1].type = 0 /\ fs[2].type = 0 /\ fs[1].num = e.sid /\ fs[2].num = e.bus
  BY DEF Entered, Field
<1>3. \A i \in 1..n : /\ fs[2 + i].field \in 3..7 /\ fs[2 + i].type \in {0, 2, 5}
                      /\ ~(fs[2 + i].field = 10 - e.intField /\ fs[2 + i].type = 0)
  <2> TAKE i \in 1..n
  <2>1. TellsValue(fs[2 + i], e.values[i], e.intField) /\ e.intField \in {3, 7}   BY DEF Entered
  <2> QED  BY <2>1 DEF TellsValue
<1>4. ASSUME NEW j \in 1..(2 + n), NEW m, m \in {1, 2, 10 - e.intField}, fs[j].field = m, fs[j].type = 0
      PROVE  j = m
  <2>1. e.intField \in {3, 7}   BY DEF Entered
  <2>2. CASE j = 1   BY <1>2, <1>4, <2>1, <2>2
  <2>3. CASE j = 2   BY <1>2, <1>4, <2>1, <2>3
  <2>4. CASE \E i \in 1..n : j = 2 + i
    <3>1. PICK i \in 1..n : j = 2 + i   BY <2>4
    <3> QED  BY <1>3, <1>4, <3>1
  <2> QED  BY <1>1, <2>2, <2>3, <2>4, PlacesLaid
<1>5. 1 \in 1..(2 + n) /\ 2 \in 1..(2 + n) /\ 3 \in 1..(2 + n) /\ 1 \in 1..n /\ 2 + 1 = 3   BY <1>1
<1>6. Where(fs, 1, 0) = {1} /\ Where(fs, 2, 0) = {2}   BY <1>1, <1>2, <1>4, <1>5 DEF Where
<1>7. Where(fs, 10 - e.intField, 0) = {}
  <2>1. e.intField \in {3, 7}   BY DEF Entered
  <2>2. ASSUME NEW j \in Where(fs, 10 - e.intField, 0) PROVE FALSE
    <3>1. j \in 1..(2 + n) /\ fs[j].field = 10 - e.intField /\ fs[j].type = 0   BY <1>1, <2>2 DEF Where
    <3>2. j # 1 /\ j # 2   BY <1>2, <2>1, <3>1
    <3>3. PICK i \in 1..n : j = 2 + i   BY <1>1, <3>1, <3>2, PlacesLaid
    <3> QED  BY <1>3, <3>1, <3>3
  <2> QED  BY <2>2
<1>8. PICK one \in Nat, two \in Nat : one = 1 /\ two = 2   OBVIOUS
<1>9. FirstNum(fs, 1) = e.sid /\ FirstNum(fs, 2) = e.bus
  <2>1. Where(fs, one, 0) = {one} /\ Where(fs, two, 0) = {two}   BY <1>6, <1>8
  <2>2. FirstNum(fs, one) = fs[one].num /\ FirstNum(fs, two) = fs[two].num   BY <2>1, NumIs
  <2> QED  BY <1>2, <1>8, <2>2
<1>10. IsEntry(fs)
  <2>1. e.sid # None /\ e.bus # None   BY Widths DEF Entered
  <2>2. fs[3].field \in 3..7 /\ fs[3].type \in {0, 2, 5}   BY <1>3, <1>5
  <2> QED  BY <1>1, <1>5, <1>9, <2>1, <2>2 DEF IsEntry
<1> QED  BY <1>7, <1>9, <1>10

\* The values of an entry of a kind: none, or one
OfKind(e, kind) == {v \in ToSet(e.values) : v.kind = kind}
\* What the last field of a number and type says, if there is one.
NumbersOf(fs, n, type, kind) ==
    LET at == Where(fs, n, type) IN IF at = {} THEN {} ELSE {Value(kind, fs[Max(at)].num, <<>>)}
\* The fields that are text.
TextsIn(fs) == {i \in Where(fs, 4, 2) : Printable(fs[i].bytes)}
\* What the last text says.
TextOf(fs) == LET texts == TextsIn(fs) IN IF texts = {} THEN {} ELSE {Value("str", 0, fs[Max(texts)].bytes)}
\* What the last boolean says, as 0 or 1.
BoolOf(fs) == {[c EXCEPT !.v = IF @ = 0 THEN 0 ELSE 1] : c \in NumbersOf(fs, 5, 0, "bool")}

\* The candidates for a value, as the decoder ranks them.
LEMMA ValuesAre ==
    ASSUME NEW fs
    PROVE  ValuesOf(fs) = <<TextOf(fs), NumbersOf(fs, 6, 5, "float"), NumbersOf(fs, 3, 0, "int"),
                            NumbersOf(fs, 7, 0, "int"), BoolOf(fs)>>
BY DEF ValuesOf, TextOf, TextsIn, BoolOf, NumbersOf

\* The values of a kind: the one there is, or none.
Holds(e, n, kind, values) ==
    /\ \A i \in 1..n : e.values[i].kind = kind => values = {e.values[i]}
    /\ (\A i \in 1..n : e.values[i].kind # kind) => values = {}
\* Kinds are distinct within an entry, so each has one value at most.
LEMMA OfKindIs ==
    ASSUME NEW fs, NEW e, NEW n, Entered(fs, e, n), NEW kind
    PROVE  Holds(e, n, kind, OfKind(e, kind))
<1>1. OfKind(e, kind) = {v \in {e.values[i] : i \in 1..n} : v.kind = kind}   BY DEF OfKind, ToSet, Entered
<1>2. \A i, j \in 1..n : e.values[i].kind = e.values[j].kind => i = j   BY DEF Entered
<1> QED  BY <1>1, <1>2 DEF Holds

\* The decoder reads of a numeric kind the value of that kind,
LEMMA NumbersAre ==
    ASSUME NEW fs, NEW e, NEW n, Entered(fs, e, n), NEW num, NEW type, NEW kind,
           Tagged(kind, num, type, e.intField), kind \in {"float", "int", "bool"}
    PROVE  NumbersOf(fs, num, type, kind) = OfKind(e, kind)
<1>0. FoundAt(e, n, kind, Where(fs, num, type)) /\ Holds(e, n, kind, OfKind(e, kind))   BY WhereKind, OfKindIs
<1>1. CASE \A i \in 1..n : e.values[i].kind # kind
  <2>1. Where(fs, num, type) = {}   BY <1>0, <1>1 DEF FoundAt
  <2>2. OfKind(e, kind) = {}   BY <1>0, <1>1 DEF Holds
  <2> QED  BY <2>1, <2>2 DEF NumbersOf
<1>2. CASE \E i \in 1..n : e.values[i].kind = kind
  <2>1. PICK i \in 1..n : e.values[i].kind = kind   BY <1>2
  <2>2. Where(fs, num, type) = {2 + i}   BY <1>0, <2>1 DEF FoundAt
  <2>7. OfKind(e, kind) = {e.values[i]}   BY <1>0, <2>1 DEF Holds
  <2>3. PICK x \in Nat : x = 2 + i   BY DEF Entered
  <2>4. Max({x}) = x   BY OnlyOne
  <2>5. TellsValue(fs[x], e.values[i], e.intField)   BY <2>3 DEF Entered
  <2>6. Value(kind, fs[x].num, <<>>) = e.values[i]   BY <2>1, <2>5 DEF TellsValue
  <2> QED  BY <2>2, <2>3, <2>4, <2>6, <2>7 DEF NumbersOf
<1> QED  BY <1>1, <1>2

\* of text the text,
LEMMA TextIsRead ==
    ASSUME NEW fs, NEW e, NEW n, Entered(fs, e, n)
    PROVE  TextOf(fs) = OfKind(e, "str")
<1>1. Tagged("str", 4, 2, e.intField)   BY DEF Tagged
<1>0. FoundAt(e, n, "str", Where(fs, 4, 2)) /\ Holds(e, n, "str", OfKind(e, "str"))   BY <1>1, WhereKind, OfKindIs
<1>2. CASE \A i \in 1..n : e.values[i].kind # "str"
  <2>1. Where(fs, 4, 2) = {}   BY <1>0, <1>2 DEF FoundAt
  <2>2. OfKind(e, "str") = {}   BY <1>0, <1>2 DEF Holds
  <2> QED  BY <2>1, <2>2 DEF TextOf, TextsIn
<1>3. CASE \E i \in 1..n : e.values[i].kind = "str"
  <2>1. PICK i \in 1..n : e.values[i].kind = "str"   BY <1>3
  <2>2. Where(fs, 4, 2) = {2 + i}   BY <1>0, <2>1 DEF FoundAt
  <2>8. OfKind(e, "str") = {e.values[i]}   BY <1>0, <2>1 DEF Holds
  <2>3. PICK x \in Nat : x = 2 + i   BY DEF Entered
  <2>4. Max({x}) = x   BY OnlyOne
  <2>5. TellsValue(fs[x], e.values[i], e.intField)   BY <2>3 DEF Entered
  <2>6. Value("str", 0, fs[x].bytes) = e.values[i] /\ Printable(fs[x].bytes)   BY <2>1, <2>5 DEF TellsValue
  <2>7. TextsIn(fs) = {x}   BY <2>2, <2>3, <2>6 DEF TextsIn
  <2> QED  BY <2>4, <2>6, <2>7, <2>8 DEF TextOf
<1> QED  BY <1>2, <1>3

\* and of booleans the boolean.
LEMMA BoolIsRead ==
    ASSUME NEW fs, NEW e, NEW n, Entered(fs, e, n)
    PROVE  BoolOf(fs) = OfKind(e, "bool")
<1>1. Tagged("bool", 5, 0, e.intField)   BY DEF Tagged
<1>2. NumbersOf(fs, 5, 0, "bool") = OfKind(e, "bool")   BY <1>1, NumbersAre
<1>3. ASSUME NEW c \in OfKind(e, "bool") PROVE [c EXCEPT !.v = IF @ = 0 THEN 0 ELSE 1] = c
  <2>1. PICK i \in 1..n : c = e.values[i] /\ c.kind = "bool"   BY DEF OfKind, ToSet, Entered
  <2>2. TellsValue(fs[2 + i], c, e.intField)   BY <2>1 DEF Entered
  <2>3. PICK b \in {0, 1} : c = Value("bool", b, <<>>)   BY <2>1, <2>2 DEF TellsValue
  <2>4. c = [kind |-> "bool", v |-> b, s |-> <<>>]   BY <2>3 DEF Value
  <2> QED  BY <2>4
<1> QED  BY <1>2, <1>3 DEF BoolOf

\* The preferred of the kinds given, in the decoder's order
FirstOf(a, b, c, d) == IF a # {} THEN a ELSE IF b # {} THEN b ELSE IF c # {} THEN c ELSE d

\* An integer is in one of two fields; which of them does not change what is preferred.
LEMMA FirstGivenIs ==
    ASSUME NEW a, NEW b, NEW c, NEW g, NEW d, c = {} \/ g = {}
    PROVE  FirstGiven(<<a, b, c, g, d>>) = FirstOf(a, b, c \cup g, d)
<1>1. PICK q, S : q = <<a, b, c, g, d>> /\ S = {i \in DOMAIN q : q[i] # {}}   OBVIOUS
<1>2. DOMAIN q = 1..5 /\ q[1] = a /\ q[2] = b /\ q[3] = c /\ q[4] = g /\ q[5] = d   BY <1>1
<1>3. FirstGiven(q) = IF S = {} THEN {} ELSE q[Min(S)]   BY <1>1 DEF FirstGiven
<1>4. S \in SUBSET Nat /\ \A i \in 1..5 : i \in S <=> q[i] # {}   BY <1>1, <1>2
<1>5. \A i \in S : i \in {1, 2, 3, 4, 5}   BY <1>1, <1>2
<1>6. ASSUME NEW k \in 1..5, k \in S, \A i \in 1..5 : i < k => i \notin S PROVE FirstGiven(q) = q[k]
  <2>1. \A i \in S : k <= i   BY <1>5, <1>6
  <2>2. Min(S) = k   BY <1>4, <1>6, <2>1, MinimumIs
  <2> QED  BY <1>3, <1>6, <2>2
<1>7. CASE a # {}
  <2>1. 1 \in S /\ \A i \in 1..5 : i < 1 => i \notin S   BY <1>2, <1>4, <1>7
  <2> QED  BY <1>1, <1>2, <1>6, <1>7, <2>1 DEF FirstOf
<1>8. CASE a = {} /\ b # {}
  <2>1. 2 \in S /\ \A i \in 1..5 : i < 2 => i \notin S   BY <1>2, <1>4, <1>8
  <2> QED  BY <1>1, <1>2, <1>6, <1>8, <2>1 DEF FirstOf
<1>9. CASE a = {} /\ b = {} /\ c # {}
  <2>1. 3 \in S /\ \A i \in 1..5 : i < 3 => i \notin S   BY <1>2, <1>4, <1>9
  <2>2. g = {} /\ c \cup g = c   BY <1>9
  <2> QED  BY <1>1, <1>2, <1>6, <1>9, <2>1, <2>2 DEF FirstOf
<1>10. CASE a = {} /\ b = {} /\ c = {} /\ g # {}
  <2>1. 4 \in S /\ \A i \in 1..5 : i < 4 => i \notin S   BY <1>2, <1>4, <1>10
  <2>2. c \cup g = g   BY <1>10
  <2> QED  BY <1>1, <1>2, <1>6, <1>10, <2>1, <2>2 DEF FirstOf
<1>11. CASE a = {} /\ b = {} /\ c = {} /\ g = {}
  <2>1. FirstOf(a, b, c \cup g, d) = d   BY <1>11 DEF FirstOf
  <2>2. CASE d = {}
    <3>1. S = {}   BY <1>2, <1>4, <1>5, <1>11, <2>2
    <3> QED  BY <1>1, <1>3, <2>1, <2>2, <3>1
  <2>3. CASE d # {}
    <3>1. 5 \in S /\ \A i \in 1..5 : i < 5 => i \notin S   BY <1>2, <1>4, <1>11, <2>3
    <3> QED  BY <1>1, <1>2, <1>6, <2>1, <3>1
  <2> QED  BY <2>2, <2>3
<1> QED  BY <1>7, <1>8, <1>9, <1>10, <1>11

\* So the preferred value is the first in the order of the kinds.
LEMMA PreferredIs ==
    ASSUME NEW fs, NEW e, NEW n, Entered(fs, e, n)
    PROVE  Preferred(fs) = FirstOf(OfKind(e, "str"), OfKind(e, "float"), OfKind(e, "int"), OfKind(e, "bool"))
<1>1. e.intField \in {3, 7}   BY DEF Entered
<1>2. Tagged("float", 6, 5, e.intField) /\ Tagged("int", e.intField, 0, e.intField)   BY DEF Tagged
<1>3. NumbersOf(fs, 6, 5, "float") = OfKind(e, "float") /\ NumbersOf(fs, e.intField, 0, "int") = OfKind(e, "int")
  BY <1>2, NumbersAre
<1>4. NumbersOf(fs, 10 - e.intField, 0, "int") = {}   BY WhereHead DEF NumbersOf
<1>5. PICK c, g : c = NumbersOf(fs, 3, 0, "int") /\ g = NumbersOf(fs, 7, 0, "int")   OBVIOUS
<1>6. (c = {} \/ g = {}) /\ c \cup g = OfKind(e, "int")
  <2>1. CASE e.intField = 3
    <3>1. 10 - e.intField = 7   BY <2>1
    <3> QED  BY <1>3, <1>4, <1>5, <2>1, <3>1
  <2>2. CASE e.intField = 7
    <3>1. 10 - e.intField = 3   BY <2>2
    <3> QED  BY <1>3, <1>4, <1>5, <2>2, <3>1
  <2> QED  BY <1>1, <2>1, <2>2
<1>7. TextOf(fs) = OfKind(e, "str") /\ BoolOf(fs) = OfKind(e, "bool")   BY TextIsRead, BoolIsRead
<1>8. Preferred(fs) = FirstGiven(<<TextOf(fs), NumbersOf(fs, 6, 5, "float"), c, g, BoolOf(fs)>>)   BY <1>5, ValuesAre DEF Preferred
<1> QED  BY <1>3, <1>6, <1>7, <1>8, FirstGivenIs

\* What is read of the fields of an entry is what the entry reports
IsSentinel(v) == v.kind \in {"float", "int"} /\ v.v = Sentinel
\* A kind that is there has one value.
LEMMA OneOfKind ==
    ASSUME NEW fs, NEW e, NEW n, Entered(fs, e, n), NEW kind, OfKind(e, kind) # {}
    PROVE  \E v : OfKind(e, kind) = {v}
BY OfKindIs DEF Holds

---------------------------------------------------------------------------
(* The search for slots, one visit at a time: texts, entries, lists and   *)
(* wrappers.                                                              *)

\* The recursion for slots: bytes at a depth, and what is read of them
Visit == Seq(Byte) \X (0..6)
\* The slot that the fields of an entry name.
SlotHere(fs) == <<FirstNum(fs, 2), FirstNum(fs, 1)>>
\* That slot, with what is read of its value.
ValuesHere(fs) == {<<SlotHere(fs), v>> : v \in ValueOf(fs)}
\* The fields are an entry that may be read at this depth.
ReadsHere(fs, depth, known) == IsEntry(fs) /\ InReach(SlotHere(fs), depth, known)
\* One visit of the search for slots: an entry is read, and everything else is looked
\* into.
SlotsStep(f, p, known) ==
    LET fs == Parse(p[1], FALSE).fields
    IN  IF p[2] > 5 THEN {}
        ELSE IF ReadsHere(fs, p[2], known) THEN ValuesHere(fs)
        ELSE UNION {f[<<fs[i].bytes, p[2] + 1>>] : i \in Nested(fs)}
\* What the search finds satisfies that at every visit.
SlotsUnfold(f, known) == \A p \in Visit : f[p] = SlotsStep(f, p, known)
\* Every slot that could be found.
AllSlots == UNION {ValuesHere(Parse(b, FALSE).fields) : b \in Seq(Byte)}

\* A nested message is shorter than the message around it, so the search ends.
LEMMA PartsVisited ==
    ASSUME NEW p \in Visit, p[2] <= 5, NEW i \in Nested(Parse(p[1], FALSE).fields)
    PROVE  LET q == <<Parse(p[1], FALSE).fields[i].bytes, p[2] + 1>>
           IN  q \in Visit /\ Len(q[1]) < Len(p[1])
<1>1. PICK b \in Seq(Byte), d \in 0..6 : p = <<b, d>> /\ p[1] = b /\ p[2] = d   BY DEF Visit
<1>2. FALSE \in BOOLEAN   OBVIOUS
<1>3. PICK fs : fs = Parse(b, FALSE).fields   OBVIOUS
<1>4. fs \in Seq(FieldType) /\ Shorter(fs, Len(b))   BY <1>2, <1>3, PartsAreShorter
<1>5. i \in 1..Len(fs)
  <2>1. i \in Nested(fs)   BY <1>1, <1>3
  <2>2. DOMAIN fs = 1..Len(fs)   BY <1>4
  <2> QED  BY <2>1, <2>2 DEF Nested
<1>6. fs[i] \in FieldType   BY <1>4, <1>5
<1>7. PICK c : c = fs[i].bytes   OBVIOUS
<1>8. c \in Seq(Byte) /\ Len(c) < Len(b)   BY <1>4, <1>5, <1>6, <1>7 DEF FieldType, Shorter
<1>9. d + 1 \in 0..6   BY <1>1
<1> QED  BY <1>1, <1>3, <1>7, <1>8, <1>9 DEF Visit

\* A visit finds slots,
LEMMA SlotsStepType ==
    ASSUME NEW known, NEW p \in Visit, NEW f \in [Visit -> SUBSET AllSlots]
    PROVE  SlotsStep(f, p, known) \in SUBSET AllSlots
<1>1. PICK fs : fs = Parse(p[1], FALSE).fields   OBVIOUS
<1>2. CASE p[2] > 5   BY <1>2 DEF SlotsStep
<1>3. CASE ~(p[2] > 5) /\ ReadsHere(fs, p[2], known)
  <2>1. p[1] \in Seq(Byte)   BY DEF Visit
  <2>2. ValuesHere(fs) \subseteq AllSlots   BY <1>1, <2>1 DEF AllSlots
  <2>3. SlotsStep(f, p, known) = ValuesHere(fs)   BY <1>1, <1>3 DEF SlotsStep
  <2> QED  BY <2>2, <2>3
<1>4. CASE ~(p[2] > 5) /\ ~ReadsHere(fs, p[2], known)
  <2>1. p[2] <= 5   BY <1>4 DEF Visit
  <2>2. \A i \in Nested(fs) : f[<<fs[i].bytes, p[2] + 1>>] \in SUBSET AllSlots
    <3> TAKE i \in Nested(fs)
    <3>1. <<fs[i].bytes, p[2] + 1>> \in Visit   BY <1>1, <2>1, PartsVisited
    <3> QED  BY <3>1
  <2>3. SlotsStep(f, p, known) = UNION {f[<<fs[i].bytes, p[2] + 1>>] : i \in Nested(fs)}   BY <1>1, <1>4 DEF SlotsStep
  <2> HIDE DEF AllSlots
  <2> QED  BY <2>2, <2>3
<1> QED  BY <1>2, <1>3, <1>4

\* and depends on shorter messages only.
LEMMA SlotsStepSame ==
    ASSUME NEW known, NEW p \in Visit, NEW f1, NEW f2, \A q \in Visit : Len(q[1]) < Len(p[1]) => f1[q] = f2[q]
    PROVE  SlotsStep(f1, p, known) = SlotsStep(f2, p, known)
<1>1. PICK fs : fs = Parse(p[1], FALSE).fields   OBVIOUS
<1>2. CASE p[2] > 5   BY <1>2 DEF SlotsStep
<1>3. CASE ReadsHere(fs, p[2], known)   BY <1>1, <1>3 DEF SlotsStep
<1>4. CASE ~(p[2] > 5) /\ ~ReadsHere(fs, p[2], known)
  <2>1. p[2] <= 5   BY <1>4 DEF Visit
  <2>2. ASSUME NEW i \in Nested(fs) PROVE f1[<<fs[i].bytes, p[2] + 1>>] = f2[<<fs[i].bytes, p[2] + 1>>]
    <3>1. PICK q : q = <<fs[i].bytes, p[2] + 1>>   OBVIOUS
    <3>2. q \in Visit /\ Len(q[1]) < Len(p[1])   BY <1>1, <2>1, <3>1, PartsVisited
    <3> QED  BY <3>1, <3>2
  <2> QED  BY ZenonT(40), <1>1, <1>4, <2>2 DEF SlotsStep
<1> QED  BY <1>2, <1>3, <1>4

\* So the search unfolds.
LEMMA SlotsInUnfolds ==
    ASSUME NEW known
    PROVE  \E f : SlotsUnfold(f, known) /\ \A b \in Seq(Byte) : SlotsIn(b, known) = f[<<b, 0>>]
<1> DEFINE V == SUBSET AllSlots
           m == [p \in Visit |-> Len(p[1])]
           g == [p \in Visit |-> [f \in [Visit -> V] |-> SlotsStep(f, p, known)]]
           visits == CHOOSE f : f = [p \in Visit |-> SlotsStep(f, p, known)]
<1>1. \A p \in Visit, f \in [Visit -> V] : SlotsStep(f, p, known) \in V   BY SlotsStepType
<1>2. ASSUME NEW p \in Visit, NEW f1 \in [Visit -> V], NEW f2 \in [Visit -> V], \A q \in Visit : m[q] < m[p] => f1[q] = f2[q]
      PROVE  SlotsStep(f1, p, known) = SlotsStep(f2, p, known)
  <2>1. \A q \in Visit : Len(q[1]) < Len(p[1]) => f1[q] = f2[q]   BY <1>2
  <2> QED  BY ONLY <2>1, SlotsStepSame, p \in Visit
<1>3. V # {} /\ m \in [Visit -> Nat]
  <2>1. \A p \in Visit : Len(p[1]) \in Nat   BY DEF Visit
  <2> QED  BY <2>1
<1>4. g \in [Visit -> [[Visit -> V] -> V]]
  <2> HIDE DEF V
  <2> QED  BY <1>1
<1>5. Recursion(Visit, V, m, g)
  <2>1. \A p \in Visit, f1 \in [Visit -> V], f2 \in [Visit -> V] :
            (\A q \in Visit : m[q] < m[p] => f1[q] = f2[q]) => g[p][f1] = g[p][f2]
    <3> HIDE DEF m, V
    <3> QED  BY <1>2
  <2> HIDE DEF V, g, m
  <2> QED  BY <1>3, <1>4, <2>1 DEF Recursion
<1>6. \E f \in [Visit -> V] : \A p \in Visit : f[p] = g[p][f]
  <2> HIDE DEF V, g, m
  <2> QED  BY <1>5, RecursiveFunction
<1>7. \E f : f = [p \in Visit |-> SlotsStep(f, p, known)]
  <2> HIDE DEF V
  <2> QED  BY <1>6
<1>8. visits = [p \in Visit |-> SlotsStep(visits, p, known)]   BY <1>7
<1>9. \A b \in Seq(Byte) : SlotsIn(b, known) = visits[<<b, 0>>]
  BY DEF SlotsIn, SlotsStep, Visit, ReadsHere, ValuesHere, SlotHere
<1> HIDE DEF visits
<1>10. SlotsUnfold(visits, known)   BY <1>8 DEF SlotsUnfold
<1> QED  BY <1>9, <1>10

\* What is parsed of some bytes is of a kind when every field in them is
LEMMA ParsedWithin ==
    ASSUME NEW b \in Seq(Byte), NEW strict \in BOOLEAN, NEW T,
           \A x \in 1..Len(b) : ParseField(b, x, strict).ok => ParseField(b, x, strict).field \in T
    PROVE  Parse(b, strict).fields \in Seq(T)
<1>1. PICK z \in Nat : z = Len(b)   OBVIOUS
<1> DEFINE F(x) == ParseFrom(b, strict)[x].fields
           Bad == {k \in Nat : \E x \in 1..(z + 1) : k = z + 1 - x /\ F(x) \notin Seq(T)}
<1>2. ASSUME NEW k \in Bad, \A j \in Bad : k <= j PROVE FALSE
  <2>1. PICK x \in 1..(z + 1) : k = z + 1 - x /\ F(x) \notin Seq(T)   OBVIOUS
  <2>2. ParseFrom(b, strict)[x] = ParseStep(ParseFrom(b, strict), b, x, strict)   BY <1>1, ParseUnfolds
  <2>3. PICK p : p = ParseField(b, x, strict)   OBVIOUS
  <2>4. CASE x > z \/ ~p.ok
    <3>1. F(x) = <<>>   BY <1>1, <2>2, <2>3, <2>4 DEF ParseStep
    <3>2. <<>> \in Seq(T)   OBVIOUS
    <3> HIDE DEF F
    <3> QED  BY <2>1, <3>1, <3>2
  <2>5. CASE ~(x > z) /\ p.ok
    <3>1. x \in 1..Len(b)   BY <1>1, <2>5
    <3>2. FieldAt(p, b, x)   BY <2>3, <3>1, ParseFieldIs
    <3>3. p.next \in (x + 1)..(z + 1)   BY <1>1, <2>5, <3>2 DEF FieldAt
    <3>4. PICK y \in (x + 1)..(z + 1) : y = p.next   BY <3>3
    <3>5. y \in 1..(z + 1) /\ z + 1 - y \in Nat /\ z + 1 - y < k   BY <2>1, <3>4
    <3>6. F(y) \in Seq(T)
      <4> SUFFICES ASSUME F(y) \notin Seq(T) PROVE FALSE   OBVIOUS
      <4>1. z + 1 - y \in Bad   BY <3>5
      <4>2. k <= z + 1 - y   BY <1>2, <4>1
      <4>3. PICK w \in Nat : w = z + 1 - y   BY <3>5
      <4>4. k \in Nat   OBVIOUS
      <4> HIDE DEF Bad
      <4> QED  BY <3>5, <4>2, <4>3, <4>4
    <3>7. F(x) = <<p.field>> \o F(y)
      <4>1. ParseFrom(b, strict)[x].fields = <<p.field>> \o ParseFrom(b, strict)[p.next].fields
        BY SMTT(40), <2>3, <2>5, <3>1, FieldsFrom
      <4> QED  BY ONLY Zenon, <3>4, <4>1
    <3>8. PICK f, s : f = p.field /\ s = F(y)   OBVIOUS
    <3>9. f \in T /\ s \in Seq(T)   BY <2>3, <2>5, <3>1, <3>6, <3>8
    <3>10. <<f>> \in Seq(T)   BY <3>9
    <3>11. <<f>> \o s \in Seq(T)   BY <3>9, <3>10
    <3> HIDE DEF F
    <3> QED  BY <2>1, <3>7, <3>8, <3>11
  <2> QED  BY <2>4, <2>5
<1>3. Bad = {}
  <2>1. Bad \in SUBSET Nat   OBVIOUS
  <2> HIDE DEF Bad
  <2> QED  BY <1>2, <2>1, LeastNat
<1>4. F(1) \in Seq(T)
  <2>1. 1 \in 1..(z + 1) /\ z + 1 - 1 \in Nat   OBVIOUS
  <2> QED  BY <1>3, <2>1
<1> QED  BY <1>4 DEF Parse

\* A text has no fields of numbers or bytes in it
Silent == {f \in FieldType : f.type \notin {0, 2}}
\* Printable text has no byte that begins a field of bytes or of a slot: what is read of
\* it is silent.
LEMMA TextIsSilent ==
    ASSUME NEW b \in Seq(Byte), Printable(b), NEW x \in 1..Len(b), NEW p, p = ParseField(b, x, FALSE), p.ok
    PROVE  p.field \in Silent
<1>0. FALSE \in BOOLEAN   OBVIOUS
<1>1. PICK z \in Nat : z = Len(b)   OBVIOUS
<1>2. PICK c \in 0..7 : c = b[x] /\ c \in 4..7   BY SMTT(40) DEF Printable
<1>3. IsVarint(<<c>>, c)
  <2>1. PICK e : e = EncodeVarint(c)   OBVIOUS
  <2>2. e \in Seq(Byte) /\ Len(e) = 1 /\ e[1] = c   BY <2>1, VarintOne
  <2>3. e = <<c>>   BY <2>2
  <2>4. c \in 0..511   OBVIOUS
  <2> QED  BY ZenonT(40), <2>1, <2>3, <2>4, VarintsAre
<1>4. Sits(b, <<c>>, x)
  <2>1. PICK s : s = <<c>>   OBVIOUS
  <2>2. s \in Seq(Byte) /\ Len(s) = 1 /\ s[1] = c   BY <1>2, <2>1, Widths
  <2>3. x \in 1..(z + 1) /\ x + 1 <= z + 1   BY <1>1
  <2>4. \A k \in 1..1 : b[x + k - 1] = s[k]
    <3>1. x + 1 - 1 = x   OBVIOUS
    <3> QED  BY <1>2, <2>2, <3>1
  <2> QED  BY <1>1, <2>1, <2>2, <2>3, <2>4 DEF Sits
<1>5. ReadsTo(b, x, FALSE, c, x + Len(<<c>>))   BY <1>0, <1>3, <1>4, VarintReads
<1>6. PICK key, arg : key = Varint(b, x, FALSE) /\ arg = Varint(b, key.next, FALSE)   OBVIOUS
<1>7. key.value = c   BY <1>5, <1>6 DEF ReadsTo
<1>8. PICK type : type = key.value % 8 /\ type \notin {0, 2}
  <2>1. c % 8 \notin {0, 2}   BY <1>2
  <2> QED  BY <1>7, <2>1
<1>9. FieldAt(p, b, x)   BY <1>0, ParseFieldIs
<1>10. p.field \in FieldType   BY <1>9 DEF FieldAt
<1>11. p.field.type = type
  <2>1. CASE key.ok /\ type \in DOMAIN FixedWidth /\ key.next + FixedWidth[type] - 1 <= Len(b)
    <3>1. p = Read(key.value \div 8, type, b[key.next], <<>>, key.next + FixedWidth[type])
      <4>1. ~(key.value % 8 = 0) /\ ~(key.value % 8 = 2)   BY <1>8
      <4> QED  BY ONLY <1>6, <1>8, <2>1, <4>1, p = ParseField(b, x, FALSE), Zenon DEF ParseField, FieldOf
    <3>2. PICK n, num, next : n = key.value \div 8 /\ num = b[key.next] /\ next = key.next + FixedWidth[type]   OBVIOUS
    <3>3. p = Read(n, type, num, <<>>, next)   BY ONLY <3>1, <3>2
    <3> QED  BY ONLY <3>3 DEF Read, Field
  <2>2. CASE ~(key.ok /\ type \in DOMAIN FixedWidth /\ key.next + FixedWidth[type] - 1 <= Len(b))
    <3>1. p = Refused
      <4>1. ~(key.value % 8 = 0) /\ ~(key.value % 8 = 2)   BY <1>8
      <4> QED  BY ONLY <1>6, <1>8, <2>2, <4>1, p = ParseField(b, x, FALSE), Zenon DEF ParseField, FieldOf
    <3>2. p.ok = FALSE   BY ONLY <3>1 DEF Refused
    <3> QED  BY ONLY <3>2, p.ok
  <2> QED  BY <2>1, <2>2
<1> QED  BY <1>8, <1>10, <1>11 DEF Silent

\* A text that is looked into as if it were a message holds no slot.
LEMMA TextVisited ==
    ASSUME NEW b \in Seq(Byte), Printable(b), NEW d \in 0..6, NEW f, NEW known, SlotsUnfold(f, known)
    PROVE  f[<<b, d>>] = {}
<1>0. FALSE \in BOOLEAN   OBVIOUS
<1>1. PICK fs : fs = Parse(b, FALSE).fields   OBVIOUS
<1>2. fs \in Seq(Silent)   BY <1>0, <1>1, TextIsSilent, ParsedWithin
<1>3. \A i \in DOMAIN fs : fs[i].type \notin {0, 2}   BY <1>2 DEF Silent
<1>4. Where(fs, 1, 0) = {} /\ Nested(fs) = {}   BY <1>3 DEF Where, Nested
<1>5. ~IsEntry(fs)   BY <1>4, NoNum DEF IsEntry
<1>6. PICK p : p = <<b, d>>   OBVIOUS
<1>7. p \in Visit /\ p[1] = b /\ p[2] = d   BY <1>6 DEF Visit
<1>8. f[p] = SlotsStep(f, p, known)   BY <1>7 DEF SlotsUnfold
<1> QED  BY <1>1, <1>4, <1>5, <1>6, <1>7, <1>8 DEF SlotsStep, ReadsHere

\* Where an entry is read: near enough, or of a slot that the metadata knows
Near(e, depth, known) == depth <= 3 \/ (depth = 4 /\ <<e.bus, e.sid>> \in known)
\* Bytes whose fields are all of bytes
OfBytes(F, n) ==
    /\ n \in Nat /\ F \in [1..n -> FieldType] /\ \A i \in 1..n : F[i].type = 2

\* The fields long enough to be looked into.
NestedIn(F, n) == {j \in 1..n : Len(F[j].bytes) > 2}
\* What is found in some of the fields, one level down.
Beneath(f, F, S, depth) == UNION {f[<<F[i].bytes, depth>>] : i \in S}

\* The slots of some bytes are those of their nested fields
ReadBeneath(f, c, d, F, n) == f[<<c, d>>] = Beneath(f, F, NestedIn(F, n), d + 1)
\* A visit to a message with fields of bytes only looks into those fields.
LEMMA ListVisited ==
    ASSUME NEW c, NEW F, NEW n, Carries(c, F), OfBytes(F, n), NEW d \in 0..5, NEW f, NEW known, SlotsUnfold(f, known)
    PROVE  ReadBeneath(f, c, d, F, n)
<1>0. FALSE \in BOOLEAN   OBVIOUS
<1>1. c \in Seq(Byte) /\ Parse(c, FALSE).fields = F   BY <1>0, CarriesParsed DEF Carries
<1>2. DOMAIN F = 1..n /\ \A i \in 1..n : F[i].type = 2   BY DEF OfBytes
<1>3. Where(F, 1, 0) = {}   BY <1>2 DEF Where
<1>4. ~IsEntry(F)   BY <1>3, NoNum DEF IsEntry
<1>5. PICK p : p = <<c, d>>   OBVIOUS
<1>6. p \in Visit /\ p[1] = c /\ p[2] = d   BY <1>1, <1>5 DEF Visit
<1>7. f[p] = SlotsStep(f, p, known)   BY <1>6 DEF SlotsUnfold
<1>8. Nested(F) = NestedIn(F, n)   BY <1>2 DEF Nested, NestedIn
<1>9. ~(d > 5) /\ ~ReadsHere(F, d, known)   BY <1>4 DEF ReadsHere
<1>10. SlotsStep(f, p, known) = Beneath(f, F, Nested(F), d + 1)   BY ONLY ZenonT(40), <1>1, <1>6, <1>9 DEF SlotsStep, Beneath
<1> QED  BY <1>5, <1>7, <1>8, <1>10 DEF ReadBeneath

\* One field of bytes, as a sequence of fields.
LEMMA OneOfBytes ==
    ASSUME NEW m \in Nat, NEW b \in Seq(Byte)
    PROVE  \E F : F = One(Field(m, 2, 0, b)) /\ OfBytes(F, 1) /\ F[1].bytes = b /\ F[1].field = m
<1>1. PICK g : g = Field(m, 2, 0, b)   OBVIOUS
<1>2. 0 \in Nat /\ 2 \in Nat   OBVIOUS
<1>3. g \in FieldType   BY <1>1, <1>2, FieldTyped
<1>4. g.type = 2 /\ g.bytes = b /\ g.field = m   BY <1>1 DEF Field
<1>5. PICK F : F = One(g)   OBVIOUS
<1>6. F \in Seq(FieldType) /\ Len(F) = 1 /\ F[1] = g   BY <1>3, <1>5, OneIs DEF IsOne
<1>7. PICK o \in Nat : o = 1   OBVIOUS
<1>8. OfBytes(F, o)
  <2>1. F \in [1..o -> FieldType]   BY <1>6, <1>7
  <2>2. \A i \in 1..o : F[i].type = 2   BY <1>4, <1>6, <1>7
  <2> QED  BY <2>1, <2>2 DEF OfBytes
<1> QED  BY <1>1, <1>4, <1>5, <1>6, <1>7, <1>8

\* A visit looks into one field.
ReadWithin(f, c, d, b) == f[<<c, d>>] = IF Len(b) > 2 THEN f[<<b, d + 1>>] ELSE {}
\* A visit to a wrapper looks into what it wraps.
LEMMA WrapVisited ==
    ASSUME NEW c, NEW m \in Nat, NEW b \in Seq(Byte), Carries(c, One(Field(m, 2, 0, b))), NEW d \in 0..5,
           NEW f, NEW known, SlotsUnfold(f, known)
    PROVE  ReadWithin(f, c, d, b)
<1>1. PICK F : F = One(Field(m, 2, 0, b)) /\ OfBytes(F, 1) /\ F[1].bytes = b   BY OneOfBytes
<1>2. PICK o \in Nat : o = 1   OBVIOUS
<1>3. OfBytes(F, o) /\ Carries(c, F)   BY <1>1, <1>2
<1>7. ReadBeneath(f, c, d, F, o)   BY <1>3, ListVisited
<1>4. f[<<c, d>>] = Beneath(f, F, NestedIn(F, o), d + 1)   BY <1>7 DEF ReadBeneath
<1>5. CASE Len(b) > 2
  <2>1. NestedIn(F, o) = {1}   BY <1>1, <1>2, <1>5 DEF NestedIn
  <2>2. Beneath(f, F, {1}, d + 1) = f[<<F[1].bytes, d + 1>>]   BY DEF Beneath
  <2> QED  BY <1>1, <1>4, <1>5, <2>1, <2>2 DEF ReadWithin
<1>6. CASE ~(Len(b) > 2)
  <2>1. NestedIn(F, o) = {}   BY <1>1, <1>2, <1>6 DEF NestedIn
  <2>2. Beneath(f, F, {}, d + 1) = {}   BY DEF Beneath
  <2> QED  BY <1>4, <1>6, <2>1, <2>2 DEF ReadWithin
<1> QED  BY <1>5, <1>6 DEF ReadWithin

\* The entries of a report, in some order, and their fields
Enumerates(seq, n, S) == n \in Nat /\ seq \in [1..n -> S] /\ \A e \in S : \E i \in 1..n : seq[i] = e
\* A finite set of entries has a sequence of them.
LEMMA EntriesEnumerated ==
    ASSUME NEW S, IsFiniteSet(S)
    PROVE  \E n : Enumerates(SetToSeq(S), n, S)
<1>1. PICK n \in Nat : n = Cardinality(S) /\ ExistsBijection(1..n, S)   BY FS_CardinalityType
<1>2. PICK g : g \in Bijection(1..n, S)   BY <1>1 DEF ExistsBijection
<1>3. g \in [1..n -> S] /\ IsInjective(g)
  <2>1. g \in Injection(1..n, S)   BY <1>2 DEF Bijection
  <2> QED  BY <2>1 DEF Injection, IsInjective
<1>4. PICK s : s = SetToSeq(S)   OBVIOUS
<1>5. s \in [1..n -> S] /\ IsInjective(s)   BY <1>1, <1>3, <1>4 DEF SetToSeq
<1>6. s \in Injection(1..n, S)   BY <1>5 DEF Injection, IsInjective
<1>7. IsFiniteSet(1..n) /\ Cardinality(1..n) = n
  <2>1. 1 \in Int /\ n \in Int   OBVIOUS
  <2>2. Cardinality(1..n) = IF 1 > n THEN 0 ELSE n - 1 + 1   BY <2>1, FS_Interval
  <2> QED  BY <2>1, <2>2, FS_Interval
<1>8. s \in Surjection(1..n, S)   BY <1>1, <1>6, <1>7, FS_Injection
<1>9. \A e \in S : \E i \in 1..n : s[i] = e   BY <1>8 DEF Surjection
<1>10. Enumerates(s, n, S)   BY <1>5, <1>9 DEF Enumerates
<1> QED  BY <1>4, <1>10

\* The wrappers of a report, the innermost first
WrapStep(b, w, i) == IF i = 0 THEN b ELSE BytesField(9, w[i - 1])
\* The bytes at a level of wrapping, and what they carry
WrapsSized(w, S, n) ==
    /\ \A i \in 0..n : Sized(w[i], IF S = {} THEN 0 ELSE 3, 400 + 6 * i)
    /\ \A i \in 1..n : Carries(w[i], One(Field(9, 2, 0, w[i - 1])))

\* A wrapper adds six bytes at most.
LEMMA WrapSized ==
    ASSUME NEW b, NEW lo \in 0..3, NEW hi \in 0..424, Sized(b, lo, hi)
    PROVE  Sized(BytesField(9, b), lo, hi + 6) /\ Carries(BytesField(9, b), One(Field(9, 2, 0, b)))
<1>1. PICK nine \in 0..63, x \in 0..511, y \in 0..511 : nine = 9 /\ x = lo /\ y = hi
  <2>1. 9 \in 0..63   OBVIOUS
  <2>2. lo \in 0..511   OBVIOUS
  <2>3. hi \in 0..511   OBVIOUS
  <2> QED  BY ONLY <2>1, <2>2, <2>3, ZenonT(40)
<1>2. Sized(b, x, y)   BY <1>1
<1>3. Sized(BytesField(nine, b), 2 + x, 6 + y)   BY ZenonT(40), <1>2, BytesFieldSized
<1>4. 2 + x \in Nat /\ 6 + y \in Nat /\ lo \in Nat /\ hi + 6 \in Nat /\ lo <= 2 + x /\ 6 + y <= hi + 6   BY <1>1
<1>5. Sized(BytesField(nine, b), lo, hi + 6)
  <2>1. PICK p \in Nat, q \in Nat, r \in Nat, s \in Nat : p = 2 + x /\ q = 6 + y /\ r = lo /\ s = hi + 6   BY <1>4
  <2>2. r <= p /\ q <= s /\ Sized(BytesField(nine, b), p, q)   BY <1>3, <1>4, <2>1
  <2>3. Sized(BytesField(nine, b), r, s)   BY <2>2, SizedWider
  <2> QED  BY <2>1, <2>3
<1>6. Sized(b, 0, y)   BY <1>1, <1>2 DEF Sized
<1>7. Carries(BytesField(nine, b), One(Field(nine, 2, 0, b)))   BY Zenon, <1>6, CarriesSized
<1> QED  BY <1>1, <1>5, <1>7

---------------------------------------------------------------------------
(* The search for an envelope.                                            *)

\* The recursion for envelopes
PayloadsIn(fs) == {i \in DOMAIN fs : fs[i].type = 2 /\ fs[i].field \in {5, 6, 19}}
\* The fields hold a payload.
Carrying(fs) == PayloadsIn(fs) # {}
\* The envelope that fields with an id and a status make.
EnvelopeHere(fs) ==
    [id |-> FirstNum(fs, 1), status |-> FirstNum(fs, 2), carries |-> Carrying(fs),
     payload |-> IF PayloadsIn(fs) = {} THEN <<>> ELSE fs[Min(PayloadsIn(fs))].bytes]
\* The nested messages in which there is an envelope.
EnvelopesIn(f, fs) == {i \in Nested(fs) : f[fs[i].bytes] # NoEnvelope}
\* One visit of the search for an envelope.
EnvelopeStep(f, x) ==
    LET fs == Parse(x, FALSE).fields
    IN  IF FirstNum(fs, 1) # None /\ FirstNum(fs, 2) # None THEN EnvelopeHere(fs)
        ELSE IF EnvelopesIn(f, fs) = {} THEN NoEnvelope
        ELSE f[fs[Min(EnvelopesIn(f, fs))].bytes]
\* Every envelope that could be found.
Envelopes == {NoEnvelope} \cup {EnvelopeHere(Parse(x, FALSE).fields) : x \in Seq(Byte)}
\* What that search finds satisfies its step everywhere.
EnvelopesUnfold(find) == \A x \in Seq(Byte) : FindResponse(x) = find[x] /\ find[x] = EnvelopeStep(find, x)

\* The nested message with the first envelope is shorter than the message around it.
LEMMA EnvelopeIs ==
    ASSUME NEW x \in Seq(Byte), NEW f, NEW fs, fs = Parse(x, FALSE).fields, EnvelopesIn(f, fs) # {}
    PROVE  LET i == Min(EnvelopesIn(f, fs))
           IN  i \in Nested(fs) /\ fs[i].bytes \in Seq(Byte) /\ Len(fs[i].bytes) < Len(x)
<1>0. FALSE \in BOOLEAN   OBVIOUS
<1>1. PICK q, S : q = fs /\ S = EnvelopesIn(f, q)   OBVIOUS
<1>a. q = Parse(x, FALSE).fields   BY <1>1
<1>2. q \in Seq(FieldType) /\ Shorter(q, Len(x))   BY <1>0, <1>a, PartsAreShorter
<1>3. S \in SUBSET (1..Len(q))
  <2>1. DOMAIN q = 1..Len(q)   BY ONLY <1>2
  <2> QED  BY <1>1, <2>1 DEF EnvelopesIn, Nested
<1>4. S \in SUBSET Nat   BY ONLY <1>2, <1>3
<1>5. Min(S) \in S   BY <1>1, <1>4, MinimumOf
<1>6. PICK i \in 1..Len(q) : i = Min(S)   BY <1>3, <1>5
<1>7. q[i] \in FieldType   BY ONLY <1>2, i \in 1..Len(q)
<1>8. q[i].bytes \in Seq(Byte) /\ Len(q[i].bytes) < Len(x)   BY <1>2, <1>7 DEF FieldType, Shorter
<1>9. i \in Nested(q)   BY Zenon, <1>1, <1>5, <1>6 DEF EnvelopesIn
<1> QED  BY <1>1, <1>6, <1>8, <1>9

\* A visit finds an envelope or none,
LEMMA EnvelopeStepType ==
    ASSUME NEW x \in Seq(Byte), NEW f \in [Seq(Byte) -> Envelopes]
    PROVE  EnvelopeStep(f, x) \in Envelopes
<1>1. PICK fs : fs = Parse(x, FALSE).fields   OBVIOUS
<1>4. CASE FirstNum(fs, 1) # None /\ FirstNum(fs, 2) # None
  <2>1. EnvelopeStep(f, x) = EnvelopeHere(fs)   BY <1>1, <1>4 DEF EnvelopeStep
  <2> QED  BY <1>1, <2>1 DEF Envelopes
<1>5. CASE ~(FirstNum(fs, 1) # None /\ FirstNum(fs, 2) # None) /\ EnvelopesIn(f, fs) = {}
  BY <1>1, <1>5 DEF EnvelopeStep, Envelopes
<1>6. CASE ~(FirstNum(fs, 1) # None /\ FirstNum(fs, 2) # None) /\ EnvelopesIn(f, fs) # {}
  <2>1. PICK b : b = fs[Min(EnvelopesIn(f, fs))].bytes   OBVIOUS
  <2>2. b \in Seq(Byte)   BY <1>1, <1>6, <2>1, EnvelopeIs
  <2>3. EnvelopeStep(f, x) = f[b]   BY <1>1, <1>6, <2>1 DEF EnvelopeStep
  <2> QED  BY <2>2, <2>3
<1> QED  BY <1>4, <1>5, <1>6

\* and depends on shorter messages only.
LEMMA EnvelopeStepSame ==
    ASSUME NEW x \in Seq(Byte), NEW f1, NEW f2, \A y \in Seq(Byte) : Len(y) < Len(x) => f1[y] = f2[y]
    PROVE  EnvelopeStep(f1, x) = EnvelopeStep(f2, x)
<1>0. FALSE \in BOOLEAN   OBVIOUS
<1>1. PICK fs : fs = Parse(x, FALSE).fields   OBVIOUS
<1>2. fs \in Seq(FieldType) /\ Shorter(fs, Len(x))   BY <1>0, <1>1, PartsAreShorter
<1>3. EnvelopesIn(f1, fs) = EnvelopesIn(f2, fs)
  <2>1. ASSUME NEW i \in Nested(fs) PROVE f1[fs[i].bytes] = f2[fs[i].bytes]
    <3>1. i \in 1..Len(fs)   BY <1>2 DEF Nested
    <3>2. fs[i] \in FieldType   BY <1>2, <3>1
    <3>3. PICK b : b = fs[i].bytes   OBVIOUS
    <3>4. b \in Seq(Byte) /\ Len(b) < Len(x)   BY <1>2, <3>1, <3>2, <3>3 DEF FieldType, Shorter
    <3> QED  BY <3>3, <3>4
  <2> QED  BY <2>1 DEF EnvelopesIn
<1>4. CASE EnvelopesIn(f1, fs) = {}   BY <1>1, <1>3, <1>4 DEF EnvelopeStep
<1>5. CASE EnvelopesIn(f1, fs) # {}
  <2>1. PICK b : b = fs[Min(EnvelopesIn(f1, fs))].bytes   OBVIOUS
  <2>2. b \in Seq(Byte) /\ Len(b) < Len(x)   BY <1>1, <1>5, <2>1, EnvelopeIs
  <2>3. f1[b] = f2[b]   BY <2>2
  <2> QED  BY <1>1, <1>3, <1>5, <2>1, <2>3 DEF EnvelopeStep
<1> QED  BY <1>4, <1>5

\* So this search unfolds, too.
LEMMA FindResponseUnfolds == \E find : EnvelopesUnfold(find)
<1> DEFINE D == Seq(Byte)
           m == [x \in D |-> Len(x)]
           g == [x \in D |-> [f \in [D -> Envelopes] |-> EnvelopeStep(f, x)]]
           find == CHOOSE f : f = [x \in D |-> EnvelopeStep(f, x)]
<1>1. \A x \in D, f \in [D -> Envelopes] : EnvelopeStep(f, x) \in Envelopes   BY EnvelopeStepType
<1>2. ASSUME NEW x \in D, NEW f1 \in [D -> Envelopes], NEW f2 \in [D -> Envelopes], \A y \in D : m[y] < m[x] => f1[y] = f2[y]
      PROVE  EnvelopeStep(f1, x) = EnvelopeStep(f2, x)
  <2>1. \A y \in Seq(Byte) : Len(y) < Len(x) => f1[y] = f2[y]   BY <1>2
  <2> QED  BY ONLY <2>1, EnvelopeStepSame, x \in Seq(Byte)
<1>3. Envelopes # {} /\ m \in [D -> Nat]
  <2>1. NoEnvelope \in Envelopes   BY DEF Envelopes
  <2> QED  BY <2>1
<1>4. g \in [D -> [[D -> Envelopes] -> Envelopes]]   BY <1>1
<1>5. Recursion(D, Envelopes, m, g)
  <2>1. \A x \in D, f1 \in [D -> Envelopes], f2 \in [D -> Envelopes] :
            (\A y \in D : m[y] < m[x] => f1[y] = f2[y]) => g[x][f1] = g[x][f2]
    <3> HIDE DEF m, D
    <3> QED  BY <1>2
  <2> HIDE DEF D, g, m
  <2> QED  BY <1>3, <1>4, <2>1 DEF Recursion
<1>6. \E f \in [D -> Envelopes] : \A x \in D : f[x] = g[x][f]
  <2> HIDE DEF D, g, m
  <2> QED  BY <1>5, RecursiveFunction
<1>7. \E f : f = [x \in D |-> EnvelopeStep(f, x)]
  <2> HIDE DEF D
  <2> QED  BY <1>6
<1>8. find = [x \in D |-> EnvelopeStep(find, x)]   BY <1>7
<1>9. \A x \in D : FindResponse(x) = find[x]   BY DEF FindResponse, EnvelopeStep, EnvelopesIn, EnvelopeHere, Carrying, PayloadsIn
<1> HIDE DEF find
<1>10. \A x \in D : find[x] = EnvelopeStep(find, x)   BY <1>8
<1> QED  BY <1>9, <1>10 DEF EnvelopesUnfold

\* What is found in a report that carries no payload: nothing that matters
Quiet(envelope) == envelope.carries = FALSE /\ envelope.status # Expired

\* No envelope is a quiet one.
LEMMA NoEnvelopeIsQuiet == Quiet(NoEnvelope)
<1>1. NoEnvelope.carries = FALSE /\ NoEnvelope.status = None   BY DEF NoEnvelope
<1>2. None # Expired   BY DEF None, Expired
<1> QED  BY <1>1, <1>2 DEF Quiet

\* Fields that are quiet are quiet together,
LEMMA ListIsQuiet ==
    ASSUME NEW find, EnvelopesUnfold(find), NEW c, NEW F, NEW n, Carries(c, F), OfBytes(F, n),
           \A i \in 1..n : Quiet(find[F[i].bytes])
    PROVE  Quiet(find[c])
<1>0. FALSE \in BOOLEAN   OBVIOUS
<1>1. c \in Seq(Byte) /\ Parse(c, FALSE).fields = F   BY <1>0, CarriesParsed DEF Carries
<1>2. DOMAIN F = 1..n /\ \A i \in 1..n : F[i].type = 2   BY DEF OfBytes
<1>3. Where(F, 1, 0) = {}   BY <1>2 DEF Where
<1>4. FirstNum(F, 1) = None   BY <1>3, NoNum
<1>5. find[c] = EnvelopeStep(find, c)   BY <1>1 DEF EnvelopesUnfold
<1>6. find[c] = IF EnvelopesIn(find, F) = {} THEN NoEnvelope ELSE find[F[Min(EnvelopesIn(find, F))].bytes]
  BY <1>1, <1>4, <1>5 DEF EnvelopeStep
<1>7. CASE EnvelopesIn(find, F) = {}   BY <1>6, <1>7, NoEnvelopeIsQuiet
<1>8. CASE EnvelopesIn(find, F) # {}
  <2>1. Min(EnvelopesIn(find, F)) \in Nested(F)   BY <1>1, <1>8, EnvelopeIs
  <2>2. PICK i \in 1..n : i = Min(EnvelopesIn(find, F))   BY <1>2, <2>1 DEF Nested
  <2> QED  BY <1>6, <1>8, <2>2
<1> QED  BY <1>7, <1>8

\* and within a wrapper.
LEMMA WrapIsQuiet ==
    ASSUME NEW find, EnvelopesUnfold(find), NEW c, NEW m \in Nat, NEW b \in Seq(Byte), Carries(c, One(Field(m, 2, 0, b))),
           Quiet(find[b])
    PROVE  Quiet(find[c])
<1>1. PICK F : F = One(Field(m, 2, 0, b)) /\ OfBytes(F, 1) /\ F[1].bytes = b   BY OneOfBytes
<1>2. PICK o \in Nat : o = 1   OBVIOUS
<1>3. OfBytes(F, o) /\ Carries(c, F)   BY <1>1, <1>2
<1>4. \A i \in 1..o : Quiet(find[F[i].bytes])   BY <1>1, <1>2
<1> QED  BY <1>3, <1>4, ListIsQuiet

\* A body in an envelope of the cloud
Enclosed(b, status, body) ==
    b = BytesField(2, ((VarintField(1, 20) \o VarintField(2, status)) \o VarintField(3, 7)) \o BytesField(5, body))
\* An envelope with its status and its payload.
Opened(envelope, status, body) ==
    envelope.status = status /\ envelope.carries = TRUE /\ envelope.payload = body

\* A body in an envelope is read back as the four fields of the envelope.
LEMMA EnclosedCarries ==
    ASSUME NEW body, Sized(body, 2, 430), NEW status \in 0..511, NEW b, Enclosed(b, status, body)
    PROVE  \E c, fs, x, y, t, p :
               /\ Carries(b, One(Field(2, 2, 0, c))) /\ c \in Seq(Byte) /\ Len(c) > 2 /\ b \in Seq(Byte)
               /\ Carries(c, fs) /\ IsFour(fs, x, y, t, p)
               /\ x = Field(1, 0, 20, <<>>) /\ y = Field(2, 0, status, <<>>)
               /\ t = Field(3, 0, 7, <<>>) /\ p = Field(5, 2, 0, body)
<1>1. PICK n1 \in 0..63, n2 \in 0..63, n3 \in 0..63, n5 \in 0..63, id \in 0..511, ts \in 0..511 :
                                       n1 = 1 /\ n2 = 2 /\ n3 = 3 /\ n5 = 5 /\ id = 20 /\ ts = 7
  OBVIOUS
<1>2. PICK x, y, t, p : /\ x = Field(n1, 0, id, <<>>) /\ y = Field(n2, 0, status, <<>>)
                        /\ t = Field(n3, 0, ts, <<>>) /\ p = Field(n5, 2, 0, body)
  OBVIOUS
<1>3. PICK a1, a2, a3, a4 : /\ a1 = VarintField(n1, id) /\ a2 = VarintField(n2, status)
                            /\ a3 = VarintField(n3, ts) /\ a4 = BytesField(n5, body)
  OBVIOUS
<1>4. Carried(a1, x) /\ Carried(a2, y) /\ Carried(a3, t)   BY ZenonT(40), <1>1, <1>2, <1>3, VarintCarried
<1>5. Carried(a4, p) /\ Sized(a4, 2, 436)
  <2>1. PICK max \in 0..511, hi \in 0..511 : max = 430 /\ hi = 6 + max /\ hi = 436   OBVIOUS
  <2>2. Sized(body, 0, max) /\ hi = 6 + max   BY <2>1 DEF Sized
  <2>3. Sized(BytesField(n5, body), 2, hi)   BY ONLY Zenon, <2>2, BytesPart, n5 \in 0..63, max \in 0..511
  <2>4. Carried(BytesField(n5, body), Field(n5, 2, 0, body))   BY ONLY Zenon, <2>2, BytesCarried, n5 \in 0..63, max \in 0..511
  <2> QED  BY <1>2, <1>3, <2>1, <2>3, <2>4
<1>6. Sized(a1, 2, 6) /\ Sized(a2, 2, 6) /\ Sized(a3, 2, 6)   BY ZenonT(40), <1>1, <1>3, VarintFieldSized
<1>7. PICK c, fs : c = ((a1 \o a2) \o a3) \o a4 /\ fs = ((One(x) \o One(y)) \o One(t)) \o One(p)   OBVIOUS
<1>8. Carries(c, fs)
  <2>1. Carries(a1, One(x)) /\ Carries(a2, One(y)) /\ Carries(a3, One(t)) /\ Carries(a4, One(p))   BY <1>4, <1>5 DEF Carried
  <2>2. Carries(a1 \o a2, One(x) \o One(y))   BY <2>1, CarriesJoin
  <2>3. Carries((a1 \o a2) \o a3, (One(x) \o One(y)) \o One(t))   BY <2>1, <2>2, CarriesJoin
  <2> QED  BY <1>7, <2>1, <2>3, CarriesJoin
<1>9. IsFour(fs, x, y, t, p)   BY <1>4, <1>5, <1>7, FourIs DEF Carried
<1>10. Sized(c, 8, 454)
  <2>1. PICK l, h, k : l \in Nat /\ h \in Nat /\ k \in Nat /\ l = 2 /\ h = 6 /\ k = 436   OBVIOUS
  <2>2. l + l \in Nat /\ h + h \in Nat /\ (l + l) + l \in Nat /\ (h + h) + h \in Nat   BY <2>1
  <2>3. Sized(a1, l, h) /\ Sized(a2, l, h) /\ Sized(a3, l, h) /\ Sized(a4, l, k)   BY <1>5, <1>6, <2>1
  <2>4. Sized(a1 \o a2, l + l, h + h)   BY <2>1, <2>3, SizedJoin
  <2>5. Sized((a1 \o a2) \o a3, (l + l) + l, (h + h) + h)   BY <2>1, <2>2, <2>3, <2>4, SizedJoin
  <2>6. Sized(((a1 \o a2) \o a3) \o a4, ((l + l) + l) + l, ((h + h) + h) + k)   BY <2>1, <2>2, <2>3, <2>5, SizedJoin
  <2>7. ((l + l) + l) + l = 8 /\ ((h + h) + h) + k = 454   BY <2>1
  <2> QED  BY <1>7, <2>6, <2>7
<1>11. c \in Seq(Byte) /\ Len(c) > 2
  <2>1. PICK l \in Nat : l = Len(c) /\ l >= 8 /\ c \in Seq(Byte)   BY <1>10 DEF Sized
  <2> QED  BY <2>1
<1>12. b = BytesField(n2, c)   BY <1>1, <1>3, <1>7 DEF Enclosed
<1>13. Carried(b, Field(n2, 2, 0, c))
  <2>1. PICK max \in 0..511 : max = 454   OBVIOUS
  <2>2. Sized(c, 0, max)   BY <1>10, <2>1 DEF Sized
  <2> QED  BY ZenonT(40), <1>1, <1>12, <2>1, <2>2, BytesCarried
<1>14. Carries(b, One(Field(2, 2, 0, c))) /\ b \in Seq(Byte)   BY <1>1, <1>13 DEF Carried
<1>15. /\ x = Field(1, 0, 20, <<>>) /\ y = Field(2, 0, status, <<>>)
       /\ t = Field(3, 0, 7, <<>>) /\ p = Field(5, 2, 0, body)
  BY <1>1, <1>2
<1> QED  BY <1>8, <1>9, <1>11, <1>14, <1>15

\* So the search finds that envelope, and not one within its payload.
LEMMA EnclosedIsOpened ==
    ASSUME NEW find, EnvelopesUnfold(find), NEW body, Sized(body, 2, 430), NEW status \in 0..511, NEW b,
           Enclosed(b, status, body)
    PROVE  Opened(find[b], status, body) /\ b \in Seq(Byte)
<1>0. FALSE \in BOOLEAN   OBVIOUS
<1>1. PICK c, fs, x, y, t, p :
               /\ Carries(b, One(Field(2, 2, 0, c))) /\ c \in Seq(Byte) /\ Len(c) > 2 /\ b \in Seq(Byte)
               /\ Carries(c, fs) /\ IsFour(fs, x, y, t, p)
               /\ x = Field(1, 0, 20, <<>>) /\ y = Field(2, 0, status, <<>>)
               /\ t = Field(3, 0, 7, <<>>) /\ p = Field(5, 2, 0, body)
  BY EnclosedCarries
<1>2. /\ x.field = 1 /\ x.type = 0 /\ x.num = 20 /\ y.field = 2 /\ y.type = 0 /\ y.num = status
      /\ t.field = 3 /\ t.type = 0 /\ p.field = 5 /\ p.type = 2 /\ p.bytes = body
  BY <1>1 DEF Field
<1>3. DOMAIN fs = {1, 2, 3, 4} /\ fs[1] = x /\ fs[2] = y /\ fs[3] = t /\ fs[4] = p
  <2>1. Len(fs) = 4 /\ fs \in Seq(FieldType)   BY <1>1 DEF IsFour
  <2>2. DOMAIN fs = 1..4   BY <2>1
  <2> QED  BY <1>1, <2>2 DEF IsFour
<1>4. Where(fs, 1, 0) = {1} /\ Where(fs, 2, 0) = {2}   BY <1>2, <1>3 DEF Where
<1>5. FirstNum(fs, 1) = 20 /\ FirstNum(fs, 2) = status
  <2>1. PICK one \in Nat, two \in Nat : one = 1 /\ two = 2   OBVIOUS
  <2>2. Where(fs, one, 0) = {one} /\ Where(fs, two, 0) = {two}   BY <1>4, <2>1
  <2>3. FirstNum(fs, one) = fs[one].num /\ FirstNum(fs, two) = fs[two].num   BY <2>2, NumIs
  <2> QED  BY <1>2, <1>3, <2>1, <2>3
<1>6. PayloadsIn(fs) = {4}   BY <1>2, <1>3 DEF PayloadsIn
<1>7. Carrying(fs) = TRUE   BY <1>6 DEF Carrying
<1>8. Min(PayloadsIn(fs)) = 4
  <2>1. PICK four \in Nat : four = 4   OBVIOUS
  <2>2. Min({four}) = four   BY OnlyOne
  <2> QED  BY <1>6, <2>1, <2>2
<1>9. Parse(c, FALSE).fields = fs   BY <1>0, <1>1, CarriesParsed
<1>10. find[c] = EnvelopeStep(find, c)   BY <1>1 DEF EnvelopesUnfold
<1>11. 20 # None /\ status # None   BY Widths
<1>12. find[c] = EnvelopeHere(fs)   BY <1>5, <1>9, <1>10, <1>11 DEF EnvelopeStep
<1>13. EnvelopeHere(fs).status = status /\ EnvelopeHere(fs).carries = TRUE /\ EnvelopeHere(fs).payload = body
  <2>1. EnvelopeHere(fs).carries = Carrying(fs)   BY DEF EnvelopeHere
  <2>2. EnvelopeHere(fs).status = FirstNum(fs, 2)   BY DEF EnvelopeHere
  <2>3. EnvelopeHere(fs).payload = fs[4].bytes
    <3>1. PayloadsIn(fs) # {}   BY <1>6
    <3>2. EnvelopeHere(fs).payload = fs[Min(PayloadsIn(fs))].bytes   BY <3>1 DEF EnvelopeHere
    <3> QED  BY <1>8, <3>2
  <2> QED  BY <1>2, <1>3, <1>5, <1>7, <2>1, <2>2, <2>3
<1>14. find[c] # NoEnvelope
  <2>1. NoEnvelope.carries = FALSE   BY DEF NoEnvelope
  <2> QED  BY <1>12, <1>13, <2>1
<1>15. PICK two \in Nat : two = 2   OBVIOUS
<1>16. PICK F : F = One(Field(two, 2, 0, c)) /\ OfBytes(F, 1) /\ F[1].bytes = c   BY <1>1, OneOfBytes
<1>17. Parse(b, FALSE).fields = F   BY <1>0, <1>1, <1>15, <1>16, CarriesParsed
<1>18. DOMAIN F = 1..1 /\ F[1].type = 2
  <2>1. F \in [1..1 -> FieldType] /\ \A i \in 1..1 : F[i].type = 2   BY <1>16 DEF OfBytes
  <2> QED  BY <2>1
<1>19. FirstNum(F, 1) = None
  <2>1. Where(F, 1, 0) = {}   BY <1>18 DEF Where
  <2> QED  BY <2>1, NoNum
<1>20. EnvelopesIn(find, F) = {1}   BY <1>1, <1>14, <1>16, <1>18 DEF EnvelopesIn, Nested
<1>21. Min({1}) = 1
  <2>1. PICK one \in Nat : one = 1   OBVIOUS
  <2> QED  BY <2>1, OnlyOne
<1>22. find[b] = EnvelopeStep(find, b)   BY <1>1 DEF EnvelopesUnfold
<1>23. find[b] = find[c]
  <2>1. EnvelopeStep(find, b) = find[F[Min(EnvelopesIn(find, F))].bytes]   BY <1>17, <1>19, <1>20 DEF EnvelopeStep
  <2> QED  BY <1>16, <1>20, <1>21, <1>22, <2>1
<1> QED  BY <1>1, <1>12, <1>13, <1>23 DEF Opened
=============================================================================
