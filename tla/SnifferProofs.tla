--------------------------- MODULE SnifferProofs ---------------------------
(* Proofs about Sniffer and the bytes of Dhcp it is about.                 *)
EXTENDS MCSniffer, Recursion, FiniteSetTheorems

Byte    == 0 .. 255
NetSet  == [net : {TRUE}, octets : Octets4, width : 0 .. 32]
AddrSet == [net : {FALSE}, octets : Octets4, width : {32}]
ViaSet  == [dest : NetSet, gw : AddrSet]

----------------------------------------------------------------------------
(* Octets.                                                                 *)

LEMMA Quad ==
    ASSUME NEW a \in Octets4
    PROVE  a \in Seq(Byte) /\ Len(a) = 4 /\ \A j \in 1 .. 4 : a[j] \in Byte
<1>1. a \in UNION {[1 .. n -> Byte] : n \in Nat} BY DEF Octets4, Byte
<1>2. a \in Seq(Byte) BY <1>1, SeqDef
<1>3. DOMAIN a = 1 .. 4 /\ DOMAIN a = 1 .. Len(a) /\ Len(a) \in Nat
  BY <1>2, LenProperties DEF Octets4, Byte
<1>4. Len(a) = 4
  <2>1. \A n \in Nat : 1 .. n = 1 .. 4 => n = 4
    <3> SUFFICES ASSUME NEW n \in Nat, 1 .. n = 1 .. 4 PROVE n = 4 OBVIOUS
    <3>1. 4 \in 1 .. n OBVIOUS
    <3>2. n \in 1 .. n BY <3>1
    <3>3. n \in 1 .. 4 BY <3>2
    <3> QED BY <3>1, <3>3
  <2> QED BY <1>3, <2>1
<1> QED BY <1>2, <1>4 DEF Octets4, Byte

LEMMA QuadOf ==
    ASSUME NEW a \in Seq(Byte), Len(a) = 4
    PROVE  a \in Octets4
<1>1. DOMAIN a = 1 .. 4 BY LenProperties
<1>2. a = [j \in 1 .. 4 |-> a[j]] BY <1>1, LenProperties
<1>3. \A j \in 1 .. 4 : a[j] \in Byte BY ElementOfSeq
<1> QED BY <1>2, <1>3 DEF Octets4, Byte

(* The program's count of octets is the one of the standard.               *)
LEMMA SignificantIsOctets ==
    ASSUME NEW w \in 0 .. 32
    PROVE  /\ Significant(w) \in 0 .. 4 /\ Octets(w) = Significant(w)
           /\ \A j \in 1 .. 4 : j > Significant(w) <=> w <= 8 * (j - 1)
<1>1. PICK k \in 0 .. 4 : k = Significant(w) /\ 8 * k >= w /\ 8 * k < w + 8
  BY DEF Significant
<1>2. \A n \in 0 .. 4 : 8 * n >= w /\ 8 * n < w + 8 => n = k
  BY <1>1
<1>3. Octets(w) = k
  BY <1>1, <1>2 DEF Octets
<1>4. \A j \in 1 .. 4 : j > k <=> w <= 8 * (j - 1)
  BY <1>1
<1> QED BY <1>1, <1>3, <1>4

(* What is left of an octet when all below a unit is cleared.              *)
Unit(w, j) == IF w >= 8 * j THEN 1 ELSE IF w <= 8 * (j - 1) THEN 256 ELSE 2 ^ (8 * j - w)

Units == {1, 2, 4, 8, 16, 32, 64, 128, 256}

Power(n) ==
    IF n = 1 THEN 2 ELSE IF n = 2 THEN 4 ELSE IF n = 3 THEN 8 ELSE IF n = 4 THEN 16
    ELSE IF n = 5 THEN 32 ELSE IF n = 6 THEN 64 ELSE 128

LEMMA Powers ==
    ASSUME NEW d \in 1 .. 7
    PROVE  2 ^ d = Power(d)
<1>1. /\ 2 ^ 1 = 2 /\ 2 ^ 2 = 4 /\ 2 ^ 3 = 8 /\ 2 ^ 4 = 16
      /\ 2 ^ 5 = 32 /\ 2 ^ 6 = 64 /\ 2 ^ 7 = 128
  OBVIOUS
<1>2. CASE d = 1 BY <1>1, <1>2 DEF Power
<1>3. CASE d = 2 BY <1>1, <1>3 DEF Power
<1>4. CASE d = 3 BY <1>1, <1>4 DEF Power
<1>5. CASE d = 4 BY <1>1, <1>5 DEF Power
<1>6. CASE d = 5 BY <1>1, <1>6 DEF Power
<1>7. CASE d = 6 BY <1>1, <1>7 DEF Power
<1>8. CASE d = 7 BY <1>1, <1>8 DEF Power
<1> QED BY <1>2, <1>3, <1>4, <1>5, <1>6, <1>7, <1>8

LEMMA UnitInUnits ==
    ASSUME NEW w \in 0 .. 32, NEW j \in 1 .. 4
    PROVE  Unit(w, j) \in Units
<1>1. CASE w >= 8 * j \/ w <= 8 * (j - 1)
  BY <1>1 DEF Unit, Units
<1>2. CASE ~(w >= 8 * j \/ w <= 8 * (j - 1))
  <2>1. PICK d \in 1 .. 7 : d = 8 * j - w BY <1>2
  <2>2. Unit(w, j) = Power(d) BY <1>2, <2>1, Powers DEF Unit
  <2> QED BY <2>2 DEF Power, Units
<1> QED BY <1>1, <1>2

LEMMA Cleared ==
    ASSUME NEW b \in Byte, NEW u \in Units
    PROVE  /\ (b \div u) * u \in Byte
           /\ (((b \div u) * u) \div u) * u = (b \div u) * u
           /\ (b \div 256) * 256 = 0
<1>1. (b \div u) * u \in Byte
  <2>1. b \in Nat /\ u \in Nat \ {0} BY DEF Byte, Units
  <2>2. PICK q \in Nat : q = b \div u BY <2>1
  <2>3. q * u <= b /\ q * u \in Nat BY <2>1, <2>2 DEF Units
  <2> QED BY <2>2, <2>3 DEF Byte
<1>2. (((b \div u) * u) \div u) * u = (b \div u) * u
  BY DEF Byte, Units
<1>3. (b \div 256) * 256 = 0
  BY DEF Byte
<1> QED BY <1>1, <1>2, <1>3

LEMMA NetworkDef ==
    ASSUME NEW o, NEW w
    PROVE  Network(o, w) = Net([j \in 1 .. 4 |-> (o[j] \div Unit(w, j)) * Unit(w, j)], w)
BY DEF Network, Unit

LEMMA NetworkType ==
    ASSUME NEW o \in Octets4, NEW w \in 0 .. 32
    PROVE  /\ Network(o, w) \in NetSet
           /\ Network(o, w).width = w
           /\ Network(o, w).octets \in Octets4
           /\ \A j \in 1 .. 4 : j > Significant(w) => Network(o, w).octets[j] = 0
<1> DEFINE c == [j \in 1 .. 4 |-> (o[j] \div Unit(w, j)) * Unit(w, j)]
<1>1. ASSUME NEW j \in 1 .. 4 PROVE c[j] \in Byte /\ (j > Significant(w) => c[j] = 0)
  <2>1. PICK b \in Byte : b = o[j] BY DEF Octets4, Byte
  <2>2. PICK u \in Units : u = Unit(w, j) BY UnitInUnits
  <2>3. c[j] = (b \div u) * u BY <2>1, <2>2
  <2>4. j > Significant(w) => u = 256
    <3>1. j > Significant(w) <=> w <= 8 * (j - 1) BY SignificantIsOctets
    <3>2. w <= 8 * (j - 1) => ~(w >= 8 * j) OBVIOUS
    <3> QED BY <2>2, <3>1, <3>2 DEF Unit
  <2> QED BY <2>3, <2>4, Cleared
<1>2. c \in Octets4 BY <1>1 DEF Octets4, Byte
<1>3. Network(o, w) = Net(c, w) BY NetworkDef
<1> HIDE DEF c
<1> QED BY <1>1, <1>2, <1>3 DEF Net, NetSet

(* Octets beyond the prefix do not count, and clearing twice is clearing.  *)
LEMMA NetworkPrefix ==
    ASSUME NEW o \in Octets4, NEW p \in Octets4, NEW w \in 0 .. 32,
           \A j \in 1 .. 4 : j <= Significant(w) => o[j] = p[j]
    PROVE  Network(o, w) = Network(p, w)
<1>1. ASSUME NEW j \in 1 .. 4 PROVE (o[j] \div Unit(w, j)) * Unit(w, j) = (p[j] \div Unit(w, j)) * Unit(w, j)
  <2>1. PICK b \in Byte : b = o[j] BY DEF Octets4, Byte
  <2>2. PICK d \in Byte : d = p[j] BY DEF Octets4, Byte
  <2>3. CASE j <= Significant(w) BY <2>3
  <2>4. CASE ~(j <= Significant(w))
    <3>1. j > Significant(w) <=> w <= 8 * (j - 1) BY SignificantIsOctets
    <3>2. Significant(w) \in 0 .. 4 BY SignificantIsOctets
    <3>3. w <= 8 * (j - 1) => ~(w >= 8 * j) OBVIOUS
    <3>4. Unit(w, j) = 256 BY <2>4, <3>1, <3>2, <3>3 DEF Unit
    <3>5. 256 \in Units BY DEF Units
    <3>6. (b \div 256) * 256 = 0 /\ (d \div 256) * 256 = 0 BY <3>5, Cleared
    <3> QED BY <2>1, <2>2, <3>4, <3>6
  <2> QED BY <2>3, <2>4
<1> QED BY <1>1, NetworkDef

LEMMA NetworkTwice ==
    ASSUME NEW o \in Octets4, NEW w \in 0 .. 32
    PROVE  Network(Network(o, w).octets, w) = Network(o, w)
<1> DEFINE c == [j \in 1 .. 4 |-> (o[j] \div Unit(w, j)) * Unit(w, j)]
<1>1. Network(o, w) = Net(c, w) /\ Network(o, w).octets = c BY NetworkDef DEF Net
<1>2. ASSUME NEW j \in 1 .. 4 PROVE (c[j] \div Unit(w, j)) * Unit(w, j) = c[j]
  <2>1. PICK b \in Byte : b = o[j] BY DEF Octets4, Byte
  <2>2. PICK u \in Units : u = Unit(w, j) BY UnitInUnits
  <2>3. PICK x : x = c[j] OBVIOUS
  <2>4. x = (b \div u) * u BY <2>1, <2>2, <2>3
  <2>5. (x \div u) * u = x BY <2>4, Cleared
  <2> HIDE DEF c
  <2> QED BY <2>2, <2>3, <2>5
<1>3. [j \in 1 .. 4 |-> (c[j] \div Unit(w, j)) * Unit(w, j)] = c BY <1>2
<1>4. Network(c, w) = Net([j \in 1 .. 4 |-> (c[j] \div Unit(w, j)) * Unit(w, j)], w) BY NetworkDef
<1> QED BY <1>1, <1>3, <1>4

----------------------------------------------------------------------------
(* Decoding, one route at a time.                                          *)

RouteAt(s, i) ==
    RouteVia(Network([j \in 1 .. 4 |-> IF j <= Significant(s[i]) THEN s[i + j] ELSE 0], s[i]),
             Addr(SubSeq(s, i + Significant(s[i]) + 1, i + Significant(s[i]) + 4)))

Stops(s, i) == s[i] > 32 \/ Truncated(s, i)

After(s, i) == i + Significant(s[i]) + 5

DecodeBody(s, i, f) ==
    IF i > Len(s) THEN Routes(<<>>)
    ELSE IF Stops(s, i) THEN Failed
    ELSE IF f[After(s, i)].ok THEN Routes(<<RouteAt(s, i)>> \o f[After(s, i)].routes)
    ELSE Failed

Decoding(s, f) == f = [i \in 1 .. Len(s) + 1 |-> DecodeBody(s, i, f)]

LEMMA AfterLater ==
    ASSUME NEW s \in Seq(Byte), NEW i \in 1 .. Len(s), ~Stops(s, i)
    PROVE  After(s, i) \in i + 1 .. Len(s) + 1
<1>1. PICK w \in Byte : w = s[i] BY ElementOfSeq
<1>2. w <= 32 /\ w \in 0 .. 32
  <2>1. ~(w > 32) BY <1>1 DEF Stops
  <2> QED BY <2>1 DEF Byte
<1>3. PICK k \in 0 .. 4 : k = Significant(w) BY <1>2, SignificantIsOctets
<1>4. ~(i + k + 4 > Len(s)) BY <1>1, <1>3 DEF Stops, Truncated
<1>5. After(s, i) = i + k + 5 BY <1>1, <1>3 DEF After
<1> QED BY <1>4, <1>5

LEMMA DecodeIsRecursive ==
    ASSUME NEW s \in Seq(Byte)
    PROVE  \E f : Decoding(s, f) /\ Decode(s) = f[1]
<1> DEFINE D == 1 .. Len(s) + 1
           R == {RouteAt(s, i) : i \in D}
           V == [ok : BOOLEAN, routes : Seq(R)]
           F == [i \in D |-> [g \in [D -> V] |-> DecodeBody(s, i, g)]]
           rank == [i \in D |-> Len(s) + 1 - i]
           N == Len(s) + 1
<1>1. N \in Nat /\ rank \in [D -> 0 .. N] OBVIOUS
<1>2. Routes(<<>>) \in V /\ Failed \in V
  <2>1. <<>> \in Seq(R) BY EmptySeq
  <2> HIDE DEF R
  <2> QED BY <2>1 DEF Routes, Failed
<1>3. ASSUME NEW i \in D, NEW g \in [D -> V] PROVE DecodeBody(s, i, g) \in V
  <2>1. CASE i > Len(s) BY <2>1, <1>2 DEF DecodeBody
  <2>2. CASE ~(i > Len(s)) /\ Stops(s, i) BY <2>2, <1>2 DEF DecodeBody
  <2>3. CASE ~(i > Len(s)) /\ ~Stops(s, i)
    <3>1. After(s, i) \in D BY <2>3, AfterLater
    <3>2. PICK v \in V : v = g[After(s, i)] BY <3>1
    <3>3. PICK r \in R : r = RouteAt(s, i) OBVIOUS
    <3>4. Routes(<<r>> \o v.routes) \in V
      <4> HIDE DEF R
      <4>1. PICK q \in Seq(R) : q = v.routes OBVIOUS
      <4>2. <<r>> \o q \in Seq(R) OBVIOUS
      <4> QED BY <4>1, <4>2 DEF Routes
    <3> HIDE DEF V, R, D
    <3> QED BY <2>3, <3>2, <3>3, <3>4, <1>2 DEF DecodeBody
  <2> QED BY <2>1, <2>2, <2>3
<1>4. \A i \in D, g \in [D -> V] : F[i][g] = DecodeBody(s, i, g)
  <2> HIDE DEF V, D
  <2> QED OBVIOUS
<1>5. F \in [D -> [[D -> V] -> V]]
  <2> HIDE DEF V, D
  <2> QED BY <1>3
<1>6. ASSUME NEW d \in D, NEW g \in [D -> V], NEW h \in [D -> V],
             \A e \in D : rank[e] < rank[d] => g[e] = h[e]
      PROVE  F[d][g] = F[d][h]
  <2>1. d <= Len(s) /\ ~Stops(s, d) => g[After(s, d)] = h[After(s, d)]
    <3> SUFFICES ASSUME d <= Len(s), ~Stops(s, d) PROVE g[After(s, d)] = h[After(s, d)]
      OBVIOUS
    <3>1. PICK a \in d + 1 .. Len(s) + 1 : a = After(s, d)
      <4>1. d \in 1 .. Len(s) OBVIOUS
      <4> QED BY <4>1, AfterLater
    <3>2. a \in D /\ rank[a] < rank[d] OBVIOUS
    <3> QED BY <3>1, <3>2, <1>6
  <2>2. DecodeBody(s, d, g) = DecodeBody(s, d, h)
    <3>1. CASE d > Len(s) BY <3>1 DEF DecodeBody
    <3>2. CASE ~(d > Len(s)) /\ Stops(s, d) BY <3>2 DEF DecodeBody
    <3>3. CASE ~(d > Len(s)) /\ ~Stops(s, d)
      <4>1. g[After(s, d)] = h[After(s, d)] BY <3>3, <2>1
      <4> QED BY <3>3, <4>1 DEF DecodeBody
    <3> QED BY <3>1, <3>2, <3>3
  <2> QED BY <2>2, <1>4
<1>7. Recursive(D, V, N, rank, F)
  <2>1. V # {} BY <1>2
  <2>2. \A d \in D : \A g, h \in [D -> V] :
            (\A e \in D : rank[e] < rank[d] => g[e] = h[e]) => F[d][g] = F[d][h]
    BY <1>6
  <2> HIDE DEF D, V, F, rank, N
  <2> QED BY <1>1, <1>5, <2>1, <2>2 DEF Recursive
<1>8. \E f \in [D -> V] : \A d \in D : f[d] = F[d][f]
  <2> HIDE DEF D, V, F, rank, N
  <2> QED BY <1>7, RecursiveFunction
<1>9. \E f : Decoding(s, f)
  <2>1. PICK f \in [D -> V] : \A d \in D : f[d] = F[d][f] BY <1>8
  <2>2. f = [d \in D |-> f[d]] OBVIOUS
  <2>3. \A d \in D : f[d] = DecodeBody(s, d, f) BY <2>1, <1>4
  <2> QED BY <2>2, <2>3 DEF Decoding
<1>10. Decode(s) = (CHOOSE f : Decoding(s, f))[1]
  BY DEF Decode, Decoding, DecodeBody, RouteAt, Stops, After
<1> QED BY <1>9, <1>10

(* Decoding a suffix is decoding from there on.                            *)
LEMMA BodyShifted ==
    ASSUME NEW s \in Seq(Byte), NEW k \in 0 .. Len(s), NEW t \in Seq(Byte),
           t = SubSeq(s, k + 1, Len(s)), NEW i \in 1 .. Len(t)
    PROVE  /\ i + k \in 1 .. Len(s) /\ s[i + k] = t[i]
           /\ Stops(t, i) <=> Stops(s, i + k)
           /\ ~Stops(t, i) => RouteAt(t, i) = RouteAt(s, i + k) /\ After(s, i + k) = After(t, i) + k
<1>1. PICK L \in Nat : L = Len(s) OBVIOUS
<1>2. Len(t) = L - k /\ \A n \in 1 .. L - k : t[n] = s[n + k]
  BY <1>1
<1>3. PICK m \in 1 .. L : m = i + k BY <1>1, <1>2
<1>4. PICK w \in Byte : w = t[i] /\ w = s[m] BY <1>2, <1>3, ElementOfSeq
<1>5. Stops(t, i) <=> Stops(s, m)
  <2>1. Significant(w) \in Int BY <1>4 DEF Significant, Byte
  <2>2. PICK z \in Int : z = Significant(w) BY <2>1
  <2>3. (i + z + 4 > L - k) <=> (m + z + 4 > L) BY <1>3, <2>2
  <2> QED BY <1>1, <1>2, <1>4, <2>2, <2>3 DEF Stops, Truncated
<1>6. ASSUME ~Stops(t, i) PROVE RouteAt(t, i) = RouteAt(s, m) /\ After(s, m) = After(t, i) + k
  <2>1. w <= 32
    <3>1. ~(w > 32) BY <1>6, <1>4 DEF Stops
    <3> QED BY <3>1 DEF Byte
  <2>2. PICK z \in 0 .. 4 : z = Significant(w)
    <3>1. w \in 0 .. 32 BY <2>1 DEF Byte
    <3> QED BY <3>1, SignificantIsOctets
  <2>3. i + z + 4 <= L - k
    <3>1. ~(i + z + 4 > L - k) BY <1>6, <1>2, <1>4, <2>2 DEF Stops, Truncated
    <3> QED BY <3>1, <1>1
  <2>4. \A j \in 1 .. 4 : j <= z => t[i + j] = s[m + j]
    <3> SUFFICES ASSUME NEW j \in 1 .. 4, j <= z PROVE t[i + j] = s[m + j] OBVIOUS
    <3>1. PICK n \in 1 .. L - k : n = i + j BY <2>3
    <3>2. PICK o : o = m + j OBVIOUS
    <3>3. o = n + k BY <3>1, <3>2, <1>3
    <3>4. t[n] = s[o] BY <3>3, <1>2
    <3> QED BY <3>1, <3>2, <3>4
  <2>5. [j \in 1 .. 4 |-> IF j <= z THEN t[i + j] ELSE 0] = [j \in 1 .. 4 |-> IF j <= z THEN s[m + j] ELSE 0]
    BY <2>4
  <2>6. SubSeq(t, i + z + 1, i + z + 4) = SubSeq(s, m + z + 1, m + z + 4)
    <3>1. PICK a : a = i + z + 1 OBVIOUS
    <3>2. PICK b : b = i + z + 4 OBVIOUS
    <3>3. PICK c : c = m + z + 1 OBVIOUS
    <3>4. PICK d : d = m + z + 4 OBVIOUS
    <3>5. /\ a \in 1 .. L - k /\ b \in 1 .. L - k /\ c = k + 1 + a - 1 /\ d = k + 1 + b - 1
          /\ k + 1 \in 1 .. L
      BY <3>1, <3>2, <3>3, <3>4, <2>3, <1>3
    <3>6. SubSeq(SubSeq(s, k + 1, L), a, b) = SubSeq(s, c, d)
      BY <3>5, <1>1
    <3> QED BY <3>1, <3>2, <3>3, <3>4, <3>6, <1>1
  <2>7. RouteAt(t, i) = RouteAt(s, m) BY <1>4, <2>2, <2>5, <2>6 DEF RouteAt
  <2>8. After(t, i) = i + z + 5 /\ After(s, m) = m + z + 5 BY <1>4, <2>2 DEF After
  <2> QED BY <2>7, <2>8, <1>3
<1> QED BY <1>1, <1>3, <1>4, <1>5, <1>6

LEMMA DecodeSuffix ==
    ASSUME NEW s \in Seq(Byte), NEW f, Decoding(s, f), NEW k \in 0 .. Len(s)
    PROVE  f[k + 1] = Decode(SubSeq(s, k + 1, Len(s)))
<1>1. PICK L \in Nat : L = Len(s) OBVIOUS
<1>2. PICK t \in Seq(Byte) : t = SubSeq(s, k + 1, Len(s)) /\ Len(t) = L - k BY <1>1, Suffix
<1>3. PICK M \in Nat : M = Len(t) /\ M = L - k
  <2>1. PICK M \in Nat : M = Len(t) OBVIOUS
  <2> QED BY <2>1, <1>2
<1>4. PICK g : Decoding(t, g) /\ Decode(t) = g[1] BY DecodeIsRecursive
<1>5. \A i \in 1 .. L + 1 : f[i] = DecodeBody(s, i, f) BY <1>1 DEF Decoding
<1>6. \A i \in 1 .. M + 1 : g[i] = DecodeBody(t, i, g) BY <1>3, <1>4 DEF Decoding
<1> DEFINE T == {n \in 0 .. M : g[n + 1] = f[n + 1 + k]}
<1>7. ASSUME NEW n \in 0 .. M, \A m \in n + 1 .. M : m \in T PROVE n \in T
  <2>1. PICK i \in 1 .. M + 1 : i = n + 1 OBVIOUS
  <2>2. PICK j \in 1 .. L + 1 : j = i + k BY <1>3
  <2>3. g[i] = f[j]
    <3>1. CASE n = M
      <4>1. i > M /\ j > L BY <3>1, <2>1, <2>2, <1>3
      <4> QED BY <4>1, <1>1, <1>3, <1>5, <1>6 DEF DecodeBody
    <3>2. CASE n # M
      <4>1. i \in 1 .. M /\ j \in 1 .. L BY <3>2, <2>1, <2>2, <1>3
      <4>2. /\ Stops(t, i) <=> Stops(s, j)
            /\ ~Stops(t, i) => RouteAt(t, i) = RouteAt(s, j) /\ After(s, j) = After(t, i) + k
        BY <4>1, <2>2, <1>2, <1>3, BodyShifted
      <4>3. ~(i > M) /\ ~(j > L) BY <4>1
      <4>4. CASE Stops(t, i) BY <4>2, <4>3, <4>4, <1>1, <1>3, <1>5, <1>6 DEF DecodeBody
      <4>5. CASE ~Stops(t, i)
        <5>1. PICK a \in i + 1 .. M + 1 : a = After(t, i) BY <4>1, <4>5, <1>3, AfterLater
        <5>2. PICK b : b = a + k OBVIOUS
        <5>3. a - 1 \in n + 1 .. M /\ a - 1 + 1 = a BY <2>1
        <5>4. g[a] = f[b]
          <6>1. PICK m : m = a - 1 OBVIOUS
          <6>2. m \in n + 1 .. M /\ m + 1 = a BY <5>3, <6>1
          <6>3. m \in T BY <6>2, <1>7
          <6>4. g[m + 1] = f[m + 1 + k] BY <6>3
          <6> QED BY <6>2, <6>4, <5>2
        <5>5. After(s, j) = b BY <4>2, <4>5, <5>1, <5>2
        <5>6. PICK r : r = RouteAt(t, i) /\ r = RouteAt(s, j) BY <4>2, <4>5
        <5>7. g[i] = IF g[a].ok THEN Routes(<<r>> \o g[a].routes) ELSE Failed
          BY <4>3, <4>5, <5>1, <5>6, <1>3, <1>6 DEF DecodeBody
        <5>8. f[j] = IF f[b].ok THEN Routes(<<r>> \o f[b].routes) ELSE Failed
          BY <4>2, <4>3, <4>5, <5>5, <5>6, <1>1, <1>5 DEF DecodeBody
        <5> QED BY <5>4, <5>7, <5>8
      <4> QED BY <4>4, <4>5
    <3> QED BY <3>1, <3>2
  <2> QED BY <2>1, <2>2, <2>3
<1>8. 0 \in T
  <2> HIDE DEF T
  <2>1. 0 .. M \subseteq T BY <1>7, DownwardInduction
  <2> QED BY <2>1
<1>9. g[1] = f[k + 1] BY <1>8
<1> QED BY <1>2, <1>4, <1>9

(* One route, and then what follows it.                                    *)
RouteWire(route) ==
    <<route.dest.width>> \o SubSeq(route.dest.octets, 1, Octets(route.dest.width)) \o route.gw.octets

CanonicalRoute(route) == RouteVia(Network(route.dest.octets, route.dest.width), route.gw)

LEMMA RouteWireShape ==
    ASSUME NEW v \in ViaSet
    PROVE  LET w == v.dest.width
               z == Significant(w)
           IN  /\ w \in 0 .. 32 /\ z \in 0 .. 4
               /\ RouteWire(v) \in Seq(Byte) /\ Len(RouteWire(v)) = z + 5
               /\ RouteWire(v)[1] = w
               /\ \A j \in 1 .. z : RouteWire(v)[j + 1] = v.dest.octets[j]
               /\ \A j \in 1 .. 4 : RouteWire(v)[z + 1 + j] = v.gw.octets[j]
               /\ v.dest.octets \in Octets4 /\ v.gw.octets \in Octets4 /\ v.gw = Addr(v.gw.octets)
<1>1. PICK o \in Octets4 : o = v.dest.octets BY DEF ViaSet, NetSet
<1>2. PICK g \in Octets4 : g = v.gw.octets BY DEF ViaSet, AddrSet
<1>3. PICK w \in 0 .. 32 : w = v.dest.width BY DEF ViaSet, NetSet
<1>4. PICK z \in 0 .. 4 : z = Significant(w) /\ z = Octets(w) BY SignificantIsOctets
<1>5. v.gw = Addr(g) BY <1>2 DEF ViaSet, AddrSet, Addr
<1>6. PICK p : p = SubSeq(o, 1, z) OBVIOUS
<1>7. p \in Seq(Byte) /\ Len(p) = z /\ \A j \in 1 .. z : p[j] = o[j]
  <2>1. z \in Int /\ 1 \in Int /\ (\A i \in 1 .. z : o[i] \in Byte) BY Quad
  <2>2. /\ SubSeq(o, 1, z) \in Seq(Byte)
        /\ Len(SubSeq(o, 1, z)) = IF 1 <= z THEN z - 1 + 1 ELSE 0
        /\ \A i \in 1 .. z - 1 + 1 : SubSeq(o, 1, z)[i] = o[1 + i - 1]
    BY <2>1, SubSeqProperties
  <2> QED BY <2>2, <1>6
<1>8. <<w>> \in Seq(Byte) /\ Len(<<w>>) = 1 BY DEF Byte
<1>9. g \in Seq(Byte) /\ Len(g) = 4 BY Quad
<1>10. PICK q : q = <<w>> \o p OBVIOUS
<1>11. q \in Seq(Byte) /\ Len(q) = z + 1 /\ q[1] = w /\ \A j \in 1 .. z : q[j + 1] = p[j]
  <2>1. /\ q \in Seq(Byte) /\ Len(q) = Len(<<w>>) + Len(p)
        /\ \A i \in 1 .. Len(<<w>>) : q[i] = <<w>>[i]
        /\ \A i \in 1 .. Len(p) : q[Len(<<w>>) + i] = p[i]
    BY <1>7, <1>8, <1>10, Joined
  <2>2. q[1] = w BY <2>1, <1>8
  <2>3. \A j \in 1 .. z : 1 + j = j + 1 OBVIOUS
  <2>4. \A j \in 1 .. z : q[1 + j] = p[j] BY <2>1, <1>7, <1>8
  <2> QED BY <2>1, <2>2, <2>3, <2>4, <1>7, <1>8
<1>12. PICK r : r = q \o g OBVIOUS
<1>13. /\ r \in Seq(Byte) /\ Len(r) = z + 5 /\ r[1] = w
       /\ \A j \in 1 .. z : r[j + 1] = p[j]
       /\ \A j \in 1 .. 4 : r[z + 1 + j] = g[j]
  <2>1. /\ r \in Seq(Byte) /\ Len(r) = Len(q) + Len(g)
        /\ \A i \in 1 .. Len(q) : r[i] = q[i]
        /\ \A i \in 1 .. Len(g) : r[Len(q) + i] = g[i]
    <3>1. q \in Seq(Byte) /\ g \in Seq(Byte) /\ r = q \o g BY <1>9, <1>11, <1>12
    <3> QED BY ONLY <3>1, Joined
  <2>2. 1 \in 1 .. z + 1 /\ \A j \in 1 .. z : j + 1 \in 1 .. z + 1 OBVIOUS
  <2>3. r[1] = w /\ \A j \in 1 .. z : r[j + 1] = p[j]
    BY <2>1, <2>2, <1>11
  <2>4. \A j \in 1 .. 4 : r[z + 1 + j] = g[j] BY <2>1, <1>9, <1>11
  <2> QED BY <2>1, <2>3, <2>4, <1>9, <1>11
<1>14. RouteWire(v) = r BY <1>1, <1>2, <1>3, <1>4, <1>6, <1>10, <1>12 DEF RouteWire
<1> QED BY <1>1, <1>2, <1>3, <1>4, <1>5, <1>7, <1>13, <1>14

LEMMA DecodeEmpty == Decode(<<>>) = Routes(<<>>)
<1>1. <<>> \in Seq(Byte) /\ Len(<<>>) = 0 BY EmptySeq
<1>2. PICK f : Decoding(<<>>, f) /\ Decode(<<>>) = f[1] BY <1>1, DecodeIsRecursive
<1>3. f[1] = DecodeBody(<<>>, 1, f) BY <1>1, <1>2 DEF Decoding
<1> QED BY <1>1, <1>2, <1>3 DEF DecodeBody

LEMMA DecodeRoute ==
    ASSUME NEW v \in ViaSet, NEW rest \in Seq(Byte)
    PROVE  Decode(RouteWire(v) \o rest) =
               IF Decode(rest).ok THEN Routes(<<CanonicalRoute(v)>> \o Decode(rest).routes) ELSE Failed
<1>1. PICK r \in Seq(Byte) : r = RouteWire(v) BY RouteWireShape
<1>2. PICK o \in Octets4 : o = v.dest.octets BY DEF ViaSet, NetSet
<1>3. PICK g \in Octets4 : g = v.gw.octets BY DEF ViaSet, AddrSet
<1>4. PICK w \in 0 .. 32 : w = v.dest.width BY DEF ViaSet, NetSet
<1>5. PICK z \in 0 .. 4 : z = Significant(w) BY SignificantIsOctets
<1>6. /\ Len(r) = z + 5 /\ r[1] = w
      /\ \A j \in 1 .. z : r[j + 1] = o[j]
      /\ \A j \in 1 .. 4 : r[z + 1 + j] = g[j]
      /\ v.gw = Addr(g)
  BY <1>1, <1>2, <1>3, <1>4, <1>5, RouteWireShape
<1>7. PICK s : s = r \o rest OBVIOUS
<1>8. /\ s \in Seq(Byte) /\ Len(s) = z + 5 + Len(rest) /\ \A j \in 1 .. z + 5 : s[j] = r[j]
      /\ SubSeq(s, z + 6, Len(s)) = rest
  <2>1. z + 5 + 1 = z + 6 OBVIOUS
  <2>2. /\ s \in Seq(Byte) /\ Len(s) = Len(r) + Len(rest)
        /\ \A j \in 1 .. Len(r) : s[j] = r[j]
        /\ SubSeq(s, Len(r) + 1, Len(s)) = rest
    BY ONLY r \in Seq(Byte), rest \in Seq(Byte), <1>7, Joined
  <2>3. PICK k : k = z + 5 OBVIOUS
  <2>4. Len(r) = k /\ k + 1 = z + 6 BY <1>6, <2>1, <2>3
  <2> QED BY ONLY <2>2, <2>3, <2>4
<1>9. s[1] = w /\ (\A j \in 1 .. z : s[j + 1] = o[j]) /\ \A j \in 1 .. 4 : s[z + 1 + j] = g[j]
  BY <1>6, <1>8
<1>10. PICK f : Decoding(s, f) /\ Decode(s) = f[1] BY <1>8, DecodeIsRecursive
<1>11. f[z + 6] = Decode(rest)
  <2>1. PICK k \in 0 .. Len(s) : k = z + 5 BY <1>8
  <2>2. f[k + 1] = Decode(SubSeq(s, k + 1, Len(s))) BY <1>8, <1>10, DecodeSuffix
  <2>3. k + 1 = z + 6 BY <2>1
  <2> QED BY <2>2, <2>3, <1>8
<1>12. ~Stops(s, 1) /\ After(s, 1) = z + 6
  <2>1. ~(w > 32) /\ ~(1 + z + 4 > Len(s)) /\ 1 + z + 5 = z + 6 BY <1>8
  <2> QED BY <2>1, <1>5, <1>9 DEF Stops, Truncated, After
<1>13. RouteAt(s, 1) = CanonicalRoute(v)
  <2> DEFINE d == [j \in 1 .. 4 |-> IF j <= z THEN s[1 + j] ELSE 0]
  <2>1. d \in Octets4 /\ \A j \in 1 .. 4 : j <= z => d[j] = o[j]
    <3>1. ASSUME NEW j \in 1 .. 4, j <= z PROVE s[1 + j] = o[j] /\ o[j] \in Byte
      <4>1. j \in 1 .. z /\ 1 + j = j + 1 BY <3>1
      <4>2. s[j + 1] = o[j] BY <4>1, <1>9
      <4> QED BY <4>1, <4>2, Quad
    <3>2. 0 \in Byte BY DEF Byte
    <3> QED BY <3>1, <3>2 DEF Octets4, Byte
  <2>2. Network(d, w) = Network(o, w) BY <2>1, <1>5, NetworkPrefix
  <2>3. SubSeq(s, 1 + z + 1, 1 + z + 4) = g
    <3>1. PICK a \in Int : a = 1 + z + 1 OBVIOUS
    <3>2. PICK b \in Int : b = 1 + z + 4 OBVIOUS
    <3>3. \A i \in a .. b : s[i] \in Byte
      <4> SUFFICES ASSUME NEW i \in a .. b PROVE s[i] \in Byte OBVIOUS
      <4>1. i \in 1 .. Len(s) BY <3>1, <3>2, <1>8
      <4> QED BY <4>1, <1>8, ElementOfSeq
    <3>4. PICK q \in Seq(Byte) : q = SubSeq(s, a, b) BY <3>3, SubSeqProperties
    <3>5. Len(q) = 4 /\ \A i \in 1 .. 4 : q[i] = s[z + 1 + i]
      <4>1. /\ Len(SubSeq(s, a, b)) = IF a <= b THEN b - a + 1 ELSE 0
            /\ \A i \in 1 .. b - a + 1 : SubSeq(s, a, b)[i] = s[a + i - 1]
        BY <3>3, SubSeqProperties
      <4>2. a <= b /\ b - a + 1 = 4 BY <3>1, <3>2
      <4>3. \A i \in 1 .. 4 : a + i - 1 = z + 1 + i BY <3>1
      <4> QED BY <4>1, <4>2, <4>3, <3>4
    <3>6. g \in Seq(Byte) /\ Len(g) = 4 BY Quad
    <3>7. q = g BY <3>5, <3>6, <1>9, SeqEqual
    <3> QED BY <3>1, <3>2, <3>4, <3>7
  <2> HIDE DEF d
  <2>4. RouteAt(s, 1) = RouteVia(Network(d, w), Addr(g)) BY <1>5, <1>9, <2>3 DEF RouteAt, d
  <2> QED BY <2>2, <2>4, <1>2, <1>4, <1>6 DEF CanonicalRoute
<1>14. f[1] = DecodeBody(s, 1, f)
  <2>1. 1 \in 1 .. Len(s) + 1 BY <1>8
  <2> QED BY <2>1, <1>10 DEF Decoding
<1>15. ~(1 > Len(s)) BY <1>8
<1> QED BY <1>1, <1>7, <1>10, <1>11, <1>12, <1>13, <1>14, <1>15 DEF DecodeBody

----------------------------------------------------------------------------
(* Decoding what a server or this program writes.                          *)

LEMMA MapTail ==
    ASSUME NEW R, NEW U, NEW m \in [R -> U], NEW rs \in Seq(R), rs # <<>>,
           NEW mapped, mapped = [n \in DOMAIN rs |-> m[rs[n]]]
    PROVE  /\ mapped \in Seq(U) /\ Len(mapped) = Len(rs) /\ mapped # <<>>
           /\ Head(mapped) = m[Head(rs)] /\ Head(rs) \in R /\ Tail(rs) \in Seq(R)
           /\ Tail(mapped) = [n \in DOMAIN Tail(rs) |-> m[Tail(rs)[n]]]
           /\ mapped = <<m[Head(rs)]>> \o [n \in DOMAIN Tail(rs) |-> m[Tail(rs)[n]]]
<1>1. PICK N \in Nat : N = Len(rs) /\ N # 0 /\ DOMAIN rs = 1 .. N BY EmptySeq
<1>2. \A n \in 1 .. N : rs[n] \in R /\ m[rs[n]] \in U BY <1>1
<1>3. mapped \in Seq(U) /\ Len(mapped) = N BY <1>1, <1>2
<1>4. mapped # <<>> BY <1>1, <1>3
<1>5. PICK q \in Seq(U) : q = mapped BY <1>3
<1>6. PICK t \in Seq(R) : t = Tail(rs) BY HeadTailProperties
<1>7. Len(t) = N - 1 /\ (\A n \in 1 .. N - 1 : t[n] = rs[n + 1]) /\ DOMAIN t = 1 .. N - 1
  BY <1>1, <1>6, HeadTailProperties
<1>8. /\ Tail(q) \in Seq(U) /\ Len(Tail(q)) = N - 1 /\ DOMAIN Tail(q) = 1 .. N - 1
      /\ \A n \in 1 .. N - 1 : Tail(q)[n] = q[n + 1]
  <2>1. q # <<>> BY <1>4, <1>5
  <2>2. Len(q) = N BY <1>3, <1>5
  <2> QED BY <2>1, <2>2, HeadTailProperties, LenProperties
<1>9. Tail(q) = [n \in DOMAIN t |-> m[t[n]]]
  <2>1. ASSUME NEW n \in 1 .. N - 1 PROVE Tail(q)[n] = m[t[n]]
    <3>1. PICK k \in 1 .. N : k = n + 1 BY <1>1
    <3>2. Tail(q)[n] = q[k] /\ t[n] = rs[k] BY <3>1, <1>7, <1>8
    <3>3. q[k] = m[rs[k]] BY <1>1, <1>5
    <3> QED BY <3>2, <3>3
  <2>2. Tail(q) \in [1 .. N - 1 -> U] BY <1>8, LenProperties
  <2>3. Tail(q) = [n \in 1 .. N - 1 |-> Tail(q)[n]] BY <2>2
  <2> QED BY <2>1, <2>3, <1>7
<1>10. Head(rs) = rs[1] /\ rs[1] \in R /\ Head(q) = q[1] /\ q[1] = m[rs[1]]
  BY <1>1, <1>5
<1>11. q = <<Head(q)>> \o Tail(q)
  <2>1. q # <<>> BY <1>4, <1>5
  <2> QED BY <2>1
<1> QED BY <1>1, <1>3, <1>4, <1>5, <1>6, <1>9, <1>10, <1>11

LEMMA WireHead ==
    ASSUME NEW rs \in Seq(ViaSet), rs # <<>>
    PROVE  /\ Head(rs) \in ViaSet /\ Tail(rs) \in Seq(ViaSet)
           /\ Wire(rs) = RouteWire(Head(rs)) \o Wire(Tail(rs))
           /\ Canonical(rs) = <<CanonicalRoute(Head(rs))>> \o Canonical(Tail(rs))
<1> DEFINE m == [v \in ViaSet |-> RouteWire(v)]
           seqs == [n \in DOMAIN rs |-> m[rs[n]]]
           c == [v \in ViaSet |-> CanonicalRoute(v)]
           C == {CanonicalRoute(v) : v \in ViaSet}
<1>1. m \in [ViaSet -> Seq(Byte)] BY RouteWireShape
<1>2. /\ seqs \in Seq(Seq(Byte)) /\ seqs # <<>>
      /\ Head(seqs) = m[Head(rs)] /\ Head(rs) \in ViaSet /\ Tail(rs) \in Seq(ViaSet)
      /\ Tail(seqs) = [n \in DOMAIN Tail(rs) |-> m[Tail(rs)[n]]]
  <2> HIDE DEF m
  <2>1. PICK q : q = seqs OBVIOUS
  <2>2. q = [n \in DOMAIN rs |-> m[rs[n]]] BY <2>1
  <2>3. PICK U : U = Seq(Byte) OBVIOUS
  <2>4. m \in [ViaSet -> U] BY <1>1, <2>3
  <2> HIDE DEF seqs
  <2>5. /\ q \in Seq(U) /\ q # <<>>
        /\ Head(q) = m[Head(rs)] /\ Head(rs) \in ViaSet /\ Tail(rs) \in Seq(ViaSet)
        /\ Tail(q) = [n \in DOMAIN Tail(rs) |-> m[Tail(rs)[n]]]
    BY <2>2, <2>4, MapTail
  <2> QED BY <2>1, <2>3, <2>5
<1>3. FlattenSeq(seqs) = Head(seqs) \o FlattenSeq(Tail(seqs))
  <2> HIDE DEF seqs
  <2> QED BY <1>2, FlattenHead
<1>4. \A n \in DOMAIN rs : rs[n] \in ViaSet BY LenProperties
<1>5. \A n \in DOMAIN Tail(rs) : Tail(rs)[n] \in ViaSet BY <1>2, LenProperties
<1>6. Wire(rs) = FlattenSeq(seqs)
  <2>1. seqs = [n \in DOMAIN rs |-> RouteWire(rs[n])] BY <1>4
  <2> QED BY <2>1 DEF Wire, RouteWire
<1>7. Wire(Tail(rs)) = FlattenSeq(Tail(seqs))
  <2>1. Tail(seqs) = [n \in DOMAIN Tail(rs) |-> RouteWire(Tail(rs)[n])]
    <3>1. [n \in DOMAIN Tail(rs) |-> m[Tail(rs)[n]]] = [n \in DOMAIN Tail(rs) |-> RouteWire(Tail(rs)[n])]
      BY <1>5
    <3> QED BY <3>1, <1>2
  <2> HIDE DEF seqs
  <2> QED BY <2>1 DEF Wire, RouteWire
<1>8. Head(seqs) = RouteWire(Head(rs)) BY <1>2
<1>9. c \in [ViaSet -> C] OBVIOUS
<1>10. [n \in DOMAIN rs |-> c[rs[n]]] = <<c[Head(rs)]>> \o [n \in DOMAIN Tail(rs) |-> c[Tail(rs)[n]]]
  <2> HIDE DEF c, C
  <2>1. PICK q : q = [n \in DOMAIN rs |-> c[rs[n]]] OBVIOUS
  <2> QED BY <1>9, <2>1, MapTail
<1>11. [n \in DOMAIN rs |-> c[rs[n]]] = Canonical(rs)
  <2>1. [n \in DOMAIN rs |-> c[rs[n]]] = [n \in DOMAIN rs |-> CanonicalRoute(rs[n])] BY <1>4
  <2> HIDE DEF c
  <2> QED BY <2>1 DEF Canonical, CanonicalRoute
<1>12. [n \in DOMAIN Tail(rs) |-> c[Tail(rs)[n]]] = Canonical(Tail(rs))
  <2>1. [n \in DOMAIN Tail(rs) |-> c[Tail(rs)[n]]] = [n \in DOMAIN Tail(rs) |-> CanonicalRoute(Tail(rs)[n])]
    BY <1>5
  <2> HIDE DEF c
  <2> QED BY <2>1 DEF Canonical, CanonicalRoute
<1>13. c[Head(rs)] = CanonicalRoute(Head(rs)) BY <1>2
<1> HIDE DEF m, seqs, c, C
<1> QED BY <1>2, <1>3, <1>6, <1>7, <1>8, <1>10, <1>11, <1>12, <1>13

LEMMA NothingOnWire ==
    /\ Wire(<<>>) = <<>> /\ Canonical(<<>>) = <<>>
<1>1. DOMAIN <<>> = {} OBVIOUS
<1>2. \A e : [n \in {} |-> e] = <<>> OBVIOUS
<1>3. [n \in DOMAIN <<>> |-> RouteWire(<<>>[n])] = <<>> OBVIOUS
<1>4. [n \in DOMAIN <<>> |-> CanonicalRoute(<<>>[n])] = <<>> OBVIOUS
<1>5. FlattenSeq(<<>>) = <<>> BY DEF FlattenSeq
<1>6. Wire(<<>>) = FlattenSeq([n \in DOMAIN <<>> |-> RouteWire(<<>>[n])]) BY DEF Wire, RouteWire
<1>7. Canonical(<<>>) = [n \in DOMAIN <<>> |-> CanonicalRoute(<<>>[n])] BY DEF Canonical, CanonicalRoute
<1> QED BY <1>3, <1>4, <1>5, <1>6, <1>7

(* Decoding gives back the routes, with what lies beyond their prefixes    *)
(* cleared.                                                                *)
LEMMA DecodeWire ==
    ASSUME NEW rs \in Seq(ViaSet)
    PROVE  Wire(rs) \in Seq(Byte) /\ Decode(Wire(rs)) = Routes(Canonical(rs))
<1> DEFINE T == {s \in Seq(ViaSet) : Wire(s) \in Seq(Byte) /\ Decode(Wire(s)) = Routes(Canonical(s))}
<1>1. <<>> \in T
  <2>1. <<>> \in Seq(ViaSet) /\ <<>> \in Seq(Byte) BY EmptySeq
  <2> QED BY <2>1, NothingOnWire, DecodeEmpty
<1>2. ASSUME NEW s \in Seq(ViaSet), s # <<>>, Tail(s) \in T PROVE s \in T
  <2>1. PICK v \in ViaSet : v = Head(s) BY <1>2, WireHead
  <2>2. PICK t \in Seq(ViaSet) : t = Tail(s) BY <1>2, WireHead
  <2>3. PICK w \in Seq(Byte) : w = Wire(t) BY <1>2, <2>2
  <2>4. Decode(w) = Routes(Canonical(t)) BY <1>2, <2>2, <2>3
  <2>5. Wire(s) = RouteWire(v) \o w /\ Canonical(s) = <<CanonicalRoute(v)>> \o Canonical(t)
    BY <1>2, <2>1, <2>2, <2>3, WireHead
  <2>6. PICK r \in Seq(Byte) : r = RouteWire(v) BY RouteWireShape
  <2>7. r \o w \in Seq(Byte) BY ConcatProperties
  <2>8. Decode(RouteWire(v) \o w) = Routes(<<CanonicalRoute(v)>> \o Canonical(t))
    BY <2>4, DecodeRoute DEF Routes
  <2> QED BY <2>5, <2>6, <2>7, <2>8
<1>3. Seq(ViaSet) \subseteq T
  <2> HIDE DEF T
  <2> QED BY <1>1, <1>2, SequenceInduction
<1> QED BY <1>3

LEMMA WireLength ==
    ASSUME NEW rs \in Seq(ViaSet), rs # <<>>
    PROVE  Len(Wire(rs)) >= 5 /\ Wire(rs) \in Seq(Byte)
<1>1. PICK v \in ViaSet : v = Head(rs) BY WireHead
<1>2. PICK t \in Seq(ViaSet) : t = Tail(rs) BY WireHead
<1>3. PICK w \in Seq(Byte) : w = Wire(t) BY DecodeWire
<1>4. PICK r \in Seq(Byte) : r = RouteWire(v) BY RouteWireShape
<1>5. Len(r) >= 5
  <2>1. PICK z \in 0 .. 4 : z = Significant(v.dest.width) BY RouteWireShape
  <2>2. Len(r) = z + 5 BY <1>4, <2>1, RouteWireShape
  <2> QED BY <2>2
<1>6. Len(r \o w) = Len(r) + Len(w) /\ Len(w) \in Nat BY ConcatProperties
<1>7. Wire(rs) = r \o w BY <1>1, <1>2, <1>3, <1>4, WireHead
<1> QED BY <1>5, <1>6, <1>7, DecodeWire

(* A list that lost its last three bytes does not decode: a gateway has    *)
(* four.                                                                   *)
LEMMA DecodeCut ==
    ASSUME NEW rs \in Seq(ViaSet), rs # <<>>
    PROVE  Decode(SubSeq(Wire(rs), 1, Len(Wire(rs)) - 3)) = Failed
<1> DEFINE Cut(w) == SubSeq(w, 1, Len(w) - 3)
           T == {s \in Seq(ViaSet) : s # <<>> => Decode(Cut(Wire(s))) = Failed}
<1>1. <<>> \in T BY EmptySeq
<1>2. ASSUME NEW s \in Seq(ViaSet), s # <<>>, Tail(s) \in T PROVE s \in T
  <2>1. PICK v \in ViaSet : v = Head(s) BY <1>2, WireHead
  <2>2. PICK t \in Seq(ViaSet) : t = Tail(s) BY <1>2, WireHead
  <2>3. PICK w \in Seq(Byte) : w = Wire(t) BY DecodeWire
  <2>4. PICK r \in Seq(Byte) : r = RouteWire(v) BY RouteWireShape
  <2>5. Wire(s) = r \o w BY <1>2, <2>1, <2>2, <2>3, <2>4, WireHead
  <2>6. Decode(Cut(r \o w)) = Failed
    <3>1. CASE t = <<>>
      <4>1. w = <<>> BY <2>3, <3>1, NothingOnWire
      <4>2. r \o w = r BY <4>1, ConcatEmptySeq
      <4>3. PICK z \in 0 .. 4 : z = Significant(v.dest.width) BY RouteWireShape
      <4>4. Len(r) = z + 5 /\ r[1] = v.dest.width BY <2>4, <4>3, RouteWireShape
      <4>5. PICK c : c = Cut(r) OBVIOUS
      <4>6. c \in Seq(Byte) /\ Len(c) = z + 2 /\ c[1] = r[1]
        <5>1. Len(r) - 3 = z + 2 BY <4>4
        <5>2. PICK n \in 0 .. Len(r) : n = z + 2 BY <4>4
        <5>3. /\ SubSeq(r, 1, n) \in Seq(Byte) /\ Len(SubSeq(r, 1, n)) = n
              /\ \A i \in 1 .. n : SubSeq(r, 1, n)[i] = r[i]
          BY Prefix
        <5>4. c = SubSeq(r, 1, n) BY <4>5, <5>1, <5>2
        <5>5. 1 \in 1 .. n BY <5>2
        <5> QED BY <5>2, <5>3, <5>4, <5>5
      <4>7. Stops(c, 1)
        <5>1. 1 + z + 4 > z + 2 OBVIOUS
        <5> QED BY <4>3, <4>4, <4>6, <5>1 DEF Stops, Truncated
      <4>8. PICK f : Decoding(c, f) /\ Decode(c) = f[1] BY <4>6, DecodeIsRecursive
      <4>9. f[1] = DecodeBody(c, 1, f) /\ ~(1 > Len(c))
        <5>1. 1 \in 1 .. Len(c) + 1 /\ ~(1 > Len(c)) BY <4>6
        <5> QED BY <5>1, <4>8 DEF Decoding
      <4>10. Decode(c) = Failed BY <4>7, <4>8, <4>9 DEF DecodeBody
      <4> QED BY <4>2, <4>5, <4>10
    <3>2. CASE t # <<>>
      <4>1. Len(w) >= 5 BY <2>3, <3>2, WireLength
      <4>2. Decode(Cut(w)) = Failed BY <1>2, <2>2, <2>3, <3>2
      <4>3. PICK n \in 0 .. Len(w) : n = Len(w) - 3
        <5>1. PICK l \in Nat : l = Len(w) OBVIOUS
        <5>2. l - 3 \in 0 .. l BY <5>1, <4>1
        <5> QED BY <5>1, <5>2
      <4>4. PICK c \in Seq(Byte) : c = SubSeq(w, 1, n) BY Prefix
      <4>5. Cut(r \o w) = r \o c
        <5>1. Len(r \o w) - 3 = Len(r) + n BY <4>3, ConcatProperties
        <5> QED BY <5>1, <4>4, PrefixJoined
      <4>6. ~Decode(c).ok BY <4>2, <4>3, <4>4 DEF Failed
      <4>7. Decode(RouteWire(v) \o c) = Failed BY <4>6, DecodeRoute
      <4> QED BY <2>4, <4>5, <4>7
    <3> QED BY <3>1, <3>2
  <2> QED BY <2>5, <2>6
<1>3. Seq(ViaSet) \subseteq T
  <2> HIDE DEF T
  <2> QED BY <1>1, <1>2, SequenceInduction
<1> QED BY <1>3

----------------------------------------------------------------------------
(* Encoding.                                                               *)

LEMMA CanonicalRouteType ==
    ASSUME NEW v \in ViaSet
    PROVE  CanonicalRoute(v) \in ViaSet /\ CanonicalRoute(CanonicalRoute(v)) = CanonicalRoute(v)
<1>1. PICK o \in Octets4 : o = v.dest.octets BY DEF ViaSet, NetSet
<1>2. PICK w \in 0 .. 32 : w = v.dest.width BY DEF ViaSet, NetSet
<1>3. v.gw \in AddrSet BY DEF ViaSet
<1>4. PICK d \in NetSet : d = Network(o, w) BY NetworkType
<1>5. d.width = w /\ Network(d.octets, w) = d BY <1>4, NetworkType, NetworkTwice
<1>6. CanonicalRoute(v) = RouteVia(d, v.gw) BY <1>1, <1>2, <1>4 DEF CanonicalRoute
<1>7. CanonicalRoute(RouteVia(d, v.gw)) = RouteVia(d, v.gw) BY <1>5 DEF CanonicalRoute, RouteVia
<1> QED BY <1>3, <1>4, <1>6, <1>7 DEF RouteVia, ViaSet

LEMMA CanonicalType ==
    ASSUME NEW rs \in Seq(ViaSet)
    PROVE  /\ Canonical(rs) \in Seq(ViaSet) /\ Len(Canonical(rs)) = Len(rs)
           /\ Canonical(Canonical(rs)) = Canonical(rs)
           /\ \A n \in 1 .. Len(rs) : Canonical(rs)[n] = CanonicalRoute(rs[n])
<1>1. PICK N \in Nat : N = Len(rs) /\ DOMAIN rs = 1 .. N /\ \A n \in 1 .. N : rs[n] \in ViaSet
  BY LenProperties, ElementOfSeq
<1>2. PICK c : c = [n \in 1 .. N |-> CanonicalRoute(rs[n])] OBVIOUS
<1>3. Canonical(rs) = c BY <1>1, <1>2 DEF Canonical, CanonicalRoute
<1>4. \A n \in 1 .. N : c[n] \in ViaSet /\ CanonicalRoute(c[n]) = c[n]
  BY <1>1, <1>2, CanonicalRouteType
<1>5. c \in Seq(ViaSet) /\ Len(c) = N /\ DOMAIN c = 1 .. N
  <2>1. c = [n \in 1 .. N |-> c[n]] BY <1>2
  <2>2. c \in [1 .. N -> ViaSet] BY <2>1, <1>4
  <2>3. c \in Seq(ViaSet) BY <2>2, SeqDef
  <2> QED BY <2>2, <2>3, LenProperties
<1>6. Canonical(c) = [n \in 1 .. N |-> CanonicalRoute(c[n])] BY <1>5 DEF Canonical, CanonicalRoute
<1>7. [n \in 1 .. N |-> CanonicalRoute(c[n])] = c
  <2>1. c = [n \in 1 .. N |-> c[n]] BY <1>2
  <2>2. [n \in 1 .. N |-> CanonicalRoute(c[n])] = [n \in 1 .. N |-> c[n]] BY <1>4
  <2> QED BY <2>1, <2>2
<1> QED BY <1>1, <1>2, <1>3, <1>5, <1>6, <1>7

EncodeBody(rs, n, f) ==
    IF n = 0 THEN <<>>
    ELSE f[n - 1] \o <<CanonicalRoute(rs[n]).dest.width>>
                 \o SubSeq(CanonicalRoute(rs[n]).dest.octets, 1, Significant(CanonicalRoute(rs[n]).dest.width))
                 \o rs[n].gw.octets

Encoding(rs, f) == f = [n \in 0 .. Len(rs) |-> EncodeBody(rs, n, f)]

LEMMA EncodeStep ==
    ASSUME NEW v \in ViaSet, NEW p \in Seq(Byte)
    PROVE  /\ p \o <<CanonicalRoute(v).dest.width>>
                 \o SubSeq(CanonicalRoute(v).dest.octets, 1, Significant(CanonicalRoute(v).dest.width))
                 \o v.gw.octets
             = p \o RouteWire(CanonicalRoute(v))
           /\ RouteWire(CanonicalRoute(v)) \in Seq(Byte)
<1>1. PICK c \in ViaSet : c = CanonicalRoute(v) BY CanonicalRouteType
<1>2. PICK w \in 0 .. 32 : w = c.dest.width BY DEF ViaSet, NetSet
<1>3. PICK z \in 0 .. 4 : z = Significant(w) /\ z = Octets(w) BY SignificantIsOctets
<1>4. PICK o \in Octets4 : o = c.dest.octets BY DEF ViaSet, NetSet
<1>5. o \in Seq(Byte) /\ Len(o) = 4 BY Quad
<1>6. PICK x \in Seq(Byte) : x = SubSeq(o, 1, z)
  <2>1. z \in 0 .. Len(o) BY <1>5
  <2> QED BY <2>1, <1>5, Prefix
<1>7. PICK g \in Seq(Byte) : g = v.gw.octets
  <2>1. v.gw.octets \in Octets4 BY DEF ViaSet, AddrSet
  <2> QED BY <2>1, Quad
<1>8. c.gw.octets = g BY <1>1, <1>7 DEF CanonicalRoute, RouteVia
<1>9. PICK h \in Seq(Byte) : h = <<w>>
  <2>1. <<w>> \in Seq(Byte) BY DEF Byte
  <2> QED BY <2>1
<1>10. ((p \o h) \o x) \o g = p \o ((h \o x) \o g)
  <2>1. \A a, b \in Seq(Byte) : a \o b \in Seq(Byte) BY ConcatProperties
  <2>2. PICK hx \in Seq(Byte) : hx = h \o x BY <2>1
  <2>3. (p \o h) \o x = p \o hx BY ONLY p \in Seq(Byte), h \in Seq(Byte), x \in Seq(Byte), <2>2, ConcatAssociative
  <2>4. (p \o hx) \o g = p \o (hx \o g) BY ONLY p \in Seq(Byte), hx \in Seq(Byte), g \in Seq(Byte), ConcatAssociative
  <2> QED BY <2>2, <2>3, <2>4
<1>11. RouteWire(c) = (h \o x) \o g BY <1>2, <1>3, <1>4, <1>6, <1>8, <1>9 DEF RouteWire
<1> QED BY <1>1, <1>2, <1>3, <1>4, <1>6, <1>7, <1>9, <1>10, <1>11, RouteWireShape

LEMMA EncodeIsWire ==
    ASSUME NEW rs \in Seq(ViaSet)
    PROVE  Encode(rs) = Wire(Canonical(rs))
<1>1. PICK N \in Nat : N = Len(rs) /\ \A n \in 1 .. N : rs[n] \in ViaSet BY ElementOfSeq
<1>2. PICK c \in Seq(ViaSet) : c = Canonical(rs) BY CanonicalType
<1>3. Len(c) = N /\ \A n \in 1 .. N : c[n] = CanonicalRoute(rs[n]) BY <1>1, <1>2, CanonicalType
<1>4. PICK seqs : seqs = [n \in 1 .. N |-> RouteWire(c[n])] OBVIOUS
<1>5. seqs \in Seq(Seq(Byte)) /\ Len(seqs) = N
  <2>1. \A n \in 1 .. N : RouteWire(c[n]) \in Seq(Byte) BY <1>3, RouteWireShape, ElementOfSeq
  <2>2. seqs \in [1 .. N -> Seq(Byte)] BY <2>1, <1>4
  <2>3. seqs \in Seq(Seq(Byte)) BY <2>2, SeqDef
  <2> QED BY <2>2, <2>3, LenProperties
<1>6. Wire(c) = FlattenSeq(seqs)
  <2>1. DOMAIN c = 1 .. N BY <1>3, LenProperties
  <2> QED BY <2>1, <1>4 DEF Wire, RouteWire
<1>7. \E u : Encoding(rs, u) /\ u[N] = Wire(c)
  <2>1. CASE N = 0
    <3>1. seqs = <<>> BY <1>5, <2>1
    <3>2. Wire(c) = <<>> BY <3>1, <1>6 DEF FlattenSeq
    <3>3. PICK u : u = [n \in 0 .. 0 |-> <<>>] OBVIOUS
    <3>4. u = [n \in 0 .. Len(rs) |-> EncodeBody(rs, n, u)] BY <3>3, <2>1, <1>1 DEF EncodeBody
    <3> QED BY <3>2, <3>3, <3>4, <2>1 DEF Encoding
  <2>2. CASE N # 0
    <3>1. PICK f \in [1 .. N -> Seq(Byte)] :
              /\ f[1] = seqs[1]
              /\ \A i, j \in 1 .. N : j = i + 1 => f[j] = f[i] \o seqs[j]
              /\ FlattenSeq(seqs) = f[N]
      <4>1. seqs # <<>> BY <1>5, <2>2
      <4> QED BY <4>1, <1>5, FlattenRecursion
    <3>2. PICK u : u = [n \in 0 .. N |-> IF n = 0 THEN <<>> ELSE f[n]] OBVIOUS
    <3>3. ASSUME NEW n \in 0 .. N PROVE u[n] = EncodeBody(rs, n, u)
      <4>1. CASE n = 0 BY <4>1, <3>2 DEF EncodeBody
      <4>2. CASE n # 0
        <5>1. PICK v \in ViaSet : v = rs[n] BY <4>2, <1>1
        <5>2. PICK m \in 0 .. N : m = n - 1 BY <4>2
        <5>3. PICK p \in Seq(Byte) : p = u[m]
          <6>1. m # 0 => m \in 1 .. N OBVIOUS
          <6>2. u[m] \in Seq(Byte) BY <6>1, <3>2, EmptySeq
          <6> QED BY <6>2
        <5>4. PICK x \in Seq(Byte) : x = RouteWire(CanonicalRoute(v)) BY EncodeStep
        <5>5. EncodeBody(rs, n, u) = p \o x BY <4>2, <5>1, <5>2, <5>3, <5>4, EncodeStep DEF EncodeBody
        <5>6. n \in 1 .. N /\ seqs[n] = x BY <4>2, <5>1, <5>4, <1>3, <1>4
        <5>7. u[n] = f[n] BY <3>2, <4>2
        <5>8. CASE m = 0
          <6>1. n = 1 /\ p = <<>> BY <5>8, <5>2, <5>3, <3>2
          <6>2. p \o x = x BY <6>1, ConcatEmptySeq
          <6> QED BY <6>1, <6>2, <5>5, <5>6, <5>7, <3>1
        <5>9. CASE m # 0
          <6>1. m \in 1 .. N /\ n = m + 1 /\ p = f[m] BY <5>9, <5>2, <5>3, <3>2
          <6>2. f[n] = p \o x BY <6>1, <5>6, <3>1
          <6> QED BY <6>2, <5>5, <5>7
        <5> QED BY <5>8, <5>9
      <4> QED BY <4>1, <4>2
    <3>4. Encoding(rs, u)
      <4>1. u = [n \in 0 .. N |-> u[n]] BY <3>2
      <4> QED BY <4>1, <3>3, <1>1 DEF Encoding
    <3>5. u[N] = f[N] BY <3>2, <2>2
    <3> QED BY <3>1, <3>4, <3>5, <1>6
  <2> QED BY <2>1, <2>2
<1>8. PICK u : Encoding(rs, u) /\ u[N] = Wire(c) BY <1>7
<1>9. PICK h : h = CHOOSE f : Encoding(rs, f) OBVIOUS
<1>10. Encoding(rs, h) BY <1>8, <1>9
<1>11. Encode(rs) = h[N]
  <2>1. Encode(rs) = (CHOOSE f : Encoding(rs, f))[Len(rs)]
    BY DEF Encode, Encoding, EncodeBody, CanonicalRoute, RouteVia
  <2> QED BY <2>1, <1>1, <1>9
<1>12. h[0] = u[0]
  <2>1. ASSUME NEW f, Encoding(rs, f) PROVE f[0] = <<>>
    <3>1. f[0] = EncodeBody(rs, 0, f) BY <1>1, <2>1 DEF Encoding
    <3> QED BY ONLY <3>1 DEF EncodeBody
  <2> QED BY <1>8, <1>10, <2>1
<1>13. ASSUME NEW i \in 0 .. N - 1, h[i] = u[i] PROVE h[i + 1] = u[i + 1]
  <2>1. PICK n \in 0 .. N : n = i + 1 /\ n - 1 = i /\ n # 0 OBVIOUS
  <2>2. h[n] = EncodeBody(rs, n, h) /\ u[n] = EncodeBody(rs, n, u) BY <1>1, <1>8, <1>10 DEF Encoding
  <2>3. EncodeBody(rs, n, h) = EncodeBody(rs, n, u) BY <2>1, <1>13 DEF EncodeBody
  <2> QED BY <2>1, <2>2, <2>3
<1>14. h[N] = u[N] BY <1>12, <1>13, SameChain
<1> QED BY <1>2, <1>8, <1>11, <1>14

(* Encoding is undone by decoding, but for bits beyond a prefix.           *)
LEMMA DecodeEncode ==
    ASSUME NEW rs \in Seq(ViaSet)
    PROVE  Decode(Encode(rs)) = Routes(Canonical(rs)) /\ Encode(rs) = Wire(Canonical(rs))
BY EncodeIsWire, CanonicalType, DecodeWire

----------------------------------------------------------------------------
(* Options, one at a time.                                                 *)

Behind(s, i) == i + 1 + s[i + 1] + 1

ValueAt(s, i) == SubSeq(s, i + 2, IF i + 1 + s[i + 1] > Len(s) THEN Len(s) ELSE i + 1 + s[i + 1])

OptionBody(code, s, i, f) ==
    IF i > Len(s) \/ s[i] = End THEN <<>>
    ELSE IF s[i] = Pad THEN f[i + 1]
    ELSE IF i + 1 > Len(s) THEN <<>>
    ELSE IF s[i] = code THEN ValueAt(s, i) \o f[Behind(s, i)]
    ELSE f[Behind(s, i)]

Opting(code, s, f) == f = [i \in 1 .. Len(s) + 260 |-> OptionBody(code, s, i, f)]

LEMMA ValueType ==
    ASSUME NEW s \in Seq(Byte), NEW i \in 1 .. Len(s), i + 1 <= Len(s)
    PROVE  ValueAt(s, i) \in Seq(Byte) /\ Behind(s, i) \in i + 2 .. Len(s) + 260
<1>1. PICK L \in Nat : L = Len(s) OBVIOUS
<1>2. PICK m \in 1 .. L : m = i + 1 BY <1>1
<1>3. PICK b \in Byte : b = s[m] BY <1>1, <1>2, ElementOfSeq
<1>4. PICK a \in Int : a = i + 2 BY <1>1
<1>5. i \in 1 .. L /\ i + 1 <= L /\ b \in 0 .. 255 BY <1>1, <1>3 DEF Byte
<1>6. PICK k \in Nat : k = i + 1 + b BY <1>5
<1>7. PICK n \in 1 .. L : n = IF i + 1 + b > L THEN L ELSE i + 1 + b
  <2>1. CASE k > L BY <1>5, <1>6, <2>1
  <2>2. CASE ~(k > L)
    <3>1. k \in 1 .. L BY <1>5, <1>6, <2>2
    <3> QED BY <1>6, <2>2, <3>1
  <2> QED BY <2>1, <2>2
<1>8. ValueAt(s, i) = SubSeq(s, a, n) BY <1>1, <1>2, <1>3, <1>4, <1>7 DEF ValueAt
<1>9. \A j \in a .. n : s[j] \in Byte
  <2>1. \A j \in a .. n : j \in 1 .. L BY <1>2, <1>4, <1>7
  <2> QED BY <2>1, <1>1, ElementOfSeq
<1>10. SubSeq(s, a, n) \in Seq(Byte) BY <1>9, SubSeqProperties
<1>11. Behind(s, i) = i + 1 + b + 1 BY <1>2, <1>3 DEF Behind
<1>12. i + 1 + b + 1 \in i + 2 .. L + 260 BY <1>5
<1> QED BY <1>1, <1>8, <1>10, <1>11, <1>12

LEMMA OptionIsRecursive ==
    ASSUME NEW code, NEW s \in Seq(Byte)
    PROVE  \E f \in [1 .. Len(s) + 260 -> Seq(Byte)] : Opting(code, s, f) /\ Option(code, s) = f[1]
<1> DEFINE D == 1 .. Len(s) + 260
           V == Seq(Byte)
           F == [i \in D |-> [g \in [D -> V] |-> OptionBody(code, s, i, g)]]
           rank == [i \in D |-> Len(s) + 260 - i]
           N == Len(s) + 260
<1>1. N \in Nat /\ rank \in [D -> 0 .. N] OBVIOUS
<1>2. <<>> \in V BY EmptySeq
<1>3. ASSUME NEW i \in D, NEW g \in [D -> V] PROVE OptionBody(code, s, i, g) \in V
  <2>1. CASE i > Len(s) \/ s[i] = End BY <2>1, <1>2 DEF OptionBody
  <2>2. CASE ~(i > Len(s) \/ s[i] = End) /\ s[i] = Pad
    <3>1. i + 1 \in D BY <2>2
    <3> QED BY <2>2, <3>1 DEF OptionBody
  <2>3. CASE ~(i > Len(s) \/ s[i] = End) /\ s[i] # Pad /\ i + 1 > Len(s) BY <2>3, <1>2 DEF OptionBody
  <2>4. CASE ~(i > Len(s) \/ s[i] = End) /\ s[i] # Pad /\ ~(i + 1 > Len(s))
    <3>1. i \in 1 .. Len(s) /\ i + 1 <= Len(s) BY <2>4
    <3>2. PICK a \in i + 2 .. Len(s) + 260 : a = Behind(s, i) BY <3>1, ValueType
    <3>3. PICK x \in V : x = ValueAt(s, i) BY <3>1, ValueType
    <3>4. PICK y \in V : y = g[a]
      <4>1. a \in D BY <3>1, <3>2
      <4> QED BY <4>1
    <3>5. x \o y \in V OBVIOUS
    <3> QED BY <2>4, <3>2, <3>3, <3>4, <3>5 DEF OptionBody
  <2> QED BY <2>1, <2>2, <2>3, <2>4
<1>4. \A i \in D, g \in [D -> V] : F[i][g] = OptionBody(code, s, i, g)
  <2> HIDE DEF V, D
  <2> QED OBVIOUS
<1>5. F \in [D -> [[D -> V] -> V]]
  <2> HIDE DEF V, D
  <2> QED BY <1>3
<1>6. ASSUME NEW d \in D, NEW g \in [D -> V], NEW h \in [D -> V],
             \A e \in D : rank[e] < rank[d] => g[e] = h[e]
      PROVE  F[d][g] = F[d][h]
  <2>1. d <= Len(s) => g[d + 1] = h[d + 1]
    <3> SUFFICES ASSUME d <= Len(s) PROVE g[d + 1] = h[d + 1] OBVIOUS
    <3>1. d + 1 \in D /\ rank[d + 1] < rank[d] OBVIOUS
    <3> QED BY <3>1, <1>6
  <2>2. d + 1 <= Len(s) => g[Behind(s, d)] = h[Behind(s, d)]
    <3> SUFFICES ASSUME d + 1 <= Len(s) PROVE g[Behind(s, d)] = h[Behind(s, d)] OBVIOUS
    <3>1. PICK a \in d + 2 .. Len(s) + 260 : a = Behind(s, d)
      <4>1. d \in 1 .. Len(s) OBVIOUS
      <4> QED BY <4>1, ValueType
    <3>2. a \in D /\ rank[a] < rank[d] OBVIOUS
    <3> QED BY <3>1, <3>2, <1>6
  <2>3. OptionBody(code, s, d, g) = OptionBody(code, s, d, h)
    <3>1. Len(s) \in Nat /\ d \in Nat OBVIOUS
    <3>2. ~(d > Len(s)) => d <= Len(s) BY <3>1
    <3>3. ~(d + 1 > Len(s)) => d + 1 <= Len(s) BY <3>1
    <3> HIDE DEF D, V, F, rank
    <3> QED BY <2>1, <2>2, <3>2, <3>3 DEF OptionBody
  <2> QED BY <2>3, <1>4
<1>7. Recursive(D, V, N, rank, F)
  <2>1. V # {} BY <1>2
  <2>2. \A d \in D : \A g, h \in [D -> V] :
            (\A e \in D : rank[e] < rank[d] => g[e] = h[e]) => F[d][g] = F[d][h]
    BY <1>6
  <2> HIDE DEF D, V, F, rank, N
  <2> QED BY <1>1, <1>5, <2>1, <2>2 DEF Recursive
<1>8. \E f \in [D -> V] : \A d \in D : f[d] = F[d][f]
  <2> HIDE DEF D, V, F, rank, N
  <2> QED BY <1>7, RecursiveFunction
<1>9. \E f : Opting(code, s, f)
  <2>1. PICK f \in [D -> V] : \A d \in D : f[d] = F[d][f] BY <1>8
  <2>2. f = [d \in D |-> f[d]] OBVIOUS
  <2>3. \A d \in D : f[d] = OptionBody(code, s, d, f) BY <2>1, <1>4
  <2> QED BY <2>2, <2>3 DEF Opting
<1>10. Option(code, s) = (CHOOSE f : Opting(code, s, f))[1]
  BY DEF Option, Opting, OptionBody, ValueAt, Behind
<1>11. PICK c : c = CHOOSE f : Opting(code, s, f) OBVIOUS
<1>12. Opting(code, s, c) BY <1>9, <1>11
<1>13. c \in [D -> V]
  <2>1. c = [i \in D |-> OptionBody(code, s, i, c)] BY <1>12 DEF Opting
  <2> DEFINE T == {n \in 0 .. Len(s) + 259 : c[n + 1] \in V}
  <2>2. ASSUME NEW n \in 0 .. Len(s) + 259, \A m \in n + 1 .. Len(s) + 259 : m \in T PROVE n \in T
    <3>1. PICK i \in D : i = n + 1 OBVIOUS
    <3>2. \A j \in D : j > i => c[j] \in V
      <4> SUFFICES ASSUME NEW j \in D, j > i PROVE c[j] \in V OBVIOUS
      <4>1. PICK m \in n + 1 .. Len(s) + 259 : m + 1 = j
        <5>1. j - 1 \in n + 1 .. Len(s) + 259 /\ j - 1 + 1 = j BY <3>1
        <5> QED BY <5>1
      <4>2. m \in T BY <4>1, <2>2
      <4> QED BY <4>1, <4>2
    <3>3. PICK g : g = [j \in D |-> IF j > i THEN c[j] ELSE <<>>] OBVIOUS
    <3>4. g \in [D -> V] BY <3>2, <3>3, <1>2
    <3>5. OptionBody(code, s, i, g) \in V BY <3>4, <1>3
    <3>6. OptionBody(code, s, i, g) = OptionBody(code, s, i, c)
      <4>1. i <= Len(s) => g[i + 1] = c[i + 1]
        <5>1. i <= Len(s) => i + 1 \in D /\ i + 1 > i OBVIOUS
        <5> QED BY <5>1, <3>3
      <4>2. i + 1 <= Len(s) => g[Behind(s, i)] = c[Behind(s, i)]
        <5> SUFFICES ASSUME i + 1 <= Len(s) PROVE g[Behind(s, i)] = c[Behind(s, i)] OBVIOUS
        <5>1. i \in 1 .. Len(s) OBVIOUS
        <5>2. PICK a \in i + 2 .. Len(s) + 260 : a = Behind(s, i) BY <5>1, ValueType
        <5>3. a \in D /\ a > i BY <5>2
        <5> QED BY <5>2, <5>3, <3>3
      <4>3. Len(s) \in Nat /\ i \in Nat OBVIOUS
      <4>4. ~(i > Len(s)) => i <= Len(s) BY <4>3
      <4>5. ~(i + 1 > Len(s)) => i + 1 <= Len(s) BY <4>3
      <4> HIDE DEF D, V, F, rank
      <4> QED BY <4>1, <4>2, <4>4, <4>5 DEF OptionBody
    <3>7. c[i] = OptionBody(code, s, i, c) BY <2>1
    <3> QED BY <3>1, <3>5, <3>6, <3>7
  <2>3. \A i \in D : c[i] \in V
    <3>1. Len(s) + 259 \in Nat OBVIOUS
    <3>2. 0 .. Len(s) + 259 \subseteq T
      <4> HIDE DEF T
      <4> QED BY <3>1, <2>2, DownwardInduction
    <3> SUFFICES ASSUME NEW i \in D PROVE c[i] \in V OBVIOUS
    <3>3. i - 1 \in 0 .. Len(s) + 259 /\ i - 1 + 1 = i OBVIOUS
    <3>4. i - 1 \in T BY <3>2, <3>3
    <3> QED BY <3>3, <3>4
  <2>4. c = [i \in D |-> c[i]] BY <2>1
  <2> HIDE DEF D, V
  <2> QED BY <2>3, <2>4
<1> QED BY <1>10, <1>11, <1>12, <1>13

(* The options of a suffix are those from there on.                        *)
LEMMA OptionShifted ==
    ASSUME NEW s \in Seq(Byte), NEW k \in 0 .. Len(s), NEW t \in Seq(Byte),
           t = SubSeq(s, k + 1, Len(s)), NEW i \in 1 .. Len(t)
    PROVE  /\ i + k \in 1 .. Len(s) /\ s[i + k] = t[i]
           /\ i + 1 > Len(t) <=> i + k + 1 > Len(s)
           /\ i + 1 <= Len(t) => ValueAt(t, i) = ValueAt(s, i + k) /\ Behind(s, i + k) = Behind(t, i) + k
<1>1. PICK L \in Nat : L = Len(s) OBVIOUS
<1>2. Len(t) = L - k /\ \A n \in 1 .. L - k : t[n] = s[n + k]
  BY <1>1, Suffix
<1>3. PICK m \in 1 .. L : m = i + k /\ i \in 1 .. L - k BY <1>1, <1>2
<1>4. s[m] = t[i] BY <1>2, <1>3
<1>5. i + 1 > L - k <=> m + 1 > L BY <1>3
<1>6. ASSUME i + 1 <= L - k PROVE ValueAt(t, i) = ValueAt(s, m) /\ Behind(s, m) = Behind(t, i) + k
  <2>1. PICK j \in 1 .. L - k : j = i + 1 BY <1>6
  <2>2. PICK o \in 1 .. L : o = m + 1 /\ o = j + k BY <2>1, <1>3
  <2>3. PICK b \in Byte : b = t[j] /\ b = s[o] BY <2>1, <2>2, <1>2, ElementOfSeq
  <2>4. Behind(t, i) = i + 1 + b + 1 /\ Behind(s, m) = m + 1 + b + 1 BY <2>1, <2>2, <2>3 DEF Behind
  <2>5. b \in 0 .. 255 BY DEF Byte
  <2>6. PICK c \in 1 .. L - k : c = IF i + 1 + b > L - k THEN L - k ELSE i + 1 + b
    <3>1. PICK z \in Nat : z = i + 1 + b BY <2>5
    <3>2. CASE z > L - k BY <3>1, <3>2, <1>6
    <3>3. CASE ~(z > L - k)
      <4>1. z \in 1 .. L - k BY <3>1, <3>3, <1>6, <2>5
      <4> QED BY <3>1, <3>3, <4>1
    <3> QED BY <3>2, <3>3
  <2>7. PICK d \in 1 .. L : d = (IF m + 1 + b > L THEN L ELSE m + 1 + b) /\ d = c + k
    <3>1. CASE i + 1 + b > L - k
      <4>1. m + 1 + b > L /\ c = L - k BY <3>1, <2>6, <1>3, <2>5
      <4> QED BY <4>1, <1>3
    <3>2. CASE ~(i + 1 + b > L - k)
      <4>1. ~(m + 1 + b > L) /\ c = i + 1 + b BY <3>2, <2>6, <1>3, <2>5
      <4>2. m + 1 + b \in 1 .. L /\ m + 1 + b = c + k BY <4>1, <1>3, <2>5
      <4> QED BY <4>1, <4>2
    <3> QED BY <3>1, <3>2
  <2>8. ValueAt(t, i) = SubSeq(t, i + 2, c) BY <2>1, <2>3, <2>6, <1>2 DEF ValueAt
  <2>9. ValueAt(s, m) = SubSeq(s, m + 2, d) BY <2>2, <2>3, <2>7, <1>1 DEF ValueAt
  <2>10. SubSeq(t, i + 2, c) = SubSeq(s, m + 2, d)
    <3>1. PICK x \in Int : x = i + 2 OBVIOUS
    <3>2. PICK y \in Int : y = m + 2 /\ y = x + k BY <3>1, <1>3
    <3>3. \A n \in x .. c : n + k \in y .. d /\ t[n] = s[n + k]
      <4>1. \A n \in x .. c : n \in 1 .. L - k /\ n + k \in y .. d BY <3>1, <3>2, <2>7, <1>3
      <4> QED BY <4>1, <1>2
    <3>4. x \in Nat \ {0} /\ y \in Nat \ {0} /\ c \in 0 .. Len(t) /\ d \in 0 .. Len(s)
      BY <3>1, <3>2, <1>1, <1>2, <1>3
    <3>5. PICK p : p = SubSeq(t, x, c) OBVIOUS
    <3>6. PICK q : q = SubSeq(s, y, d) OBVIOUS
    <3>7. /\ p \in Seq(Byte) /\ Len(p) = (IF x <= c THEN c - x + 1 ELSE 0)
          /\ \A n \in 1 .. c - x + 1 : p[n] = t[x + n - 1]
      BY <3>4, <3>5, Between
    <3>8. /\ q \in Seq(Byte) /\ Len(q) = (IF y <= d THEN d - y + 1 ELSE 0)
          /\ \A n \in 1 .. d - y + 1 : q[n] = s[y + n - 1]
      BY <3>4, <3>6, Between
    <3>9. Len(p) = Len(q) BY <3>2, <3>7, <3>8, <2>7, SMTT(30)
    <3>10. ASSUME NEW n \in 1 .. Len(p) PROVE p[n] = q[n]
      <4>1. n \in 1 .. c - x + 1 /\ n \in 1 .. d - y + 1 BY <3>7, <3>10, <3>2, <2>7
      <4>2. PICK e \in x .. c : e = x + n - 1 BY <4>1
      <4>3. p[n] = t[e] BY <4>1, <4>2, <3>7
      <4>4. PICK g : g = e + k OBVIOUS
      <4>5. g = y + n - 1 BY <4>2, <4>4, <3>2, <4>1
      <4>6. q[n] = s[g] BY <4>1, <4>5, <3>8
      <4> QED BY <4>2, <4>3, <4>4, <4>6, <3>3
    <3>11. p = q BY <3>7, <3>8, <3>9, <3>10, SeqEqual
    <3> QED BY <3>1, <3>2, <3>5, <3>6, <3>11
  <2>11. Behind(s, m) = Behind(t, i) + k BY <2>4, <2>5, <1>3
  <2> QED BY <2>8, <2>9, <2>10, <2>11
<1> QED BY <1>1, <1>2, <1>3, <1>4, <1>5, <1>6

LEMMA OptionSuffix ==
    ASSUME NEW code, NEW s \in Seq(Byte), NEW f, Opting(code, s, f), NEW k \in 0 .. Len(s)
    PROVE  f[k + 1] = Option(code, SubSeq(s, k + 1, Len(s)))
<1>1. PICK L \in Nat : L = Len(s) OBVIOUS
<1>2. PICK t \in Seq(Byte) : t = SubSeq(s, k + 1, Len(s)) /\ Len(t) = L - k BY <1>1, Suffix
<1>3. PICK M \in Nat : M = Len(t) /\ M = L - k
  <2>1. PICK M \in Nat : M = Len(t) OBVIOUS
  <2> QED BY <2>1, <1>2
<1>4. PICK g : Opting(code, t, g) /\ Option(code, t) = g[1] BY OptionIsRecursive
<1>5. \A i \in 1 .. L + 260 : f[i] = OptionBody(code, s, i, f) BY <1>1 DEF Opting
<1>6. \A i \in 1 .. M + 260 : g[i] = OptionBody(code, t, i, g) BY <1>3, <1>4 DEF Opting
<1> DEFINE T == {n \in 0 .. M + 259 : g[n + 1] = f[n + 1 + k]}
<1>7. ASSUME NEW n \in 0 .. M + 259, \A m \in n + 1 .. M + 259 : m \in T PROVE n \in T
  <2>1. PICK i \in 1 .. M + 260 : i = n + 1 OBVIOUS
  <2>2. PICK j \in 1 .. L + 260 : j = i + k BY <1>3
  <2>3. \A a, b : a \in i + 1 .. M + 260 /\ b = a + k => g[a] = f[b]
    <3> SUFFICES ASSUME NEW a, NEW b, a \in i + 1 .. M + 260, b = a + k PROVE g[a] = f[b] OBVIOUS
    <3>1. PICK m \in n + 1 .. M + 259 : m + 1 = a
      <4>1. a - 1 \in n + 1 .. M + 259 /\ a - 1 + 1 = a BY <2>1
      <4> QED BY <4>1
    <3>2. m \in T BY <3>1, <1>7
    <3>3. g[m + 1] = f[m + 1 + k] BY <3>2
    <3> QED BY <3>1, <3>3
  <2>4. g[i] = f[j]
    <3>1. CASE i > M
      <4>1. j > L BY <3>1, <2>2, <1>3
      <4> QED BY <3>1, <4>1, <1>1, <1>3, <1>5, <1>6 DEF OptionBody
    <3>2. CASE ~(i > M)
      <4>1. i \in 1 .. M /\ j \in 1 .. L /\ ~(j > L) BY <3>2, <2>1, <2>2, <1>3
      <4>2. PICK x : x = t[i] /\ x = s[j] BY <4>1, <1>2, <1>3, <2>2, OptionShifted
      <4>3. CASE x = End BY <4>2, <4>3, <1>5, <1>6 DEF OptionBody
      <4>4. CASE x # End /\ x = Pad
        <5>1. i + 1 \in i + 1 .. M + 260 /\ j + 1 = i + 1 + k BY <4>1, <2>2
        <5>2. g[i + 1] = f[j + 1] BY <5>1, <2>3
        <5> QED BY <3>2, <4>1, <4>2, <4>4, <5>2, <1>1, <1>3, <1>5, <1>6 DEF OptionBody
      <4>5. CASE x # End /\ x # Pad /\ i + 1 > M
        <5>1. j + 1 > L BY <4>5, <2>2, <1>3
        <5> QED BY <3>2, <4>1, <4>2, <4>5, <5>1, <1>1, <1>3, <1>5, <1>6 DEF OptionBody
      <4>6. CASE x # End /\ x # Pad /\ ~(i + 1 > M)
        <5>1. i + 1 <= M /\ ~(j + 1 > L) BY <4>6, <2>2, <1>3, <4>1
        <5>2. i \in 1 .. Len(t) /\ i + 1 <= Len(t) BY <4>1, <5>1, <1>3
        <5>3. ValueAt(t, i) = ValueAt(s, i + k) /\ Behind(s, i + k) = Behind(t, i) + k
          BY <5>2, <1>2, OptionShifted
        <5>4. PICK v : v = ValueAt(t, i) /\ v = ValueAt(s, j) BY <5>3, <2>2
        <5>5. PICK a \in i + 2 .. M + 260 : a = Behind(t, i)
          <6>1. Behind(t, i) \in i + 2 .. Len(t) + 260 BY <5>2, ValueType
          <6> QED BY <6>1, <1>3
        <5>6. PICK b : b = a + k /\ b = Behind(s, j) BY <5>5, <5>3, <2>2
        <5>7. PICK y : y = g[a] /\ y = f[b]
          <6>1. a \in i + 1 .. M + 260 BY <4>1, <5>5
          <6> QED BY <6>1, <5>6, <2>3
        <5>8. g[i] = IF x = code THEN v \o y ELSE y
          BY <3>2, <4>2, <4>6, <5>4, <5>5, <5>7, <1>3, <1>6 DEF OptionBody
        <5>9. f[j] = IF x = code THEN v \o y ELSE y
          BY <4>1, <4>2, <4>6, <5>1, <5>4, <5>6, <5>7, <1>1, <1>5 DEF OptionBody
        <5> QED BY <5>8, <5>9
      <4> QED BY <4>3, <4>4, <4>5, <4>6
    <3> QED BY <3>1, <3>2
  <2> QED BY <2>1, <2>2, <2>4
<1>8. 0 \in T
  <2> HIDE DEF T
  <2>1. M + 259 \in Nat OBVIOUS
  <2>2. 0 .. M + 259 \subseteq T BY <1>7, <2>1, DownwardInduction
  <2> QED BY <2>2
<1>9. g[1] = f[k + 1] BY <1>8
<1> QED BY <1>2, <1>4, <1>9

LEMMA OptionType ==
    ASSUME NEW code, NEW s \in Seq(Byte)
    PROVE  Option(code, s) \in Seq(Byte)
<1>1. PICK f \in [1 .. Len(s) + 260 -> Seq(Byte)] : Option(code, s) = f[1] BY OptionIsRecursive
<1>2. 1 \in 1 .. Len(s) + 260 OBVIOUS
<1> QED BY <1>1, <1>2

LEMMA NoOption ==
    ASSUME NEW code
    PROVE  Option(code, <<>>) = <<>> /\ Option(code, <<End>>) = <<>>
<1>1. ASSUME NEW s \in Seq(Byte), 1 > Len(s) \/ s[1] = End PROVE Option(code, s) = <<>>
  <2>1. PICK f : Opting(code, s, f) /\ Option(code, s) = f[1] BY OptionIsRecursive
  <2>2. 1 \in 1 .. Len(s) + 260 OBVIOUS
  <2>3. f[1] = OptionBody(code, s, 1, f) BY <2>1, <2>2 DEF Opting
  <2> QED BY <2>1, <2>3, <1>1 DEF OptionBody
<1>2. <<>> \in Seq(Byte) /\ 1 > Len(<<>>) BY EmptySeq
<1>3. <<End>> \in Seq(Byte) /\ <<End>>[1] = End BY DEF Byte, End
<1> QED BY <1>1, <1>2, <1>3

(* The option at the head of a field, and the others.                      *)
Headed(code, s, x, n, l, value, rest) ==
    /\ s \in Seq(Byte) /\ x \in 1 .. 254 /\ n \in Byte
    /\ 2 <= Len(s) /\ s[1] = x /\ s[2] = n /\ l = n + 2
    /\ value = SubSeq(s, 3, IF l > Len(s) THEN Len(s) ELSE l)
    /\ l <= Len(s) => rest = Option(code, SubSeq(s, l + 1, Len(s)))
    /\ l > Len(s) => rest = <<>>

LEMMA OptionHead ==
    ASSUME NEW code, NEW s, NEW x, NEW n, NEW l, NEW value, NEW rest,
           Headed(code, s, x, n, l, value, rest)
    PROVE  (x = code => Option(code, s) = value \o rest) /\ (x # code => Option(code, s) = rest)
<1> USE DEF Headed
<1>1. PICK f : Opting(code, s, f) /\ Option(code, s) = f[1] BY OptionIsRecursive
<1>2. PICK L \in Nat : L = Len(s) OBVIOUS
<1>3. \A i \in 1 .. L + 260 : f[i] = OptionBody(code, s, i, f) BY <1>1, <1>2 DEF Opting
<1>4. n \in 0 .. 255 /\ L >= 2 BY <1>2 DEF Byte
<1>5. Behind(s, 1) = l + 1
  <2>1. 1 + 1 + n + 1 = l + 1 /\ 1 + 1 = 2 BY <1>4
  <2> QED BY <2>1 DEF Behind
<1>6. ValueAt(s, 1) = value
  <2>1. 1 + 1 + n = l /\ 1 + 1 = 2 /\ 1 + 2 = 3 BY <1>4
  <2> QED BY <2>1 DEF ValueAt
<1>7. f[l + 1] = rest
  <2>1. CASE l <= L
    <3>1. l \in 0 .. Len(s) BY <2>1, <1>2, <1>4
    <3>2. f[l + 1] = Option(code, SubSeq(s, l + 1, Len(s))) BY <3>1, <1>1, OptionSuffix
    <3> QED BY <3>2, <2>1, <1>2
  <2>2. CASE ~(l <= L)
    <3>1. PICK i \in 1 .. L + 260 : i = l + 1 BY <1>4
    <3>2. i > L BY <3>1, <2>2, <1>4
    <3>3. f[i] = <<>> BY <3>2, <1>2, <1>3 DEF OptionBody
    <3>4. l > Len(s) BY <2>2, <1>2, <1>4
    <3> QED BY <3>1, <3>3, <3>4
  <2> QED BY <2>1, <2>2
<1>8. f[1] = IF x = code THEN ValueAt(s, 1) \o f[l + 1] ELSE f[l + 1]
  <2>1. 1 \in 1 .. L + 260 /\ ~(1 > L) /\ ~(1 + 1 > L) BY <1>4
  <2>2. x \in 1 .. 254 OBVIOUS
  <2>3. x # 255 /\ x # 0 BY ONLY <2>2
  <2>4. s[1] # End /\ s[1] # Pad BY <2>3 DEF End, Pad
  <2>5. f[1] = OptionBody(code, s, 1, f) BY <2>1, <1>3
  <2> QED BY <2>1, <2>4, <2>5, <1>2, <1>5 DEF OptionBody
<1> QED BY <1>1, <1>6, <1>7, <1>8

(* Before any other bytes, p adds v to the option's value.                 *)
Adds(code, p, v) ==
    /\ p \in Seq(Byte) /\ v \in Seq(Byte)
    /\ \A t \in Seq(Byte) : Option(code, p \o t) = v \o Option(code, t)

LEMMA AddsJoined ==
    ASSUME NEW code, NEW p, NEW q, NEW v, NEW w, Adds(code, p, v), Adds(code, q, w)
    PROVE  Adds(code, p \o q, v \o w)
<1>1. p \in Seq(Byte) /\ q \in Seq(Byte) /\ v \in Seq(Byte) /\ w \in Seq(Byte) BY DEF Adds
<1>2. p \o q \in Seq(Byte) /\ v \o w \in Seq(Byte) BY <1>1, ConcatProperties
<1>3. ASSUME NEW t \in Seq(Byte) PROVE Option(code, (p \o q) \o t) = (v \o w) \o Option(code, t)
  <2>1. PICK u \in Seq(Byte) : u = Option(code, t) BY OptionType
  <2>2. PICK r \in Seq(Byte) : r = q \o t BY <1>1, ConcatProperties
  <2>3. (p \o q) \o t = p \o r BY ONLY <1>1, t \in Seq(Byte), <2>2, ConcatAssociative, SMTT(30)
  <2>4. Option(code, r) = w \o u BY <2>1, <2>2 DEF Adds
  <2>5. Option(code, p \o r) = v \o Option(code, r) BY DEF Adds
  <2>6. v \in Seq(Byte) /\ w \in Seq(Byte) BY <1>1
  <2>7. (v \o w) \o u = v \o (w \o u) BY ONLY <2>6, u \in Seq(Byte), ConcatAssociative
  <2> QED BY <2>1, <2>3, <2>4, <2>5, <2>7
<1> QED BY <1>2, <1>3 DEF Adds

LEMMA AddsNothing ==
    ASSUME NEW code
    PROVE  Adds(code, <<>>, <<>>) /\ Adds(code, <<Pad>>, <<>>)
<1>1. <<>> \in Seq(Byte) BY EmptySeq
<1>2. <<Pad>> \in Seq(Byte) BY DEF Byte, Pad
<1>3. ASSUME NEW t \in Seq(Byte) PROVE <<>> \o t = t /\ <<>> \o Option(code, t) = Option(code, t)
  BY ConcatEmptySeq, OptionType
<1>4. ASSUME NEW t \in Seq(Byte) PROVE Option(code, <<Pad>> \o t) = Option(code, t)
  <2>1. PICK s \in Seq(Byte) : s = <<Pad>> \o t BY <1>2, ConcatProperties
  <2>2. /\ Len(s) = 1 + Len(t) /\ s[1] = Pad
        /\ SubSeq(s, 2, Len(s)) = t
    <3>1. PICK h \in Seq(Byte) : h = <<Pad>> /\ Len(h) = 1 /\ h[1] = Pad BY <1>2
    <3>2. /\ Len(s) = Len(h) + Len(t) /\ (\A i \in 1 .. Len(h) : s[i] = h[i])
          /\ SubSeq(s, Len(h) + 1, Len(s)) = t
      BY <2>1, <3>1, Joined
    <3> QED BY <3>1, <3>2
  <2>3. PICK f : Opting(code, s, f) /\ Option(code, s) = f[1] BY OptionIsRecursive
  <2>4. Len(s) \in Nat /\ 1 \in 1 .. Len(s) + 260 /\ ~(1 > Len(s)) /\ 1 \in 0 .. Len(s) BY <2>2
  <2>5. f[1] = f[1 + 1]
    <3>1. f[1] = OptionBody(code, s, 1, f) BY <2>3, <2>4 DEF Opting
    <3>2. s[1] # End BY <2>2 DEF End, Pad
    <3> QED BY <2>2, <2>4, <3>1, <3>2 DEF OptionBody
  <2>6. f[1 + 1] = Option(code, SubSeq(s, 1 + 1, Len(s))) BY <2>3, <2>4, OptionSuffix
  <2>7. 1 + 1 = 2 OBVIOUS
  <2> QED BY <2>1, <2>2, <2>3, <2>5, <2>6, <2>7
<1> QED BY <1>1, <1>2, <1>3, <1>4 DEF Adds

LEMMA AddsEntry ==
    ASSUME NEW code, NEW x \in 1 .. 254, NEW v \in Seq(Byte), Len(v) <= 255
    PROVE  Adds(code, Entry(x, v), IF x = code THEN v ELSE <<>>)
<1>1. CASE v = <<>> BY <1>1, AddsNothing DEF Entry
<1>2. CASE v # <<>>
  <2>1. PICK n \in Byte : n = Len(v)
    <3>1. PICK k \in Nat : k = Len(v) OBVIOUS
    <3>2. k <= 255 BY <3>1
    <3>3. k \in Byte BY <3>2 DEF Byte
    <3> QED BY <3>1, <3>3
  <2>2. PICK h \in Seq(Byte) : h = <<x, n>> /\ Len(h) = 2 /\ h[1] = x /\ h[2] = n
    <3>1. x \in Byte BY DEF Byte
    <3>2. <<x, n>> \in Seq(Byte) BY <3>1
    <3>3. Len(<<x, n>>) = 2 /\ <<x, n>>[1] = x /\ <<x, n>>[2] = n OBVIOUS
    <3> QED BY <3>2, <3>3
  <2>3. PICK e : e = h \o v OBVIOUS
  <2>4. /\ e \in Seq(Byte) /\ Len(e) = 2 + n /\ e[1] = x /\ e[2] = n
        /\ \A i \in 1 .. n : e[2 + i] = v[i]
    <3>1. /\ e \in Seq(Byte) /\ Len(e) = Len(h) + Len(v) /\ (\A i \in 1 .. Len(h) : e[i] = h[i])
          /\ \A i \in 1 .. Len(v) : e[Len(h) + i] = v[i]
      BY ONLY h \in Seq(Byte), v \in Seq(Byte), <2>3, Joined
    <3> QED BY <2>1, <2>2, <3>1
  <2>5. Entry(x, v) = e BY <1>2, <2>1, <2>2, <2>3 DEF Entry
  <2>6. ASSUME NEW t \in Seq(Byte)
        PROVE  Option(code, e \o t) = (IF x = code THEN v ELSE <<>>) \o Option(code, t)
    <3>1. PICK s : s = e \o t OBVIOUS
    <3>2. PICK L \in Nat : L = 2 + n + Len(t) /\ n \in 0 .. 255
      <4>1. PICK k \in Nat : k = Len(t) BY LenProperties
      <4>2. n \in 0 .. 255 BY ONLY n \in Byte DEF Byte
      <4>3. 2 + n + k \in Nat BY ONLY <4>2, k \in Nat
      <4> QED BY <4>1, <4>2, <4>3, Zenon
    <3>3. /\ s \in Seq(Byte) /\ Len(s) = L /\ (\A i \in 1 .. 2 + n : s[i] = e[i])
          /\ SubSeq(s, 2 + n + 1, L) = t
      <4>1. e \in Seq(Byte) BY <2>4
      <4>2. /\ s \in Seq(Byte) /\ Len(s) = Len(e) + Len(t) /\ (\A i \in 1 .. Len(e) : s[i] = e[i])
            /\ SubSeq(s, Len(e) + 1, Len(s)) = t
        BY ONLY <4>1, t \in Seq(Byte), <3>1, Joined
      <4> QED BY <2>4, <3>2, <4>2
    <3>4. PICK l \in 2 .. L : l = n + 2 /\ l = 2 + n BY <3>2
    <3>5. SubSeq(s, 3, l) = v
      <4>1. PICK p : p = SubSeq(s, 3, l) OBVIOUS
      <4>2. 3 \in Nat \ {0} /\ l \in 0 .. Len(s) BY <3>3
      <4>3. /\ p \in Seq(Byte) /\ Len(p) = (IF 3 <= l THEN l - 3 + 1 ELSE 0)
            /\ \A i \in 1 .. l - 3 + 1 : p[i] = s[3 + i - 1]
        BY <3>3, <4>1, <4>2, Between
      <4>4. Len(p) = n BY <4>3, <3>2, <3>4
      <4>5. ASSUME NEW i \in 1 .. n PROVE p[i] = v[i]
        <5>1. PICK j \in 1 .. 2 + n : j = 2 + i /\ j = 3 + i - 1 BY <3>2
        <5>2. i \in 1 .. l - 3 + 1 BY <3>2, <3>4
        <5> QED BY <5>1, <5>2, <4>3, <3>3, <2>4
      <4>6. p = v BY <4>3, <4>4, <4>5, <2>1, SeqEqual
      <4> QED BY <4>1, <4>6
    <3>6. s[1] = x /\ s[2] = n
      <4>1. 1 \in 1 .. 2 + n /\ 2 \in 1 .. 2 + n BY <3>2
      <4> QED BY <4>1, <3>3, <2>4
    <3>7. PICK r : r = Option(code, t) OBVIOUS
    <3>8. (l <= Len(s) => r = Option(code, SubSeq(s, l + 1, Len(s)))) /\ (l > Len(s) => r = <<>>)
      <4>1. l <= Len(s) /\ ~(l > Len(s)) BY <3>3, <3>4
      <4>2. SubSeq(s, l + 1, Len(s)) = t BY <3>3, <3>4
      <4> QED BY <4>1, <4>2, <3>7
    <3>9. (x = code => Option(code, s) = v \o r) /\ (x # code => Option(code, s) = r)
      <4>1. s \in Seq(Byte) /\ 2 <= Len(s) /\ s[1] = x /\ s[2] = n /\ l = n + 2 BY <3>3, <3>4, <3>6
      <4>2. v = SubSeq(s, 3, IF l > Len(s) THEN Len(s) ELSE l) BY <3>3, <3>4, <3>5
      <4>3. Headed(code, s, x, n, l, v, r) BY <3>8, <4>1, <4>2 DEF Headed
      <4> QED BY <4>3, OptionHead
    <3>10. <<>> \o r = r BY <3>7, OptionType, ConcatEmptySeq
    <3> QED BY <3>1, <3>7, <3>9, <3>10
  <2>7. (IF x = code THEN v ELSE <<>>) \in Seq(Byte) BY EmptySeq
  <2> QED BY <2>4, <2>5, <2>6, <2>7 DEF Adds
<1> QED BY <1>1, <1>2

(* An option that the field cuts short.                                    *)
CutShort(h, x, n, v) ==
    /\ x \in 1 .. 254 /\ n \in Byte /\ h \in Seq(Byte) /\ h = <<x, n>>
    /\ v \in Seq(Byte) /\ Len(v) <= n

LEMMA OptionCut ==
    ASSUME NEW code, NEW x, NEW n, NEW v, NEW h, CutShort(h, x, n, v)
    PROVE  (x = code => Option(code, h \o v) = v) /\ (x # code => Option(code, h \o v) = <<>>)
<1> USE DEF CutShort
<1>1. PICK s : s = h \o v OBVIOUS
<1>2. Len(h) = 2 /\ h[1] = x /\ h[2] = n OBVIOUS
<1>3. PICK m \in Nat : m = Len(v) /\ m <= n /\ n \in 0 .. 255 BY DEF Byte
<1>4. /\ s \in Seq(Byte) /\ Len(s) = 2 + m /\ s[1] = x /\ s[2] = n /\ SubSeq(s, 3, Len(s)) = v
  <2>1. /\ s \in Seq(Byte) /\ Len(s) = Len(h) + Len(v) /\ (\A i \in 1 .. Len(h) : s[i] = h[i])
        /\ SubSeq(s, Len(h) + 1, Len(s)) = v
    BY ONLY h \in Seq(Byte), v \in Seq(Byte), <1>1, Joined
  <2> QED BY <2>1, <1>2, <1>3
<1>5. PICK l : l = n + 2 OBVIOUS
<1>6. PICK r : r = IF l <= Len(s) THEN Option(code, SubSeq(s, l + 1, Len(s))) ELSE <<>> OBVIOUS
<1>7. (IF l > Len(s) THEN Len(s) ELSE l) = Len(s) /\ 2 <= Len(s) BY <1>3, <1>4, <1>5
<1>8. r = <<>>
  <2>1. CASE l <= Len(s)
    <3>1. l = Len(s) BY <2>1, <1>3, <1>4, <1>5
    <3>2. SubSeq(s, l + 1, Len(s)) = <<>>
      <4>1. PICK k \in 0 .. Len(s) : k = l BY <3>1, <1>3, <1>4
      <4>2. /\ SubSeq(s, k + 1, Len(s)) \in Seq(Byte) /\ Len(SubSeq(s, k + 1, Len(s))) = Len(s) - k
        BY <1>4, Suffix
      <4>3. Len(s) - k = 0 BY <3>1, <4>1, <1>3, <1>4
      <4> QED BY <4>1, <4>2, <4>3, EmptySeq
    <3> QED BY <3>2, <1>6, NoOption
  <2>2. CASE ~(l <= Len(s)) BY <2>2, <1>6
  <2> QED BY <2>1, <2>2
<1>9. (x = code => Option(code, s) = v \o r) /\ (x # code => Option(code, s) = r)
  <2>1. v = SubSeq(s, 3, IF l > Len(s) THEN Len(s) ELSE l) BY <1>4, <1>7
  <2>2. s \in Seq(Byte) /\ s[1] = x /\ s[2] = n /\ 2 <= Len(s) BY <1>4, <1>7
  <2>3. (l <= Len(s) => r = Option(code, SubSeq(s, l + 1, Len(s)))) /\ (l > Len(s) => r = <<>>)
    <3>1. l \in Int /\ Len(s) \in Int BY <1>3, <1>4, <1>5
    <3>2. l > Len(s) => ~(l <= Len(s)) BY <3>1
    <3> QED BY <3>2, <1>6
  <2>4. Headed(code, s, x, n, l, v, r) BY <1>5, <2>1, <2>2, <2>3 DEF Headed
  <2> QED BY <2>4, OptionHead
<1>10. v \o <<>> = v BY ConcatEmptySeq
<1> QED BY <1>1, <1>4, <1>7, <1>8, <1>9, <1>10

----------------------------------------------------------------------------
(* Packets.                                                                *)

(* Bytes that add to the four options that count.                          *)
Gives(p, type, server, routes, others) ==
    /\ Adds(MessageType, p, type) /\ Adds(ServerId, p, server)
    /\ Adds(ClasslessRoutes, p, routes) /\ Adds(MsRoutes, p, others)

LEMMA GivesJoined ==
    ASSUME NEW p, NEW t, NEW v, NEW b, NEW m, Gives(p, t, v, b, m),
           NEW q, NEW tt, NEW vv, NEW bb, NEW mm, Gives(q, tt, vv, bb, mm)
    PROVE  Gives(p \o q, t \o tt, v \o vv, b \o bb, m \o mm)
BY AddsJoined DEF Gives

LEMMA GivesEntries ==
    ASSUME NEW x \in Seq(Byte), Len(x) <= 255
    PROVE  /\ Gives(Entry(MessageType, x), x, <<>>, <<>>, <<>>)
           /\ Gives(Entry(ServerId, x), <<>>, x, <<>>, <<>>)
           /\ Gives(Entry(ClasslessRoutes, x), <<>>, <<>>, x, <<>>)
           /\ Gives(Entry(MsRoutes, x), <<>>, <<>>, <<>>, x)
           /\ Gives(<<Pad>>, <<>>, <<>>, <<>>, <<>>)
<1>1. /\ MessageType \in 1 .. 254 /\ ServerId \in 1 .. 254 /\ ClasslessRoutes \in 1 .. 254 /\ MsRoutes \in 1 .. 254
      /\ MessageType # ServerId /\ MessageType # ClasslessRoutes /\ MessageType # MsRoutes
      /\ ServerId # ClasslessRoutes /\ ServerId # MsRoutes /\ ClasslessRoutes # MsRoutes
  BY DEF MessageType, ServerId, ClasslessRoutes, MsRoutes
<1>2. ASSUME NEW e \in 1 .. 254, NEW c
      PROVE  (e = c => Adds(c, Entry(e, x), x)) /\ (e # c => Adds(c, Entry(e, x), <<>>))
  <2>1. Adds(c, Entry(e, x), IF e = c THEN x ELSE <<>>) BY AddsEntry
  <2> QED BY <2>1
<1>3. \A c : Adds(c, <<Pad>>, <<>>) BY AddsNothing
<1> QED BY <1>1, <1>2, <1>3 DEF Gives

(* The options of a field, and what is made of them.                       *)
Has(field, type, server, routes, others) ==
    /\ Option(MessageType, field) = type /\ Option(ServerId, field) = server
    /\ Option(ClasslessRoutes, field) = routes /\ Option(MsRoutes, field) = others

LEMMA GivesHas ==
    ASSUME NEW p, NEW t, NEW v, NEW b, NEW m, Gives(p, t, v, b, m)
    PROVE  Has(p, t, v, b, m) /\ Has(p \o <<End>>, t, v, b, m)
<1>1. <<>> \in Seq(Byte) BY EmptySeq
<1>2. <<End>> \in Seq(Byte) BY DEF Byte, End
<1>3. ASSUME NEW c, NEW x, Adds(c, p, x) PROVE Option(c, p) = x /\ Option(c, p \o <<End>>) = x
  <2>1. p \in Seq(Byte) /\ x \in Seq(Byte) BY <1>3 DEF Adds
  <2>2. p \o <<>> = p /\ x \o <<>> = x BY <2>1, ConcatEmptySeq
  <2>3. Option(c, p \o <<>>) = x \o Option(c, <<>>) BY <1>1, <1>3 DEF Adds
  <2>4. Option(c, p \o <<End>>) = x \o Option(c, <<End>>) BY <1>2, <1>3 DEF Adds
  <2> QED BY <2>2, <2>3, <2>4, NoOption
<1> QED BY <1>3 DEF Gives, Has

ParseBody(field, n, f) ==
    IF n = 0 THEN <<>> ELSE f[n - 1] \o Decode(Option(OptionCodes[n], field)).routes

Parsing(field, f) == f = [n \in 0 .. Len(OptionCodes) |-> ParseBody(field, n, f)]

LEMMA ParseRoutes ==
    ASSUME NEW field, NEW a \in Seq(ViaSet), NEW b \in Seq(ViaSet),
           a = Decode(Option(ClasslessRoutes, field)).routes, b = Decode(Option(MsRoutes, field)).routes
    PROVE  Parse(field).routes = a \o b
<1>1. Len(OptionCodes) = 2 /\ OptionCodes[1] = ClasslessRoutes /\ OptionCodes[2] = MsRoutes
  BY DEF OptionCodes
<1>2. \A f : Parsing(field, f) <=> f = [n \in 0 .. 2 |-> ParseBody(field, n, f)] BY <1>1 DEF Parsing
<1>3. \E f : Parsing(field, f)
  <2>1. PICK x : x = <<>> \o a OBVIOUS
  <2>2. PICK y : y = x \o b OBVIOUS
  <2>3. PICK f : f = [n \in 0 .. 2 |-> IF n = 0 THEN <<>> ELSE IF n = 1 THEN x ELSE y] OBVIOUS
  <2>4. f[0] = <<>> /\ f[1] = x /\ f[2] = y BY <2>3
  <2>5. f[0] = <<>> /\ f[1] = f[0] \o a /\ f[2] = f[1] \o b BY <2>1, <2>2, <2>4
  <2>6. ParseBody(field, 0, f) = f[0] BY <2>5 DEF ParseBody
  <2>7. ParseBody(field, 1, f) = f[1]
    <3>1. 1 # 0 /\ 1 - 1 = 0 OBVIOUS
    <3> QED BY <3>1, <2>5, <1>1 DEF ParseBody
  <2>8. ParseBody(field, 2, f) = f[2]
    <3>1. 2 # 0 /\ 2 - 1 = 1 OBVIOUS
    <3> QED BY <3>1, <2>5, <1>1 DEF ParseBody
  <2>9. \A n \in 0 .. 2 : f[n] = ParseBody(field, n, f)
    <3>1. \A n \in 0 .. 2 : n = 0 \/ n = 1 \/ n = 2 OBVIOUS
    <3> QED BY <3>1, <2>6, <2>7, <2>8
  <2>10. f = [n \in 0 .. 2 |-> f[n]] BY <2>3
  <2> QED BY <2>9, <2>10, <1>2
<1>4. PICK g : g = CHOOSE f : Parsing(field, f) OBVIOUS
<1>5. Parsing(field, g) BY <1>3, <1>4
<1>6. Parse(field).routes = g[2] BY <1>1, <1>4 DEF Parse, Parsing, ParseBody
<1>7. g[0] = <<>> /\ g[1] = g[0] \o a /\ g[2] = g[1] \o b
  <2>1. \A n \in 0 .. 2 : g[n] = ParseBody(field, n, g) BY <1>2, <1>5
  <2>2. 0 \in 0 .. 2 /\ 1 \in 0 .. 2 /\ 2 \in 0 .. 2 /\ 1 # 0 /\ 2 # 0 /\ 1 - 1 = 0 /\ 2 - 1 = 1 OBVIOUS
  <2>3. g[0] = <<>> BY <2>1, <2>2 DEF ParseBody
  <2>4. g[1] = g[0] \o a BY <2>1, <2>2, <1>1 DEF ParseBody
  <2>5. g[2] = g[1] \o b BY <2>1, <2>2, <1>1 DEF ParseBody
  <2> QED BY <2>3, <2>4, <2>5
<1>8. <<>> \o a = a BY ConcatEmptySeq
<1> QED BY <1>6, <1>7, <1>8

LEMMA AnswerType ==
    ASSUME NEW a \in Answer
    PROVE  /\ a.type \in 1 .. 8 /\ <<a.type>> \in Seq(Byte) /\ Len(<<a.type>>) = 1
           /\ a.server \in Seq(Byte) /\ (a.server = NoServer \/ Len(a.server) = 4)
           /\ a.server \in Octets4 \cup {NoServer}
           /\ a.routes \in Seq(ViaSet)
           /\ Wire(a.routes) \in Seq(Byte) /\ Len(Wire(a.routes)) <= 255
<1>1. /\ a.type \in 1 .. 8 /\ a.server \in Octets4 \cup {NoServer} /\ Len(Wire(a.routes)) <= 255
      /\ a.routes \in Seq(ViaSet)
  BY SnifferAssumption DEF ViaSet, NetSet, AddrSet
<1>2. <<a.type>> \in Seq(Byte) /\ Len(<<a.type>>) = 1
  <2>1. PICK t \in 1 .. 8 : t = a.type BY <1>1
  <2>2. t \in Byte BY DEF Byte
  <2> QED BY <2>1, <2>2
<1>3. a.server \in Seq(Byte) /\ (a.server = NoServer \/ Len(a.server) = 4)
  BY <1>1, Quad, EmptySeq DEF NoServer
<1> QED BY <1>1, <1>2, <1>3, DecodeWire

LEMMA JoinedElements ==
    ASSUME NEW S, NEW s \in Seq(S), NEW t \in Seq(S)
    PROVE  ToSet(s \o t) = ToSet(s) \cup ToSet(t)
<1>1. PICK q : q = s \o t OBVIOUS
<1>2. /\ q \in Seq(S) /\ Len(q) = Len(s) + Len(t)
      /\ \A i \in 1 .. Len(s) : q[i] = s[i]
      /\ \A i \in 1 .. Len(t) : q[Len(s) + i] = t[i]
  BY <1>1, Joined
<1>3. PICK m \in Nat : m = Len(s) OBVIOUS
<1>4. PICK n \in Nat : n = Len(t) OBVIOUS
<1>5. \A i \in 1 .. m + n : i \in 1 .. m \/ \E j \in 1 .. n : i = m + j
  <2> SUFFICES ASSUME NEW i \in 1 .. m + n, i \notin 1 .. m PROVE \E j \in 1 .. n : i = m + j
    OBVIOUS
  <2>1. i - m \in 1 .. n /\ i = m + (i - m) OBVIOUS
  <2> QED BY <2>1
<1>6. \A i \in 1 .. m : i \in 1 .. m + n OBVIOUS
<1>7. \A i \in 1 .. n : m + i \in 1 .. m + n OBVIOUS
<1>8. DOMAIN s = 1 .. m /\ DOMAIN t = 1 .. n /\ DOMAIN q = 1 .. m + n
  BY <1>2, <1>3, <1>4, LenProperties
<1>9. ToSet(q) = {q[i] : i \in 1 .. m + n} /\ ToSet(s) = {s[i] : i \in 1 .. m} /\ ToSet(t) = {t[i] : i \in 1 .. n}
  BY <1>8 DEF ToSet
<1>10. ASSUME NEW x \in {q[i] : i \in 1 .. m + n} PROVE x \in {s[i] : i \in 1 .. m} \cup {t[i] : i \in 1 .. n}
  <2>1. PICK i \in 1 .. m + n : x = q[i] OBVIOUS
  <2>2. CASE i \in 1 .. m BY <2>1, <2>2, <1>2, <1>3
  <2>3. CASE i \notin 1 .. m
    <3>1. PICK j \in 1 .. n : i = m + j BY <2>3, <1>5
    <3>2. q[i] = t[j] BY <3>1, <1>2, <1>3, <1>4
    <3> QED BY <2>1, <3>2
  <2> QED BY <2>2, <2>3
<1>11. ASSUME NEW x \in {s[i] : i \in 1 .. m} \cup {t[i] : i \in 1 .. n} PROVE x \in {q[i] : i \in 1 .. m + n}
  BY <1>2, <1>3, <1>4, <1>6, <1>7
<1> QED BY <1>1, <1>9, <1>10, <1>11

LEMMA Pair ==
    ASSUME NEW p \in Byte
    PROVE  <<p>> \o <<p>> = <<p, p>>
<1>1. PICK h \in Seq(Byte) : h = <<p>> /\ Len(h) = 1 /\ h[1] = p
  <2>1. <<p>> \in Seq(Byte) OBVIOUS
  <2>2. Len(<<p>>) = 1 /\ <<p>>[1] = p OBVIOUS
  <2> QED BY <2>1, <2>2
<1>2. PICK q : q = h \o h OBVIOUS
<1>3. /\ q \in Seq(Byte) /\ Len(q) = Len(h) + Len(h) /\ (\A i \in 1 .. Len(h) : q[i] = h[i])
      /\ \A i \in 1 .. Len(h) : q[Len(h) + i] = h[i]
  BY ONLY h \in Seq(Byte), <1>2, Joined
<1>4. Len(q) = 2 /\ q[1] = p /\ q[2] = p
  <2>1. 1 \in 1 .. 1 /\ 1 + 1 = 2 OBVIOUS
  <2> QED BY <2>1, <1>1, <1>3
<1>5. PICK r : r = <<p, p>> OBVIOUS
<1>6. r \in Seq(Byte) /\ Len(r) = 2 /\ r[1] = p /\ r[2] = p
  <2>1. <<p, p>> \in Seq(Byte) OBVIOUS
  <2>2. Len(<<p, p>>) = 2 /\ <<p, p>>[1] = p /\ <<p, p>>[2] = p OBVIOUS
  <2> QED BY <2>1, <2>2, <1>5
<1>7. \A i \in 1 .. 2 : q[i] = r[i]
  <2>1. \A i \in 1 .. 2 : i = 1 \/ i = 2 OBVIOUS
  <2> QED BY <2>1, <1>4, <1>6
<1>8. q = r BY <1>3, <1>4, <1>6, <1>7, SeqEqual
<1> QED BY <1>1, <1>2, <1>5, <1>8

(* Bytes in either of the options for routes, or in both.                  *)
Carried(w, b, m) ==
    \/ b = w /\ m = <<>>
    \/ b = <<>> /\ m = w
    \/ b = w /\ m = w

(* What is read of a field that has the answer.                            *)
LEMMA ParseWhole ==
    ASSUME NEW a \in Answer, NEW field, NEW b, NEW m, Has(field, <<a.type>>, a.server, b, m),
           Carried(Wire(a.routes), b, m)
    PROVE  /\ Parse(field).type = a.type /\ Parse(field).server = a.server
           /\ Parse(field).routes \in Seq(ViaSet)
           /\ ToSet(Parse(field).routes) = ToSet(Canonical(a.routes))
           /\ Begins(Canonical(a.routes), Parse(field).routes)
<1>1. PICK c \in Seq(ViaSet) : c = Canonical(a.routes) BY AnswerType, CanonicalType
<1>2. PICK e \in Seq(ViaSet) : e = <<>> BY EmptySeq
<1>3. Decode(Wire(a.routes)).routes = c /\ Decode(<<>>).routes = e
  BY <1>1, <1>2, AnswerType, DecodeWire, DecodeEmpty DEF Routes
<1>4. Option(ClasslessRoutes, field) = b /\ Option(MsRoutes, field) = m
      /\ Option(MessageType, field) = <<a.type>> /\ Option(ServerId, field) = a.server BY DEF Has
<1>5. Parse(field).type = a.type
  <2>1. <<a.type>> # <<>> /\ <<a.type>>[1] = a.type BY AnswerType
  <2> QED BY <2>1, <1>4 DEF Parse
<1>6. Parse(field).server = a.server
  <2>1. Parse(field).server = IF Len(a.server) >= 4 THEN SubSeq(a.server, 1, 4) ELSE NoServer BY <1>4 DEF Parse
  <2>2. CASE a.server = NoServer
    <3>1. ~(Len(<<>>) >= 4) OBVIOUS
    <3> QED BY <2>1, <2>2, <3>1 DEF NoServer
  <2>3. CASE Len(a.server) = 4
    <3>1. PICK s \in Seq(Byte) : s = a.server BY AnswerType
    <3>2. SubSeq(s, 1, 4) = s BY <3>1, <2>3
    <3> QED BY <2>1, <2>3, <3>1, <3>2
  <2> QED BY <2>2, <2>3, AnswerType
<1>7. ASSUME NEW x \in Seq(ViaSet), NEW y \in Seq(ViaSet),
             Decode(b).routes = x, Decode(m).routes = y, ToSet(x) \cup ToSet(y) = ToSet(c),
             x = c \/ (x = e /\ y = c)
      PROVE  Parse(field).routes \in Seq(ViaSet) /\ ToSet(Parse(field).routes) = ToSet(c) /\ Begins(c, Parse(field).routes)
  <2>1. Parse(field).routes = x \o y BY <1>4, <1>7, ParseRoutes
  <2>2. x \o y \in Seq(ViaSet) BY ConcatProperties
  <2>3. ToSet(x \o y) = ToSet(x) \cup ToSet(y) BY JoinedElements
  <2>4. ASSUME x = c PROVE Begins(c, x \o y)
    <3>1. Len(c \o y) = Len(c) + Len(y) /\ \A k \in 1 .. Len(c) : (c \o y)[k] = c[k] BY ConcatProperties
    <3>2. Len(c) \in Nat /\ Len(y) \in Nat OBVIOUS
    <3> QED BY <2>4, <3>1, <3>2 DEF Begins
  <2>5. ASSUME x = e, y = c PROVE Begins(c, x \o y)
    <3>1. x \o y = c BY <1>2, <2>5
    <3>2. Len(c) \in Nat OBVIOUS
    <3> QED BY <3>1, <3>2 DEF Begins
  <2> QED BY <2>1, <2>2, <2>3, <2>4, <2>5, <1>7
<1>8. ToSet(e) = {} BY <1>2 DEF ToSet
<1>9. \E x, y \in Seq(ViaSet) :
          /\ Decode(b).routes = x /\ Decode(m).routes = y /\ ToSet(x) \cup ToSet(y) = ToSet(c)
          /\ x = c \/ (x = e /\ y = c)
  <2>1. CASE b = Wire(a.routes) /\ m = <<>> BY <2>1, <1>3, <1>8
  <2>2. CASE b = <<>> /\ m = Wire(a.routes) BY <2>2, <1>3, <1>8
  <2>3. CASE b = Wire(a.routes) /\ m = Wire(a.routes) BY <2>3, <1>3
  <2> QED BY <2>1, <2>2, <2>3 DEF Carried
<1>10. Parse(field).routes \in Seq(ViaSet) /\ ToSet(Parse(field).routes) = ToSet(c) /\ Begins(c, Parse(field).routes)
  BY <1>7, <1>9
<1> QED BY <1>1, <1>5, <1>6, <1>10

(* In whatever shape it comes, an answer has its options.                  *)
LEMMA WholePacket ==
    ASSUME NEW a \in Answer, NEW shape \in Shapes, shape # "cut"
    PROVE  \E b, m : Has(Packet(a, shape), <<a.type>>, a.server, b, m) /\ Carried(Wire(a.routes), b, m)
<1>1. PICK t \in Seq(Byte) : t = <<a.type>> /\ Len(t) <= 255
  <2>1. <<a.type>> \in Seq(Byte) /\ Len(<<a.type>>) = 1 BY AnswerType
  <2>2. 1 <= 255 OBVIOUS
  <2> QED BY <2>1, <2>2
<1>2. PICK v \in Seq(Byte) : v = a.server /\ Len(v) <= 255
  <2>1. a.server \in Seq(Byte) /\ (a.server = NoServer \/ Len(a.server) = 4) BY AnswerType
  <2>2. Len(NoServer) = 0 BY DEF NoServer
  <2>3. Len(a.server) <= 255
    <3>1. Len(a.server) = 0 \/ Len(a.server) = 4 BY <2>1, <2>2
    <3>2. 0 <= 255 /\ 4 <= 255 OBVIOUS
    <3> QED BY <3>1, <3>2
  <2> QED BY <2>1, <2>3
<1>3. PICK w \in Seq(Byte) : w = Wire(a.routes) /\ Len(w) <= 255 BY AnswerType
<1>4. PICK n : n = <<>> OBVIOUS
<1>5. \A x \in Seq(Byte) : x \o n = x /\ n \o x = x BY <1>4, ConcatEmptySeq
<1>6. n \in Seq(Byte) /\ n \o n = n BY <1>4, <1>5, EmptySeq
<1>7. PICK et : et = Entry(MessageType, t) OBVIOUS
<1>8. PICK ev : ev = Entry(ServerId, v) OBVIOUS
<1>9. PICK ew : ew = Entry(ClasslessRoutes, w) OBVIOUS
<1>10. PICK em : em = Entry(MsRoutes, w) OBVIOUS
<1>11. Gives(et, t, n, n, n) BY <1>1, <1>4, <1>7, GivesEntries
<1>12. Gives(ev, n, v, n, n) BY <1>2, <1>4, <1>8, GivesEntries
<1>13. Gives(ew, n, n, w, n) BY <1>3, <1>4, <1>9, GivesEntries
<1>14. Gives(em, n, n, n, w) BY <1>3, <1>4, <1>10, GivesEntries
<1>15. Gives(<<Pad>>, n, n, n, n) BY <1>3, <1>4, GivesEntries
<1>16. PICK start : start = et \o ev OBVIOUS
<1>17. Gives(start, t, v, n, n)
  <2>1. Gives(et \o ev, t \o n, n \o v, n \o n, n \o n) BY <1>11, <1>12, GivesJoined
  <2> QED BY <2>1, <1>5, <1>6, <1>16
<1> DEFINE Wanted(field) == \E b, m : Has(field, <<a.type>>, a.server, b, m) /\ Carried(Wire(a.routes), b, m)
<1>18. ASSUME NEW field, \/ Has(field, t, v, w, n) \/ Has(field, t, v, n, w) \/ Has(field, t, v, w, w)
       PROVE  Wanted(field)
  BY <1>18, <1>1, <1>2, <1>3, <1>4 DEF Carried
<1> HIDE DEF Wanted
<1>19. shape = "plain" => Wanted(Packet(a, shape))
  <2>1. Gives(start \o ew, t \o n, v \o n, n \o w, n \o n) BY <1>13, <1>17, GivesJoined
  <2>2. Gives(start \o ew, t, v, w, n) BY <2>1, <1>5, <1>6
  <2>3. Has((start \o ew) \o <<End>>, t, v, w, n) BY <2>2, GivesHas
  <2>4. Packet(a, "plain") = (start \o ew) \o <<End>> BY <1>1, <1>2, <1>3, <1>7, <1>8, <1>9, <1>16 DEF Packet
  <2> QED BY <2>3, <2>4, <1>18
<1>20. shape = "ms" => Wanted(Packet(a, shape))
  <2>1. Gives(start \o em, t \o n, v \o n, n \o n, n \o w) BY <1>14, <1>17, GivesJoined
  <2>2. Gives(start \o em, t, v, n, w) BY <2>1, <1>5, <1>6
  <2>3. Has((start \o em) \o <<End>>, t, v, n, w) BY <2>2, GivesHas
  <2>4. Packet(a, "ms") = (start \o em) \o <<End>> BY <1>1, <1>2, <1>3, <1>7, <1>8, <1>10, <1>16 DEF Packet
  <2> QED BY <2>3, <2>4, <1>18
<1>21. shape = "both" => Wanted(Packet(a, shape))
  <2>1. Gives(em \o start, n \o t, n \o v, n \o n, w \o n) BY <1>14, <1>17, GivesJoined
  <2>2. Gives(em \o start, t, v, n, w) BY <2>1, <1>5, <1>6
  <2>3. Gives((em \o start) \o ew, t \o n, v \o n, n \o w, w \o n) BY <2>2, <1>13, GivesJoined
  <2>4. Gives((em \o start) \o ew, t, v, w, w) BY <2>3, <1>5
  <2>5. Has(((em \o start) \o ew) \o <<End>>, t, v, w, w) BY <2>4, GivesHas
  <2>6. Packet(a, "both") = ((em \o start) \o ew) \o <<End>>
    BY <1>1, <1>2, <1>3, <1>7, <1>8, <1>9, <1>10, <1>16 DEF Packet
  <2> QED BY <2>5, <2>6, <1>18
<1>22. shape = "split" => Wanted(Packet(a, shape))
  <2>1. PICK half \in 0 .. Len(w) : half = Len(w) \div 2
    <3>1. PICK l \in Nat : l = Len(w) OBVIOUS
    <3>2. l \div 2 \in 0 .. l BY <3>1
    <3> QED BY <3>1, <3>2
  <2>2. PICK x \in Seq(Byte) : x = SubSeq(w, 1, half) /\ Len(x) <= 255
    <3>1. SubSeq(w, 1, half) \in Seq(Byte) /\ Len(SubSeq(w, 1, half)) = half BY Prefix
    <3>2. half <= 255 BY <1>3
    <3> QED BY <3>1, <3>2
  <2>3. PICK y \in Seq(Byte) : y = SubSeq(w, half + 1, Len(w)) /\ Len(y) <= 255
    <3>1. SubSeq(w, half + 1, Len(w)) \in Seq(Byte) /\ Len(SubSeq(w, half + 1, Len(w))) = Len(w) - half BY Suffix
    <3>2. Len(w) - half <= 255 BY <1>3
    <3> QED BY <3>1, <3>2
  <2>4. x \o y = w BY <2>1, <2>2, <2>3, PartsJoined
  <2>5. PICK ex : ex = Entry(ClasslessRoutes, x) OBVIOUS
  <2>6. PICK ey : ey = Entry(ClasslessRoutes, y) OBVIOUS
  <2>7. Gives(ex, n, n, x, n) BY <2>2, <2>5, <1>4, GivesEntries
  <2>8. Gives(ey, n, n, y, n) BY <2>3, <2>6, <1>4, GivesEntries
  <2>9. Gives(ex \o start, n \o t, n \o v, x \o n, n \o n) BY <2>7, <1>17, GivesJoined
  <2>10. Gives(ex \o start, t, v, x, n) BY <2>9, <1>5, <1>6
  <2>11. Gives((ex \o start) \o ey, t \o n, v \o n, x \o y, n \o n) BY <2>8, <2>10, GivesJoined
  <2>12. Gives((ex \o start) \o ey, t, v, w, n) BY <2>4, <2>11, <1>5, <1>6
  <2>13. Has(((ex \o start) \o ey) \o <<End>>, t, v, w, n) BY <2>12, GivesHas
  <2>14. Packet(a, "split") = ((ex \o start) \o ey) \o <<End>>
    BY <1>1, <1>2, <1>3, <1>7, <1>8, <1>16, <2>1, <2>2, <2>3, <2>5, <2>6 DEF Packet
  <2> QED BY <2>13, <2>14, <1>18
<1>23. shape = "padded" => Wanted(Packet(a, shape))
  <2>1. PICK pp : pp = <<Pad, Pad>> OBVIOUS
  <2>2. Gives(pp, n, n, n, n)
    <3>1. Pad \in Byte BY DEF Pad, Byte
    <3>2. <<Pad>> \o <<Pad>> = pp BY <3>1, <2>1, Pair
    <3>3. Gives(<<Pad>> \o <<Pad>>, n \o n, n \o n, n \o n, n \o n) BY <1>15, GivesJoined
    <3> QED BY <3>2, <3>3, <1>6
  <2>3. Gives(<<Pad>> \o start, n \o t, n \o v, n \o n, n \o n) BY <1>15, <1>17, GivesJoined
  <2>4. Gives(<<Pad>> \o start, t, v, n, n) BY <2>3, <1>5, <1>6
  <2>5. Gives((<<Pad>> \o start) \o pp, t \o n, v \o n, n \o n, n \o n) BY <2>2, <2>4, GivesJoined
  <2>6. Gives((<<Pad>> \o start) \o pp, t, v, n, n) BY <2>5, <1>5, <1>6
  <2>7. Gives(((<<Pad>> \o start) \o pp) \o ew, t \o n, v \o n, n \o w, n \o n) BY <2>6, <1>13, GivesJoined
  <2>8. Gives(((<<Pad>> \o start) \o pp) \o ew, t, v, w, n) BY <2>7, <1>5, <1>6
  <2>9. Has(((<<Pad>> \o start) \o pp) \o ew, t, v, w, n) BY <2>8, GivesHas
  <2>10. Packet(a, "padded") = ((<<Pad>> \o start) \o pp) \o ew
    BY <1>1, <1>2, <1>3, <1>7, <1>8, <1>9, <1>16, <2>1 DEF Packet
  <2> QED BY <2>9, <2>10, <1>18
<1>24. Wanted(Packet(a, shape)) BY <1>19, <1>20, <1>21, <1>22, <1>23 DEF Shapes
<1> QED BY <1>24 DEF Wanted

LEMMA Regrouped ==
    ASSUME NEW a \in Seq(Byte), NEW b \in Seq(Byte), NEW c \in Seq(Byte)
    PROVE  (a \o b) \o c = a \o (b \o c)
BY ConcatAssociative

(* The last four bytes of a packet lost.                                   *)
Packed(p, h, v, e, q) ==
    /\ p \in Seq(Byte) /\ h \in Seq(Byte) /\ v \in Seq(Byte) /\ e \in Seq(Byte)
    /\ Len(e) = 1 /\ Len(v) >= 3 /\ q = (p \o (h \o v)) \o e

LEMMA Shortened ==
    ASSUME NEW p, NEW h, NEW v, NEW e, NEW q, Packed(p, h, v, e, q)
    PROVE  /\ Len(v) - 3 \in 0 .. Len(v)
           /\ SubSeq(q, 1, Len(q) - 4) = p \o (h \o SubSeq(v, 1, Len(v) - 3))
<1> USE DEF Packed
<1>1. PICK U : U = Seq(Byte) OBVIOUS
<1>2. ASSUME NEW a \in U, NEW b \in U, NEW c \in U PROVE (a \o b) \o c = a \o (b \o c)
  <2>1. a \in Seq(Byte) /\ b \in Seq(Byte) /\ c \in Seq(Byte) BY <1>1
  <2> QED BY ONLY <2>1, Regrouped
<1>3. p \in U /\ h \in U /\ v \in U /\ e \in U BY <1>1
<1>4. PICK z \in Seq(Byte) : z = v \o e /\ Len(z) = Len(v) + 1
  <2>1. v \o e \in Seq(Byte) /\ Len(v \o e) = Len(v) + Len(e) BY ConcatProperties
  <2> QED BY <2>1
<1>5. PICK y \in Seq(Byte) : y = h \o z /\ Len(y) = Len(h) + Len(z)
  <2>1. h \o z \in Seq(Byte) /\ Len(h \o z) = Len(h) + Len(z) BY ConcatProperties
  <2> QED BY <2>1
<1>6. PICK x \in Seq(Byte) : x = h \o v BY ConcatProperties
<1>7. x \o e = y
  <2>1. (h \o v) \o e = h \o (v \o e) BY ONLY <1>2, <1>3
  <2> QED BY <2>1, <1>4, <1>5, <1>6
<1>8. q = p \o y
  <2>1. x \in U BY <1>1
  <2>2. (p \o x) \o e = p \o (x \o e) BY ONLY <2>1, <1>2, <1>3, SMTT(30)
  <2> QED BY <2>2, <1>6, <1>7
<1>9. PICK k \in 0 .. Len(v) : k = Len(v) - 3
  <2>1. PICK l \in Nat : l = Len(v) /\ l >= 3 OBVIOUS
  <2>2. l - 3 \in 0 .. l BY <2>1
  <2> QED BY <2>1, <2>2
<1>10. PICK m \in 0 .. Len(y) : m = Len(h) + k
  <2>1. PICK l \in Nat : l = Len(v) OBVIOUS
  <2>2. PICK n \in Nat : n = Len(h) OBVIOUS
  <2>3. n + k \in 0 .. n + (l + 1) BY <2>1, <1>9
  <2> QED BY <2>1, <2>2, <2>3, <1>4, <1>5
<1>11. Len(q) - 4 = Len(p) + m
  <2>1. Len(q) = Len(p) + Len(y) BY <1>8, ConcatProperties
  <2>2. PICK a \in Nat : a = Len(p) OBVIOUS
  <2>3. PICK b \in Nat : b = Len(h) OBVIOUS
  <2>4. PICK c \in Nat : c = Len(v) OBVIOUS
  <2>5. a + (b + (c + 1)) - 4 = a + (b + (c - 3)) OBVIOUS
  <2> QED BY <2>1, <2>2, <2>3, <2>4, <2>5, <1>4, <1>5, <1>9, <1>10
<1>12. SubSeq(p \o y, 1, Len(p) + m) = p \o SubSeq(y, 1, m) BY PrefixJoined
<1>13. k \in 0 .. Len(z)
  <2>1. PICK l \in Nat : l = Len(v) OBVIOUS
  <2>2. k \in 0 .. l + 1 BY <2>1
  <2> QED BY <2>1, <2>2, <1>4
<1>14. SubSeq(h \o z, 1, Len(h) + k) = h \o SubSeq(z, 1, k) BY <1>13, PrefixJoined
<1>15. SubSeq(v \o e, 1, k) = SubSeq(v, 1, k) BY PrefixWithin
<1> QED BY <1>4, <1>5, <1>8, <1>9, <1>10, <1>11, <1>12, <1>14, <1>15

LEMMA EntryCut ==
    ASSUME NEW p, NEW t, NEW v, NEW b, NEW m, Gives(p, t, v, b, m),
           NEW x \in {ServerId, ClasslessRoutes}, NEW n, NEW c, NEW h, CutShort(h, x, n, c)
    PROVE  /\ x = ServerId => Has(p \o (h \o c), t, v \o c, b, m)
           /\ x = ClasslessRoutes => Has(p \o (h \o c), t, v, b \o c, m)
<1>1. h \o c \in Seq(Byte) BY ConcatProperties DEF CutShort
<1>2. ASSUME NEW code, NEW w, Adds(code, p, w)
      PROVE  /\ x = code => Option(code, p \o (h \o c)) = w \o c
             /\ x # code => Option(code, p \o (h \o c)) = w
  <2>1. Option(code, p \o (h \o c)) = w \o Option(code, h \o c) BY <1>1, <1>2 DEF Adds
  <2>2. (x = code => Option(code, h \o c) = c) /\ (x # code => Option(code, h \o c) = <<>>) BY OptionCut
  <2>3. w \in Seq(Byte) BY <1>2 DEF Adds
  <2>4. w \o <<>> = w BY <2>3, ConcatEmptySeq
  <2> QED BY <2>1, <2>2, <2>4
<1>3. /\ MessageType # ServerId /\ MessageType # ClasslessRoutes /\ ServerId # ClasslessRoutes
      /\ MsRoutes # ServerId /\ MsRoutes # ClasslessRoutes
  BY DEF MessageType, ServerId, ClasslessRoutes, MsRoutes
<1>4. x = ServerId => Has(p \o (h \o c), t, v \o c, b, m) BY <1>2, <1>3 DEF Gives, Has
<1>5. x = ClasslessRoutes => Has(p \o (h \o c), t, v, b \o c, m) BY <1>2, <1>3 DEF Gives, Has
<1> QED BY <1>4, <1>5

(* What is read of a packet that is cut.                                   *)
LEMMA ParseCut ==
    ASSUME NEW a \in Answer
    PROVE  /\ Parse(Packet(a, "cut")).type \in {0, a.type}
           /\ Parse(Packet(a, "cut")).server \in {NoServer, a.server}
           /\ Parse(Packet(a, "cut")).routes = <<>>
<1>1. PICK t \in Seq(Byte) : t = <<a.type>> /\ Len(t) = 1 /\ t[1] = a.type /\ t # <<>>
  <2>1. <<a.type>> \in Seq(Byte) /\ Len(<<a.type>>) = 1 BY AnswerType
  <2>2. <<a.type>> # <<>> /\ <<a.type>>[1] = a.type OBVIOUS
  <2> QED BY <2>1, <2>2
<1>2. PICK v \in Seq(Byte) : v = a.server /\ (v = <<>> \/ Len(v) = 4) BY AnswerType DEF NoServer
<1>3. PICK w \in Seq(Byte) : w = Wire(a.routes) /\ Len(w) <= 255 BY AnswerType
<1>4. PICK n : n = <<>> OBVIOUS
<1>5. \A x \in Seq(Byte) : x \o n = x /\ n \o x = x BY <1>4, ConcatEmptySeq
<1>6. n \in Seq(Byte) /\ n \o n = n /\ Len(n) = 0 BY <1>4, <1>5, EmptySeq
<1>7. PICK et : et = Entry(MessageType, t) OBVIOUS
<1>8. PICK ev : ev = Entry(ServerId, v) OBVIOUS
<1>9. PICK ew : ew = Entry(ClasslessRoutes, w) OBVIOUS
<1>10. Gives(et, t, n, n, n)
  <2>1. Len(t) <= 255
    <3>1. 1 <= 255 OBVIOUS
    <3> QED BY <3>1, <1>1
  <2> QED BY <2>1, <1>4, <1>7, GivesEntries
<1>11. Gives(ev, n, v, n, n)
  <2>1. Len(v) <= 255
    <3>1. 0 <= 255 /\ 4 <= 255 OBVIOUS
    <3> QED BY <3>1, <1>2, <1>4, <1>6
  <2> QED BY <2>1, <1>4, <1>8, GivesEntries
<1>12. PICK start : start = et \o ev OBVIOUS
<1>13. Gives(start, t, v, n, n)
  <2>1. Gives(et \o ev, t \o n, n \o v, n \o n, n \o n) BY <1>10, <1>11, GivesJoined
  <2> QED BY <2>1, <1>5, <1>6, <1>12
<1>14. et \in Seq(Byte) /\ ev \in Seq(Byte) /\ start \in Seq(Byte) BY <1>10, <1>11, <1>13 DEF Gives, Adds
<1>15. PICK e \in Seq(Byte) : e = <<End>> /\ Len(e) = 1
  <2>1. End \in Byte BY DEF Byte, End
  <2>2. <<End>> \in Seq(Byte) /\ Len(<<End>>) = 1 BY <2>1
  <2> QED BY <2>2
<1>16. PICK plain : plain = (start \o ew) \o e OBVIOUS
<1>17. Packet(a, "cut") = SubSeq(plain, 1, Len(plain) - 4)
  BY <1>1, <1>2, <1>3, <1>7, <1>8, <1>9, <1>12, <1>15, <1>16 DEF Packet
<1>18. ASSUME NEW field, NEW tt \in {n, t}, NEW vv \in Seq(Byte), NEW b, Has(field, tt, vv, b, n),
              vv = v \/ Len(vv) < 4, Decode(b).routes = n
       PROVE  /\ Parse(field).type \in {0, a.type}
              /\ Parse(field).server \in {NoServer, a.server}
              /\ Parse(field).routes = <<>>
  <2>1. /\ Option(MessageType, field) = tt /\ Option(ServerId, field) = vv
        /\ Option(ClasslessRoutes, field) = b /\ Option(MsRoutes, field) = n
    BY <1>18 DEF Has
  <2>2. Parse(field).type \in {0, a.type}
    <3>1. Parse(field).type = IF tt = <<>> THEN 0 ELSE tt[1] BY <2>1 DEF Parse
    <3> QED BY <3>1, <1>1, <1>4
  <2>3. Parse(field).server \in {NoServer, a.server}
    <3>1. Parse(field).server = IF Len(vv) >= 4 THEN SubSeq(vv, 1, 4) ELSE NoServer BY <2>1 DEF Parse
    <3>2. Len(vv) < 4 => ~(Len(vv) >= 4)
      <4>1. Len(vv) \in Nat OBVIOUS
      <4> QED BY <4>1
    <3>3. CASE Len(vv) < 4 BY <3>1, <3>2, <3>3
    <3>4. CASE vv = v
      <4>1. CASE v = <<>>
        <5>1. ~(Len(<<>>) >= 4) OBVIOUS
        <5> QED BY <4>1, <5>1, <3>1, <3>4
      <4>2. CASE Len(v) = 4
        <5>1. SubSeq(v, 1, 4) = v /\ Len(v) >= 4 BY <4>2
        <5> QED BY <5>1, <3>1, <3>4, <1>2
      <4> QED BY <4>1, <4>2, <1>2
    <3> QED BY <3>3, <3>4, <1>18
  <2>4. Parse(field).routes = <<>>
    <3>1. PICK x \in Seq(ViaSet) : x = n BY <1>4, EmptySeq
    <3>2. Decode(n).routes = x BY <3>1, <1>4, DecodeEmpty DEF Routes
    <3>3. Parse(field).routes = x \o x BY <2>1, <3>1, <3>2, <1>18, ParseRoutes
    <3>4. x \o x = x BY <3>1, <1>4, ConcatEmptySeq
    <3> QED BY <3>1, <3>3, <3>4, <1>4
  <2> QED BY <2>2, <2>3, <2>4
<1>19. CASE a.routes # <<>>
  <2>1. PICK k \in Byte : k = Len(w) /\ k >= 5
    <3>1. PICK l \in Nat : l = Len(w) /\ l <= 255 BY <1>3
    <3>2. l <= 255 BY <3>1
    <3>3. l \in Byte BY <3>2 DEF Byte
    <3>4. Len(w) >= 5 BY <1>3, <1>19, AnswerType, WireLength
    <3> QED BY <3>1, <3>3, <3>4
  <2>2. PICK h \in Seq(Byte) : h = <<ClasslessRoutes, k>>
    <3>1. ClasslessRoutes \in Byte BY DEF Byte, ClasslessRoutes
    <3>2. <<ClasslessRoutes, k>> \in Seq(Byte) BY <3>1
    <3> QED BY <3>2
  <2>3. w # <<>> BY <1>6, <1>4, <2>1 DEF Byte
  <2>4. ew = h \o w BY <2>1, <2>2, <2>3, <1>9 DEF Entry
  <2>5. PICK c : c = SubSeq(w, 1, Len(w) - 3) OBVIOUS
  <2>6. Len(w) >= 3
    <3>1. k >= 3 BY <2>1 DEF Byte
    <3> QED BY <3>1, <2>1
  <2>7. Len(w) - 3 \in 0 .. Len(w) /\ Packet(a, "cut") = start \o (h \o c)
    <3>1. Packed(start, h, w, e, plain) BY <1>14, <1>15, <2>6, <2>4, <1>16 DEF Packed
    <3>2. Len(w) - 3 \in 0 .. Len(w) /\ SubSeq(plain, 1, Len(plain) - 4) = start \o (h \o SubSeq(w, 1, Len(w) - 3))
      BY <3>1, Shortened
    <3> QED BY <3>2, <2>5, <1>17
  <2>8. c \in Seq(Byte) /\ Len(c) <= k
    <3>1. c \in Seq(Byte) /\ Len(c) = Len(w) - 3 BY <2>5, <2>7, Prefix
    <3>2. k - 3 <= k BY DEF Byte
    <3> QED BY <3>1, <3>2, <2>1
  <2>9. CutShort(h, ClasslessRoutes, k, c)
    <3>1. ClasslessRoutes \in 1 .. 254 BY DEF ClasslessRoutes
    <3> QED BY <3>1, <2>2, <2>8 DEF CutShort
  <2>10. Has(start \o (h \o c), t, v, n \o c, n) BY <1>13, <2>9, EntryCut
  <2>11. n \o c = c BY <2>8, <1>5
  <2>12. Decode(c).routes = n BY <2>5, <1>3, <1>4, <1>19, AnswerType, DecodeCut DEF Failed
  <2> QED BY <2>7, <2>10, <2>11, <2>12, <1>18
<1>20. CASE a.routes = <<>>
  <2>1. ew = n BY <1>20, <1>3, <1>4, <1>9, NothingOnWire DEF Entry
  <2>2. plain = start \o e BY <2>1, <1>5, <1>14, <1>16
  <2>3. Decode(n).routes = n BY <1>4, DecodeEmpty DEF Routes
  <2>4. CASE v = <<>>
    <3>1. ev = n BY <2>4, <1>4, <1>8 DEF Entry
    <3>2. start = et BY <3>1, <1>5, <1>12, <1>14
    <3>3. Len(et) = 3
      <4>1. PICK g \in Seq(Byte) : g = <<MessageType, 1>> /\ Len(g) = 2
        <5>1. MessageType \in Byte /\ 1 \in Byte BY DEF Byte, MessageType
        <5>2. <<MessageType, 1>> \in Seq(Byte) /\ Len(<<MessageType, 1>>) = 2 BY <5>1
        <5> QED BY <5>2
      <4>2. et = g \o t BY <4>1, <1>1, <1>7 DEF Entry
      <4>3. Len(g \o t) = Len(g) + Len(t) BY ConcatProperties
      <4> QED BY <4>1, <4>2, <4>3, <1>1
    <3>4. Len(plain) = 4
      <4>1. Len(et \o e) = Len(et) + Len(e) BY <1>14, ConcatProperties
      <4> QED BY <4>1, <2>2, <3>2, <3>3, <1>15
    <3>5. Packet(a, "cut") = n
      <4>1. plain \in Seq(Byte) BY <2>2, <1>14, ConcatProperties
      <4>2. 0 \in 0 .. Len(plain) /\ 4 - 4 = 0 BY <3>4
      <4>3. SubSeq(plain, 1, 0) \in Seq(Byte) /\ Len(SubSeq(plain, 1, 0)) = 0 BY <4>1, <4>2, Prefix
      <4>4. SubSeq(plain, 1, 0) = <<>> BY <4>3, EmptySeq
      <4> QED BY <4>2, <4>4, <3>4, <1>4, <1>17
    <3>6. Has(n, n, n, n, n) BY <1>4, NoOption DEF Has
    <3>7. n = v BY <2>4, <1>4
    <3> QED BY <3>5, <3>6, <3>7, <2>3, <1>6, <1>18
  <2>5. CASE Len(v) = 4
    <3>1. PICK h \in Seq(Byte) : h = <<ServerId, 4>>
      <4>1. ServerId \in Byte /\ 4 \in Byte BY DEF Byte, ServerId
      <4>2. <<ServerId, 4>> \in Seq(Byte) BY <4>1
      <4> QED BY <4>2
    <3>2. v # <<>>
      <4>1. Len(<<>>) # 4 OBVIOUS
      <4> QED BY <4>1, <2>5
    <3>3. ev = h \o v BY <2>5, <3>1, <3>2, <1>8 DEF Entry
    <3>4. PICK c : c = SubSeq(v, 1, Len(v) - 3) OBVIOUS
    <3>5. Len(v) >= 3 /\ Len(v) - 3 = 1 BY <2>5
    <3>6. Len(v) - 3 \in 0 .. Len(v) /\ Packet(a, "cut") = et \o (h \o c)
      <4>1. Packed(et, h, v, e, plain) BY <1>14, <1>15, <3>5, <3>3, <2>2, <1>12 DEF Packed
      <4>2. Len(v) - 3 \in 0 .. Len(v) /\ SubSeq(plain, 1, Len(plain) - 4) = et \o (h \o SubSeq(v, 1, Len(v) - 3))
        BY <4>1, Shortened
      <4> QED BY <4>2, <3>4, <1>17
    <3>7. c \in Seq(Byte) /\ Len(c) = 1 BY <3>4, <3>5, <3>6, Prefix
    <3>8. 4 \in Byte /\ Len(c) <= 4 /\ Len(c) < 4 BY <3>7 DEF Byte
    <3>9. CutShort(h, ServerId, 4, c)
      <4>1. ServerId \in 1 .. 254 BY DEF ServerId
      <4> QED BY <4>1, <3>1, <3>7, <3>8 DEF CutShort
    <3>10. Has(et \o (h \o c), t, n \o c, n, n) BY <1>10, <3>9, EntryCut
    <3>11. n \o c = c BY <3>7, <1>5
    <3> QED BY <3>6, <3>7, <3>8, <3>10, <3>11, <2>3, <1>18
  <2> QED BY <2>4, <2>5, <1>2
<1> QED BY <1>19, <1>20

----------------------------------------------------------------------------
(* The sniffer's state.                                                    *)

HeardSet == [iface : Iface, answer : Answer, whole : BOOLEAN, age : 0 .. Window]

ObservationSet == [iface : Iface, server : Octets4 \cup {NoServer}, routes : Seq(ViaSet), age : 0 .. Window]

SnifferTypes ==
    /\ backend \in {"af_packet", "scapy", "disabled"}
    /\ heard \in Seq(HeardSet) /\ Len(heard) <= MaxHeard
    /\ observations \in Seq(ObservationSet) /\ Len(observations) <= MaxLen

(* An observation is of an answer: all that counts of one that was whole,  *)
(* and no routes of one that was not.                                      *)
Same(o, h) ==
    /\ o.iface = h.iface /\ o.age = h.age /\ o.server \in {NoServer, h.answer.server}
    /\ IF h.whole
       THEN /\ o.server = h.answer.server /\ ToSet(o.routes) = ToSet(Canonical(h.answer.routes))
            /\ Begins(Canonical(h.answer.routes), o.routes)
       ELSE o.routes = <<>>

Sourced == \A m \in 1 .. Len(observations) : \E n \in 1 .. Len(heard) : Same(observations[m], heard[n])

(* Whatever pushes an observation out was heard later.                     *)
Retained ==
    \A n \in 1 .. Len(heard) : heard[n].whole /\ n > Len(heard) - MaxLen =>
        \E m \in 1 .. Len(observations) :
            Len(observations) - m <= Len(heard) - n /\ Same(observations[m], heard[n])

SnifferInv == SnifferTypes /\ Sourced /\ Retained

LEMMA AppendedTo ==
    ASSUME NEW S, NEW s \in Seq(S), NEW x \in S, NEW q, q = Append(s, x)
    PROVE  /\ q \in Seq(S) /\ Len(q) = Len(s) + 1
           /\ \A i \in 1 .. Len(s) : q[i] = s[i]
           /\ q[Len(s) + 1] = x
BY AppendProperties

(* What a packet adds, when it adds anything.                              *)
LEMMA PacketRead ==
    ASSUME NEW iface \in Iface, NEW a \in Answer, NEW shape \in Shapes, NEW info, info = Parse(Packet(a, shape)),
           NEW h, h = [iface |-> iface, answer |-> a, whole |-> shape # "cut", age |-> 0],
           NEW o, o = [iface |-> iface, server |-> info.server, routes |-> info.routes, age |-> 0]
    PROVE  /\ h \in HeardSet /\ o \in ObservationSet /\ Same(o, h)
           /\ info.type \in {Offer, Ack} => a.type \in {Offer, Ack}
           /\ h.whole => info.type = a.type
<1>1. 0 \in 0 .. Window BY SnifferAssumption
<1>2. h \in HeardSet /\ h.iface = iface /\ h.answer = a /\ h.whole = (shape # "cut") /\ h.age = 0
  BY <1>1 DEF HeardSet
<1>3. CASE shape = "cut"
  <2>1. info.type \in {0, a.type} /\ info.server \in {NoServer, a.server} /\ info.routes = <<>>
    BY <1>3, ParseCut
  <2>2. info.routes \in Seq(ViaSet) BY <2>1, EmptySeq
  <2>3. info.server \in Octets4 \cup {NoServer} BY <2>1, AnswerType
  <2>4. o \in ObservationSet BY <2>2, <2>3, <1>1 DEF ObservationSet
  <2>5. Same(o, h) BY <2>1, <1>2, <1>3 DEF Same
  <2>6. 0 \notin {Offer, Ack} BY DEF Offer, Ack
  <2> QED BY <2>1, <2>4, <2>5, <2>6, <1>2, <1>3
<1>4. CASE shape # "cut"
  <2>1. /\ info.type = a.type /\ info.server = a.server /\ info.routes \in Seq(ViaSet)
        /\ ToSet(info.routes) = ToSet(Canonical(a.routes)) /\ Begins(Canonical(a.routes), info.routes)
    <3>1. PICK b, m : Has(Packet(a, shape), <<a.type>>, a.server, b, m) /\ Carried(Wire(a.routes), b, m)
      BY <1>4, WholePacket
    <3> QED BY <3>1, ParseWhole
  <2>2. info.server \in Octets4 \cup {NoServer} BY <2>1, AnswerType
  <2>3. o \in ObservationSet BY <2>1, <2>2, <1>1 DEF ObservationSet
  <2>4. Same(o, h) BY <2>1, <1>2, <1>4 DEF Same
  <2> QED BY <2>1, <2>3, <2>4, <1>2, <1>4
<1> QED BY <1>3, <1>4

LEMMA SnifferStart == Init => SnifferInv
<1> SUFFICES ASSUME Init PROVE SnifferInv OBVIOUS
<1>1. SnifferTypes BY EmptySeq, SnifferAssumption DEF Init, SnifferTypes
<1>2. Sourced /\ Retained BY DEF Init, Sourced, Retained
<1> QED BY <1>1, <1>2 DEF SnifferInv

LEMMA HearKeeps ==
    ASSUME SnifferInv, NEW iface \in Iface, NEW ports, NEW a \in Answer, NEW shape \in Shapes,
           Hear(iface, ports, a, shape)
    PROVE  SnifferInv'
<1> USE DEF SnifferInv
<1>1. PICK info : info = Parse(Packet(a, shape)) OBVIOUS
<1>2. PICK h : h = [iface |-> iface, answer |-> a, whole |-> shape # "cut", age |-> 0] OBVIOUS
<1>3. PICK o : o = [iface |-> iface, server |-> info.server, routes |-> info.routes, age |-> 0] OBVIOUS
<1>4. /\ h \in HeardSet /\ o \in ObservationSet /\ Same(o, h)
      /\ info.type \in {Offer, Ack} => a.type \in {Offer, Ack}
      /\ h.whole => info.type = a.type
  BY <1>1, <1>2, <1>3, PacketRead
<1>5. PICK N \in Nat : N = Len(heard) /\ N < MaxHeard BY DEF SnifferTypes, Hear
<1>6. PICK M \in Nat : M = Len(observations) /\ M <= MaxLen BY DEF SnifferTypes
<1>7. MaxLen \in Nat \ {0} /\ MaxHeard \in Nat BY SnifferAssumption
<1>8. observations' = Recorded(iface, info) BY <1>1 DEF Hear
<1>9. a.type \in {Offer, Ack} => heard' = Append(heard, h) BY <1>2 DEF Hear
<1>10. a.type \notin {Offer, Ack} => heard' = heard BY DEF Hear
<1>11. backend' \in {"af_packet", "scapy", "disabled"} BY DEF SnifferTypes, Hear
<1>12. ASSUME a.type \in {Offer, Ack}
       PROVE  /\ heard' \in Seq(HeardSet) /\ Len(heard') = N + 1 /\ Len(heard') <= MaxHeard
              /\ (\A n \in 1 .. N : heard'[n] = heard[n]) /\ heard'[N + 1] = h
  <2>1. heard' = Append(heard, h) /\ heard \in Seq(HeardSet) BY <1>9, <1>12 DEF SnifferTypes
  <2>2. /\ heard' \in Seq(HeardSet) /\ Len(heard') = Len(heard) + 1
        /\ (\A n \in 1 .. Len(heard) : heard'[n] = heard[n]) /\ heard'[Len(heard) + 1] = h
    BY <2>1, <1>4, AppendedTo
  <2>3. N + 1 <= MaxHeard BY <1>5, <1>7
  <2> QED BY <2>2, <2>3, <1>5
<1>13. CASE info.type \in {Offer, Ack}
  <2>1. PICK q : q = Append(observations, o) OBVIOUS
  <2>2. observations' = Trim(q) BY <2>1, <1>3, <1>8, <1>13 DEF Recorded
  <2>3. /\ q \in Seq(ObservationSet) /\ Len(q) = M + 1 /\ (\A m \in 1 .. M : q[m] = observations[m])
        /\ q[M + 1] = o
    <3>1. observations \in Seq(ObservationSet) BY DEF SnifferTypes
    <3> QED BY <3>1, <2>1, <1>4, <1>6, AppendedTo
  <2>4. PICK k \in {0, 1} :
            /\ observations' \in Seq(ObservationSet) /\ Len(observations') = M + 1 - k /\ M + 1 - k <= MaxLen
            /\ \A m \in 1 .. M + 1 - k : observations'[m] = q[m + k]
            /\ k = 1 => M = MaxLen
    <3>1. CASE Len(q) > MaxLen
      <4>1. observations' = Tail(q) BY <2>2, <3>1 DEF Trim
      <4>2. q # <<>> BY <2>3, EmptySeq
      <4>3. /\ Tail(q) \in Seq(ObservationSet) /\ Len(Tail(q)) = Len(q) - 1
            /\ \A m \in 1 .. Len(Tail(q)) : Tail(q)[m] = q[m + 1]
        BY <2>3, <4>2, HeadTailProperties
      <4>4. M = MaxLen /\ M + 1 - 1 = M BY <2>3, <3>1, <1>6, <1>7
      <4> QED BY <4>1, <4>3, <4>4, <2>3, <1>7
    <3>2. CASE ~(Len(q) > MaxLen)
      <4>1. observations' = q BY <2>2, <3>2 DEF Trim
      <4>2. M + 1 <= MaxLen BY <2>3, <3>2, <1>6, <1>7
      <4>3. \A m \in 1 .. M + 1 : m + 0 = m OBVIOUS
      <4>4. M + 1 - 0 = M + 1 OBVIOUS
      <4> QED BY <4>1, <4>2, <4>3, <4>4, <2>3
    <3> QED BY <3>1, <3>2
  <2>5. /\ heard' \in Seq(HeardSet) /\ Len(heard') = N + 1 /\ Len(heard') <= MaxHeard
        /\ (\A n \in 1 .. N : heard'[n] = heard[n]) /\ heard'[N + 1] = h
    BY <1>4, <1>12, <1>13
  <2>6. SnifferTypes' BY <2>4, <2>5, <1>11 DEF SnifferTypes
  <2>7. Sourced'
    <3>1. ASSUME NEW m \in 1 .. M + 1 - k PROVE \E n \in 1 .. N + 1 : Same(observations'[m], heard'[n])
      <4>1. PICK j \in 1 .. M + 1 : j = m + k /\ observations'[m] = q[j]
        <5>1. m + k \in 1 .. M + 1 BY <2>4
        <5> QED BY <5>1, <2>4
      <4>2. CASE j = M + 1
        <5>1. observations'[m] = o BY <4>1, <4>2, <2>3
        <5>2. N + 1 \in 1 .. N + 1 OBVIOUS
        <5> QED BY <5>1, <5>2, <2>5, <1>4
      <4>3. CASE j # M + 1
        <5>1. j \in 1 .. M BY <4>3
        <5>2. PICK n \in 1 .. N : Same(observations[j], heard[n]) BY <5>1, <1>5, <1>6 DEF Sourced
        <5>3. n \in 1 .. N + 1 OBVIOUS
        <5> QED BY <5>1, <5>2, <5>3, <4>1, <2>3, <2>5
      <4> QED BY <4>2, <4>3
    <3> QED BY <3>1, <2>4, <2>5 DEF Sourced
  <2>8. Retained'
    <3>1. ASSUME NEW n \in 1 .. N + 1, heard'[n].whole, n > N + 1 - MaxLen
          PROVE  \E m \in 1 .. M + 1 - k : M + 1 - k - m <= N + 1 - n /\ Same(observations'[m], heard'[n])
      <4>1. CASE n = N + 1
        <5>1. PICK m \in 1 .. M + 1 - k : m = M + 1 - k
          <6>1. M + 1 - k \in 1 .. M + 1 - k BY <2>4, <1>7
          <6> QED BY <6>1
        <5>2. m + k = M + 1 BY <5>1
        <5>3. observations'[m] = o BY <5>2, <2>3, <2>4
        <5>4. M + 1 - k - m <= N + 1 - n BY <5>1, <4>1
        <5> QED BY <5>3, <5>4, <4>1, <2>5, <1>4
      <4>2. CASE n # N + 1
        <5>1. n \in 1 .. N /\ n > N - MaxLen BY <3>1, <4>2, <1>7
        <5>2. heard[n].whole BY <5>1, <3>1, <2>5
        <5>3. PICK j \in 1 .. M : M - j <= N - n /\ Same(observations[j], heard[n])
          BY <5>1, <5>2, <1>5, <1>6 DEF Retained
        <5>4. PICK m \in 1 .. M + 1 - k : m = j - k
          <6>1. k = 1 => j # 1 BY <5>3, <3>1, <2>4, <1>7
          <6>2. j - k \in 1 .. M + 1 - k BY <6>1
          <6> QED BY <6>2
        <5>5. m + k = j BY <5>4
        <5>6. observations'[m] = observations[j] BY <5>5, <2>3, <2>4
        <5>7. M + 1 - k - m <= N + 1 - n BY <5>3, <5>4
        <5> QED BY <5>1, <5>3, <5>6, <5>7, <2>5
      <4> QED BY <4>1, <4>2
    <3>2. \A n \in 1 .. N + 1 : heard'[n].whole /\ n > N + 1 - MaxLen =>
             \E m \in 1 .. M + 1 - k : M + 1 - k - m <= N + 1 - n /\ Same(observations'[m], heard'[n])
      BY <3>1, Zenon
    <3>3. Len(heard') = N + 1 /\ Len(observations') = M + 1 - k BY <2>4, <2>5
    <3> SUFFICES ASSUME NEW n \in 1 .. Len(heard'), heard'[n].whole, n > Len(heard') - MaxLen
                 PROVE  \E m \in 1 .. Len(observations') :
                            Len(observations') - m <= Len(heard') - n /\ Same(observations'[m], heard'[n])
      BY DEF Retained
    <3>4. n \in 1 .. N + 1 /\ n > N + 1 - MaxLen BY <3>3, <1>7
    <3>5. PICK m \in 1 .. M + 1 - k : M + 1 - k - m <= N + 1 - n /\ Same(observations'[m], heard'[n]) BY <3>2, <3>4
    <3> QED BY <3>3, <3>5
  <2> QED BY <2>6, <2>7, <2>8
<1>14. CASE info.type \notin {Offer, Ack}
  <2>1. observations' = observations BY <1>8, <1>14 DEF Recorded
  <2>2. CASE a.type \notin {Offer, Ack}
    <3>1. heard' = heard BY <2>2, <1>10
    <3>2. SnifferTypes' BY <2>1, <3>1, <1>11 DEF SnifferTypes
    <3>3. Sourced' BY <2>1, <3>1 DEF Sourced
    <3>4. Retained' BY <2>1, <3>1 DEF Retained
    <3> QED BY <3>2, <3>3, <3>4
  <2>3. CASE a.type \in {Offer, Ack}
    <3>1. /\ heard' \in Seq(HeardSet) /\ Len(heard') = N + 1 /\ Len(heard') <= MaxHeard
          /\ (\A n \in 1 .. N : heard'[n] = heard[n]) /\ heard'[N + 1] = h
      BY <2>3, <1>12
    <3>2. ~h.whole
      <4>1. h.whole \in BOOLEAN BY <1>4 DEF HeardSet
      <4> QED BY <4>1, <2>3, <1>4, <1>14
    <3>3. SnifferTypes' BY <2>1, <3>1, <1>11 DEF SnifferTypes
    <3>4. Sourced'
      <4>1. \A n \in 1 .. N : n \in 1 .. N + 1 OBVIOUS
      <4>2. \A m \in 1 .. M : \E n \in 1 .. N + 1 : Same(observations[m], heard'[n])
        BY <4>1, <3>1, <1>5, <1>6 DEF Sourced
      <4> QED BY <4>2, <2>1, <3>1, <1>6 DEF Sourced
    <3>5. Retained'
      <4>1. ASSUME NEW n \in 1 .. N + 1, heard'[n].whole, n > N + 1 - MaxLen
            PROVE  \E m \in 1 .. M : M - m <= N + 1 - n /\ Same(observations[m], heard'[n])
        <5>1. n # N + 1 BY <3>1, <3>2, <4>1
        <5>2. n \in 1 .. N /\ n > N - MaxLen BY <5>1, <4>1, <1>7
        <5>3. heard[n].whole BY <5>2, <3>1, <4>1
        <5>4. PICK m \in 1 .. M : M - m <= N - n /\ Same(observations[m], heard[n])
          BY <5>2, <5>3, <1>5, <1>6 DEF Retained
        <5>5. M - m <= N + 1 - n BY <5>4
        <5> QED BY <5>2, <5>4, <5>5, <3>1
      <4>2. \A n \in 1 .. N + 1 : heard'[n].whole /\ n > N + 1 - MaxLen =>
               \E m \in 1 .. M : M - m <= N + 1 - n /\ Same(observations[m], heard'[n])
        BY <4>1, Zenon
      <4>3. Len(heard') = N + 1 /\ Len(observations) = M BY <3>1, <1>6
      <4> SUFFICES ASSUME NEW n \in 1 .. Len(heard'), heard'[n].whole, n > Len(heard') - MaxLen
                   PROVE  \E m \in 1 .. Len(observations') :
                              Len(observations') - m <= Len(heard') - n /\ Same(observations'[m], heard'[n])
        BY DEF Retained
      <4>4. n \in 1 .. N + 1 /\ n > N + 1 - MaxLen BY <4>3, <1>7
      <4>5. PICK m \in 1 .. M : M - m <= N + 1 - n /\ Same(observations[m], heard'[n]) BY <4>2, <4>4
      <4> QED BY <4>3, <4>5, <2>1
    <3> QED BY <3>3, <3>4, <3>5
  <2> QED BY <2>2, <2>3
<1> QED BY <1>13, <1>14


(* Age is all that a tick changes, in what was heard and in what is kept.  *)
Aged(x) == IF x < Window THEN x + 1 ELSE x

LEMMA OlderHeard ==
    ASSUME NEW s \in Seq(HeardSet), NEW q, q = Older(s)
    PROVE  /\ q \in Seq(HeardSet) /\ Len(q) = Len(s)
           /\ \A n \in 1 .. Len(s) :
                  /\ q[n].iface = s[n].iface /\ q[n].answer = s[n].answer /\ q[n].whole = s[n].whole
                  /\ q[n].age = Aged(s[n].age)
<1>1. PICK N \in Nat : N = Len(s) /\ DOMAIN s = 1 .. N /\ \A n \in 1 .. N : s[n] \in HeardSet
  BY LenProperties, ElementOfSeq
<1>2. q = [n \in 1 .. N |-> [s[n] EXCEPT !.age = Aged(s[n].age)]] BY <1>1 DEF Older, Aged
<1>3. ASSUME NEW n \in 1 .. N
      PROVE  /\ q[n] \in HeardSet
             /\ q[n].iface = s[n].iface /\ q[n].answer = s[n].answer /\ q[n].whole = s[n].whole
             /\ q[n].age = Aged(s[n].age)
  <2>1. PICK x \in HeardSet : x = s[n] BY <1>1
  <2>2. q[n] = [x EXCEPT !.age = Aged(x.age)] BY <2>1, <1>2
  <2>3. Aged(x.age) \in 0 .. Window BY SnifferAssumption DEF Aged, HeardSet
  <2> QED BY <2>1, <2>2, <2>3 DEF HeardSet
<1>4. q \in Seq(HeardSet) /\ Len(q) = N
  <2>1. q = [n \in 1 .. N |-> q[n]] BY <1>2
  <2>2. q \in [1 .. N -> HeardSet] BY <2>1, <1>3
  <2>3. q \in Seq(HeardSet) BY <2>2, SeqDef
  <2> QED BY <2>2, <2>3, LenProperties
<1> QED BY <1>1, <1>3, <1>4

LEMMA OlderObservations ==
    ASSUME NEW s \in Seq(ObservationSet), NEW q, q = Older(s)
    PROVE  /\ q \in Seq(ObservationSet) /\ Len(q) = Len(s)
           /\ \A n \in 1 .. Len(s) :
                  /\ q[n].iface = s[n].iface /\ q[n].server = s[n].server /\ q[n].routes = s[n].routes
                  /\ q[n].age = Aged(s[n].age)
<1>1. PICK N \in Nat : N = Len(s) /\ DOMAIN s = 1 .. N /\ \A n \in 1 .. N : s[n] \in ObservationSet
  BY LenProperties, ElementOfSeq
<1>2. q = [n \in 1 .. N |-> [s[n] EXCEPT !.age = Aged(s[n].age)]] BY <1>1 DEF Older, Aged
<1>3. ASSUME NEW n \in 1 .. N
      PROVE  /\ q[n] \in ObservationSet
             /\ q[n].iface = s[n].iface /\ q[n].server = s[n].server /\ q[n].routes = s[n].routes
             /\ q[n].age = Aged(s[n].age)
  <2>1. PICK x \in ObservationSet : x = s[n] BY <1>1
  <2>2. q[n] = [x EXCEPT !.age = Aged(x.age)] BY <2>1, <1>2
  <2>3. Aged(x.age) \in 0 .. Window BY SnifferAssumption DEF Aged, ObservationSet
  <2> QED BY <2>1, <2>2, <2>3 DEF ObservationSet
<1>4. q \in Seq(ObservationSet) /\ Len(q) = N
  <2>1. q = [n \in 1 .. N |-> q[n]] BY <1>2
  <2>2. q \in [1 .. N -> ObservationSet] BY <2>1, <1>3
  <2>3. q \in Seq(ObservationSet) BY <2>2, SeqDef
  <2> QED BY <2>2, <2>3, LenProperties
<1> QED BY <1>1, <1>3, <1>4

LEMMA TickKeeps == SnifferInv /\ Tick => SnifferInv'
<1> SUFFICES ASSUME SnifferInv, Tick PROVE SnifferInv' OBVIOUS
<1> USE DEF SnifferInv
<1>1. PICK N \in Nat : N = Len(heard) /\ N <= MaxHeard BY DEF SnifferTypes
<1>2. PICK M \in Nat : M = Len(observations) /\ M <= MaxLen BY DEF SnifferTypes
<1>3. MaxLen \in Nat BY SnifferAssumption
<1>4. /\ heard' \in Seq(HeardSet) /\ Len(heard') = N
      /\ \A n \in 1 .. N : /\ heard'[n].iface = heard[n].iface /\ heard'[n].answer = heard[n].answer
                           /\ heard'[n].whole = heard[n].whole /\ heard'[n].age = Aged(heard[n].age)
  <2>1. heard \in Seq(HeardSet) /\ heard' = Older(heard) BY DEF SnifferTypes, Tick
  <2> QED BY <2>1, <1>1, OlderHeard
<1>5. /\ observations' \in Seq(ObservationSet) /\ Len(observations') = M
      /\ \A m \in 1 .. M :
            /\ observations'[m].iface = observations[m].iface /\ observations'[m].server = observations[m].server
            /\ observations'[m].routes = observations[m].routes
            /\ observations'[m].age = Aged(observations[m].age)
  <2>1. observations \in Seq(ObservationSet) /\ observations' = Older(observations) BY DEF SnifferTypes, Tick
  <2> QED BY <2>1, <1>2, OlderObservations
<1>6. SnifferTypes' BY <1>1, <1>2, <1>4, <1>5 DEF SnifferTypes, Tick
<1>7. \A m \in 1 .. M, n \in 1 .. N : Same(observations[m], heard[n]) => Same(observations'[m], heard'[n])
  BY <1>4, <1>5 DEF Same
<1>8. Sourced'
  <2>1. \A m \in 1 .. M : \E n \in 1 .. N : Same(observations[m], heard[n]) BY <1>1, <1>2 DEF Sourced
  <2>2. \A m \in 1 .. M : \E n \in 1 .. N : Same(observations'[m], heard'[n]) BY <2>1, <1>7
  <2> QED BY <2>2, <1>4, <1>5 DEF Sourced
<1>9. Retained'
  <2> SUFFICES ASSUME NEW n \in 1 .. Len(heard'), heard'[n].whole, n > Len(heard') - MaxLen
               PROVE  \E m \in 1 .. Len(observations') :
                          Len(observations') - m <= Len(heard') - n /\ Same(observations'[m], heard'[n])
    BY DEF Retained
  <2>1. n \in 1 .. N /\ n > N - MaxLen /\ heard[n].whole BY <1>3, <1>4
  <2>2. PICK m \in 1 .. M : M - m <= N - n /\ Same(observations[m], heard[n])
    BY <2>1, <1>1, <1>2 DEF Retained
  <2> QED BY <2>1, <2>2, <1>4, <1>5, <1>7
<1> QED BY <1>6, <1>8, <1>9

(* What the sniffer keeps is of what passed by: all of it but what is cut  *)
(* short or was pushed out by later answers.                               *)
THEOREM SnifferInvariant == Spec => []SnifferInv
<1>1. SnifferInv /\ [Next]_vars => SnifferInv'
  <2> SUFFICES ASSUME SnifferInv, [Next]_vars PROVE SnifferInv' OBVIOUS
  <2>1. CASE \E iface \in Iface, ports \in {<<67, 68>>, <<67, 67>>, <<68, 67>>}, answer \in Answer, shape \in Shapes :
                 Hear(iface, ports, answer, shape)
    BY <2>1, HearKeeps
  <2>2. CASE Disable BY <2>2 DEF Disable, SnifferInv, SnifferTypes, Sourced, Retained
  <2>3. CASE Tick BY <2>3, TickKeeps
  <2>4. CASE UNCHANGED vars BY <2>4 DEF vars, SnifferInv, SnifferTypes, Sourced, Retained
  <2> QED BY <2>1, <2>2, <2>3, <2>4 DEF Next
<1> QED BY <1>1, SnifferStart, PTL DEF Spec

(* The state is of its types: no observation is older than the window, and *)
(* no more of them are kept than the deque holds (sniff.py).               *)
THEOREM SnifferTypeCorrect == Spec => []SnifferTypeOK
<1>1. SnifferInv => SnifferTypeOK
  <2> SUFFICES ASSUME SnifferInv, NEW o \in ToSet(observations)
               PROVE  SnifferTypes /\ o.iface \in Iface /\ o.age \in 0 .. Window
    BY DEF SnifferInv, SnifferTypeOK, SnifferTypes
  <2>1. SnifferTypes BY DEF SnifferInv
  <2>2. o \in ObservationSet BY <2>1, ElementOfSeq, LenProperties DEF ToSet, SnifferTypes
  <2> QED BY <2>1, <2>2 DEF ObservationSet
<1> QED BY <1>1, SnifferInvariant, PTL

(* Every answer that counts still has its routes, and what encoding them   *)
(* yields is what the standard says and decodes to them (dhcp.py).         *)
THEOREM EncodingInverse == Spec => []EncodeInverse
<1>1. SnifferInv => EncodeInverse
  <2> SUFFICES ASSUME SnifferInv, NEW h \in Kept
               PROVE  /\ Decode(Encode(h.answer.routes)) = Routes(Canonical(h.answer.routes))
                      /\ Encode(h.answer.routes) = Wire(Canonical(h.answer.routes))
    BY DEF EncodeInverse
  <2>1. h \in HeardSet BY ElementOfSeq, LenProperties DEF Kept, SnifferInv, SnifferTypes
  <2>2. h.answer \in Answer BY <2>1 DEF HeardSet
  <2> QED BY <2>2, AnswerType, DecodeEncode
<1> QED BY <1>1, SnifferInvariant, PTL


----------------------------------------------------------------------------
(* What is made of it.                                                     *)

(* Clearing below a smaller unit first changes nothing.                    *)
LEMMA ClearedBelow ==
    ASSUME NEW b \in Byte, NEW u \in Units, NEW v \in Units, u <= v
    PROVE  (((b \div u) * u) \div v) * v = (b \div v) * v
BY DEF Byte, Units

LEMMA UnitsShrink ==
    ASSUME NEW w \in 0 .. 32, NEW x \in 0 .. w, NEW j \in 1 .. 4
    PROVE  Unit(w, j) <= Unit(x, j)
<1>1. Unit(w, j) \in Units /\ Unit(x, j) \in Units BY UnitInUnits
<1>2. CASE w >= 8 * j \/ x <= 8 * (j - 1) BY <1>1, <1>2 DEF Unit, Units
<1>3. CASE ~(w >= 8 * j \/ x <= 8 * (j - 1))
  <2>1. PICK d \in 1 .. 7 : d = 8 * j - w BY <1>3
  <2>2. PICK e \in 1 .. 7 : e = 8 * j - x BY <1>3
  <2>3. Unit(w, j) = Power(d) /\ Unit(x, j) = Power(e)
    <3>1. ~(w >= 8 * j) /\ ~(w <= 8 * (j - 1)) /\ ~(x >= 8 * j) /\ ~(x <= 8 * (j - 1)) BY <1>3
    <3>2. Unit(w, j) = 2 ^ (8 * j - w) /\ Unit(x, j) = 2 ^ (8 * j - x) BY <3>1 DEF Unit
    <3> QED BY <3>2, <2>1, <2>2, Powers
  <2>4. d <= e BY <2>1, <2>2
  <2> QED BY <2>3, <2>4 DEF Power
<1> QED BY <1>2, <1>3

LEMMA NetworkWithin ==
    ASSUME NEW o \in Octets4, NEW w \in 0 .. 32, NEW x \in 0 .. w
    PROVE  Network(Network(o, w).octets, x) = Network(o, x)
<1> DEFINE c == [j \in 1 .. 4 |-> (o[j] \div Unit(w, j)) * Unit(w, j)]
<1>1. Network(o, w).octets = c BY NetworkDef DEF Net
<1>2. ASSUME NEW j \in 1 .. 4 PROVE (c[j] \div Unit(x, j)) * Unit(x, j) = (o[j] \div Unit(x, j)) * Unit(x, j)
  <2>1. PICK b \in Byte : b = o[j] BY DEF Octets4, Byte
  <2>2. PICK u \in Units : u = Unit(w, j) BY UnitInUnits
  <2>3. x \in 0 .. 32 OBVIOUS
  <2>4. PICK v \in Units : v = Unit(x, j) BY <2>3, UnitInUnits
  <2>5. u <= v BY <2>2, <2>4, UnitsShrink
  <2>6. c[j] = (b \div u) * u BY <2>1, <2>2
  <2> HIDE DEF c
  <2> QED BY <2>1, <2>4, <2>5, <2>6, ClearedBelow
<1> HIDE DEF c
<1>3. [j \in 1 .. 4 |-> (c[j] \div Unit(x, j)) * Unit(x, j)] = [j \in 1 .. 4 |-> (o[j] \div Unit(x, j)) * Unit(x, j)]
  BY <1>2
<1> QED BY <1>1, <1>3, NetworkDef

(* Bits beyond its prefix do not decide whether a route bypasses the VPN.  *)
LEMMA CanonicalBypasses ==
    ASSUME NEW v \in ViaSet
    PROVE  Bypasses(CanonicalRoute(v)) <=> Bypasses(v)
<1>1. PICK o \in Octets4 : o = v.dest.octets BY DEF ViaSet, NetSet
<1>2. PICK w \in 0 .. 32 : w = v.dest.width BY DEF ViaSet, NetSet
<1>3. PICK d \in NetSet : d = Network(o, w) /\ d.width = w BY NetworkType
<1>4. CanonicalRoute(v).dest = d BY <1>1, <1>2, <1>3 DEF CanonicalRoute, RouteVia
<1>5. ASSUME NEW n \in VpnNets PROVE Within(d, n) <=> Within(v.dest, n)
  <2>1. PICK x \in 0 .. 32 : x = n.width BY SnifferAssumption
  <2>2. w >= x => Network(d.octets, x) = Network(o, x) BY <1>3, NetworkWithin
  <2> QED BY <2>1, <2>2, <1>1, <1>2, <1>3 DEF Within
<1> QED BY <1>2, <1>3, <1>4, <1>5 DEF Bypasses

LEMMA CanonicalHostile ==
    ASSUME NEW rs \in Seq(ViaSet)
    PROVE  (\E r \in ToSet(Canonical(rs)) : Bypasses(r)) <=> (\E r \in ToSet(rs) : Bypasses(r))
<1>1. PICK N \in Nat : N = Len(rs) /\ DOMAIN rs = 1 .. N /\ \A n \in 1 .. N : rs[n] \in ViaSet
  BY LenProperties, ElementOfSeq
<1>2. PICK c : c = Canonical(rs) OBVIOUS
<1>3. DOMAIN c = 1 .. N /\ \A n \in 1 .. N : c[n] = CanonicalRoute(rs[n])
  BY <1>1, <1>2, CanonicalType, LenProperties
<1>4. \A n \in 1 .. N : Bypasses(c[n]) <=> Bypasses(rs[n]) BY <1>1, <1>3, CanonicalBypasses
<1>5. ToSet(c) = {c[n] : n \in 1 .. N} /\ ToSet(rs) = {rs[n] : n \in 1 .. N} BY <1>1, <1>3 DEF ToSet
<1> QED BY <1>2, <1>4, <1>5

(* An answer that counts is heard[n] for an n the deque still has.         *)
LEMMA KeptObserved ==
    ASSUME SnifferInv, NEW h \in Kept
    PROVE  /\ h \in HeardSet
           /\ h.whole => \E o \in ToSet(observations) : Same(o, h)
<1>1. heard \in Seq(HeardSet) /\ observations \in Seq(ObservationSet) BY DEF SnifferInv, SnifferTypes
<1>2. DOMAIN heard = 1 .. Len(heard) /\ DOMAIN observations = 1 .. Len(observations) BY <1>1, LenProperties
<1>3. PICK n \in 1 .. Len(heard) : n > Len(heard) - MaxLen /\ h = heard[n] BY <1>2 DEF Kept
<1>4. h \in HeardSet BY <1>1, <1>3, ElementOfSeq
<1>5. ASSUME h.whole PROVE \E o \in ToSet(observations) : Same(o, h)
  <2>1. PICK m \in 1 .. Len(observations) : Same(observations[m], h)
    BY <1>3, <1>5 DEF SnifferInv, Retained
  <2> QED BY <2>1, <1>2 DEF ToSet
<1> QED BY <1>4, <1>5

LEMMA ObservedSent ==
    ASSUME SnifferInv, NEW o \in ToSet(observations)
    PROVE  o \in ObservationSet /\ \E h \in ToSet(heard) : h \in HeardSet /\ Same(o, h)
<1>1. heard \in Seq(HeardSet) /\ observations \in Seq(ObservationSet) BY DEF SnifferInv, SnifferTypes
<1>2. DOMAIN heard = 1 .. Len(heard) /\ DOMAIN observations = 1 .. Len(observations) BY <1>1, LenProperties
<1>3. PICK m \in 1 .. Len(observations) : o = observations[m] BY <1>2 DEF ToSet
<1>4. PICK n \in 1 .. Len(heard) : Same(o, heard[n]) BY <1>3 DEF SnifferInv, Sourced
<1> QED BY <1>1, <1>2, <1>3, <1>4, ElementOfSeq DEF ToSet

(* A sequence has finitely many elements, whose values are finitely many.  *)
LEMMA ElementsFinite ==
    ASSUME NEW S, NEW s \in Seq(S)
    PROVE  IsFiniteSet(ToSet(s))
<1>1. s \in Surjection(1 .. Len(s), ToSet(s))
  BY LenProperties DEF Surjection, ToSet
<1> QED BY <1>1, FS_Interval, FS_Surjection

LEMMA ServersFinite ==
    ASSUME NEW P, IsFiniteSet(P)
    PROVE  IsFiniteSet({p.server : p \in P}) /\ IsFiniteSet({p.answer.server : p \in P})
<1>1. PICK f : f = [p \in P |-> p.server] OBVIOUS
<1>2. PICK g : g = [p \in P |-> p.answer.server] OBVIOUS
<1>3. f \in Surjection(P, {p.server : p \in P}) BY <1>1 DEF Surjection
<1>4. g \in Surjection(P, {p.answer.server : p \in P}) BY <1>2 DEF Surjection
<1> QED BY <1>3, <1>4, FS_Surjection

(* Of the observations that would be reported alike, the first one is.     *)
LEMMA FirstReported ==
    ASSUME SnifferInv, NEW o \in ToSet(observations), Alarming(o)
    PROVE  \E report \in RogueOffers : report.iface = o.iface /\ report.listed = Named(o.routes)
<1> DEFINE alarming == {n \in DOMAIN observations : Alarming(observations[n])}
           print(n) == Fingerprint(Report(observations[n]))
<1>1. DOMAIN observations = 1 .. Len(observations) /\ Len(observations) \in Nat
  BY LenProperties DEF SnifferInv, SnifferTypes
<1>2. PICK n \in alarming : o = observations[n] BY DEF ToSet
<1> DEFINE alike == {m \in alarming : print(m) = print(n)}
<1>3. n \in alike BY <1>2
<1>4. alike \subseteq Nat BY <1>1
<1>5. PICK m \in alike : \A other \in alike : m <= other
  <2> HIDE DEF alike
  <2> QED BY <1>3, <1>4, LeastNatural
<1>6. m \in alarming /\ \A other \in alarming : print(other) = print(m) => m <= other
  <2>1. m \in alarming /\ print(m) = print(n) BY <1>5
  <2> HIDE DEF print, alarming
  <2>2. ASSUME NEW other \in alarming, print(other) = print(m) PROVE m <= other BY <1>5, <2>1, <2>2
  <2> QED BY <2>1, <2>2
<1>7. Report(observations[m]) \in RogueOffers BY <1>6 DEF RogueOffers
<1>8. Fingerprint(Report(observations[m])) = Fingerprint(Report(o)) BY <1>2, <1>5
<1>9. /\ Report(observations[m]).iface = o.iface
      /\ Report(observations[m]).listed = Named(o.routes)
  BY <1>8 DEF Fingerprint, Report
<1> QED BY <1>7, <1>9

(* Routes in another shape, more of the same after them, are named like    *)
(* those that were sent.                                                   *)
LEMMA NamedAlike ==
    ASSUME NEW s \in Seq(ViaSet), NEW q \in Seq(ViaSet), ToSet(q) = ToSet(s), Begins(s, q)
    PROVE  ToSet(Named(s)) \subseteq ToSet(Named(q))
<1> DEFINE bad == {r \in ToSet(s) : Bypasses(r)}
<1>1. Named(s) = Listed(Among(s, bad), MaxListed) /\ Named(q) = Listed(Among(q, bad), MaxListed) BY DEF Named
<1> HIDE DEF bad
<1>2. Among(s, bad) \in Seq(ViaSet) /\ Among(q, bad) \in Seq(ViaSet) BY AmongPlaces
<1>3. Begins(Among(s, bad), Among(q, bad)) BY AmongBegins
<1>4. MaxListed \in Nat BY SnifferAssumption
<1> QED BY <1>1, <1>2, <1>3, <1>4, ListedBegins

(* No more is named than there is.                                         *)
LEMMA NamedWithin ==
    ASSUME NEW q \in Seq(ViaSet)
    PROVE  ToSet(Named(q)) \subseteq ToSet(q)
<1> DEFINE bad == {r \in ToSet(q) : Bypasses(r)}
<1>1. PICK l \in Seq(ViaSet) : l = Among(q, bad) BY AmongPlaces
<1>2. \A k \in 1 .. Len(l) : l[k] \in bad BY <1>1, AmongPlaces
<1>3. MaxListed \in Nat BY SnifferAssumption
<1>4. PICK g \in Seq(ViaSet) : g = Listed(l, MaxListed) BY <1>3, ListedPlaces
<1>5. \A k \in 1 .. Len(g) : k \in 1 .. Len(l) /\ g[k] = l[k]
  <2>1. /\ Len(g) = IF Len(l) > MaxListed THEN MaxListed ELSE Len(l)
        /\ \A k \in 1 .. Len(g) : g[k] = l[k]
    BY <1>3, <1>4, ListedPlaces
  <2>2. Len(l) \in Nat OBVIOUS
  <2> QED BY <1>3, <2>1, <2>2
<1>6. Named(q) = g BY <1>1, <1>4 DEF Named
<1>7. DOMAIN g = 1 .. Len(g) BY LenProperties
<1> QED BY <1>2, <1>5, <1>6, <1>7 DEF ToSet

(* A hostile answer that passed by whole is reported while it is recent,   *)
(* in whatever shape its options came, unless MaxLen others came after it: *)
(* a report for its interface names the first of its routes that bypass    *)
(* the VPN (sniff.py, detect.py).                                          *)
THEOREM HostileReported == Spec => []OfferReported
<1>1. SnifferInv => OfferReported
  <2> SUFFICES ASSUME SnifferInv, NEW h \in Kept, Hostile(h), h.whole
               PROVE  \E report \in RogueOffers :
                          /\ report.iface = h.iface
                          /\ ToSet(Named(Canonical(h.answer.routes))) \subseteq ToSet(report.listed)
    BY DEF OfferReported
  <2>1. PICK o \in ToSet(observations) : Same(o, h) BY KeptObserved
  <2>2. h.answer.routes \in Seq(ViaSet) BY KeptObserved, AnswerType DEF HeardSet
  <2>3. \E r \in ToSet(Canonical(h.answer.routes)) : Bypasses(r) BY <2>2, CanonicalHostile DEF Hostile
  <2>4. /\ o.iface = h.iface /\ o.age = h.age /\ o.server = h.answer.server
        /\ ToSet(o.routes) = ToSet(Canonical(h.answer.routes))
        /\ Begins(Canonical(h.answer.routes), o.routes)
    BY <2>1 DEF Same
  <2>5. Alarming(o) BY <2>3, <2>4 DEF Hostile, Alarming, Recent
  <2>6. PICK report \in RogueOffers : report.iface = o.iface /\ report.listed = Named(o.routes) BY <2>5, FirstReported
  <2>7. o.routes \in Seq(ViaSet) /\ Canonical(h.answer.routes) \in Seq(ViaSet)
    BY <2>2, ObservedSent, CanonicalType DEF ObservationSet
  <2>8. ToSet(Named(Canonical(h.answer.routes))) \subseteq ToSet(Named(o.routes)) BY <2>4, <2>7, NamedAlike
  <2> QED BY <2>4, <2>6, <2>8
<1> QED BY <1>1, SnifferInvariant, PTL

(* What is reported was sent, by that server on that interface (detect.py).*)
THEOREM ReportsReal == Spec => []OfferReal
<1>1. SnifferInv => OfferReal
  <2> SUFFICES ASSUME SnifferInv, NEW report \in RogueOffers
               PROVE  \E h \in ToSet(heard) :
                          /\ Hostile(h) /\ h.iface = report.iface /\ h.answer.server = report.server
                          /\ ToSet(report.listed) \subseteq ToSet(Canonical(h.answer.routes))
    BY DEF OfferReal
  <2>1. PICK o \in ToSet(observations) : Alarming(o) /\ report = Report(o) BY DEF RogueOffers, ToSet
  <2>2. o.age < Window /\ o.server \notin Trusted /\ \E r \in ToSet(o.routes) : Bypasses(r)
    BY <2>1 DEF Alarming, Recent
  <2>3. PICK h \in ToSet(heard) : h \in HeardSet /\ Same(o, h) BY ObservedSent
  <2>4. o.routes # <<>>
    <3>1. ToSet(<<>>) = {} BY DEF ToSet
    <3> QED BY <3>1, <2>2
  <2>5. h.whole BY <2>3, <2>4 DEF Same
  <2>6. /\ o.iface = h.iface /\ o.age = h.age /\ o.server = h.answer.server
        /\ ToSet(o.routes) = ToSet(Canonical(h.answer.routes))
    BY <2>3, <2>5 DEF Same
  <2>7. h.answer.routes \in Seq(ViaSet) BY <2>3, AnswerType DEF HeardSet
  <2>8. \E r \in ToSet(h.answer.routes) : Bypasses(r) BY <2>2, <2>6, <2>7, CanonicalHostile
  <2>9. Hostile(h) BY <2>2, <2>6, <2>8 DEF Hostile
  <2>10. o.routes \in Seq(ViaSet) BY ObservedSent DEF ObservationSet
  <2>11. /\ report.iface = o.iface /\ report.server = o.server
         /\ ToSet(report.listed) \subseteq ToSet(o.routes)
    BY <2>1, <2>10, NamedWithin DEF Report
  <2> QED BY <2>6, <2>9, <2>11
<1> QED BY <1>1, SnifferInvariant, PTL

(* Servers competing on an interface are seen to, and only where they do   *)
(* (detect.py).                                                            *)
THEOREM CompetitionSeen == Spec => []CompetitorsSeen
<1> DEFINE From(H, iface) == {h.answer.server : h \in {g \in H : g.iface = iface /\ g.age < Window}} \ {NoServer}
<1>1. SnifferInv => CompetitorsSeen
  <2> SUFFICES ASSUME SnifferInv, NEW iface \in Iface
               PROVE  /\ Cardinality(From({h \in Kept : h.whole}, iface)) > 1 => Cardinality(Servers(iface)) > 1
                      /\ Cardinality(Servers(iface)) > 1 => Cardinality(From(ToSet(heard), iface)) > 1
    BY DEF CompetitorsSeen, Crowded
  <2>1. heard \in Seq(HeardSet) /\ observations \in Seq(ObservationSet) BY DEF SnifferInv, SnifferTypes
  <2>2. From({h \in Kept : h.whole}, iface) \subseteq Servers(iface)
    <3> SUFFICES ASSUME NEW h \in Kept, h.whole, h.iface = iface, h.age < Window, h.answer.server # NoServer
                 PROVE  h.answer.server \in Servers(iface)
      OBVIOUS
    <3>1. PICK o \in ToSet(observations) : Same(o, h) BY KeptObserved
    <3>2. o.iface = iface /\ o.age = h.age /\ o.server = h.answer.server BY <3>1 DEF Same
    <3> QED BY <3>2 DEF Servers, Recent, SameInterface
  <2>3. Servers(iface) \subseteq From(ToSet(heard), iface)
    <3> SUFFICES ASSUME NEW o \in ToSet(observations), o.iface = iface, o.age < Window, o.server # NoServer
                 PROVE  o.server \in From(ToSet(heard), iface)
      BY DEF Servers, Recent, SameInterface
    <3>1. PICK h \in ToSet(heard) : Same(o, h) BY ObservedSent
    <3>2. h.iface = iface /\ h.age = o.age /\ o.server = h.answer.server BY <3>1 DEF Same
    <3> QED BY <3>2
  <2>4. IsFiniteSet(Servers(iface)) /\ IsFiniteSet(From(ToSet(heard), iface))
    <3>1. IsFiniteSet(ToSet(observations)) /\ IsFiniteSet(ToSet(heard)) BY <2>1, ElementsFinite
    <3>2. PICK P : P = {p \in ToSet(observations) : Recent(p) /\ SameInterface(p, iface) /\ p.server # NoServer} OBVIOUS
    <3>3. PICK Q : Q = {g \in ToSet(heard) : g.iface = iface /\ g.age < Window} OBVIOUS
    <3>4. IsFiniteSet(P) /\ IsFiniteSet(Q) BY <3>1, <3>2, <3>3, FS_Subset
    <3>5. IsFiniteSet({o.server : o \in P}) /\ IsFiniteSet({h.answer.server : h \in Q}) BY <3>4, ServersFinite
    <3>6. IsFiniteSet({h.answer.server : h \in Q} \ {NoServer}) BY <3>5, FS_Subset
    <3> QED BY <3>2, <3>3, <3>5, <3>6 DEF Servers
  <2> HIDE DEF From
  <2>5. /\ Cardinality(From({h \in Kept : h.whole}, iface)) \in Nat
        /\ Cardinality(From({h \in Kept : h.whole}, iface)) <= Cardinality(Servers(iface))
    <3>1. IsFiniteSet(From({h \in Kept : h.whole}, iface)) BY <2>2, <2>4, FS_Subset
    <3> QED BY <3>1, <2>2, <2>4, FS_Subset, FS_CardinalityType
  <2>6. /\ Cardinality(Servers(iface)) \in Nat /\ Cardinality(From(ToSet(heard), iface)) \in Nat
        /\ Cardinality(Servers(iface)) <= Cardinality(From(ToSet(heard), iface))
    BY <2>3, <2>4, FS_Subset, FS_CardinalityType
  <2> QED BY <2>5, <2>6
<1> QED BY <1>1, SnifferInvariant, PTL


----------------------------------------------------------------------------
(* Lease files.                                                            *)

NetsBody(words, i, f) ==
    IF i > Len(words) THEN <<>>
    ELSE IF ~words[i].net THEN f[i + 1]
    ELSE <<RouteVia(Network(words[i].octets, words[i].width),
                    IF i = Len(words) THEN Addr(<<0, 0, 0, 0>>) ELSE words[i + 1])>> \o f[i + 2]

Reading(words, f) == f = [i \in 1 .. Len(words) + 2 |-> NetsBody(words, i, f)]

(* A text of networks with their gateways is read pair by pair.            *)
LEMMA ReadNets ==
    ASSUME NEW rs \in Seq(ViaSet)
    PROVE  ParseNets(FlattenSeq([n \in DOMAIN rs |-> <<rs[n].dest, rs[n].gw>>])) = Routes(Canonical(rs))
<1> DEFINE WordSet == NetSet \cup AddrSet
<1>1. PICK N \in Nat : N = Len(rs) /\ DOMAIN rs = 1 .. N /\ \A n \in 1 .. N : rs[n] \in ViaSet
  BY LenProperties, ElementOfSeq
<1>2. PICK c \in Seq(ViaSet) : c = Canonical(rs) /\ Len(c) = N /\ \A n \in 1 .. N : c[n] = CanonicalRoute(rs[n])
  BY <1>1, CanonicalType
<1>3. PICK pairs : pairs = [n \in 1 .. N |-> <<rs[n].dest, rs[n].gw>>] OBVIOUS
<1>4. /\ pairs \in Seq(Seq(WordSet)) /\ Len(pairs) = N
      /\ \A n \in 1 .. N : Len(pairs[n]) = 2 /\ pairs[n][1] = rs[n].dest /\ pairs[n][2] = rs[n].gw
  <2>1. ASSUME NEW n \in 1 .. N
        PROVE  /\ pairs[n] \in Seq(WordSet)
               /\ Len(pairs[n]) = 2 /\ pairs[n][1] = rs[n].dest /\ pairs[n][2] = rs[n].gw
    <3>1. PICK d \in WordSet : d = rs[n].dest BY <1>1 DEF ViaSet
    <3>2. PICK g \in WordSet : g = rs[n].gw BY <1>1 DEF ViaSet
    <3>3. pairs[n] = <<d, g>> BY <1>3, <3>1, <3>2
    <3> HIDE DEF WordSet
    <3> QED BY <3>1, <3>2, <3>3
  <2>2. pairs = [n \in 1 .. N |-> pairs[n]] BY <1>3
  <2> HIDE DEF WordSet
  <2>3. pairs \in [1 .. N -> Seq(WordSet)] BY <2>1, <2>2
  <2>4. pairs \in Seq(Seq(WordSet)) BY <2>3, SeqDef
  <2> QED BY <2>1, <2>3, <2>4, LenProperties
<1>5. PICK w : w = FlattenSeq(pairs) OBVIOUS
<1>6. /\ Len(w) = 2 * N
      /\ \A n \in 1 .. N : w[2 * n - 1] = rs[n].dest /\ w[2 * n] = rs[n].gw
  <2> HIDE DEF WordSet
  <2> QED BY <1>4, <1>5, FlattenPairs, ZenonT(30)
<1>7. \A n \in 1 .. N : rs[n].dest.net /\ ~rs[n].gw.net BY <1>1 DEF ViaSet, NetSet, AddrSet
<1>8. \A i \in 1 .. 2 * N : \E n \in 1 .. N : i = 2 * n - 1 \/ i = 2 * n
  <2> SUFFICES ASSUME NEW i \in 1 .. 2 * N PROVE \E n \in 1 .. N : i = 2 * n - 1 \/ i = 2 * n OBVIOUS
  <2>1. PICK n \in Int : n = (i + 1) \div 2 OBVIOUS
  <2>2. n \in 1 .. N /\ (i = 2 * n - 1 \/ i = 2 * n) BY <2>1
  <2> QED BY <2>2
<1>9. ASSUME NEW f, NEW n \in 1 .. N, NEW i, NEW j, NEW k, i = 2 * n - 1, j = 2 * n, k = 2 * n + 1
      PROVE  NetsBody(w, i, f) = <<c[n]>> \o f[k] /\ NetsBody(w, j, f) = f[k]
  <2>1. ~(i > Len(w)) /\ ~(j > Len(w)) /\ i # Len(w) /\ i + 1 = j /\ i + 2 = k /\ j + 1 = k BY <1>6, <1>9
  <2>2. w[i] = rs[n].dest /\ w[j] = rs[n].gw BY <1>6, <1>9
  <2>3. c[n] = RouteVia(Network(w[i].octets, w[i].width), w[j]) BY <2>2, <1>2 DEF CanonicalRoute
  <2> QED BY <2>1, <2>2, <2>3, <1>7 DEF NetsBody
<1>10. PICK u : u = [i \in 1 .. 2 * N + 2 |-> SubSeq(c, i \div 2 + 1, N)] OBVIOUS
<1>11. ASSUME NEW n \in 1 .. N + 1
       PROVE  u[2 * n - 1] = SubSeq(c, n, N) /\ u[2 * n] = SubSeq(c, n + 1, N)
  <2>1. PICK i \in 1 .. 2 * N + 2 : i = 2 * n - 1 OBVIOUS
  <2>2. PICK j \in 1 .. 2 * N + 2 : j = 2 * n OBVIOUS
  <2>3. i \div 2 + 1 = n /\ j \div 2 + 1 = n + 1 BY <2>1, <2>2
  <2> QED BY <2>1, <2>2, <2>3, <1>10
<1>12. ASSUME NEW i \in 1 .. 2 * N + 2 PROVE u[i] = NetsBody(w, i, u)
  <2>1. CASE i > 2 * N
    <3>1. SubSeq(c, i \div 2 + 1, N) = <<>>
      <4>1. PICK m \in Nat : m = i \div 2 + 1 /\ m > N BY <2>1
      <4>2. N \in 0 .. Len(c) /\ m \in Nat \ {0} BY <1>2, <4>1
      <4>3. SubSeq(c, m, N) \in Seq(ViaSet) /\ Len(SubSeq(c, m, N)) = 0 BY <4>1, <4>2, Between
      <4> QED BY <4>1, <4>3, EmptySeq
    <3>2. u[i] = <<>> BY <3>1, <1>10
    <3> QED BY <3>2, <2>1, <1>6 DEF NetsBody
  <2>2. CASE ~(i > 2 * N)
    <3>1. PICK n \in 1 .. N : i = 2 * n - 1 \/ i = 2 * n
      <4>1. i \in 1 .. 2 * N BY <2>2
      <4> QED BY <4>1, <1>8
    <3>2. PICK k : k = 2 * n + 1 OBVIOUS
    <3>3. u[k] = SubSeq(c, n + 1, N)
      <4>1. n + 1 \in 1 .. N + 1 /\ 2 * (n + 1) - 1 = k BY <3>2
      <4> QED BY <4>1, <1>11
    <3>4. n \in 1 .. N + 1 OBVIOUS
    <3>5. CASE i = 2 * n - 1
      <4>1. u[i] = SubSeq(c, n, N) BY <3>4, <3>5, <1>11
      <4>2. SubSeq(c, n, N) = <<c[n]>> \o SubSeq(c, n + 1, N) BY <1>2, RestHead
      <4>3. PICK j : j = 2 * n OBVIOUS
      <4>4. NetsBody(w, i, u) = <<c[n]>> \o u[k] BY <3>2, <3>5, <4>3, <1>9
      <4> QED BY <4>1, <4>2, <4>4, <3>3
    <3>6. CASE i = 2 * n
      <4>1. u[i] = SubSeq(c, n + 1, N) BY <3>4, <3>6, <1>11
      <4>2. PICK j : j = 2 * n - 1 OBVIOUS
      <4>3. NetsBody(w, i, u) = u[k] BY <3>2, <3>6, <4>2, <1>9
      <4> QED BY <4>1, <4>3, <3>3
    <3> QED BY <3>1, <3>5, <3>6
  <2> QED BY <2>1, <2>2
<1>13. Reading(w, u)
  <2>1. u = [i \in 1 .. 2 * N + 2 |-> u[i]] BY <1>10
  <2> QED BY <2>1, <1>12, <1>6 DEF Reading
<1>14. PICK h : h = CHOOSE f : Reading(w, f) OBVIOUS
<1>15. Reading(w, h) BY <1>13, <1>14
<1>16. ParseNets(w) = Routes(h[1])
  <2>1. ParseNets(w) = Routes((CHOOSE f : Reading(w, f))[1]) BY DEF ParseNets, Reading, NetsBody
  <2> QED BY <2>1, <1>14
<1>17. h[1] = u[1]
  <2> DEFINE T == {m \in 0 .. 2 * N : h[m + 1] = u[m + 1]}
  <2>1. \A i \in 1 .. 2 * N + 2 : h[i] = NetsBody(w, i, h) BY <1>15, <1>6 DEF Reading
  <2>2. ASSUME NEW m \in 0 .. 2 * N, \A l \in m + 1 .. 2 * N : l \in T PROVE m \in T
    <3>1. PICK i \in 1 .. 2 * N + 2 : i = m + 1 OBVIOUS
    <3>2. CASE i > 2 * N BY <3>1, <3>2, <2>1, <1>6, <1>12 DEF NetsBody
    <3>3. CASE ~(i > 2 * N)
      <4>1. PICK n \in 1 .. N : i = 2 * n - 1 \/ i = 2 * n
        <5>1. i \in 1 .. 2 * N BY <3>3
        <5> QED BY <5>1, <1>8
      <4>2. PICK k \in 1 .. 2 * N + 1 : k = 2 * n + 1 OBVIOUS
      <4>3. PICK a : a = 2 * n - 1 OBVIOUS
      <4>4. PICK b : b = 2 * n OBVIOUS
      <4>5. h[k] = u[k]
        <5>1. k - 1 \in m + 1 .. 2 * N /\ k - 1 + 1 = k BY <4>1, <4>2, <3>1
        <5> QED BY <5>1, <2>2
      <4>6. NetsBody(w, i, h) = NetsBody(w, i, u)
        <5>1. /\ NetsBody(w, a, h) = <<c[n]>> \o h[k] /\ NetsBody(w, b, h) = h[k]
              /\ NetsBody(w, a, u) = <<c[n]>> \o u[k] /\ NetsBody(w, b, u) = u[k]
          BY <4>2, <4>3, <4>4, <1>9
        <5> QED BY <5>1, <4>1, <4>3, <4>4, <4>5
      <4> QED BY <4>6, <3>1, <2>1, <1>12
    <3> QED BY <3>2, <3>3
  <2>3. 0 \in T
    <3> HIDE DEF T
    <3>1. PICK L \in Nat : L = 2 * N OBVIOUS
    <3>2. 0 .. L \subseteq T BY <3>1, <2>2, DownwardInduction
    <3> QED BY <3>2
  <2> QED BY <2>3
<1>18. u[1] = c
  <2>1. u[1] = SubSeq(c, 1, N)
    <3>1. 1 \in 1 .. N + 1 /\ 2 * 1 - 1 = 1 OBVIOUS
    <3> QED BY <3>1, <1>11
  <2>2. SubSeq(c, 1, Len(c)) = c OBVIOUS
  <2> QED BY <2>1, <2>2, <1>2
<1> QED BY <1>1, <1>2, <1>3, <1>5, <1>16, <1>17, <1>18


NumberBody(digits, base, n, f) == IF n = 0 THEN 0 ELSE f[n - 1] * base + digits[n]

Numbering(digits, base, f) == f = [n \in 0 .. Len(digits) |-> NumberBody(digits, base, n, f)]

LEMMA NumberIsRecursive ==
    ASSUME NEW digits, NEW base, NEW u, Numbering(digits, base, u)
    PROVE  \E f : Numbering(digits, base, f) /\ Number(digits, base) = f[Len(digits)]
<1>1. Numbering(digits, base, CHOOSE f : Numbering(digits, base, f)) OBVIOUS
<1>2. Number(digits, base) = (CHOOSE f : Numbering(digits, base, f))[Len(digits)]
  BY DEF Number, Numbering, NumberBody
<1> QED BY <1>1, <1>2

LEMMA OneDigit ==
    ASSUME NEW base \in Nat, NEW a \in Nat
    PROVE  Number(<<a>>, base) = a
<1>1. PICK d : d = <<a>> OBVIOUS
<1>2. Len(d) = 1 /\ d[1] = a BY <1>1
<1>3. PICK u : u = [n \in 0 .. 1 |-> IF n = 0 THEN 0 ELSE a]
  OBVIOUS
<1>4. Numbering(d, base, u)
  <2>1. \A n \in 0 .. 1 : u[n] = NumberBody(d, base, n, u) BY <1>2, <1>3 DEF NumberBody
  <2>2. u = [n \in 0 .. 1 |-> u[n]] BY <1>3
  <2> QED BY <2>1, <2>2, <1>2 DEF Numbering
<1>5. PICK f : Numbering(d, base, f) /\ Number(d, base) = f[1] BY <1>2, <1>4, NumberIsRecursive
<1>6. \A n \in 0 .. 1 : f[n] = NumberBody(d, base, n, f) BY <1>2, <1>5 DEF Numbering
<1>7. f[0] = 0 /\ f[1] = f[0] * base + a
  BY <1>2, <1>6 DEF NumberBody
<1>8. f[1] = a BY <1>7
<1> QED BY <1>1, <1>5, <1>7, <1>8

LEMMA TwoDigits ==
    ASSUME NEW base \in Nat, NEW a \in Nat, NEW b \in Nat
    PROVE  Number(<<a, b>>, base) = a * base + b
<1>1. PICK d : d = <<a, b>> OBVIOUS
<1>2. Len(d) = 2 /\ d[1] = a /\ d[2] = b BY <1>1
<1>3. PICK u : u = [n \in 0 .. 2 |-> IF n = 0 THEN 0 ELSE IF n = 1 THEN a ELSE a * base + b]
  OBVIOUS
<1>4. Numbering(d, base, u)
  <2>1. \A n \in 0 .. 2 : u[n] = NumberBody(d, base, n, u) BY <1>2, <1>3 DEF NumberBody
  <2>2. u = [n \in 0 .. 2 |-> u[n]] BY <1>3
  <2> QED BY <2>1, <2>2, <1>2 DEF Numbering
<1>5. PICK f : Numbering(d, base, f) /\ Number(d, base) = f[2] BY <1>2, <1>4, NumberIsRecursive
<1>6. \A n \in 0 .. 2 : f[n] = NumberBody(d, base, n, f) BY <1>2, <1>5 DEF Numbering
<1>7. f[0] = 0 /\ f[1] = f[0] * base + a /\ f[2] = f[1] * base + b
  BY <1>2, <1>6 DEF NumberBody
<1>8. f[1] = a BY <1>7
<1> QED BY <1>1, <1>5, <1>7, <1>8

LEMMA ThreeDigits ==
    ASSUME NEW base \in Nat, NEW a \in Nat, NEW b \in Nat, NEW c \in Nat
    PROVE  Number(<<a, b, c>>, base) = (a * base + b) * base + c
<1>1. PICK d : d = <<a, b, c>> OBVIOUS
<1>2. Len(d) = 3 /\ d[1] = a /\ d[2] = b /\ d[3] = c BY <1>1
<1>3. PICK u : u = [n \in 0 .. 3 |-> IF n = 0 THEN 0 ELSE IF n = 1 THEN a ELSE IF n = 2 THEN a * base + b
                                 ELSE (a * base + b) * base + c]
  OBVIOUS
<1>4. Numbering(d, base, u)
  <2>1. \A n \in 0 .. 3 : u[n] = NumberBody(d, base, n, u) BY <1>2, <1>3 DEF NumberBody
  <2>2. u = [n \in 0 .. 3 |-> u[n]] BY <1>3
  <2> QED BY <2>1, <2>2, <1>2 DEF Numbering
<1>5. PICK f : Numbering(d, base, f) /\ Number(d, base) = f[3] BY <1>2, <1>4, NumberIsRecursive
<1>6. \A n \in 0 .. 3 : f[n] = NumberBody(d, base, n, f) BY <1>2, <1>5 DEF Numbering
<1>7. f[0] = 0 /\ f[1] = f[0] * base + a /\ f[2] = f[1] * base + b /\ f[3] = f[2] * base + c
  BY <1>2, <1>6 DEF NumberBody
<1>8. f[1] = a BY <1>7
<1> QED BY <1>1, <1>5, <1>7, <1>8

(* Digits are those of the byte.                                           *)
LEMMA Digits ==
    ASSUME NEW b \in Byte
    PROVE  /\ IsDecimal(Decimal(b)) /\ ~Decimal(b).hex /\ Number(Decimal(b).digits, 10) = b
           /\ HexDigits(b) = <<b \div 16, b % 16>> /\ 16 * (b \div 16) + (b % 16) = b
           /\ Number(HexDigits(b), 16) = b
           /\ \A d \in {1, 2} : HexDigits(b)[d] \in 0 .. 15
<1>1. b \in 0 .. 255 BY DEF Byte
<1>2. IsDecimal(Decimal(b)) /\ ~Decimal(b).hex /\ Number(Decimal(b).digits, 10) = b
  <2>1. CASE b < 10
    <3>1. Decimal(b) = Word(FALSE, <<b>>) BY <2>1 DEF Decimal
    <3>2. Number(<<b>>, 10) = b BY <1>1, OneDigit
    <3> QED BY <3>1, <3>2, <2>1 DEF Word, IsDecimal
  <2>2. CASE ~(b < 10) /\ b < 100
    <3>1. PICK x \in 0 .. 9 : x = b \div 10 BY <2>2, <1>1
    <3>2. PICK y \in 0 .. 9 : y = b % 10 BY <1>1
    <3>3. Decimal(b) = Word(FALSE, <<x, y>>) BY <2>2, <3>1, <3>2 DEF Decimal
    <3>4. Number(<<x, y>>, 10) = x * 10 + y BY TwoDigits
    <3>5. x * 10 + y = b BY <3>1, <3>2, <1>1
    <3> QED BY <3>3, <3>4, <3>5 DEF Word, IsDecimal
  <2>3. CASE ~(b < 100)
    <3>1. PICK x \in 0 .. 9 : x = b \div 100 BY <1>1
    <3>2. PICK y \in 0 .. 9 : y = (b \div 10) % 10 BY <1>1
    <3>3. PICK z \in 0 .. 9 : z = b % 10 BY <1>1
    <3>4. ~(b < 10) BY <2>3, <1>1
    <3>5. Decimal(b) = Word(FALSE, <<x, y, z>>) BY <2>3, <3>1, <3>2, <3>3, <3>4 DEF Decimal
    <3>6. Number(<<x, y, z>>, 10) = (x * 10 + y) * 10 + z
      <4>1. PICK ten \in Nat : ten = 10 OBVIOUS
      <4>2. x \in Nat /\ y \in Nat /\ z \in Nat OBVIOUS
      <4>3. Number(<<x, y, z>>, ten) = (x * ten + y) * ten + z BY <4>2, ThreeDigits
      <4> QED BY <4>1, <4>3
    <3>7. (x * 10 + y) * 10 + z = b BY <3>1, <3>2, <3>3, <1>1
    <3> QED BY <3>5, <3>6, <3>7 DEF Word, IsDecimal
  <2> QED BY <2>1, <2>2, <2>3, <1>1
<1>3. PICK x \in 0 .. 15 : x = b \div 16 BY <1>1
<1>4. PICK y \in 0 .. 15 : y = b % 16 BY <1>1
<1>5. HexDigits(b) = <<x, y>> BY <1>3, <1>4 DEF HexDigits
<1>6. x * 16 + y = b BY <1>1, <1>3, <1>4
<1>7. Number(<<x, y>>, 16) = x * 16 + y BY TwoDigits
<1> QED BY <1>2, <1>3, <1>4, <1>5, <1>6, <1>7

(* Numbers, one for each byte, are read as the bytes.                      *)
LEMMA ReadWords ==
    ASSUME NEW bytes \in Seq(Byte), NEW base, NEW words, DOMAIN words = DOMAIN bytes,
           \A j \in DOMAIN bytes : Number(words[j].digits, base) = bytes[j]
    PROVE  ReadBytes(words, base) = Decode(bytes)
<1>1. DOMAIN bytes = 1 .. Len(bytes) /\ \A j \in DOMAIN bytes : bytes[j] \in Byte
  BY LenProperties, ElementOfSeq
<1>2. PICK read : read = [j \in DOMAIN words |-> Number(words[j].digits, base)] OBVIOUS
<1>3. read = bytes
  <2>1. bytes = [j \in DOMAIN bytes |-> bytes[j]] BY LenProperties
  <2> QED BY <2>1, <1>2
<1>4. ASSUME NEW j \in DOMAIN read PROVE read[j] <= 255
  <2>1. PICK b \in 0 .. 255 : b = read[j] BY <1>1, <1>3 DEF Byte
  <2>2. b <= 255 BY ONLY b \in 0 .. 255
  <2> QED BY <2>1, <2>2, Zenon
<1> QED BY <1>2, <1>3, <1>4 DEF ReadBytes

LEMMA ReadDecimals ==
    ASSUME NEW bytes \in Seq(Byte)
    PROVE  ParseNumbers([j \in DOMAIN bytes |-> Decimal(bytes[j])]) = Decode(bytes)
<1>1. \A j \in DOMAIN bytes : bytes[j] \in Byte BY LenProperties, ElementOfSeq
<1>2. PICK w : w = [j \in DOMAIN bytes |-> Decimal(bytes[j])] OBVIOUS
<1>3. /\ DOMAIN w = DOMAIN bytes
      /\ \A j \in DOMAIN bytes : IsDecimal(w[j]) /\ ~w[j].hex /\ Number(w[j].digits, 10) = bytes[j]
  BY <1>1, <1>2, Digits
<1>4. ~(Len(w) = 1 /\ w[1].hex)
  <2>1. DOMAIN bytes = 1 .. Len(bytes) /\ Len(bytes) \in Nat BY LenProperties
  <2>2. w \in Seq({Decimal(b) : b \in Byte})
    <3>1. w \in [1 .. Len(bytes) -> {Decimal(b) : b \in Byte}] BY <1>1, <1>2, <2>1
    <3> QED BY <3>1, <2>1, SeqDef
  <2>3. Len(w) = 1 => 1 \in DOMAIN w BY <2>2, LenProperties
  <2> QED BY <2>3, <1>3
<1>5. Decimals(w) BY <1>3 DEF Decimals
<1>6. ParseNumbers(w) = ReadBytes(w, 10) BY <1>4, <1>5 DEF ParseNumbers
<1>7. ReadBytes(w, 10) = Decode(bytes) BY <1>3, ReadWords
<1> QED BY <1>2, <1>6, <1>7

(* A dump of octets in hexadecimal, when it has a digit above nine.        *)
LEMMA ReadHexWords ==
    ASSUME NEW bytes \in Seq(Byte),
           bytes = <<>> \/ \E j \in DOMAIN bytes : \E d \in {1, 2} : HexDigits(bytes[j])[d] > 9
    PROVE  ParseNumbers([j \in DOMAIN bytes |-> Word(FALSE, HexDigits(bytes[j]))]) = Decode(bytes)
<1>1. DOMAIN bytes = 1 .. Len(bytes) /\ Len(bytes) \in Nat /\ \A j \in DOMAIN bytes : bytes[j] \in Byte
  BY LenProperties, ElementOfSeq
<1>2. PICK w : w = [j \in DOMAIN bytes |-> Word(FALSE, HexDigits(bytes[j]))] OBVIOUS
<1>3. /\ DOMAIN w = DOMAIN bytes
      /\ \A j \in DOMAIN bytes : ~w[j].hex /\ w[j].digits = HexDigits(bytes[j])
  BY <1>2 DEF Word
<1>4. \A j \in DOMAIN bytes :
          /\ Number(w[j].digits, 16) = bytes[j] /\ Len(w[j].digits) = 2
          /\ \A d \in {1, 2} : w[j].digits[d] \in 0 .. 15
  BY <1>1, <1>3, Digits
<1>5. ~(Len(w) = 1 /\ w[1].hex)
  <2>1. w \in Seq({w[j] : j \in 1 .. Len(bytes)})
    <3>1. w = [j \in 1 .. Len(bytes) |-> w[j]] BY <1>1, <1>2
    <3>2. w \in [1 .. Len(bytes) -> {w[j] : j \in 1 .. Len(bytes)}] BY <3>1
    <3> QED BY <3>2, <1>1, SeqDef
  <2>2. Len(w) = 1 => 1 \in DOMAIN w BY <2>1, LenProperties
  <2> QED BY <2>2, <1>3
<1>6. \A j \in DOMAIN w : IsHex(w[j]) BY <1>3, <1>4 DEF IsHex
<1>7. ReadBytes(w, 16) = Decode(bytes) BY <1>3, <1>4, ReadWords
<1>8. CASE bytes = <<>>
  <2>1. DOMAIN bytes = {} BY <1>8
  <2>2. Decimals(w) BY <2>1, <1>3 DEF Decimals
  <2>3. ReadBytes(w, 10) = Decode(bytes) BY <2>1, <1>3, ReadWords
  <2> QED BY <2>2, <2>3, <1>2, <1>5 DEF ParseNumbers
<1>9. CASE bytes # <<>>
  <2>1. PICK j \in DOMAIN bytes, d \in {1, 2} : HexDigits(bytes[j])[d] > 9 BY <1>9
  <2>2. ~IsDecimal(w[j])
    <3>1. PICK e \in Seq(0 .. 15) : e = w[j].digits /\ Len(e) = 2 /\ e[d] > 9
      <4>1. HexDigits(bytes[j]) \in Seq(0 .. 15)
        <5>1. PICK b \in 0 .. 255 : b = bytes[j] BY <1>1 DEF Byte
        <5>2. PICK x \in 0 .. 15 : x = b \div 16 OBVIOUS
        <5>3. PICK y \in 0 .. 15 : y = b % 16 OBVIOUS
        <5>4. HexDigits(b) = <<x, y>> BY <5>2, <5>3 DEF HexDigits
        <5>5. <<x, y>> \in Seq(0 .. 15) OBVIOUS
        <5> QED BY <5>1, <5>4, <5>5
      <4> QED BY <4>1, <2>1, <1>3, <1>4
    <3>2. d \in DOMAIN e BY <3>1, LenProperties
    <3>3. e[d] \in 0 .. 15 BY <3>1, <3>2, ElementOfSeq, LenProperties
    <3>4. ~(e[d] < 10) BY <3>1, <3>3, SMTT(30)
    <3> QED BY <3>1, <3>2, <3>4 DEF IsDecimal
  <2>3. ~Decimals(w) BY <2>2, <1>3 DEF Decimals
  <2> QED BY <2>3, <1>2, <1>5, <1>6, <1>7 DEF ParseNumbers
<1> QED BY <1>8, <1>9

(* All octets in one number after 0x.                                      *)
LEMMA ReadHexNumber ==
    ASSUME NEW bytes \in Seq(Byte)
    PROVE  ParseNumbers(<<Word(TRUE, FlattenSeq([j \in DOMAIN bytes |-> HexDigits(bytes[j])]))>>) = Decode(bytes)
<1>1. PICK N \in Nat : N = Len(bytes) /\ DOMAIN bytes = 1 .. N /\ \A j \in 1 .. N : bytes[j] \in Byte
  BY LenProperties, ElementOfSeq
<1>2. PICK pairs : pairs = [j \in 1 .. N |-> HexDigits(bytes[j])] OBVIOUS
<1>3. \A j \in 1 .. N : /\ pairs[j] \in Seq(0 .. 15) /\ Len(pairs[j]) = 2
                        /\ 16 * pairs[j][1] + pairs[j][2] = bytes[j]
  <2> SUFFICES ASSUME NEW j \in 1 .. N
               PROVE  /\ pairs[j] \in Seq(0 .. 15) /\ Len(pairs[j]) = 2
                      /\ 16 * pairs[j][1] + pairs[j][2] = bytes[j]
    OBVIOUS
  <2>1. PICK b \in 0 .. 255 : b = bytes[j] BY <1>1 DEF Byte
  <2>2. PICK x \in 0 .. 15 : x = b \div 16 OBVIOUS
  <2>3. PICK y \in 0 .. 15 : y = b % 16 OBVIOUS
  <2>4. pairs[j] = <<x, y>> BY <1>2, <2>1, <2>2, <2>3 DEF HexDigits
  <2>5. 16 * x + y = b BY <2>2, <2>3
  <2> QED BY <2>1, <2>4, <2>5
<1>4. pairs \in Seq(Seq(0 .. 15)) /\ Len(pairs) = N
  <2>1. pairs = [j \in 1 .. N |-> pairs[j]] BY <1>2
  <2>2. pairs \in [1 .. N -> Seq(0 .. 15)] BY <2>1, <1>3
  <2>3. pairs \in Seq(Seq(0 .. 15)) BY <2>2, SeqDef
  <2> QED BY <2>2, <2>3, LenProperties
<1>5. PICK d \in Seq(0 .. 15) : d = FlattenSeq(pairs) /\ Len(d) = 2 * N
                /\ \A j \in 1 .. N : d[2 * j - 1] = pairs[j][1] /\ d[2 * j] = pairs[j][2]
  <2>1. \A j \in 1 .. Len(pairs) : Len(pairs[j]) = 2 BY <1>3, <1>4
  <2>2. /\ FlattenSeq(pairs) \in Seq(0 .. 15) /\ Len(FlattenSeq(pairs)) = 2 * Len(pairs)
        /\ \A j \in 1 .. Len(pairs) :
               FlattenSeq(pairs)[2 * j - 1] = pairs[j][1] /\ FlattenSeq(pairs)[2 * j] = pairs[j][2]
    BY <2>1, <1>4, FlattenPairs, ZenonT(30)
  <2>3. PICK d : d = FlattenSeq(pairs) OBVIOUS
  <2>4. PICK n : n = Len(pairs) OBVIOUS
  <2>5. n = N BY <1>4, <2>4
  <2>6. d \in Seq(0 .. 15) /\ Len(d) = 2 * N BY ONLY <2>2, <2>3, <2>4, <2>5
  <2>7. \A j \in 1 .. N : d[2 * j - 1] = pairs[j][1] /\ d[2 * j] = pairs[j][2] BY ONLY <2>2, <2>3, <2>4, <2>5
  <2> QED BY <2>3, <2>6, <2>7
<1>6. Len(d) % 2 # 1 /\ Len(d) \div 2 = N BY <1>5
<1>7. [j \in 1 .. Len(d) \div 2 |-> 16 * d[2 * j - 1] + d[2 * j]] = bytes
  <2>1. bytes = [j \in 1 .. N |-> bytes[j]] BY <1>1, LenProperties
  <2>2. \A j \in 1 .. N : 16 * d[2 * j - 1] + d[2 * j] = bytes[j] BY <1>3, <1>5
  <2> QED BY <2>1, <2>2, <1>6
<1>8. PICK w : w = <<Word(TRUE, d)>> OBVIOUS
<1>9. Len(w) = 1 /\ w[1].hex /\ w[1].digits = d BY <1>8 DEF Word
<1>10. ParseNumbers(w) = Decode(bytes) BY <1>6, <1>7, <1>9 DEF ParseNumbers
<1> QED BY <1>1, <1>2, <1>5, <1>8, <1>10

(* The routes read from a lease file are those the server sent, whatever   *)
(* the client's form, save dumps that nothing tells from decimal ones      *)
(* (dhcp.py, parse_route_text).                                            *)
THEOREM LeasesRead == Spec => []LeaseRead
<1>1. ASSUME NEW rs \in Seq(ViaSet), NEW form \in Forms, Telling(form, rs)
      PROVE  ParseText(LeaseText(form, rs)) = Routes(Canonical(rs))
  <2>1. PICK bytes \in Seq(Byte) : bytes = Wire(rs) BY DecodeWire
  <2>2. Decode(bytes) = Routes(Canonical(rs)) BY <2>1, DecodeWire
  <2>3. rs = <<>> => bytes = <<>> BY <2>1, NothingOnWire
  <2>4. CASE form = "nets" /\ rs # <<>>
    <3>1. LeaseText(form, rs) =
            [slash |-> TRUE, words |-> FlattenSeq([n \in DOMAIN rs |-> <<rs[n].dest, rs[n].gw>>])]
      BY <2>4 DEF LeaseText
    <3> QED BY <3>1, ReadNets DEF ParseText
  <2>5. CASE form = "nets" /\ rs = <<>>
    <3>1. LeaseText(form, rs) = [slash |-> FALSE, words |-> <<>>]
      <4>1. [n \in DOMAIN rs |-> <<rs[n].dest, rs[n].gw>>] = <<>> BY <2>5
      <4>2. FlattenSeq(<<>>) = <<>> BY DEF FlattenSeq
      <4> QED BY <4>1, <4>2, <2>5 DEF LeaseText
    <3>2. ParseText(LeaseText(form, rs)) = ParseNumbers(<<>>) BY <3>1 DEF ParseText
    <3>3. bytes = <<>> BY <2>3, <2>5
    <3>4. [j \in DOMAIN bytes |-> Decimal(bytes[j])] = <<>> BY <3>3
    <3> QED BY <3>2, <3>4, <2>2, ReadDecimals
  <2>6. CASE form = "decimal"
    <3>1. LeaseText(form, rs) = [slash |-> FALSE, words |-> [j \in DOMAIN bytes |-> Decimal(bytes[j])]]
      BY <2>1, <2>6 DEF LeaseText
    <3> QED BY <3>1, <2>2, ReadDecimals DEF ParseText
  <2>7. CASE form = "hex"
    <3>1. LeaseText(form, rs) = [slash |-> FALSE, words |-> [j \in DOMAIN bytes |-> Word(FALSE, HexDigits(bytes[j]))]]
      BY <2>1, <2>7 DEF LeaseText
    <3>2. bytes = <<>> \/ \E j \in DOMAIN bytes : \E d \in {1, 2} : HexDigits(bytes[j])[d] > 9
      BY <1>1, <2>1, <2>3, <2>7 DEF Telling
    <3>3. ParseText(LeaseText(form, rs)) = ParseNumbers([j \in DOMAIN bytes |-> Word(FALSE, HexDigits(bytes[j]))])
      BY <3>1 DEF ParseText
    <3> QED BY <3>2, <3>3, <2>2, ReadHexWords
  <2>8. CASE form = "0x"
    <3>1. LeaseText(form, rs) =
            [slash |-> FALSE, words |-> <<Word(TRUE, FlattenSeq([j \in DOMAIN bytes |-> HexDigits(bytes[j])]))>>]
      BY <2>1, <2>8 DEF LeaseText
    <3>2. ParseText(LeaseText(form, rs)) =
            ParseNumbers(<<Word(TRUE, FlattenSeq([j \in DOMAIN bytes |-> HexDigits(bytes[j])]))>>)
      BY <3>1 DEF ParseText
    <3> QED BY <3>2, <2>2, ReadHexNumber
  <2> QED BY <2>4, <2>5, <2>6, <2>7, <2>8 DEF Forms
<1>2. SnifferInv => LeaseRead
  <2> SUFFICES ASSUME SnifferInv, NEW h \in Kept, NEW form \in Forms, Telling(form, h.answer.routes)
               PROVE  LeaseRoutes(form, h.answer) = Canonical(h.answer.routes)
    BY DEF LeaseRead
  <2>1. h.answer.routes \in Seq(ViaSet) BY KeptObserved, AnswerType DEF HeardSet
  <2>2. ParseText(LeaseText(form, h.answer.routes)) = Routes(Canonical(h.answer.routes)) BY <2>1, <1>1
  <2> QED BY <2>2 DEF LeaseRoutes, Routes
<1> QED BY <1>2, SnifferInvariant, PTL

=============================================================================
