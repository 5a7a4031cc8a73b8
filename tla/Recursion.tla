----------------------------- MODULE Recursion -----------------------------
(* Induction over numbers, and functions defined by recursion.  Predicates  *)
(* are sets here and bodies of definitions are functions, so that the       *)
(* lemmas can be used by provers that do not instantiate operators.         *)
EXTENDS Lists, SequencesExt, WellFoundedInduction, SequenceTheorems, TLAPS

(* Every set of natural numbers that is not empty has a least element.      *)
LEMMA LeastNatural ==
    ASSUME NEW T, T \subseteq Nat, T # {}
    PROVE  \E x \in T : \A y \in T : x <= y
<1> DEFINE R == OpToRel(<, Nat)
<1>1. IsWellFoundedOn(R, Nat)
    BY NatLessThanWellFounded
<1>2. \E x \in T : \A y \in T : <<y, x>> \notin R
  <2> HIDE DEF R
  <2> QED
    BY <1>1, WFMin, Zenon
<1>3. \A x, y \in Nat : <<y, x>> \notin R => x <= y
    BY DEF OpToRel
<1> HIDE DEF R
<1> QED
    BY <1>2, <1>3

(* What holds of 0 and of the successor of each number it holds of, up to   *)
(* a limit, holds up to the limit.                                          *)
LEMMA UpwardInduction ==
    ASSUME NEW N \in Nat, NEW S, 0 \in S, \A n \in 0 .. N - 1 : n \in S => n + 1 \in S
    PROVE  0 .. N \subseteq S
<1> DEFINE T == (0 .. N) \ S
<1>1. SUFFICES ASSUME T # {} PROVE FALSE
    OBVIOUS
<1>2. PICK x \in T : \A y \in T : x <= y
  <2>1. T \subseteq Nat
    OBVIOUS
  <2> HIDE DEF T
  <2> QED
    BY <1>1, <2>1, LeastNatural
<1>3. x - 1 \in 0 .. N - 1
    BY <1>2
<1>4. x - 1 \in S
    BY <1>2, <1>3
<1>5. x - 1 + 1 = x
    BY <1>3
<1> QED
    BY <1>2, <1>3, <1>4, <1>5

(* Two functions that begin alike and go on alike are alike at the end.     *)
LEMMA SameChain ==
    ASSUME NEW N \in Nat, NEW f, NEW g, f[0] = g[0],
           \A i \in 0 .. N - 1 : f[i] = g[i] => f[i + 1] = g[i + 1]
    PROVE  f[N] = g[N]
<1> DEFINE S == {i \in 0 .. N : f[i] = g[i]}
<1>1. 0 \in S
    OBVIOUS
<1>2. ASSUME NEW n \in 0 .. N - 1, n \in S PROVE n + 1 \in S
    BY <1>2
<1>3. 0 .. N \subseteq S
  <2> HIDE DEF S
  <2> QED
    BY <1>1, <1>2, UpwardInduction
<1> QED
    BY <1>3

(* The same where a number needs all that are nearer to the end.            *)
LEMMA DownwardInduction ==
    ASSUME NEW N \in Nat, NEW S, \A n \in 0 .. N : (\A m \in n + 1 .. N : m \in S) => n \in S
    PROVE  0 .. N \subseteq S
<1> DEFINE T == {k \in 0 .. N : N - k \notin S}
<1>1. SUFFICES ASSUME T # {} PROVE FALSE
  <2> SUFFICES ASSUME NEW n \in 0 .. N, n \notin S PROVE FALSE
    OBVIOUS
  <2>1. N - n \in 0 .. N /\ N - (N - n) = n
    OBVIOUS
  <2> QED
    BY <2>1, <1>1
<1>2. PICK k \in T : \A y \in T : k <= y
  <2>1. T \subseteq Nat
    OBVIOUS
  <2> HIDE DEF T
  <2> QED
    BY <1>1, <2>1, LeastNatural
<1>3. N - k \in 0 .. N /\ N - k \notin S
    BY <1>2
<1>4. ASSUME NEW m \in N - k + 1 .. N PROVE m \in S
  <2>1. N - m \in 0 .. N /\ N - (N - m) = m /\ ~(k <= N - m)
    BY <1>3, <1>2
  <2> QED
    BY <2>1, <1>2
<1> QED
    BY <1>3, <1>4

(* A body F that gives the value at a point of D from the values at points  *)
(* of lower rank.                                                           *)
Recursive(D, S, N, rank, F) ==
    /\ S # {} /\ N \in Nat
    /\ rank \in [D -> 0 .. N]
    /\ F \in [D -> [[D -> S] -> S]]
    /\ \A d \in D : \A g, h \in [D -> S] :
           (\A e \in D : rank[e] < rank[d] => g[e] = h[e]) => F[d][g] = F[d][h]

(* There is a function for such a body.                                     *)
LEMMA RecursiveFunction ==
    ASSUME NEW D, NEW S, NEW N, NEW rank, NEW F, Recursive(D, S, N, rank, F)
    PROVE  \E f \in [D -> S] : \A d \in D : f[d] = F[d][f]
<1> USE DEF Recursive
<1> DEFINE Upto(k, g) == \A d \in D : rank[d] < k => g[d] = F[d][g]
           K == {k \in 0 .. N + 1 : \E g \in [D -> S] : Upto(k, g)}
<1>1. 0 \in K
  <2>1. PICK s \in S : TRUE
    OBVIOUS
  <2>2. [d \in D |-> s] \in [D -> S] /\ Upto(0, [d \in D |-> s])
    BY <2>1
  <2> QED
    BY <2>2
<1>2. ASSUME NEW k \in 0 .. N + 1 - 1, k \in K PROVE k + 1 \in K
  <2>1. PICK g \in [D -> S] : Upto(k, g)
    BY <1>2
  <2> DEFINE h == [d \in D |-> IF rank[d] = k THEN F[d][g] ELSE g[d]]
  <2>2. h \in [D -> S] /\ \A d \in D : rank[d] < k => h[d] = g[d]
    BY <1>2
  <2>3. \A d \in D : rank[d] = k => h[d] = F[d][g]
    OBVIOUS
  <2> HIDE DEF h
  <2>4. ASSUME NEW d \in D, rank[d] < k + 1 PROVE h[d] = F[d][h]
    <3>1. rank[d] \in Nat /\ k \in Nat
        OBVIOUS
    <3>2. rank[d] <= k
        BY <2>4, <3>1
    <3>3. \A e \in D : rank[e] < rank[d] => g[e] = h[e]
        BY <3>2, <2>2, <1>2
    <3>4. F[d][g] = F[d][h]
        BY <3>3, <2>2
    <3>5. h[d] = F[d][g]
      <4>1. CASE rank[d] = k
        BY <4>1, <2>3
      <4>2. CASE rank[d] < k
        BY <4>2, <2>1, <2>2
      <4>3. \A r, q \in Nat : r <= q => r = q \/ r < q
        BY ONLY TRUE
      <4> QED
        BY <4>1, <4>2, <4>3, <3>1, <3>2, Zenon
    <3> QED
        BY <3>4, <3>5
  <2>5. k + 1 \in 0 .. N + 1
    BY <1>2
  <2> QED
    BY <2>2, <2>4, <2>5
<1>3. N + 1 \in K
  <2> HIDE DEF K
  <2>1. N + 1 \in Nat
    OBVIOUS
  <2>2. 0 .. N + 1 \subseteq K
    BY <1>1, <1>2, <2>1, UpwardInduction
  <2> QED
    BY <2>2
<1>4. PICK f \in [D -> S] : Upto(N + 1, f)
    BY <1>3
<1>5. \A d \in D : rank[d] < N + 1
    OBVIOUS
<1> QED
    BY <1>4, <1>5

----------------------------------------------------------------------------
(* Sequences.                                                              *)

(* What holds of the empty sequence, and of a sequence when it holds of    *)
(* its tail, holds of all.                                                 *)
LEMMA SequenceInduction ==
    ASSUME NEW S, NEW T, <<>> \in T,
           \A s \in Seq(S) : s # <<>> /\ Tail(s) \in T => s \in T
    PROVE  Seq(S) \subseteq T
<1> DEFINE L == {n \in Nat : \A s \in Seq(S) : Len(s) = n => s \in T}
<1>1. SUFFICES ASSUME NEW s \in Seq(S) PROVE s \in T
  OBVIOUS
<1>2. 0 \in L
  BY EmptySeq
<1>3. ASSUME NEW n \in 0 .. Len(s) - 1, n \in L PROVE n + 1 \in L
  <2>1. n + 1 \in Nat
    OBVIOUS
  <2>2. ASSUME NEW t \in Seq(S), Len(t) = n + 1 PROVE t \in T
    <3>1. t # <<>> BY <2>2, <2>1
    <3>2. Tail(t) \in Seq(S) /\ Len(Tail(t)) = n
      BY <3>1, <2>2, HeadTailProperties
    <3>3. Tail(t) \in T
      BY <3>2, <1>3
    <3> QED BY <3>1, <3>3
  <2> QED BY <2>1, <2>2
<1>4. Len(s) \in L
  <2> HIDE DEF L
  <2>1. Len(s) \in Nat OBVIOUS
  <2>2. 0 .. Len(s) \subseteq L
    BY <1>2, <1>3, <2>1, UpwardInduction
  <2> QED BY <2>1, <2>2
<1> QED BY <1>4

(* What is left of a sequence after some elements.                         *)
LEMMA Suffix ==
    ASSUME NEW S, NEW s \in Seq(S), NEW k \in 0 .. Len(s)
    PROVE  /\ SubSeq(s, k + 1, Len(s)) \in Seq(S)
           /\ Len(SubSeq(s, k + 1, Len(s))) = Len(s) - k
           /\ \A i \in 1 .. Len(s) - k : SubSeq(s, k + 1, Len(s))[i] = s[i + k]
<1>1. PICK m \in Int : m = k + 1 OBVIOUS
<1>2. PICK n \in Int : n = Len(s) OBVIOUS
<1>3. \A i \in m .. n : s[i] \in S BY <1>1, <1>2
<1>4. /\ SubSeq(s, m, n) \in Seq(S)
      /\ Len(SubSeq(s, m, n)) = IF m <= n THEN n - m + 1 ELSE 0
      /\ \A i \in 1 .. n - m + 1 : SubSeq(s, m, n)[i] = s[m + i - 1]
  BY <1>3, SubSeqProperties
<1>5. ASSUME NEW i \in 1 .. Len(s) - k PROVE SubSeq(s, m, n)[i] = s[i + k]
  <2>1. i \in 1 .. n - m + 1 /\ m + i - 1 = i + k BY <1>1, <1>2
  <2> QED BY <2>1, <1>4
<1> QED BY <1>1, <1>2, <1>4, <1>5

LEMMA Prefix ==
    ASSUME NEW S, NEW s \in Seq(S), NEW n \in 0 .. Len(s)
    PROVE  /\ SubSeq(s, 1, n) \in Seq(S)
           /\ Len(SubSeq(s, 1, n)) = n
           /\ \A i \in 1 .. n : SubSeq(s, 1, n)[i] = s[i]
<1>1. n \in Int /\ 1 \in Int /\ \A i \in 1 .. n : s[i] \in S OBVIOUS
<1>2. /\ SubSeq(s, 1, n) \in Seq(S)
      /\ Len(SubSeq(s, 1, n)) = IF 1 <= n THEN n - 1 + 1 ELSE 0
      /\ \A i \in 1 .. n - 1 + 1 : SubSeq(s, 1, n)[i] = s[1 + i - 1]
  BY <1>1, SubSeqProperties
<1> QED BY <1>2

(* What lies between two places of a sequence.                             *)
LEMMA Between ==
    ASSUME NEW S, NEW s \in Seq(S), NEW a \in Nat \ {0}, NEW b \in 0 .. Len(s)
    PROVE  /\ SubSeq(s, a, b) \in Seq(S)
           /\ Len(SubSeq(s, a, b)) = IF a <= b THEN b - a + 1 ELSE 0
           /\ \A i \in 1 .. b - a + 1 : SubSeq(s, a, b)[i] = s[a + i - 1]
<1>1. a \in Int /\ b \in Int /\ \A i \in a .. b : s[i] \in S OBVIOUS
<1> QED BY <1>1, SubSeqProperties

(* Two sequences joined.                                                   *)
LEMMA Joined ==
    ASSUME NEW S, NEW s \in Seq(S), NEW t \in Seq(S), NEW q, q = s \o t
    PROVE  /\ q \in Seq(S) /\ Len(q) = Len(s) + Len(t)
           /\ \A i \in 1 .. Len(s) : q[i] = s[i]
           /\ \A i \in 1 .. Len(t) : q[Len(s) + i] = t[i]
           /\ SubSeq(q, Len(s) + 1, Len(q)) = t
<1>1. q \in Seq(S) /\ Len(q) = Len(s) + Len(t) OBVIOUS
<1>2. \A i \in 1 .. Len(s) : q[i] = s[i] OBVIOUS
<1>3. \A i \in 1 .. Len(t) : q[Len(s) + i] = t[i] OBVIOUS
<1>4. SubSeq(q, Len(s) + 1, Len(q)) = t OBVIOUS
<1> QED BY <1>1, <1>2, <1>3, <1>4

LEMMA PartsJoined ==
    ASSUME NEW S, NEW s \in Seq(S), NEW k \in 0 .. Len(s)
    PROVE  SubSeq(s, 1, k) \o SubSeq(s, k + 1, Len(s)) = s
<1>1. PICK L \in Nat : L = Len(s) OBVIOUS
<1>2. PICK x : x = SubSeq(s, 1, k) OBVIOUS
<1>3. PICK y : y = SubSeq(s, k + 1, Len(s)) OBVIOUS
<1>4. x \in Seq(S) /\ Len(x) = k /\ \A i \in 1 .. k : x[i] = s[i] BY <1>2, Prefix
<1>5. y \in Seq(S) /\ Len(y) = L - k /\ \A i \in 1 .. L - k : y[i] = s[i + k] BY <1>1, <1>3, Suffix
<1>6. PICK q : q = x \o y OBVIOUS
<1>7. /\ q \in Seq(S) /\ Len(q) = Len(x) + Len(y) /\ (\A i \in 1 .. Len(x) : q[i] = x[i])
      /\ \A i \in 1 .. Len(y) : q[Len(x) + i] = y[i]
  <2>1. x \in Seq(S) /\ y \in Seq(S) BY <1>4, <1>5
  <2> QED BY ONLY <2>1, <1>6, Joined
<1>8. Len(q) = L /\ k \in 0 .. L BY <1>1, <1>4, <1>5, <1>7
<1>9. ASSUME NEW i \in 1 .. L PROVE q[i] = s[i]
  <2>1. CASE i \in 1 .. k BY <2>1, <1>4, <1>7
  <2>2. CASE i \notin 1 .. k
    <3>1. PICK j \in 1 .. L - k : i = k + j
      <4>1. i - k \in 1 .. L - k /\ i = k + (i - k) BY <2>2, <1>8
      <4> QED BY <4>1
    <3>2. q[k + j] = y[j] BY <1>4, <1>5, <1>7
    <3>3. j + k = k + j BY <3>1, <1>8
    <3> QED BY <3>1, <3>2, <3>3, <1>5
  <2> QED BY <2>1, <2>2
<1>10. q = s BY <1>1, <1>7, <1>8, <1>9, SeqEqual
<1> QED BY <1>2, <1>3, <1>6, <1>10

LEMMA PrefixJoined ==
    ASSUME NEW S, NEW s \in Seq(S), NEW t \in Seq(S), NEW n \in 0 .. Len(t)
    PROVE  SubSeq(s \o t, 1, Len(s) + n) = s \o SubSeq(t, 1, n)
<1>1. PICK a \in Nat : a = Len(s) OBVIOUS
<1>2. PICK b \in Nat : b = Len(t) /\ n \in 0 .. b OBVIOUS
<1>3. PICK q : q = s \o t OBVIOUS
<1>4. q \in Seq(S) /\ Len(q) = a + b /\ (\A i \in 1 .. a : q[i] = s[i]) /\ \A i \in 1 .. b : q[a + i] = t[i]
  BY <1>1, <1>2, <1>3, Joined
<1>5. PICK m \in 0 .. a + b : m = a + n BY <1>2
<1>6. PICK l : l = SubSeq(q, 1, m) OBVIOUS
<1>7. l \in Seq(S) /\ Len(l) = m /\ \A i \in 1 .. m : l[i] = q[i] BY <1>4, <1>6, Prefix
<1>8. PICK p : p = SubSeq(t, 1, n) OBVIOUS
<1>9. p \in Seq(S) /\ Len(p) = n /\ \A i \in 1 .. n : p[i] = t[i] BY <1>8, Prefix
<1>10. PICK r : r = s \o p OBVIOUS
<1>11. r \in Seq(S) /\ Len(r) = m /\ (\A i \in 1 .. a : r[i] = s[i]) /\ \A i \in 1 .. n : r[a + i] = p[i]
  <2>1. p \in Seq(S) /\ s \in Seq(S) BY <1>9
  <2>2. /\ r \in Seq(S) /\ Len(r) = Len(s) + Len(p)
        /\ \A i \in 1 .. Len(s) : r[i] = s[i]
        /\ \A i \in 1 .. Len(p) : r[Len(s) + i] = p[i]
    BY ONLY <2>1, <1>10, Joined
  <2> QED BY <2>2, <1>1, <1>5, <1>9
<1>12. ASSUME NEW i \in 1 .. m PROVE l[i] = r[i]
  <2>1. CASE i \in 1 .. a BY <2>1, <1>4, <1>7, <1>11
  <2>2. CASE i \notin 1 .. a
    <3>1. PICK j \in 1 .. n : i = a + j
      <4>1. i - a \in 1 .. n /\ i = a + (i - a) BY <2>2, <1>2, <1>5
      <4> QED BY <4>1
    <3>2. j \in 1 .. b BY <3>1, <1>2
    <3>3. q[i] = t[j] BY <3>1, <3>2, <1>4
    <3>4. r[i] = p[j] BY <3>1, <1>11
    <3> QED BY <3>1, <3>3, <3>4, <1>7, <1>9
  <2> QED BY <2>1, <2>2
<1>13. l = r BY <1>7, <1>11, <1>12, SeqEqual
<1> QED BY <1>1, <1>3, <1>5, <1>6, <1>8, <1>10, <1>13

LEMMA PrefixWithin ==
    ASSUME NEW S, NEW s \in Seq(S), NEW t \in Seq(S), NEW n \in 0 .. Len(s)
    PROVE  SubSeq(s \o t, 1, n) = SubSeq(s, 1, n)
<1>1. PICK q : q = s \o t OBVIOUS
<1>2. q \in Seq(S) /\ Len(q) = Len(s) + Len(t) /\ \A i \in 1 .. Len(s) : q[i] = s[i] BY <1>1, Joined
<1>3. PICK l : l = SubSeq(q, 1, n) OBVIOUS
<1>4. n \in 0 .. Len(q) BY <1>2
<1>5. l \in Seq(S) /\ Len(l) = n /\ \A i \in 1 .. n : l[i] = q[i] BY <1>2, <1>3, <1>4, Prefix
<1>6. PICK p : p = SubSeq(s, 1, n) OBVIOUS
<1>7. p \in Seq(S) /\ Len(p) = n /\ \A i \in 1 .. n : p[i] = s[i] BY <1>6, Prefix
<1>8. \A i \in 1 .. n : i \in 1 .. Len(s) OBVIOUS
<1>9. l = p BY <1>2, <1>5, <1>7, <1>8, SeqEqual
<1> QED BY <1>1, <1>3, <1>6, <1>9

(* A sequence of sequences in a row: the first before the rest.            *)
LEMMA FlattenRecursion ==
    ASSUME NEW S, NEW seqs \in Seq(Seq(S)), seqs # <<>>
    PROVE  \E f \in [1 .. Len(seqs) -> Seq(S)] :
               /\ f[1] = seqs[1]
               /\ \A i, j \in 1 .. Len(seqs) : j = i + 1 => f[j] = f[i] \o seqs[j]
               /\ FlattenSeq(seqs) = f[Len(seqs)]
<1> DEFINE D == 1 .. Len(seqs)
           body(i, g) == IF i = 1 THEN seqs[i] ELSE g[i - 1] \o seqs[i]
           F == [i \in D |-> [g \in [D -> Seq(S)] |-> body(i, g)]]
           rank == [i \in D |-> i]
           flatten == CHOOSE g : g = [i \in D |-> body(i, g)]
<1>1. Len(seqs) \in Nat /\ Len(seqs) # 0 /\ rank \in [D -> 0 .. Len(seqs)]
  OBVIOUS
<1>2. \A i \in D, g \in [D -> Seq(S)] : F[i][g] = body(i, g)
  OBVIOUS
<1>3. \A i \in D : seqs[i] \in Seq(S)
  OBVIOUS
<1>4. F \in [D -> [[D -> Seq(S)] -> Seq(S)]]
  <2>1. ASSUME NEW i \in D, NEW g \in [D -> Seq(S)] PROVE body(i, g) \in Seq(S)
    <3>1. CASE i = 1 BY <3>1, <1>3
    <3>2. CASE i # 1
      <4>1. i - 1 \in D BY <3>2
      <4>2. g[i - 1] \in Seq(S) BY <4>1
      <4> QED BY <3>2, <4>2, <1>3, ConcatProperties
    <3> QED BY <3>1, <3>2
  <2> HIDE DEF body
  <2> QED BY <2>1
<1>5. ASSUME NEW d \in D, NEW g \in [D -> Seq(S)], NEW h \in [D -> Seq(S)],
             \A e \in D : rank[e] < rank[d] => g[e] = h[e]
      PROVE  F[d][g] = F[d][h]
  <2>1. d # 1 => g[d - 1] = h[d - 1] BY <1>5
  <2> QED BY <2>1, <1>2
<1>6. \E f \in [D -> Seq(S)] : \A d \in D : f[d] = F[d][f]
  <2>1. Seq(S) # {} BY EmptySeq
  <2>2. \A d \in D : \A g, h \in [D -> Seq(S)] :
            (\A e \in D : rank[e] < rank[d] => g[e] = h[e]) => F[d][g] = F[d][h]
    BY <1>5
  <2>3. Recursive(D, Seq(S), Len(seqs), rank, F)
    <3> HIDE DEF D, F, rank
    <3> QED BY <1>1, <1>4, <2>1, <2>2 DEF Recursive
  <2> HIDE DEF D, F, rank
  <2> QED BY <2>3, RecursiveFunction
<1>7. \E f : f \in [D -> Seq(S)] /\ f = [i \in D |-> body(i, f)]
  <2>1. PICK f \in [D -> Seq(S)] : \A d \in D : f[d] = F[d][f] BY <1>6
  <2>2. f = [d \in D |-> f[d]] OBVIOUS
  <2>3. \A d \in D : f[d] = body(d, f) BY <2>1, <1>2
  <2> HIDE DEF body
  <2> QED BY <2>1, <2>2, <2>3
<1>8. flatten = [i \in D |-> body(i, flatten)]
  BY <1>7
<1>9. FlattenSeq(seqs) = flatten[Len(seqs)]
  BY <1>1 DEF FlattenSeq
<1> HIDE DEF flatten
<1>10. flatten[1] = seqs[1]
  BY <1>1, <1>8
<1>11. ASSUME NEW i \in D, NEW j \in D, j = i + 1 PROVE flatten[j] = flatten[i] \o seqs[j]
  <2>1. j # 1 /\ j - 1 = i BY <1>11
  <2>2. flatten[j] = IF j = 1 THEN seqs[j] ELSE flatten[j - 1] \o seqs[j] BY <1>8
  <2> QED BY <2>1, <2>2
<1>12. \A n \in D : flatten[n] \in Seq(S)
  <2> DEFINE T == {n \in 0 .. Len(seqs) : n = 0 \/ flatten[n] \in Seq(S)}
  <2>1. ASSUME NEW n \in 0 .. Len(seqs) - 1, n \in T PROVE n + 1 \in T
    <3>1. PICK m \in D : m = n + 1 OBVIOUS
    <3>2. PICK s \in Seq(S) : s = seqs[m] BY <1>3
    <3>3. flatten[m] \in Seq(S)
      <4>1. CASE n = 0 BY <4>1, <3>1, <3>2, <1>10
      <4>2. CASE n # 0
        <5>1. PICK r \in Seq(S) : r = flatten[n] BY <2>1, <4>2
        <5>2. n \in D BY <4>2
        <5>3. flatten[m] = r \o s BY <3>1, <3>2, <5>1, <5>2, <1>11
        <5>4. r \o s \in Seq(S) OBVIOUS
        <5> QED BY <5>3, <5>4
      <4> QED BY <4>1, <4>2
    <3> QED BY <3>1, <3>3
  <2>2. 0 .. Len(seqs) \subseteq T
    <3> HIDE DEF T
    <3>1. 0 \in T BY <1>1 DEF T
    <3> QED BY <2>1, <3>1, <1>1, UpwardInduction
  <2> QED BY <2>2
<1>13. flatten \in [D -> Seq(S)]
  <2>1. flatten = [n \in D |-> flatten[n]] BY <1>8
  <2> QED BY <2>1, <1>12
<1> QED BY <1>9, <1>10, <1>11, <1>13

(* The first of them, and then the others in a row.                        *)
LEMMA FlattenHead ==
    ASSUME NEW S, NEW seqs \in Seq(Seq(S)), seqs # <<>>
    PROVE  FlattenSeq(seqs) = Head(seqs) \o FlattenSeq(Tail(seqs))
<1>1. PICK N \in Nat : N = Len(seqs)
  OBVIOUS
<1>2. PICK rest \in Seq(Seq(S)) : rest = Tail(seqs)
  BY HeadTailProperties
<1>3. PICK a \in Seq(S) : a = seqs[1] /\ a = Head(seqs)
  BY EmptySeq
<1>4. N # 0 /\ Len(rest) = N - 1 /\ \A i \in 1 .. N - 1 : rest[i] = seqs[i + 1]
  BY <1>1, <1>2, HeadTailProperties
<1>5. \A i \in 1 .. N : seqs[i] \in Seq(S)
  BY <1>1
<1>6. PICK f \in [1 .. N -> Seq(S)] :
          f[1] = a /\ (\A i, j \in 1 .. N : j = i + 1 => f[j] = f[i] \o seqs[j]) /\ FlattenSeq(seqs) = f[N]
  <2>1. PICK f \in [1 .. Len(seqs) -> Seq(S)] :
            /\ f[1] = seqs[1] /\ \A i, j \in 1 .. Len(seqs) : j = i + 1 => f[j] = f[i] \o seqs[j]
            /\ FlattenSeq(seqs) = f[Len(seqs)]
    BY ONLY seqs \in Seq(Seq(S)), seqs # <<>>, FlattenRecursion, Zenon
  <2> QED BY <2>1, <1>1, <1>3
<1>7. CASE N = 1
  <2>1. rest = <<>> BY <1>4, <1>7
  <2>2. FlattenSeq(rest) = <<>> BY <2>1 DEF FlattenSeq
  <2>3. FlattenSeq(seqs) = a BY <1>6, <1>7
  <2> QED BY <2>2, <2>3, <1>2, <1>3, ConcatEmptySeq
<1>8. CASE N # 1
  <2>1. PICK M \in Nat : M = N - 1 BY <1>4
  <2>2. rest # <<>> BY <1>4, <1>8
  <2>3. PICK g \in [1 .. M -> Seq(S)] :
            /\ g[1] = rest[1]
            /\ \A i, j \in 1 .. M : j = i + 1 => g[j] = g[i] \o rest[j]
            /\ FlattenSeq(rest) = g[M]
    <3>1. M = Len(rest) BY <2>1, <1>4
    <3> QED BY <2>2, <3>1, FlattenRecursion, ZenonT(30)
  <2> DEFINE T == {i \in 0 .. M : i = 0 \/ f[i + 1] = a \o g[i]}
  <2>4. 0 \in T OBVIOUS
  <2>5. ASSUME NEW i \in 0 .. M - 1, i \in T PROVE i + 1 \in T
    <3>1. PICK j : j = i + 1 OBVIOUS
    <3>2. PICK k : k = j + 1 OBVIOUS
    <3>3. j \in 1 .. M /\ j \in 1 .. N /\ k \in 1 .. N BY <3>1, <3>2, <2>1
    <3>4. PICK r \in Seq(S) : r = seqs[k] /\ r = rest[j]
      <4>1. rest[j] = seqs[k] BY <3>2, <3>3, <1>4, <2>1
      <4> QED BY <4>1, <3>3, <1>5
    <3>5. f[k] = f[j] \o r BY <3>2, <3>3, <3>4, <1>6
    <3>6. CASE i = 0
      <4>1. j = 1 /\ f[j] = a /\ g[j] = r BY <3>1, <3>4, <3>6, <1>6, <2>3
      <4> QED BY <4>1, <3>1, <3>2, <3>3, <3>5
    <3>7. CASE i # 0
      <4>1. i \in 1 .. M BY <3>1, <3>3, <3>7
      <4>2. PICK p \in Seq(S) : p = g[i] BY <4>1
      <4>3. f[j] = a \o p BY <2>5, <3>1, <3>7, <4>2
      <4>4. g[j] = p \o r BY <4>1, <4>2, <3>1, <3>3, <3>4, <2>3
      <4>5. (a \o p) \o r = a \o (p \o r) BY ConcatAssociative, SMTT(30)
      <4>6. f[k] = a \o g[j] BY <3>5, <4>3, <4>4, <4>5
      <4> QED BY <4>6, <3>1, <3>2, <3>3, SMTT(30)
    <3> QED BY <3>6, <3>7
  <2>6. M \in T
    <3> HIDE DEF T
    <3>1. 0 .. M \subseteq T BY <2>4, <2>5, UpwardInduction
    <3> QED BY <3>1
  <2>7. f[N] = a \o g[M] BY <2>6, <2>1, <1>4, <1>8
  <2> QED BY <2>7, <2>3, <1>2, <1>3, <1>6
<1> QED BY <1>7, <1>8


(* Pairs in a row.                                                         *)
LEMMA FlattenPairs ==
    ASSUME NEW S, NEW seqs \in Seq(Seq(S)), \A n \in 1 .. Len(seqs) : Len(seqs[n]) = 2
    PROVE  /\ FlattenSeq(seqs) \in Seq(S) /\ Len(FlattenSeq(seqs)) = 2 * Len(seqs)
           /\ \A n \in 1 .. Len(seqs) :
                  FlattenSeq(seqs)[2 * n - 1] = seqs[n][1] /\ FlattenSeq(seqs)[2 * n] = seqs[n][2]
<1>1. PICK N \in Nat : N = Len(seqs) OBVIOUS
<1>2. CASE N = 0
  <2>1. seqs = <<>> BY <1>1, <1>2, EmptySeq
  <2>2. FlattenSeq(seqs) = <<>> BY <2>1 DEF FlattenSeq
  <2>3. <<>> \in Seq(S) /\ Len(<<>>) = 2 * N BY <1>2
  <2> QED BY <2>2, <2>3, <1>1, <1>2
<1>3. CASE N # 0
  <2>1. PICK f \in [1 .. N -> Seq(S)] :
            /\ f[1] = seqs[1] /\ \A i, j \in 1 .. N : j = i + 1 => f[j] = f[i] \o seqs[j]
            /\ FlattenSeq(seqs) = f[N]
    <3>1. seqs # <<>> BY <1>1, <1>3
    <3> QED BY <3>1, <1>1, FlattenRecursion, ZenonT(30)
  <2> DEFINE Full(m) == /\ Len(f[m]) = 2 * m
                        /\ \A n \in 1 .. m : f[m][2 * n - 1] = seqs[n][1] /\ f[m][2 * n] = seqs[n][2]
             T == {m \in 0 .. N : m = 0 \/ Full(m)}
  <2>2. 0 \in T OBVIOUS
  <2>3. ASSUME NEW i \in 0 .. N - 1, i \in T PROVE i + 1 \in T
    <3>1. PICK m \in 1 .. N : m = i + 1 OBVIOUS
    <3>2. PICK x \in Seq(S) : x = seqs[m] /\ Len(x) = 2 BY <1>1
    <3>3. Full(m)
      <4>1. CASE i = 0
        <5>1. m = 1 /\ f[m] = x BY <4>1, <3>1, <3>2, <2>1
        <5> QED BY <5>1, <3>2
      <4>2. CASE i # 0
        <5>1. i \in 1 .. N /\ Full(i) BY <4>2, <2>3
        <5>2. PICK p \in Seq(S) : p = f[i] /\ Len(p) = 2 * i BY <5>1
        <5>3. PICK r : r = p \o x OBVIOUS
        <5>4. f[m] = r BY <5>1, <5>2, <5>3, <3>1, <3>2, <2>1
        <5>5. /\ Len(r) = Len(p) + Len(x) /\ \A j \in 1 .. Len(p) : r[j] = p[j]
              /\ \A j \in 1 .. Len(x) : r[Len(p) + j] = x[j]
          BY <5>3, Joined
        <5>6. ASSUME NEW n \in 1 .. m PROVE r[2 * n - 1] = seqs[n][1] /\ r[2 * n] = seqs[n][2]
          <6>1. PICK a \in Nat : a = 2 * n - 1 OBVIOUS
          <6>2. PICK b \in Nat : b = 2 * n OBVIOUS
          <6>3. CASE n = m
            <7>1. a = Len(p) + 1 /\ b = Len(p) + 2 BY <6>1, <6>2, <6>3, <3>1, <5>2
            <7>2. 1 \in 1 .. Len(x) /\ 2 \in 1 .. Len(x) BY <3>2
            <7>3. r[a] = x[1] /\ r[b] = x[2] BY <7>1, <7>2, <5>5
            <7> QED BY <7>3, <6>1, <6>2, <6>3, <3>2
          <6>4. CASE n # m
            <7>1. n \in 1 .. i /\ a \in 1 .. Len(p) /\ b \in 1 .. Len(p) BY <6>1, <6>2, <6>4, <3>1, <5>2
            <7>2. p[a] = seqs[n][1] /\ p[b] = seqs[n][2] BY <7>1, <6>1, <6>2, <5>1, <5>2
            <7> QED BY <7>1, <7>2, <6>1, <6>2, <5>5
          <6> QED BY <6>3, <6>4
        <5>7. Len(r) = 2 * m BY <3>1, <3>2, <5>2, <5>5
        <5> QED BY <5>4, <5>6, <5>7
      <4> QED BY <4>1, <4>2
    <3> QED BY <3>1, <3>3
  <2>4. N \in T
    <3> HIDE DEF T
    <3>1. 0 .. N \subseteq T BY <2>2, <2>3, UpwardInduction
    <3> QED BY <3>1
  <2>5. Full(N) BY <2>4, <1>3
  <2>6. f[N] \in Seq(S) BY <2>1, <1>3
  <2> QED BY <2>1, <2>5, <2>6, <1>1
<1> QED BY <1>2, <1>3

(* The rest of a sequence from a place on.                                 *)
LEMMA RestHead ==
    ASSUME NEW S, NEW s \in Seq(S), NEW n \in 1 .. Len(s)
    PROVE  SubSeq(s, n, Len(s)) = <<s[n]>> \o SubSeq(s, n + 1, Len(s))
<1>1. PICK N \in Nat : N = Len(s) OBVIOUS
<1>2. PICK r : r = SubSeq(s, n, N) OBVIOUS
<1>3. PICK t : t = SubSeq(s, n + 1, N) OBVIOUS
<1>4. PICK x \in S : x = s[n] BY ElementOfSeq
<1>5. r \in Seq(S) /\ Len(r) = N - n + 1 /\ \A i \in 1 .. N - n + 1 : r[i] = s[n + i - 1]
  BY <1>1, <1>2, Between
<1>6. t \in Seq(S) /\ Len(t) = N - n /\ \A i \in 1 .. N - n : t[i] = s[n + i]
  <2>1. n \in 0 .. Len(s) OBVIOUS
  <2>2. t \in Seq(S) /\ Len(t) = N - n /\ \A i \in 1 .. N - n : t[i] = s[i + n]
    BY <2>1, <1>1, <1>3, Suffix
  <2> QED BY <2>2, <1>1
<1>7. PICK q : q = <<x>> \o t OBVIOUS
<1>8. q \in Seq(S) /\ Len(q) = N - n + 1 /\ q[1] = x /\ \A i \in 1 .. N - n : q[1 + i] = t[i]
  <2>1. <<x>> \in Seq(S) /\ Len(<<x>>) = 1 /\ <<x>>[1] = x OBVIOUS
  <2>2. 1 + (N - n) = N - n + 1 /\ 1 \in 1 .. 1 BY <1>1
  <2> QED BY <2>1, <2>2, <1>6, <1>7, Joined
<1>9. \A i \in 1 .. N - n + 1 : q[i] = r[i]
  <2> SUFFICES ASSUME NEW i \in 1 .. N - n + 1 PROVE q[i] = r[i] OBVIOUS
  <2>1. CASE i = 1
    <3>1. n + i - 1 = n BY <2>1
    <3> QED BY <3>1, <2>1, <1>4, <1>5, <1>8
  <2>2. CASE i # 1
    <3>1. PICK j \in 1 .. N - n : i = 1 + j BY <2>2, <1>1
    <3>2. n + i - 1 = n + j BY <3>1
    <3> QED BY <3>1, <3>2, <1>5, <1>6, <1>8
  <2> QED BY <2>1, <2>2
<1>10. q = r BY <1>5, <1>8, <1>9
<1> QED BY <1>1, <1>2, <1>3, <1>4, <1>7, <1>10


(* A function on the first numbers is a sequence.                          *)
LEMMA FunctionIsSequence ==
    ASSUME NEW S, NEW n \in Nat, NEW f \in [1 .. n -> S]
    PROVE  f \in Seq(S) /\ Len(f) = n /\ DOMAIN f = 1 .. n /\ \A i \in 1 .. n : f[i] \in S
<1>1. f \in Seq(S) BY SeqDef
<1>2. DOMAIN f = 1 .. Len(f) /\ Len(f) \in Nat BY <1>1, LenProperties
<1>3. \A m \in Nat : 1 .. m = 1 .. n => m = n
  <2> SUFFICES ASSUME NEW m \in Nat, 1 .. m = 1 .. n PROVE m = n OBVIOUS
  <2>1. CASE m = 0 \/ n = 0 BY <2>1
  <2>2. CASE m # 0 /\ n # 0
    <3>1. m \in 1 .. m /\ n \in 1 .. n BY <2>2
    <3>2. m \in 1 .. n /\ n \in 1 .. m BY <3>1
    <3> QED BY <3>2
  <2> QED BY <2>1, <2>2
<1> QED BY <1>1, <1>2, <1>3

(* Where each sequence lies in the row of all of them.                     *)
Places(seqs, row, off) ==
    /\ off \in [0 .. Len(seqs) -> 0 .. Len(row)]
    /\ off[0] = 0 /\ off[Len(seqs)] = Len(row)
    /\ \A k \in 1 .. Len(seqs) :
           /\ off[k] = off[k - 1] + Len(seqs[k])
           /\ \A j \in 1 .. Len(seqs[k]) : row[off[k - 1] + j] = seqs[k][j]

LEMMA FlattenPlaces ==
    ASSUME NEW S, NEW seqs \in Seq(Seq(S)), NEW row, row = FlattenSeq(seqs)
    PROVE  row \in Seq(S) /\ \E off : Places(seqs, row, off)
<1>1. CASE seqs = <<>>
  <2>1. row = <<>> BY <1>1 DEF FlattenSeq
  <2>2. row \in Seq(S) /\ Len(row) = 0 /\ Len(seqs) = 0 BY <1>1, <2>1, EmptySeq
  <2>3. PICK off : off = [k \in 0 .. 0 |-> 0] OBVIOUS
  <2>4. off \in [0 .. Len(seqs) -> 0 .. Len(row)] /\ off[0] = 0 BY <2>2, <2>3
  <2>5. \A k \in 1 .. Len(seqs) : FALSE BY <2>2
  <2> QED BY <2>2, <2>4, <2>5 DEF Places
<1>2. CASE seqs # <<>>
  <2>1. PICK n \in Nat : n = Len(seqs) OBVIOUS
  <2>2. n > 0 /\ \A k \in 1 .. n : seqs[k] \in Seq(S) BY <1>2, <2>1
  <2>3. PICK f \in [1 .. n -> Seq(S)] :
           /\ f[1] = seqs[1]
           /\ \A i, j \in 1 .. n : j = i + 1 => f[j] = f[i] \o seqs[j]
           /\ row = f[n]
    BY <1>2, <2>1, FlattenRecursion
  <2>4. PICK off : off = [k \in 0 .. n |-> IF k = 0 THEN 0 ELSE Len(f[k])] OBVIOUS
  <2>5. \A k \in 1 .. n : f[k] \in Seq(S) BY <2>3
  <2>6. \A k \in 0 .. n : off[k] \in Nat
    <3>1. \A k \in 1 .. n : Len(f[k]) \in Nat BY <2>5, LenProperties
    <3> QED BY <2>4, <3>1
  <2>7. off[0] = 0 /\ \A k \in 1 .. n : off[k] = Len(f[k]) BY <2>4
  <2> DEFINE within(k, m) ==
               \A j \in 1 .. Len(seqs[m]) : /\ off[m - 1] + j <= off[k]
                                            /\ f[k][off[m - 1] + j] = seqs[m][j]
             grows(k) == k > 0 => off[k] = off[k - 1] + Len(seqs[k])
             T == {k \in 0 .. n : /\ \A m \in 0 .. k : off[m] <= off[k] /\ grows(m)
                                  /\ \A m \in 1 .. k : within(k, m)}
  <2>8. 0 \in T BY <2>6
  <2>9. ASSUME NEW k \in 0 .. n - 1, k \in T PROVE k + 1 \in T
    <3>1. PICK l \in 1 .. n : l = k + 1 OBVIOUS
    <3>2. PICK s \in Seq(S) : s = seqs[l] BY <2>2
    <3>3. PICK q \in Seq(S) : q = f[l] BY <2>5
    <3>4. /\ \A m \in 0 .. k : off[m] <= off[k] /\ grows(m)
          /\ \A m \in 1 .. k : within(k, m)
      BY <2>9
    <3>5. /\ Len(q) = off[k] + Len(s)
          /\ \A i \in 1 .. Len(s) : q[off[k] + i] = s[i]
          /\ k > 0 => \A i \in 1 .. off[k] : q[i] = f[k][i]
      <4>1. CASE k = 0
        <5>1. q = s BY <4>1, <2>3, <3>1, <3>2, <3>3
        <5> QED BY <4>1, <5>1, <2>7
      <4>2. CASE k # 0
        <5>1. k \in 1 .. n BY <4>2
        <5>2. PICK p \in Seq(S) : p = f[k] BY <2>5, <5>1
        <5>3. q = p \o s BY <2>3, <3>1, <3>2, <3>3, <5>1, <5>2
        <5>4. /\ Len(q) = Len(p) + Len(s)
              /\ \A i \in 1 .. Len(p) : q[i] = p[i]
              /\ \A i \in 1 .. Len(s) : q[Len(p) + i] = s[i]
          BY ONLY <5>3, p \in Seq(S), s \in Seq(S), Joined
        <5>5. off[k] = Len(p) BY <2>7, <5>1, <5>2
        <5> QED BY <5>2, <5>4, <5>5
      <4> QED BY <4>1, <4>2
    <3>6. off[l] = off[k] + Len(s) /\ Len(s) \in Nat /\ off[k] \in Nat BY <2>6, <2>7, <3>3, <3>5
    <3>7. \A m \in 0 .. l : off[m] <= off[l]
      <4> SUFFICES ASSUME NEW m \in 0 .. l PROVE off[m] <= off[l] OBVIOUS
      <4>1. off[m] \in Nat /\ off[l] \in Nat BY <2>6
      <4>2. CASE m = l BY <4>1, <4>2
      <4>3. CASE m # l
        <5>1. m \in 0 .. k BY <4>3, <3>1
        <5>2. off[m] <= off[k] BY <5>1, <3>4
        <5> QED BY ONLY <4>1, <5>2, <3>6
      <4> QED BY <4>2, <4>3
    <3>8. \A m \in 0 .. l : grows(m)
      <4>1. grows(l) BY <3>1, <3>2, <3>6
      <4>2. \A m \in 0 .. l : m \in 0 .. k \/ m = l BY <3>1
      <4> HIDE DEF grows
      <4> QED BY <3>4, <4>1, <4>2
    <3>9. ASSUME NEW m \in 1 .. l PROVE within(l, m)
      <4>1. CASE m = l
        <5>1. off[m - 1] = off[k] /\ seqs[m] = s BY <4>1, <3>1, <3>2
        <5>2. \A j \in 1 .. Len(s) : off[k] + j <= off[l] BY <3>6
        <5> QED BY <4>1, <5>1, <5>2, <3>3, <3>5
      <4>2. CASE m # l
        <5>1. m \in 1 .. k /\ k > 0 /\ m - 1 \in 0 .. n BY <4>2, <3>1
        <5>2. within(k, m) BY <3>4, <5>1
        <5>3. off[m - 1] \in Nat BY <5>1, <2>6
        <5>4. ASSUME NEW j \in 1 .. Len(seqs[m])
              PROVE  off[m - 1] + j <= off[l] /\ f[l][off[m - 1] + j] = seqs[m][j]
          <6>1. off[m - 1] + j <= off[k] /\ f[k][off[m - 1] + j] = seqs[m][j] BY <5>2
          <6>2. Len(seqs[m]) \in Nat BY <5>1, <2>2, LenProperties
          <6>3. off[m - 1] + j \in 1 .. off[k] BY <5>3, <6>1, <6>2, <3>6, SMTT(30)
          <6>4. PICK p \in 1 .. off[k] : p = off[m - 1] + j BY <6>3
          <6>5. q[p] = f[k][p] /\ p <= off[k] BY <6>4, <5>1, <3>5, SMTT(30)
          <6>6. f[k][p] = seqs[m][j] BY <6>1, <6>4
          <6>7. p \in Int /\ p <= off[l] BY ONLY <6>5, <3>6, p \in 1 .. off[k]
          <6>8. f[l][p] = seqs[m][j] BY <6>5, <6>6, <3>3
          <6> QED BY ONLY <6>4, <6>7, <6>8, Zenon
        <5> QED BY <5>4
      <4> QED BY <4>1, <4>2
    <3> HIDE DEF within, grows
    <3> QED BY <3>1, <3>7, <3>8, <3>9
  <2>10. n \in T
    <3> HIDE DEF T
    <3>1. 0 .. n \subseteq T BY <2>8, <2>9, UpwardInduction
    <3> QED BY <3>1
  <2>11. row \in Seq(S) /\ off[n] = Len(row) BY <2>2, <2>3, <2>5, <2>7
  <2>12. off \in [0 .. n -> 0 .. Len(row)]
    <3>1. \A k \in 0 .. n : off[k] \in 0 .. Len(row)
      <4>1. \A k \in 0 .. n : off[k] <= off[n] BY <2>10
      <4> QED BY <4>1, <2>6, <2>11
    <3> QED BY <3>1, <2>4
  <2>13. ASSUME NEW k \in 1 .. n
         PROVE  /\ off[k] = off[k - 1] + Len(seqs[k])
                /\ \A j \in 1 .. Len(seqs[k]) : row[off[k - 1] + j] = seqs[k][j]
    <3>1. grows(k) /\ within(n, k) BY <2>10
    <3> QED BY <3>1, <2>3
  <2>14. Places(seqs, row, off) BY ONLY <2>1, <2>7, <2>11, <2>12, <2>13 DEF Places
  <2> QED BY <2>11, <2>14
<1> QED BY <1>1, <1>2

(* What is found up to each place of a list of elements of S in a set.     *)
Finds(S, list, set, f) ==
    /\ f \in [0 .. Len(list) -> Seq(S)]
    /\ f[0] = <<>>
    /\ \A i, j \in 0 .. Len(list) : j = i + 1 =>
           f[j] = IF list[j] \in set THEN Append(f[i], list[j]) ELSE f[i]
    /\ Among(list, set) = f[Len(list)]

(* The elements of a list that lie in a set, one after the other.          *)
LEMMA AmongRecursion ==
    ASSUME NEW S, NEW list \in Seq(S), NEW set
    PROVE  \E f : Finds(S, list, set, f)
<1> DEFINE D == 0 .. Len(list)
           body(n, g) == IF n = 0 THEN <<>>
                         ELSE IF list[n] \in set THEN Append(g[n - 1], list[n]) ELSE g[n - 1]
           F == [n \in D |-> [g \in [D -> Seq(S)] |-> body(n, g)]]
           rank == [n \in D |-> n]
           upto == CHOOSE g : g = [n \in D |-> body(n, g)]
<1>1. Len(list) \in Nat /\ rank \in [D -> 0 .. Len(list)]
  OBVIOUS
<1>2. \A n \in D, g \in [D -> Seq(S)] : F[n][g] = body(n, g)
  OBVIOUS
<1>3. F \in [D -> [[D -> Seq(S)] -> Seq(S)]]
  <2>1. ASSUME NEW n \in D, NEW g \in [D -> Seq(S)] PROVE body(n, g) \in Seq(S)
    <3>1. CASE n = 0 BY <3>1, EmptySeq
    <3>2. CASE n # 0
      <4>1. n - 1 \in D /\ n \in 1 .. Len(list) BY <3>2
      <4>2. g[n - 1] \in Seq(S) /\ list[n] \in S BY <4>1, ElementOfSeq
      <4>3. Append(g[n - 1], list[n]) \in Seq(S) BY <4>2, AppendProperties
      <4> QED BY <3>2, <4>2, <4>3
    <3> QED BY <3>1, <3>2
  <2> HIDE DEF body
  <2> QED BY <2>1
<1>4. ASSUME NEW d \in D, NEW g \in [D -> Seq(S)], NEW h \in [D -> Seq(S)],
             \A e \in D : rank[e] < rank[d] => g[e] = h[e]
      PROVE  F[d][g] = F[d][h]
  <2>1. d # 0 => g[d - 1] = h[d - 1] BY <1>4
  <2> QED BY <2>1, <1>2
<1>5. \E f \in [D -> Seq(S)] : \A d \in D : f[d] = F[d][f]
  <2>1. Seq(S) # {} BY EmptySeq
  <2>2. \A d \in D : \A g, h \in [D -> Seq(S)] :
            (\A e \in D : rank[e] < rank[d] => g[e] = h[e]) => F[d][g] = F[d][h]
    BY <1>4
  <2>3. Recursive(D, Seq(S), Len(list), rank, F)
    <3> HIDE DEF D, F, rank
    <3> QED BY <1>1, <1>3, <2>1, <2>2 DEF Recursive
  <2> HIDE DEF D, F, rank
  <2> QED BY <2>3, RecursiveFunction
<1>6. \E f : f \in [D -> Seq(S)] /\ f = [n \in D |-> body(n, f)]
  <2>1. PICK f \in [D -> Seq(S)] : \A d \in D : f[d] = F[d][f] BY <1>5
  <2>2. f = [d \in D |-> f[d]] OBVIOUS
  <2>3. \A d \in D : f[d] = body(d, f) BY <2>1, <1>2
  <2> HIDE DEF body
  <2> QED BY <2>1, <2>2, <2>3
<1>7. upto = [n \in D |-> body(n, upto)]
  BY <1>6
<1>8. Among(list, set) = upto[Len(list)]
  BY DEF Among
<1> HIDE DEF upto
<1>9. upto[0] = <<>>
  BY <1>1, <1>7
<1>10. ASSUME NEW i \in D, NEW j \in D, j = i + 1
       PROVE  upto[j] = IF list[j] \in set THEN Append(upto[i], list[j]) ELSE upto[i]
  <2>1. j # 0 /\ j - 1 = i BY <1>10
  <2>2. upto[j] = body(j, upto) BY <1>7
  <2> QED BY <2>1, <2>2
<1>11. \A n \in D : upto[n] \in Seq(S)
  <2> DEFINE T == {n \in D : upto[n] \in Seq(S)}
  <2>1. ASSUME NEW n \in 0 .. Len(list) - 1, n \in T PROVE n + 1 \in T
    <3>1. PICK m \in 1 .. Len(list) : m = n + 1 OBVIOUS
    <3>2. n \in D /\ m \in D BY <3>1
    <3>3. upto[m] = IF list[m] \in set THEN Append(upto[n], list[m]) ELSE upto[n] BY <3>1, <3>2, <1>10
    <3>4. upto[n] \in Seq(S) /\ list[m] \in S BY <2>1, ElementOfSeq
    <3>5. Append(upto[n], list[m]) \in Seq(S) BY <3>4, AppendProperties
    <3> QED BY <3>1, <3>2, <3>3, <3>4, <3>5
  <2>2. 0 \in T
    <3>1. 0 \in D BY <1>1
    <3>2. upto[0] \in Seq(S) BY <1>9, EmptySeq
    <3> QED BY <3>1, <3>2
  <2>3. 0 .. Len(list) \subseteq T
    <3> HIDE DEF T
    <3> QED BY <2>1, <2>2, <1>1, UpwardInduction
  <2> QED BY <2>3
<1>12. upto \in [D -> Seq(S)]
  <2>1. upto = [n \in D |-> upto[n]] BY <1>7
  <2> QED BY <2>1, <1>11
<1>13. Finds(S, list, set, upto)
  BY <1>8, <1>9, <1>10, <1>12 DEF Finds
<1> QED BY <1>13

Begins(s, q) == Len(s) <= Len(q) /\ \A k \in 1 .. Len(s) : q[k] = s[k]

(* Sequences of which each is the one before or has one element more.      *)
Growing(S, N, f) ==
    /\ f \in [0 .. N -> Seq(S)] /\ f[0] = <<>>
    /\ \A i, j \in 0 .. N : j = i + 1 => f[j] = f[i] \/ \E e \in S : f[j] = Append(f[i], e)

LEMMA FindsGrow ==
    ASSUME NEW S, NEW list \in Seq(S), NEW set, NEW f, Finds(S, list, set, f)
    PROVE  Growing(S, Len(list), f)
<1>1. PICK N \in Nat : N = Len(list) OBVIOUS
<1>2. ASSUME NEW i \in 0 .. N, NEW j \in 0 .. N, j = i + 1
      PROVE  f[j] = f[i] \/ \E e \in S : f[j] = Append(f[i], e)
  <2>1. j \in 1 .. N BY <1>1, <1>2
  <2>2. list[j] \in S BY <1>1, <2>1, ElementOfSeq
  <2>3. f[j] = IF list[j] \in set THEN Append(f[i], list[j]) ELSE f[i] BY <1>1, <1>2 DEF Finds
  <2> QED BY <2>2, <2>3
<1> QED BY <1>1, <1>2 DEF Growing, Finds

LEMMA ChainGrows ==
    ASSUME NEW S, NEW N \in Nat, NEW f, Growing(S, N, f), NEW m \in 0 .. N
    PROVE  Begins(f[m], f[N]) /\ Len(f[m]) <= m
<1> USE DEF Growing
<1> DEFINE T == {k \in 0 .. N - m : Begins(f[m], f[m + k])}
           L == {n \in 0 .. N : Len(f[n]) <= n}
<1>1. ASSUME NEW i \in 0 .. N, NEW j \in 0 .. N, j = i + 1
      PROVE  /\ Len(f[j]) \in {Len(f[i]), Len(f[i]) + 1}
             /\ \A k \in 1 .. Len(f[i]) : f[j][k] = f[i][k]
  <2>1. PICK s \in Seq(S) : s = f[i] OBVIOUS
  <2>2. CASE f[j] = s BY <2>1, <2>2
  <2>3. ASSUME NEW e \in S, f[j] = Append(s, e)
        PROVE  Len(f[j]) = Len(s) + 1 /\ \A k \in 1 .. Len(s) : f[j][k] = s[k]
    BY <2>3, AppendProperties
  <2> QED BY <2>1, <2>2, <2>3, <1>1
<1>2. \A n \in 0 .. N : Len(f[n]) \in Nat
  OBVIOUS
<1>3. Begins(f[m], f[N])
  <2>1. ASSUME NEW k \in 0 .. N - m - 1, k \in T PROVE k + 1 \in T
    <3>1. PICK i \in 0 .. N : i = m + k OBVIOUS
    <3>2. PICK j \in 0 .. N : j = i + 1 BY <3>1
    <3>3. m + (k + 1) = j /\ k + 1 \in 0 .. N - m BY <3>1, <3>2
    <3>4. Begins(f[m], f[i]) BY <2>1, <3>1
    <3>5. Begins(f[m], f[j]) BY <3>2, <3>4, <1>1, <1>2 DEF Begins
    <3> QED BY <3>3, <3>5
  <2>2. 0 \in T
    <3>1. 0 \in 0 .. N - m /\ m + 0 = m OBVIOUS
    <3>2. Begins(f[m], f[m]) BY <1>2 DEF Begins
    <3> QED BY <3>1, <3>2
  <2>3. N - m \in Nat /\ m + (N - m) = N OBVIOUS
  <2>4. 0 .. N - m \subseteq T
    <3> HIDE DEF T
    <3> QED BY <2>1, <2>2, <2>3, UpwardInduction
  <2>5. N - m \in T
    <3> HIDE DEF T
    <3>1. N - m \in 0 .. N - m BY <2>3
    <3> QED BY <2>4, <3>1
  <2> QED BY <2>3, <2>5
<1>4. Len(f[m]) <= m
  <2>1. ASSUME NEW n \in 0 .. N - 1, n \in L PROVE n + 1 \in L
    <3>1. PICK j \in 0 .. N : j = n + 1 OBVIOUS
    <3>2. n \in 0 .. N /\ Len(f[n]) <= n BY <2>1
    <3>3. Len(f[j]) <= j BY <3>1, <3>2, <1>1, <1>2
    <3> QED BY <3>1, <3>3
  <2>2. 0 \in L
    <3>1. 0 \in 0 .. N /\ Len(<<>>) = 0 OBVIOUS
    <3> QED BY <3>1
  <2>3. 0 .. N \subseteq L
    <3> HIDE DEF L
    <3> QED BY <2>1, <2>2, UpwardInduction
  <2> QED BY <2>3
<1> QED BY <1>3, <1>4

(* Among keeps what lies in the set, none of it further back than it was.  *)
LEMMA AmongPlaces ==
    ASSUME NEW S, NEW list \in Seq(S), NEW set
    PROVE  /\ Among(list, set) \in Seq(S)
           /\ \A k \in 1 .. Len(Among(list, set)) : Among(list, set)[k] \in set
           /\ \A i \in 1 .. Len(list) : list[i] \in set =>
                  \E k \in 1 .. Len(Among(list, set)) : k <= i /\ Among(list, set)[k] = list[i]
<1>1. PICK f : Finds(S, list, set, f)
  BY AmongRecursion
<1>2. PICK N \in Nat : N = Len(list) OBVIOUS
<1>3. \A i \in 1 .. N : list[i] \in S BY <1>2, ElementOfSeq
<1>4. /\ f \in [0 .. N -> Seq(S)] /\ f[0] = <<>> /\ Among(list, set) = f[N]
      /\ \A i, j \in 0 .. N : j = i + 1 => f[j] = IF list[j] \in set THEN Append(f[i], list[j]) ELSE f[i]
  BY <1>1, <1>2 DEF Finds
<1>5. \A k \in 1 .. Len(f[N]) : f[N][k] \in set
  <2> DEFINE T == {n \in 0 .. N : \A k \in 1 .. Len(f[n]) : f[n][k] \in set}
  <2>1. ASSUME NEW n \in 0 .. N - 1, n \in T PROVE n + 1 \in T
    <3>1. PICK j \in 0 .. N : j = n + 1 BY <1>2
    <3>2. j \in 1 .. N /\ n \in 0 .. N BY <3>1, <1>2
    <3>3. PICK s \in Seq(S) : s = f[n] BY <3>2, <1>4
    <3>4. f[j] = IF list[j] \in set THEN Append(s, list[j]) ELSE s BY <1>4, <3>1, <3>2, <3>3
    <3>5. \A k \in 1 .. Len(s) : s[k] \in set BY <2>1, <3>3
    <3>6. CASE list[j] \in set
      <4>1. PICK e \in S : e = list[j] BY <1>3, <3>2
      <4>2. PICK q : q = Append(s, e) OBVIOUS
      <4>3. Len(q) = Len(s) + 1 /\ q[Len(s) + 1] = e /\ \A k \in 1 .. Len(s) : q[k] = s[k]
        BY <4>2, AppendProperties
      <4>4. \A k \in 1 .. Len(q) : q[k] \in set BY <4>1, <4>3, <3>5, <3>6
      <4>5. q = f[j] BY <4>1, <4>2, <3>4, <3>6
      <4> QED BY <4>4, <4>5, <3>1
    <3>7. CASE list[j] \notin set BY <3>1, <3>4, <3>5, <3>7
    <3> QED BY <3>6, <3>7
  <2>2. 0 \in T
    <3>1. 0 \in 0 .. N /\ Len(<<>>) = 0 BY <1>2
    <3> QED BY <3>1, <1>4
  <2>3. 0 .. N \subseteq T
    <3> HIDE DEF T
    <3> QED BY <1>2, <2>1, <2>2, UpwardInduction
  <2>4. N \in T BY <1>2, <2>3
  <2> QED BY <2>4
<1>6. ASSUME NEW i \in 1 .. N, list[i] \in set
      PROVE  \E k \in 1 .. Len(f[N]) : k <= i /\ f[N][k] = list[i]
  <2>1. PICK h \in 0 .. N : i = h + 1 BY <1>2
  <2>2. i \in 0 .. N BY <1>2
  <2>3. PICK s \in Seq(S) : s = f[h] BY <1>4
  <2>4. PICK e \in S : e = list[i] BY <1>3
  <2>5. PICK q : q = Append(s, e) OBVIOUS
  <2>6. Len(q) = Len(s) + 1 /\ q[Len(s) + 1] = e /\ Len(s) \in Nat BY <2>5, AppendProperties
  <2>7. q = f[i] BY <1>4, <1>6, <2>1, <2>2, <2>3, <2>4, <2>5
  <2>8. Begins(f[i], f[N]) /\ Len(f[i]) <= i
    <3>1. Growing(S, N, f) BY <1>1, <1>2, FindsGrow
    <3> QED BY <2>2, <3>1, ChainGrows
  <2>9. Len(f[N]) \in Nat BY <1>4
  <2>10. PICK k \in Nat : k = Len(q) BY <2>6
  <2> QED BY <2>4, <2>6, <2>7, <2>8, <2>9, <2>10 DEF Begins
<1>7. f[N] \in Seq(S) BY <1>4
<1> QED BY <1>2, <1>4, <1>5, <1>6, <1>7

(* What comes later in a list changes nothing of what came before.         *)
LEMMA AmongBegins ==
    ASSUME NEW S, NEW list \in Seq(S), NEW whole \in Seq(S), Begins(list, whole), NEW set
    PROVE  Begins(Among(list, set), Among(whole, set))
<1>1. Len(list) \in Nat /\ Len(whole) \in Nat OBVIOUS
<1>2. \A i \in 1 .. Len(list) : whole[i] = list[i] BY DEF Begins
<1>3. PICK N \in Nat, M \in Nat : N = Len(list) /\ M = Len(whole) /\ N <= M BY <1>1 DEF Begins
<1>4. PICK f : Finds(S, list, set, f) BY AmongRecursion
<1>5. PICK g : Finds(S, whole, set, g) BY AmongRecursion
<1>6. /\ f[0] = g[0] /\ Among(list, set) = f[N] /\ Among(whole, set) = g[M]
      /\ \A i, j \in 0 .. N : j = i + 1 => f[j] = IF list[j] \in set THEN Append(f[i], list[j]) ELSE f[i]
      /\ \A i, j \in 0 .. M : j = i + 1 => g[j] = IF whole[j] \in set THEN Append(g[i], whole[j]) ELSE g[i]
  BY <1>3, <1>4, <1>5 DEF Finds
<1>7. f[N] = g[N]
  <2>1. ASSUME NEW i \in 0 .. N - 1, f[i] = g[i] PROVE f[i + 1] = g[i + 1]
    <3>1. PICK j \in 1 .. N : j = i + 1 BY <1>3
    <3>2. i \in 0 .. N /\ j \in 0 .. N /\ i \in 0 .. M /\ j \in 0 .. M BY <1>3, <3>1
    <3>3. whole[j] = list[j] BY <1>2, <1>3, <3>1
    <3>4. f[j] = IF list[j] \in set THEN Append(f[i], list[j]) ELSE f[i] BY <1>6, <3>1, <3>2
    <3>5. g[j] = IF whole[j] \in set THEN Append(g[i], whole[j]) ELSE g[i] BY <1>6, <3>1, <3>2
    <3>6. f[j] = g[j] BY <2>1, <3>3, <3>4, <3>5
    <3> QED BY <3>1, <3>6
  <2> QED BY <1>3, <1>6, <2>1, SameChain
<1>8. Growing(S, M, g) BY <1>3, <1>5, FindsGrow
<1>9. N \in 0 .. M BY <1>3
<1>10. Begins(g[N], g[M]) BY <1>8, <1>9, ChainGrows
<1> QED BY <1>6, <1>7, <1>10

(* What is named of a list, and of one that begins like it.                *)
LEMMA ListedPlaces ==
    ASSUME NEW S, NEW list \in Seq(S), NEW most \in Nat
    PROVE  /\ Listed(list, most) \in Seq(S)
           /\ Len(Listed(list, most)) = IF Len(list) > most THEN most ELSE Len(list)
           /\ \A k \in 1 .. Len(Listed(list, most)) : Listed(list, most)[k] = list[k]
<1>1. PICK n \in 0 .. Len(list) : n = IF Len(list) > most THEN most ELSE Len(list)
  <2>1. Len(list) \in Nat OBVIOUS
  <2> QED BY <2>1
<1>2. Listed(list, most) = SubSeq(list, 1, n) BY <1>1 DEF Listed
<1> QED BY <1>1, <1>2, Prefix

LEMMA ListedBegins ==
    ASSUME NEW S, NEW list \in Seq(S), NEW long \in Seq(S), Begins(list, long), NEW most \in Nat
    PROVE  ToSet(Listed(list, most)) \subseteq ToSet(Listed(long, most))
<1>1. PICK l \in Seq(S) : l = Listed(list, most) BY ListedPlaces
<1>2. PICK g \in Seq(S) : g = Listed(long, most) BY ListedPlaces
<1>3. /\ Len(l) = IF Len(list) > most THEN most ELSE Len(list)
      /\ \A k \in 1 .. Len(l) : l[k] = list[k]
  BY <1>1, ListedPlaces
<1>4. /\ Len(g) = IF Len(long) > most THEN most ELSE Len(long)
      /\ \A k \in 1 .. Len(g) : g[k] = long[k]
  BY <1>2, ListedPlaces
<1>5. Len(list) \in Nat /\ Len(long) \in Nat /\ DOMAIN l = 1 .. Len(l) /\ DOMAIN g = 1 .. Len(g) BY LenProperties
<1>6. ASSUME NEW k \in DOMAIN l PROVE k \in DOMAIN g /\ g[k] = l[k]
  BY <1>3, <1>4, <1>5 DEF Begins
<1> QED BY <1>1, <1>2, <1>6 DEF ToSet

=============================================================================
