---------------------------- MODULE TableProofs ----------------------------
(* Proofs about Tables.                                                    *)
EXTENDS Tables, Recursion, FiniteSetTheorems

(* The table holds entries of its system, no two of which it could not     *)
(* hold at once.                                                           *)
TableTypes ==
    /\ source \in DOMAIN Kinds \cup {"registry"}
    /\ IF source = "registry" THEN table = {} ELSE table \subseteq Entries[source]

TableDistinct == \A e, f \in table : e # f => Distinct(source, e, f)

(* Each route of a snapshot was read from an entry the table may contain.  *)
RoutesRead ==
    /\ source = "registry" => routes = {}
    /\ \A r \in routes : \E e \in Entries[source] : r \in Parsed(e)

(* What was made of the options in the registry is of those stored now.    *)
OptionsRead ==
    \/ stored = NothingStored /\ told = {}
    \/ stored \in Lists /\ told = ParseOptions(Blob(stored))

TablesInv == TableTypes /\ TableDistinct /\ RoutesRead /\ OptionsRead

LEMMA DistinctSymmetric ==
    ASSUME NEW s, NEW e, NEW f, Distinct(s, e, f)
    PROVE  Distinct(s, f, e)
BY DEF Distinct

(* Whatever is added, deleted, read and stored, the routes and options the *)
(* program holds are read from what its system can have held (the parsers  *)
(* and delete_route of platforms/*.py).                                    *)
THEOREM TablesInvariant == Spec => []TablesInv
<1>1. Init => TablesInv
  BY TablesAssumption DEF Init, TablesInv, TableTypes, TableDistinct, RoutesRead, OptionsRead
<1>2. TablesInv /\ [Next]_vars => TablesInv'
  <2> SUFFICES ASSUME TablesInv, [Next]_vars PROVE TablesInv' OBVIOUS
  <2> USE DEF TablesInv
  <2>1. UNCHANGED source => \A e : Parsed(e)' = Parsed(e) BY DEF Parsed
  <2>2. CASE Change
    <3>1. PICK e \in Entries[source] :
              \/ table' = table \ {e}
              \/ (\A f \in table : Distinct(source, e, f)) /\ table' = table \cup {e}
      BY <2>2 DEF Change
    <3>2. UNCHANGED <<source, routes, stored, told>> /\ source # "registry" BY <2>2 DEF Change
    <3>3. TableTypes' BY <3>1, <3>2 DEF TableTypes
    <3>4. TableDistinct' BY <3>1, <3>2, DistinctSymmetric DEF TableDistinct
    <3>5. RoutesRead' BY <2>1, <3>2 DEF RoutesRead
    <3>6. OptionsRead' BY <3>2 DEF OptionsRead
    <3> QED BY <3>3, <3>4, <3>5, <3>6
  <2>3. CASE Snapshot
    <3>1. source # "registry" /\ routes' = UNION {Parsed(e) : e \in table} /\ UNCHANGED <<source, table, stored, told>>
      BY <2>3 DEF Snapshot
    <3>2. TableTypes' /\ TableDistinct' /\ OptionsRead' BY <3>1 DEF TableTypes, TableDistinct, OptionsRead
    <3>3. \A r \in routes' : \E e \in Entries[source] : r \in Parsed(e) BY <3>1 DEF TableTypes
    <3>4. RoutesRead' BY <2>1, <3>1, <3>3 DEF RoutesRead
    <3> QED BY <3>2, <3>4
  <2>4. ASSUME NEW r \in routes, Delete(r) PROVE TablesInv'
    <3>1. UNCHANGED <<source, routes, stored, told>> BY <2>4 DEF Delete
    <3>2. table' \subseteq table BY <2>4 DEF Delete
    <3>3. TableTypes' BY <3>1, <3>2 DEF TableTypes
    <3>4. TableDistinct' BY <3>1, <3>2 DEF TableDistinct
    <3>5. RoutesRead' BY <2>1, <3>1 DEF RoutesRead
    <3>6. OptionsRead' BY <3>1 DEF OptionsRead
    <3> QED BY <3>3, <3>4, <3>5, <3>6
  <2>5. CASE Renew
    <3>1. UNCHANGED <<source, table, routes>> /\ stored' \in Lists /\ told' = ParseOptions(Blob(stored'))
      BY <2>5 DEF Renew
    <3>2. TableTypes' /\ TableDistinct' BY <3>1 DEF TableTypes, TableDistinct
    <3>3. RoutesRead' BY <2>1, <3>1 DEF RoutesRead
    <3>4. OptionsRead' BY <3>1 DEF OptionsRead
    <3> QED BY <3>2, <3>3, <3>4
  <2>6. CASE Release
    <3>1. UNCHANGED <<source, table, routes>> /\ stored' = NothingStored /\ told' = {} BY <2>6 DEF Release
    <3>2. TableTypes' /\ TableDistinct' BY <3>1 DEF TableTypes, TableDistinct
    <3>3. RoutesRead' BY <2>1, <3>1 DEF RoutesRead
    <3>4. OptionsRead' BY <3>1 DEF OptionsRead
    <3> QED BY <3>2, <3>3, <3>4
  <2>7. CASE UNCHANGED vars
    <3>1. UNCHANGED <<source, table, routes, stored, told>> BY <2>7 DEF vars
    <3> QED BY <2>1, <3>1 DEF TableTypes, TableDistinct, RoutesRead, OptionsRead
  <2> QED BY <2>2, <2>3, <2>4, <2>5, <2>6, <2>7 DEF Next
<1> QED BY <1>1, <1>2, PTL DEF Spec


----------------------------------------------------------------------------
(* Networks as they are printed and read.                                  *)

NetSet == [addr : Octets4, plen : 0 .. 32]

(* What follows the length of a network is zero.                           *)
Canonical(net) == \A i \in 1 .. 4 : 8 * (i - 1) >= net.plen => net.addr[i] = 0

LEMMA Octets ==
    ASSUME NEW a \in Octets4
    PROVE  /\ a \in Seq(0 .. 255) /\ a \in Seq(Nat) /\ Len(a) = 4 /\ DOMAIN a = 1 .. 4 /\ \A i \in 1 .. 4 : a[i] \in 0 .. 255
           /\ a = [i \in 1 .. 4 |-> a[i]]
<1>1. a \in [1 .. 4 -> 0 .. 255] BY DEF Octets4
<1>2. PICK S : S = 0 .. 255 OBVIOUS
<1>3. PICK n \in Nat : n = 4 OBVIOUS
<1>4. a \in [1 .. n -> S] BY <1>1, <1>2, <1>3
<1>5. a \in Seq(S) /\ Len(a) = n /\ DOMAIN a = 1 .. n /\ \A i \in 1 .. n : a[i] \in S BY <1>4, FunctionIsSequence
<1>6. a = [i \in 1 .. 4 |-> a[i]] BY <1>1
<1>7. a \in Seq(Nat)
  <2>1. PICK N : N = Nat OBVIOUS
  <2>2. a \in [1 .. n -> N] BY <1>1, <1>3, <2>1
  <2>3. a \in Seq(N) BY <2>2, FunctionIsSequence
  <2> QED BY <2>1, <2>3
<1> QED BY <1>2, <1>3, <1>5, <1>6, <1>7

LEMMA NetFields ==
    ASSUME NEW net \in NetSet
    PROVE  net.addr \in Octets4 /\ net.plen \in 0 .. 32 /\ net = Net(net.addr, net.plen)
BY DEF NetSet, Net

LEMMA AllZeros ==
    ASSUME NEW net \in NetSet, Canonical(net), net.plen = 0
    PROVE  net = Net(Zeros, 0)
<1>1. net.addr = Zeros
  <2>1. \A i \in 1 .. 4 : net.addr[i] = 0 BY DEF Canonical
  <2>2. net.addr = [i \in 1 .. 4 |-> net.addr[i]] BY NetFields, Octets
  <2>3. [i \in 1 .. 4 |-> net.addr[i]] = [i \in 1 .. 4 |-> 0] BY <2>1
  <2>4. Zeros = [i \in 1 .. 4 |-> 0] BY DEF Zeros
  <2> QED BY <2>2, <2>3, <2>4
<1> QED BY <1>1, NetFields

(* iproute2 prints a word, an address or a network.                        *)
LEMMA IpText ==
    ASSUME NEW net \in NetSet, Canonical(net), NEW text, text = NetText(net)
    PROVE  (IF text = Default THEN Net(Zeros, 0)
            ELSE Net(text.octets, IF text.plen = Bare THEN 32 ELSE text.plen)) = net
<1>1. CASE net.plen = 0 BY <1>1, AllZeros DEF NetText
<1>2. CASE net.plen # 0
  <2>1. text = [octets |-> net.addr, plen |-> IF net.plen = 32 THEN Bare ELSE net.plen] BY <1>2 DEF NetText
  <2>2. text # Default
    <3>1. Len(net.addr) = 4 BY NetFields, Octets
    <3>2. net.addr # <<>> BY <3>1
    <3> QED BY <2>1, <3>2 DEF Default
  <2>3. net.plen \in 0 .. 32 BY NetFields
  <2>4. (IF text.plen = Bare THEN 32 ELSE text.plen) = net.plen BY <2>1, <2>3 DEF Bare
  <2> QED BY <2>1, <2>2, <2>4, NetFields
<1> QED BY <1>1, <1>2

(* The kernel's byte order is undone, and no two lengths have one mask.    *)
LEMMA TwiceReversed ==
    ASSUME NEW S, NEW f \in [1 .. 4 -> S]
    PROVE  Reverse(Reverse(f)) = f
<1>1. Len(f) = 4 /\ DOMAIN f = 1 .. 4 BY FunctionIsSequence
<1>2. PICK g : g = Reverse(f) OBVIOUS
<1>3. g = [i \in 1 .. 4 |-> f[(4 - i) + 1]] BY <1>1, <1>2 DEF Reverse
<1>4. g \in [1 .. 4 -> S] BY <1>3
<1>5. Len(g) = 4 BY <1>4, FunctionIsSequence
<1>6. Reverse(g) = [i \in 1 .. 4 |-> g[(4 - i) + 1]] BY <1>5 DEF Reverse
<1>7. \A i \in 1 .. 4 : g[(4 - i) + 1] = f[i] BY <1>3
<1>8. f = [i \in 1 .. 4 |-> f[i]] OBVIOUS
<1> QED BY <1>2, <1>6, <1>7, <1>8

(* How many bits of an octet a mask sets.                                  *)
Bits(n, i) == IF n >= 8 * i THEN 8 ELSE IF n > 8 * (i - 1) THEN n - 8 * (i - 1) ELSE 0

LEMMA Powers ==
    /\ 2 ^ 0 = 1 /\ 2 ^ 1 = 2 /\ 2 ^ 2 = 4 /\ 2 ^ 3 = 8 /\ 2 ^ 4 = 16
    /\ 2 ^ 5 = 32 /\ 2 ^ 6 = 64 /\ 2 ^ 7 = 128 /\ 2 ^ 8 = 256
OBVIOUS

LEMMA PowersDiffer ==
    ASSUME NEW a \in 0 .. 8, NEW b \in 0 .. 8, 256 - 2 ^ a = 256 - 2 ^ b
    PROVE  a = b
<1> DEFINE power(n) == IF n = 0 THEN 1 ELSE IF n = 1 THEN 2 ELSE IF n = 2 THEN 4 ELSE IF n = 3 THEN 8
                       ELSE IF n = 4 THEN 16 ELSE IF n = 5 THEN 32 ELSE IF n = 6 THEN 64
                       ELSE IF n = 7 THEN 128 ELSE 256
<1>1. ASSUME NEW n \in 0 .. 8 PROVE 2 ^ n = power(n)
  <2>1. CASE n = 0 BY <2>1, Powers
  <2>2. CASE n = 1 BY <2>2, Powers
  <2>3. CASE n = 2 BY <2>3, Powers
  <2>4. CASE n = 3 BY <2>4, Powers
  <2>5. CASE n = 4 BY <2>5, Powers
  <2>6. CASE n = 5 BY <2>6, Powers
  <2>7. CASE n = 6 BY <2>7, Powers
  <2>8. CASE n = 7 BY <2>8, Powers
  <2>9. CASE n = 8 BY <2>9, Powers
  <2> QED BY <2>1, <2>2, <2>3, <2>4, <2>5, <2>6, <2>7, <2>8, <2>9
<1>2. PICK x : x = 2 ^ a OBVIOUS
<1>3. PICK y : y = 2 ^ b OBVIOUS
<1>4. x = power(a)
  <2> HIDE DEF power
  <2>1. 2 ^ a = power(a) BY <1>1
  <2> QED BY ONLY <2>1, <1>2, Zenon
<1>5. y = power(b)
  <2> HIDE DEF power
  <2>1. 2 ^ b = power(b) BY <1>1
  <2> QED BY ONLY <2>1, <1>3, Zenon
<1>6. 256 - x = 256 - y BY <1>2, <1>3
<1> QED BY <1>4, <1>6, <1>5

LEMMA MasksDiffer ==
    ASSUME NEW n \in 0 .. 32, NEW m \in 0 .. 32, Mask(n) = Mask(m)
    PROVE  n = m
<1>1. Mask(n) = [i \in 1 .. 4 |-> 256 - 2 ^ (8 - Bits(n, i))] BY DEF Mask, Bits
<1>2. Mask(m) = [i \in 1 .. 4 |-> 256 - 2 ^ (8 - Bits(m, i))] BY DEF Mask, Bits
<1>3. ASSUME NEW i \in 1 .. 4 PROVE Bits(n, i) = Bits(m, i) /\ Bits(n, i) \in 0 .. 8 /\ Bits(m, i) \in 0 .. 8
  <2>1. PICK a \in 0 .. 8 : a = Bits(n, i) BY DEF Bits
  <2>2. PICK b \in 0 .. 8 : b = Bits(m, i) BY DEF Bits
  <2>3. PICK c \in 0 .. 8 : c = 8 - a OBVIOUS
  <2>4. PICK d \in 0 .. 8 : d = 8 - b OBVIOUS
  <2>5. Mask(n)[i] = 256 - 2 ^ c /\ Mask(m)[i] = 256 - 2 ^ d BY <1>1, <1>2, <2>1, <2>2, <2>3, <2>4
  <2>6. 256 - 2 ^ c = 256 - 2 ^ d BY ONLY <2>5, Mask(n) = Mask(m)
  <2>7. c = d BY ONLY <2>6, c \in 0 .. 8, d \in 0 .. 8, PowersDiffer, Zenon
  <2> QED BY <2>1, <2>2, <2>3, <2>4, <2>7
<1>4. Bits(n, 1) + Bits(n, 2) + Bits(n, 3) + Bits(n, 4) = n BY DEF Bits
<1>5. Bits(m, 1) + Bits(m, 2) + Bits(m, 3) + Bits(m, 4) = m BY DEF Bits
<1> QED BY <1>3, <1>4, <1>5

LEMMA ProcText ==
    ASSUME NEW net \in NetSet
    PROVE  /\ Reverse(Reverse(net.addr)) = net.addr
           /\ (CHOOSE n \in 0 .. 32 : Mask(n) = Reverse(Reverse(Mask(net.plen)))) = net.plen
<1>1. net.addr \in [1 .. 4 -> 0 .. 255] /\ net.plen \in 0 .. 32 BY NetFields DEF Octets4
<1>2. PICK S : S = 0 .. 255 OBVIOUS
<1>3. net.addr \in [1 .. 4 -> S] BY <1>1, <1>2
<1>4. Reverse(Reverse(net.addr)) = net.addr BY <1>3, TwiceReversed
<1>5. \E R : Mask(net.plen) \in [1 .. 4 -> R]
  <2>1. PICK f : f = Mask(net.plen) OBVIOUS
  <2>2. DOMAIN f = 1 .. 4 /\ f = [i \in 1 .. 4 |-> f[i]] BY <2>1 DEF Mask
  <2>3. f \in [1 .. 4 -> {f[i] : i \in 1 .. 4}] BY <2>2
  <2> QED BY <2>1, <2>3
<1>6. Reverse(Reverse(Mask(net.plen))) = Mask(net.plen) BY <1>5, TwiceReversed
<1>7. \A n \in 0 .. 32 : Mask(n) = Mask(net.plen) => n = net.plen BY <1>1, MasksDiffer
<1>8. (CHOOSE n \in 0 .. 32 : Mask(n) = Mask(net.plen)) = net.plen
  <2>1. PICK n : n = CHOOSE m \in 0 .. 32 : Mask(m) = Mask(net.plen) OBVIOUS
  <2>2. n \in 0 .. 32 /\ Mask(n) = Mask(net.plen) BY <1>1, <2>1, Zenon
  <2> QED BY <1>7, <2>1, <2>2
<1> QED BY <1>4, <1>6, <1>8

(* netstat leaves out no octet that is not zero, and none it need not.     *)
LEMMA Shown ==
    ASSUME NEW net \in NetSet, NEW k, k = ShownOctets(net), NEW c, c = ClassOctets(net)
    PROVE  /\ c \in 1 .. 3 /\ k \in c .. 4
           /\ \A i \in k + 1 .. 4 : net.addr[i] = 0
           /\ \A j \in c .. k - 1 : \E i \in j + 1 .. 4 : net.addr[i] # 0
<1>1. c \in 1 .. 3 BY DEF ClassOctets
<1> DEFINE good(n) == /\ \A i \in n + 1 .. 4 : net.addr[i] = 0
                      /\ \A j \in c .. n - 1 : \E i \in j + 1 .. 4 : net.addr[i] # 0
           T == {n \in c .. 4 : \A i \in n + 1 .. 4 : net.addr[i] = 0}
<1>2. \E n \in c .. 4 : good(n)
  <2>1. 4 \in T /\ T \subseteq Nat BY <1>1
  <2>2. PICK n \in T : \A m \in T : n <= m
    <3> HIDE DEF T
    <3> QED BY <2>1, LeastNatural
  <2>3. n \in c .. 4 /\ \A i \in n + 1 .. 4 : net.addr[i] = 0 OBVIOUS
  <2>4. ASSUME NEW j \in c .. n - 1 PROVE \E i \in j + 1 .. 4 : net.addr[i] # 0
    <3>1. j \notin T BY <1>1, <2>2, <2>3, <2>4
    <3>2. j \in c .. 4 BY <1>1, <2>3, <2>4
    <3> QED BY <3>1, <3>2
  <2> QED BY <2>3, <2>4
<1>3. k = CHOOSE n \in c .. 4 : good(n) BY Zenon DEF ShownOctets
<1>4. k \in c .. 4 /\ good(k)
  <2> HIDE DEF good
  <2> QED BY <1>2, <1>3, Zenon
<1> QED BY <1>1, <1>4

(* The octets left out are put back.                                       *)
LEMMA Padded ==
    ASSUME NEW a \in Octets4, NEW k \in 1 .. 4, \A i \in k + 1 .. 4 : a[i] = 0
    PROVE  SubSeq(a, 1, k) # <<>> /\ Len(SubSeq(a, 1, k)) = k /\ SubSeq(SubSeq(a, 1, k) \o Zeros, 1, 4) = a
<1>1. PICK S : S = Nat OBVIOUS
<1>2. a \in Seq(S) /\ Len(a) = 4 /\ DOMAIN a = 1 .. 4 /\ a = [i \in 1 .. 4 |-> a[i]] BY <1>1, Octets
<1>3. PICK z : z = Zeros OBVIOUS
<1>4. z \in Seq(S) /\ Len(z) = 4 /\ \A i \in 1 .. 4 : z[i] = 0 BY <1>1, <1>3 DEF Zeros
<1>5. PICK b : b = SubSeq(a, 1, k) OBVIOUS
<1>6. b \in Seq(S) /\ Len(b) = k /\ \A i \in 1 .. k : b[i] = a[i] BY <1>2, <1>5, Prefix
<1>7. PICK q : q = b \o z OBVIOUS
<1>8. /\ q \in Seq(S) /\ Len(q) = k + 4
      /\ \A i \in 1 .. k : q[i] = b[i]
      /\ \A i \in 1 .. 4 : q[k + i] = z[i]
  <2>1. b \in Seq(S) /\ z \in Seq(S) BY <1>4, <1>6
  <2>2. /\ q \in Seq(S) /\ Len(q) = Len(b) + Len(z)
        /\ \A i \in 1 .. Len(b) : q[i] = b[i]
        /\ \A i \in 1 .. Len(z) : q[Len(b) + i] = z[i]
    BY ONLY <2>1, <1>7, Joined
  <2> QED BY <2>2, <1>4, <1>6
<1>9. PICK p : p = SubSeq(q, 1, 4) OBVIOUS
<1>10. 4 \in 0 .. Len(q) BY <1>8
<1>11. p \in Seq(S) /\ Len(p) = 4 /\ \A i \in 1 .. 4 : p[i] = q[i] BY <1>8, <1>9, <1>10, Prefix
<1>12. ASSUME NEW i \in 1 .. 4 PROVE p[i] = a[i]
  <2>1. CASE i <= k BY <2>1, <1>6, <1>8, <1>11
  <2>2. CASE i > k
    <3>1. PICK j \in 1 .. 4 : i = k + j BY <2>2
    <3>2. q[i] = 0 BY <3>1, <1>4, <1>8
    <3>3. a[i] = 0 BY <2>2
    <3> QED BY <3>2, <3>3, <1>11
  <2> QED BY <2>1, <2>2
<1>13. p = a BY <1>1, <1>2, <1>11, <1>12
<1>14. b # <<>> BY <1>6
<1> QED BY <1>3, <1>5, <1>6, <1>7, <1>9, <1>13, <1>14

LEMMA NetstatNet ==
    ASSUME NEW net \in NetSet, Canonical(net), NEW isHost \in BOOLEAN, isHost => net.plen = 32,
           NEW flags, isHost <=> "H" \in flags, NEW text, text = NetstatText(net, isHost)
    PROVE  (IF text = Default THEN Net(Zeros, 0)
            ELSE Net(SubSeq(text.octets \o Zeros, 1, 4), Size(text, flags))) = net
<1>1. net.addr \in Octets4 /\ net.plen \in 0 .. 32 /\ net = Net(net.addr, net.plen) BY NetFields
<1>2. CASE net.plen = 0
  <2>1. text = Default BY <1>2 DEF NetstatText
  <2> QED BY <2>1, <1>2, AllZeros
<1>3. CASE isHost
  <2>1. text = [octets |-> net.addr, plen |-> Bare] BY <1>3 DEF NetstatText
  <2>2. SubSeq(net.addr, 1, 4) = net.addr BY <1>1, Octets, Prefix
  <2>3. net.addr # <<>> /\ SubSeq(net.addr \o Zeros, 1, 4) = net.addr
    <3>1. PICK b : b = SubSeq(net.addr, 1, 4) OBVIOUS
    <3>2. b # <<>> /\ Len(b) = 4 /\ SubSeq(b \o Zeros, 1, 4) = net.addr
      BY <1>1, <3>1, Padded
    <3>3. b = net.addr
      <4>1. PICK a : a = net.addr OBVIOUS
      <4>2. a \in [1 .. 4 -> 0 .. 255] /\ Len(a) = 4 BY <4>1, <1>1, Octets DEF Octets4
      <4>3. a \in Seq(Nat) BY <4>1, <1>1, Octets
      <4>4. SubSeq(a, 1, Len(a)) = a BY <4>3
      <4> QED BY <3>1, <4>1, <4>2, <4>4
    <3> QED BY <3>2, <3>3
  <2>4. text # Default BY <2>1, <2>3 DEF Default
  <2>5. Size(text, flags) = 32 BY <2>1, <1>3 DEF Size
  <2>6. text.octets = net.addr /\ net.plen = 32 BY <2>1, <1>3
  <2>7. SubSeq(text.octets \o Zeros, 1, 4) = net.addr BY ONLY <2>3, <2>6, Zenon
  <2> QED BY ONLY <1>1, <2>4, <2>5, <2>6, <2>7, Zenon
<1>4. CASE ~isHost /\ net.plen # 0
  <2>1. PICK k : k = ShownOctets(net) OBVIOUS
  <2>2. PICK c : c = ClassOctets(net) OBVIOUS
  <2>3. /\ c \in 1 .. 3 /\ k \in c .. 4
        /\ \A i \in k + 1 .. 4 : net.addr[i] = 0
        /\ \A j \in c .. k - 1 : \E i \in j + 1 .. 4 : net.addr[i] # 0
    BY <2>1, <2>2, Shown
  <2>4. /\ text.octets = SubSeq(net.addr, 1, k)
        /\ text.plen = IF net.plen = 8 * c THEN Bare ELSE net.plen
    BY <1>4, <2>1, <2>2 DEF NetstatText
  <2>5. k \in 1 .. 4 BY <2>3
  <2>6. PICK b : b = SubSeq(net.addr, 1, k) OBVIOUS
  <2>7. b # <<>> /\ Len(b) = k /\ SubSeq(b \o Zeros, 1, 4) = net.addr BY <1>1, <2>3, <2>5, <2>6, Padded
  <2>8. text.octets = b BY ONLY <2>4, <2>6, Zenon
  <2>9. text # Default BY <2>7, <2>8 DEF Default
  <2>10. SubSeq(text.octets \o Zeros, 1, 4) = net.addr BY ONLY <2>7, <2>8, Zenon
  <2>11. Size(text, flags) = net.plen
    <3>1. CASE net.plen = 8 * c
      <4>1. \A i \in c + 1 .. 4 : net.addr[i] = 0 BY <2>3, <3>1 DEF Canonical
      <4>2. k = c BY <2>3, <4>1
      <4>3. text.plen = Bare /\ Len(text.octets) = c BY <2>4, <2>8, <2>7, <3>1, <4>2
      <4>4. "H" \notin flags BY <1>4
      <4>5. Size(text, flags) = 8 * Len(text.octets) BY <4>3, <4>4, <2>3 DEF Size
      <4> QED BY <4>3, <4>5, <3>1
    <3>2. CASE net.plen # 8 * c
      <4>1. text.plen = net.plen BY <2>4, <3>2
      <4>2. text.plen # Bare BY <4>1, <1>1 DEF Bare
      <4> QED BY <4>1, <4>2 DEF Size
    <3> QED BY <3>1, <3>2
  <2> QED BY ONLY <1>1, <2>11, <2>10, <2>9, Zenon
<1> QED BY <1>2, <1>3, <1>4

----------------------------------------------------------------------------
(* What the program makes of an entry: no route, or one that says this.    *)

MetricRead(e) ==
    IF source = "ip" THEN (IF e.metric = 0 THEN NoMetric ELSE e.metric)
    ELSE IF source = "netstat" THEN NoMetric ELSE e.metric

ReadAs(e) == Route(e.dest, e.dev, e.via, e.table, MetricRead(e), e.type = "scoped")

LEMMA EntryTypes ==
    ASSUME source \in DOMAIN Kinds, NEW e \in Entries[source]
    PROVE  /\ e.dest \in NetSet /\ Canonical(e.dest)
           /\ e.type \in Kinds[source] /\ (e.type \in {"host", "cloned"} => e.dest.plen = 32)
           /\ (source # "ip" => e.table = "main") /\ e.metric \in Nat
           /\ e.dev # Unnamed /\ e.via \notin {Unnamed, "0.0.0.0"}
BY TablesAssumption DEF NetSet, Canonical

LEMMA IpParsed ==
    ASSUME source = "ip", NEW e \in Entries[source]
    PROVE  Parsed(e) = IF e.type = "unicast" /\ e.table # "local" THEN {ReadAs(e)} ELSE {}
<1>1. source \in DOMAIN Kinds BY DEF Kinds
<1>2. e.dest \in NetSet /\ Canonical(e.dest) /\ e.type \in {"unicast", "local", "reject", "multipath"}
  BY <1>1, EntryTypes DEF Kinds
<1>3. PICK row : row = IpRow(e) OBVIOUS
<1>4. /\ row.text = NetText(e.dest) /\ row.type = e.type /\ row.table = e.table /\ row.via = e.via
      /\ row.metric = MetricRead(e) /\ row.devs = IF e.type = "unicast" THEN {e.dev} ELSE {}
  BY <1>3 DEF IpRow, MetricRead
<1>5. PICK net : net = IF row.text = Default THEN Net(Zeros, 0)
                       ELSE Net(row.text.octets, IF row.text.plen = Bare THEN 32 ELSE row.text.plen)
  OBVIOUS
<1>6. net = e.dest BY <1>2, <1>4, <1>5, IpText
<1>7. ParseIpRoute(row) =
        IF row.type \in SkipTypes \/ row.table = "local" THEN {}
        ELSE {Route(net, dev, row.via, row.table, row.metric, FALSE) : dev \in row.devs}
  BY <1>5 DEF ParseIpRoute
<1>8. Parsed(e) = ParseIpRoute(row) BY <1>3 DEF Parsed
<1>9. CASE e.type = "unicast" /\ e.table # "local"
  <2>1. ParseIpRoute(row) = {Route(net, dev, row.via, row.table, row.metric, FALSE) : dev \in {e.dev}}
    BY <1>4, <1>7, <1>9 DEF SkipTypes
  <2>2. ParseIpRoute(row) = {Route(net, e.dev, row.via, row.table, row.metric, FALSE)} BY <2>1
  <2>3. (e.type = "scoped") = FALSE BY <1>9
  <2>4. Route(net, e.dev, row.via, row.table, row.metric, FALSE) = ReadAs(e)
    BY <1>4, <1>6, <2>3 DEF ReadAs
  <2> QED BY <1>8, <1>9, <2>2, <2>4
<1>10. CASE ~(e.type = "unicast" /\ e.table # "local")
  <2>1. ParseIpRoute(row) = {} BY <1>2, <1>4, <1>7, <1>10 DEF SkipTypes
  <2> QED BY <1>8, <1>10, <2>1
<1> QED BY <1>9, <1>10

LEMMA ProcParsed ==
    ASSUME source = "proc", NEW e \in Entries[source], e.type = "unicast"
    PROVE  Parsed(e) = {ReadAs(e)}
<1>1. source \in DOMAIN Kinds BY DEF Kinds
<1>2. e.dest \in NetSet /\ e.table = "main" BY <1>1, EntryTypes
<1>3. PICK row : row = ProcRow(e) OBVIOUS
<1>4. /\ row.dest = Reverse(e.dest.addr) /\ row.mask = Reverse(Mask(e.dest.plen)) /\ row.via = e.via
      /\ row.dev = e.dev /\ row.metric = MetricRead(e)
      /\ row.flags = {"U"} \cup (IF e.via = NoGateway THEN {} ELSE {"G"}) \cup {}
  BY <1>3 DEF ProcRow, MetricRead
<1>5. PICK plen : plen = CHOOSE n \in 0 .. 32 : Mask(n) = Reverse(row.mask) OBVIOUS
<1>6. plen = e.dest.plen
  <2>1. Reverse(row.mask) = Reverse(Reverse(Mask(e.dest.plen))) BY ONLY <1>4, Zenon
  <2>2. plen = CHOOSE n \in 0 .. 32 : Mask(n) = Reverse(Reverse(Mask(e.dest.plen))) BY ONLY <1>5, <2>1
  <2> QED BY ONLY <1>2, <2>2, ProcText, Zenon
<1>7. PICK via : via = IF "G" \in row.flags THEN row.via ELSE NoGateway OBVIOUS
<1>8. via = e.via BY <1>4, <1>7
<1>9. Reverse(row.dest) = e.dest.addr BY ONLY <1>2, <1>4, ProcText, Zenon
<1>10. Net(Reverse(row.dest), plen) = e.dest BY <1>2, <1>6, <1>9, NetFields
<1>11. "U" \in row.flags BY <1>4
<1>12. ParseProcRoute(row) = {Route(Net(Reverse(row.dest), plen), row.dev, via, "main", row.metric, FALSE)}
  BY <1>5, <1>7, <1>11, Zenon DEF ParseProcRoute
<1>13. (e.type = "scoped") = FALSE OBVIOUS
<1>14. ReadAs(e) = Route(e.dest, e.dev, e.via, "main", MetricRead(e), FALSE) BY <1>2, <1>13 DEF ReadAs
<1>15. Parsed(e) = ParseProcRoute(row) BY <1>3 DEF Parsed
<1> QED BY ONLY <1>4, <1>8, <1>10, <1>12, <1>14, <1>15, Zenon

LEMMA NetstatParsed ==
    ASSUME source = "netstat", NEW e \in Entries[source]
    PROVE  Parsed(e) = IF e.type \in {"cloned", "reject"} THEN {} ELSE {ReadAs(e)}
<1>1. source \in DOMAIN Kinds BY DEF Kinds
<1>2. /\ e.dest \in NetSet /\ Canonical(e.dest) /\ e.type \in {"unicast", "host", "cloned", "scoped", "reject"}
      /\ (e.type \in {"host", "cloned"} => e.dest.plen = 32) /\ e.table = "main"
  BY <1>1, EntryTypes DEF Kinds
<1>3. PICK row : row = NetstatRow(e) OBVIOUS
<1>4. /\ row.text = NetstatText(e.dest, e.type \in {"host", "cloned"}) /\ row.via = e.via /\ row.dev = e.dev
      /\ row.flags = {"U"} \cup CASE e.type = "host"   -> {"H"}
                                  [] e.type = "cloned" -> {"H", "W"}
                                  [] e.type = "scoped" -> {"I"}
                                  [] e.type = "reject" -> {"R"}
                                  [] OTHER             -> {}
  BY <1>3 DEF NetstatRow
<1>5. /\ "U" \in row.flags
      /\ "H" \in row.flags <=> e.type \in {"host", "cloned"}
      /\ "I" \in row.flags <=> e.type = "scoped"
      /\ row.flags \cap SkipFlags # {} <=> e.type \in {"cloned", "reject"}
  BY <1>2, <1>4 DEF SkipFlags
<1>6. PICK net : net = IF row.text = Default THEN Net(Zeros, 0)
                       ELSE Net(SubSeq(row.text.octets \o Zeros, 1, 4), Size(row.text, row.flags))
  OBVIOUS
<1>7. net = e.dest
  <2>1. PICK isHost \in BOOLEAN : isHost = (e.type \in {"host", "cloned"})
    <3>1. (e.type \in {"host", "cloned"}) \in BOOLEAN OBVIOUS
    <3> QED BY <3>1, Zenon
  <2>2. (isHost => e.dest.plen = 32) /\ (isHost <=> "H" \in row.flags) /\ row.text = NetstatText(e.dest, isHost)
    BY <1>2, <1>4, <1>5, <2>1
  <2>3. PICK text : text = row.text OBVIOUS
  <2>4. PICK flags : flags = row.flags OBVIOUS
  <2>5. (isHost => e.dest.plen = 32) /\ (isHost <=> "H" \in flags) /\ text = NetstatText(e.dest, isHost)
    BY ONLY <2>2, <2>3, <2>4, Zenon
  <2>6. (IF text = Default THEN Net(Zeros, 0)
         ELSE Net(SubSeq(text.octets \o Zeros, 1, 4), Size(text, flags))) = e.dest
    BY ONLY <1>2, <2>5, NetstatNet, isHost \in BOOLEAN
  <2> QED BY ONLY <1>6, <2>3, <2>4, <2>6, Zenon
<1>8. ParseNetstat(row) =
        IF row.flags \cap SkipFlags # {} \/ "U" \notin row.flags THEN {}
        ELSE {Route(net, row.dev, row.via, "main", NoMetric, "I" \in row.flags)}
  BY ONLY <1>6, Zenon DEF ParseNetstat
<1>9. Parsed(e) = ParseNetstat(row) BY <1>3 DEF Parsed
<1>10. ReadAs(e) = Route(e.dest, e.dev, e.via, "main", NoMetric, e.type = "scoped") BY <1>2 DEF ReadAs, MetricRead
<1>11. Route(net, row.dev, row.via, "main", NoMetric, "I" \in row.flags) = ReadAs(e)
  <2>1. ("I" \in row.flags) = (e.type = "scoped") BY <1>5
  <2> QED BY ONLY <1>4, <1>7, <1>10, <2>1, Zenon
<1> QED BY ONLY <1>5, <1>8, <1>9, <1>11, Zenon

LEMMA WindowsParsed ==
    ASSUME source = "windows", NEW e \in Entries[source]
    PROVE  Parsed(e) = IF e.dev \in Loopback THEN {} ELSE {ReadAs(e)}
<1>1. source \in DOMAIN Kinds BY DEF Kinds
<1>2. e.type = "unicast" /\ e.via # "0.0.0.0" /\ e.table = "main" BY <1>1, EntryTypes DEF Kinds
<1>3. PICK row : row = WindowsRow(e) OBVIOUS
<1>4. row.dest = e.dest /\ row.dev = e.dev /\ row.metric = MetricRead(e) /\ NextHop(row.hop) = e.via
  BY <1>2, <1>3 DEF WindowsRow, NextHop, MetricRead
<1>5. Parsed(e) = ParseWindows(row) BY <1>3 DEF Parsed
<1>6. ReadAs(e) = Route(e.dest, e.dev, e.via, "main", MetricRead(e), FALSE)
  <2>1. (e.type = "scoped") = FALSE BY <1>2
  <2> QED BY <1>2, <2>1 DEF ReadAs
<1> QED BY <1>4, <1>5, <1>6 DEF ParseWindows

(* A snapshot shows the routes that forward traffic, each with its         *)
(* network, device, gateway and table, and no others (the parsers of       *)
(* linux.py, macos.py and windows.py), whatever the table holds.           *)
THEOREM SnapshotFaithful == Spec => []TableFaithful
<1>1. TablesInv => TableFaithful
  <2> SUFFICES ASSUME TablesInv, NEW e \in table, Plain(e)
               PROVE  /\ Cardinality(Parsed(e)) = IF Forwards(e) THEN 1 ELSE 0
                      /\ \A r \in Parsed(e) : Means(r, e)
    BY DEF TableFaithful
  <2>1. source \in DOMAIN Kinds /\ e \in Entries[source] BY DEF TablesInv, TableTypes
  <2>2. /\ e.type \in Kinds[source] /\ (source # "ip" => e.table = "main") BY <2>1, EntryTypes
  <2>3. Parsed(e) = IF Forwards(e) THEN {ReadAs(e)} ELSE {}
    <3>1. CASE source = "ip"
      <4>1. e.type \in {"unicast", "local", "reject"} BY <2>2, <3>1 DEF Kinds, Plain
      <4>2. Forwards(e) <=> e.type = "unicast" /\ e.table # "local" BY <3>1, <4>1 DEF Forwards, SkipTypes
      <4> QED BY <2>1, <3>1, <4>2, IpParsed
    <3>2. CASE source = "proc"
      <4>1. e.type = "unicast" /\ e.table = "main" BY <2>2, <3>2 DEF Kinds, Plain
      <4>2. Forwards(e) BY <3>2, <4>1 DEF Forwards, SkipTypes
      <4> QED BY <2>1, <3>2, <4>1, <4>2, ProcParsed
    <3>3. CASE source = "netstat"
      <4>1. e.type \in {"unicast", "host", "cloned", "scoped", "reject"} /\ e.table = "main" BY <2>2, <3>3 DEF Kinds
      <4>2. Forwards(e) <=> e.type \notin {"cloned", "reject"} BY <3>3, <4>1 DEF Forwards, SkipTypes
      <4> QED BY <2>1, <3>3, <4>2, NetstatParsed
    <3>4. CASE source = "windows"
      <4>1. e.type = "unicast" /\ e.table = "main" BY <2>2, <3>4 DEF Kinds
      <4>2. Forwards(e) <=> e.dev \notin Loopback BY <3>4, <4>1 DEF Forwards, SkipTypes
      <4> QED BY <2>1, <3>4, <4>2, WindowsParsed
    <3> QED BY <2>1, <3>1, <3>2, <3>3, <3>4 DEF Kinds
  <2>4. Means(ReadAs(e), e) BY DEF ReadAs, Route, Means
  <2>5. Cardinality({ReadAs(e)}) = 1 /\ Cardinality({}) = 0
    <3>1. PICK r : r = ReadAs(e) OBVIOUS
    <3>2. Cardinality({r}) = 1 BY FS_Singleton
    <3> QED BY <3>1, <3>2, FS_EmptySet
  <2> QED BY ONLY <2>3, <2>4, <2>5, Zenon
<1> QED BY <1>1, TablesInvariant, PTL

----------------------------------------------------------------------------
(* Deleting a route.                                                       *)

LEMMA RouteFields ==
    ASSUME NEW e, NEW r, r = ReadAs(e)
    PROVE  /\ r.dest = e.dest /\ r.iface = e.dev /\ r.gateway = e.via /\ r.table = e.table
           /\ r.metric = MetricRead(e) /\ r.scoped = (e.type = "scoped")
BY DEF ReadAs, Route

(* What an entry is that is read as a given route.                         *)
Known(e, r) ==
    /\ r = ReadAs(e)
    /\ source = "ip" => e.type = "unicast" /\ e.table # "local"
    /\ source = "netstat" => e.type \notin {"cloned", "reject"}

LEMMA ReadBack ==
    ASSUME source \in {"ip", "netstat", "windows"}, NEW e \in Entries[source], NEW r \in Parsed(e)
    PROVE  Known(e, r)
BY IpParsed, NetstatParsed, WindowsParsed DEF Known

(* The system takes one of what the command means, the least in its order. *)
LEMMA TakenLeast ==
    ASSUME NEW es, es # {}, \A e \in es : e.metric \in Nat
    PROVE  Taken(es) \in es /\ \A f \in es : Taken(es).metric <= f.metric
<1>1. PICK T : T = {e.metric : e \in es} OBVIOUS
<1>2. T \subseteq Nat /\ T # {} BY <1>1
<1>3. PICK m \in T : \A n \in T : m <= n BY <1>2, LeastNatural
<1>4. PICK e \in es : e.metric = m BY <1>1, <1>3
<1>5. \A f \in es : e.metric <= f.metric BY <1>1, <1>3, <1>4
<1> QED BY <1>4, <1>5, Zenon DEF Taken

(* If nothing else the command means is as good, it is the entry read.     *)
LEMMA TakesRead ==
    ASSUME NEW es, \A e \in es : e.metric \in Nat, NEW one \in es,
           \A f \in es : f.metric <= one.metric => f = one
    PROVE  Taken(es) = one
<1>1. Taken(es) \in es /\ \A f \in es : Taken(es).metric <= f.metric BY TakenLeast
<1> QED BY <1>1

LEMMA IpDeletion ==
    ASSUME TablesInv, source = "ip", NEW e0 \in Entries[source], NEW r, Known(e0, r), NEW es, es = Meant(Command(r))
    PROVE  /\ \A e \in es : e \in table /\ e.dest = r.dest /\ e.dev = r.iface
           /\ \A e \in table : Known(e, r) => e \in es /\ \A f \in es : f.metric <= e.metric => f = e
<1>1. source \in DOMAIN Kinds BY DEF Kinds
<1>2. \A e \in Entries[source] : e.type \in {"unicast", "local", "reject", "multipath"}
  BY <1>1, EntryTypes DEF Kinds
<1>3. table \subseteq Entries[source] BY <1>1 DEF TablesInv, TableTypes
<1>4. \A e \in Entries[source] : e.metric \in Nat /\ e.dev # Unnamed /\ e.via # Unnamed BY <1>1, EntryTypes
<1>5. /\ r.dest = e0.dest /\ r.iface = e0.dev /\ r.gateway = e0.via /\ r.table = e0.table
      /\ r.metric = MetricRead(e0)
  BY RouteFields DEF Known
<1>6. PICK cmd : cmd = Command(r) OBVIOUS
<1>7. /\ cmd.dest = r.dest /\ cmd.via = IF r.gateway # NoGateway THEN r.gateway ELSE Unnamed
      /\ cmd.dev = r.iface /\ cmd.table = r.table /\ cmd.metric = IF r.metric = NoMetric THEN Unnamed ELSE r.metric
  BY <1>6 DEF Command, MetricNamed
<1>8. /\ e0.metric = 0 => cmd.metric = Unnamed
      /\ e0.metric # 0 => cmd.metric = e0.metric /\ cmd.metric # Unnamed
  BY <1>4, <1>5, <1>7, TablesAssumption DEF MetricRead
<1>9. \A e \in table : e \in es <=>
         /\ e.dest = r.dest /\ e.type \notin {"local", "reject", "multipath", "scoped", "cloned"}
         /\ e.dev = r.iface /\ (cmd.via = Unnamed \/ cmd.via = e.via)
         /\ e.table = r.table /\ (cmd.metric = Unnamed \/ cmd.metric = e.metric)
  BY <1>4, <1>5, <1>6, <1>7 DEF Meant, Named, SkipTypes
<1>10. es \subseteq table BY DEF Meant
<1>11. ASSUME NEW e \in table, Known(e, r)
       PROVE  e \in es /\ \A f \in es : f.metric <= e.metric => f = e
  <2>1. /\ e.type = "unicast" /\ r.dest = e.dest /\ r.iface = e.dev /\ r.gateway = e.via /\ r.table = e.table
        /\ r.metric = MetricRead(e)
    BY <1>11, RouteFields DEF Known
  <2>2. e.metric = e0.metric BY <1>3, <1>4, <1>5, <2>1, TablesAssumption DEF MetricRead
  <2>3. e \in es BY <1>7, <1>8, <1>9, <2>1, <2>2
  <2>4. ASSUME NEW f \in es, f.metric <= e.metric PROVE f = e
    <3>1. f \in table /\ f.dest = e.dest /\ f.table = e.table /\ (cmd.metric = Unnamed \/ cmd.metric = f.metric)
      BY <1>9, <1>10, <2>1
    <3>2. f.metric = e.metric
      <4>1. CASE e0.metric = 0 BY <4>1, <1>3, <1>4, <2>2, <2>4, <3>1
      <4>2. CASE e0.metric # 0 BY <4>2, <1>8, <2>2, <3>1
      <4> QED BY <4>1, <4>2
    <3>3. ~Distinct(source, f, e) BY <3>1, <3>2 DEF Distinct
    <3> QED BY <3>1, <3>3 DEF TablesInv, TableDistinct
  <2> QED BY <2>3, <2>4
<1> QED BY <1>9, <1>10, <1>11

LEMMA NetstatDeletion ==
    ASSUME TablesInv, source = "netstat", NEW r, ~r.scoped,
           NEW es \in {Meant(Command(r)), Careless(Command(r))}, es # {}
    PROVE  /\ \A e \in es : e \in table /\ e.dest = r.dest
           /\ \A e \in table : Known(e, r) => e \in es /\ \A f \in es : f.metric <= e.metric => f = e
<1>1. Command(r).dest = r.dest BY DEF Command
<1>2. \A e \in es : e \in table /\ e.dest = r.dest /\ e.type \notin {"scoped", "cloned"}
  BY <1>1 DEF Meant, Careless
<1>3. ASSUME NEW e \in table, Known(e, r)
      PROVE  \A f \in es : f = e
  <2>1. r.dest = e.dest /\ r.scoped = (e.type = "scoped") BY <1>3, RouteFields DEF Known
  <2>2. e.type \notin {"scoped", "cloned"} BY <1>3, <2>1 DEF Known
  <2>3. \A f \in es : ~Distinct(source, f, e) BY <1>2, <2>1, <2>2 DEF Distinct
  <2> QED BY <1>2, <2>3 DEF TablesInv, TableDistinct
<1> QED BY <1>2, <1>3

LEMMA WindowsDeletion ==
    ASSUME TablesInv, source = "windows", NEW e0 \in Entries[source], NEW r, Known(e0, r), NEW es, es = Meant(Command(r))
    PROVE  /\ \A e \in es : e \in table /\ e.dest = r.dest /\ e.dev = r.iface
           /\ \A e \in table : Known(e, r) => e \in es /\ \A f \in es : f.metric <= e.metric => f = e
<1>1. source \in DOMAIN Kinds BY DEF Kinds
<1>2. table \subseteq Entries[source] BY <1>1 DEF TablesInv, TableTypes
<1>3. \A e \in Entries[source] : e.type = "unicast" /\ e.dev # Unnamed /\ e.via # Unnamed
  BY <1>1, EntryTypes DEF Kinds
<1>4. r.iface = e0.dev /\ r.gateway = e0.via BY RouteFields DEF Known
<1>5. PICK cmd : cmd = Command(r) OBVIOUS
<1>6. cmd.dest = r.dest /\ cmd.via = r.gateway /\ cmd.dev = r.iface /\ cmd.table = r.table /\ cmd.metric = Unnamed
  BY <1>5 DEF Command
<1>7. es = {e \in table : /\ e.dest = r.dest /\ e.type \notin {"local", "reject", "multipath", "scoped", "cloned"}
                          /\ e.dev = r.iface /\ e.via = r.gateway /\ e.table = r.table}
  BY <1>3, <1>4, <1>5, <1>6 DEF Meant, Named, SkipTypes
<1>8. ASSUME NEW e \in table, Known(e, r)
      PROVE  e \in es /\ \A f \in es : f = e
  <2>1. r.dest = e.dest /\ r.iface = e.dev /\ r.gateway = e.via /\ r.table = e.table
    BY <1>8, RouteFields DEF Known
  <2>2. e \in es BY <1>2, <1>3, <1>7, <2>1
  <2>3. \A f \in es : f \in table /\ ~Distinct(source, f, e) BY <1>7, <2>1 DEF Distinct
  <2> QED BY <2>2, <2>3 DEF TablesInv, TableDistinct
<1> QED BY <1>7, <1>8

(* A command that deletes a route takes away the entry that was read as    *)
(* it, as long as there is one, and otherwise nothing of another           *)
(* destination or, where it can be named, another interface                *)
(* (delete_route of linux.py, macos.py and windows.py).                    *)
THEOREM DeletionsExact == Spec => DeletionExact
<1> DEFINE Exact ==
      \A r \in routes : Delete(r) /\ table' # table =>
        LET read == {e \in table : Parsed(e) = {r}}
        IN  IF read # {} THEN table' = table \ read
            ELSE \A e \in table \ table' :
                    e.dest = r.dest /\ (source # "netstat" => e.dev = r.iface)
<1>1. TablesInv => Exact
  <2> SUFFICES ASSUME TablesInv, NEW r \in routes, Delete(r), table' # table,
                      NEW read, read = {e \in table : Parsed(e) = {r}}
               PROVE  IF read # {} THEN table' = table \ read
                      ELSE \A e \in table \ table' :
                              e.dest = r.dest /\ (source # "netstat" => e.dev = r.iface)
    OBVIOUS
  <2>1. source \in {"ip", "netstat", "windows"}
    <3>1. source \in DOMAIN Kinds /\ source # "registry" BY DEF TablesInv, TableTypes, RoutesRead
    <3>2. source # "proc" BY DEF Delete
    <3> QED BY <3>1, <3>2 DEF Kinds
  <2>2. table \subseteq Entries[source] BY <2>1 DEF TablesInv, TableTypes
  <2>3. PICK e0 \in Entries[source] : r \in Parsed(e0) BY DEF TablesInv, RoutesRead
  <2>4. Known(e0, r) BY <2>1, <2>3, ReadBack
  <2>5. PICK es \in {Meant(Command(r)), Careless(Command(r))} : es # {} /\ table' = table \ {Taken(es)}
    BY DEF Delete
  <2>6. ~r.scoped BY DEF Delete
  <2>7. /\ \A e \in es : e \in table /\ e.dest = r.dest /\ (source # "netstat" => e.dev = r.iface)
        /\ \A e \in table : Known(e, r) => e \in es /\ \A f \in es : f.metric <= e.metric => f = e
    <3>1. CASE source = "ip"
      <4>1. es = Meant(Command(r)) BY <2>5, <3>1 DEF Careless
      <4> QED BY <2>4, <3>1, <4>1, IpDeletion
    <3>2. CASE source = "netstat" BY <2>5, <2>6, <3>2, NetstatDeletion
    <3>3. CASE source = "windows"
      <4>1. es = Meant(Command(r)) BY <2>5, <3>3 DEF Careless
      <4> QED BY <2>4, <3>3, <4>1, WindowsDeletion
    <3> QED BY <2>1, <3>1, <3>2, <3>3
  <2>8. \A e \in Entries[source] : e.metric \in Nat
    <3>1. source \in DOMAIN Kinds BY <2>1 DEF Kinds
    <3> QED BY <3>1, EntryTypes
  <2>9. \A e \in es : e.metric \in Nat BY <2>2, <2>7, <2>8
  <2>10. \A e \in read : e \in table /\ Known(e, r)
    <3>1. \A e \in read : e \in table /\ e \in Entries[source] /\ r \in Parsed(e) BY <2>2
    <3> QED BY <2>1, <3>1, ReadBack
  <2>11. CASE read # {}
    <3>1. PICK one \in read : TRUE BY <2>11
    <3>2. one \in es /\ \A f \in es : f.metric <= one.metric => f = one BY <2>7, <2>10
    <3>3. Taken(es) = one BY <2>9, <3>2, TakesRead
    <3>4. \A e \in read : e = one
      <4> SUFFICES ASSUME NEW e \in read PROVE e = one OBVIOUS
      <4>1. e \in es /\ \A f \in es : f.metric <= e.metric => f = e BY <2>7, <2>10
      <4>2. Taken(es) = e BY <2>9, <4>1, TakesRead
      <4> QED BY <3>3, <4>2
    <3>5. read = {one} BY <3>4
    <3> QED BY <2>5, <2>11, <3>3, <3>5
  <2>12. CASE read = {}
    <3>1. Taken(es) \in es BY <2>5, <2>9, TakenLeast
    <3> QED BY <2>5, <2>7, <2>12, <3>1
  <2> QED BY <2>11, <2>12
<1> QED BY <1>1, TablesInvariant, PTL DEF DeletionExact

----------------------------------------------------------------------------
(* Reading the options stored in the registry.                             *)

OptionRead == [code : Nat, length : Nat, data : Seq(Nat)]

ScanResult == [ok : BOOLEAN, end : Nat, options : SUBSET OptionRead]

(* The parts of Scan, with headers of h words at word i.                   *)
NextRecord(blob, h, i) == i + h + Words(blob[i + 3])

Refused(blob, h, i) == blob[i + 1] > 255 \/ blob[i + 2] > 1 \/ blob[i + 3] > 4 * (Len(blob) - i - h)

OptionAt(blob, h, i) ==
    [code |-> blob[i + 1], length |-> blob[i + 3], data |-> SubSeq(blob, i + h + 1, NextRecord(blob, h, i))]

WithOption(rest, this, vendor) ==
    IF vendor = 1 \/ \E o \in rest.options : o.code = this.code THEN rest
    ELSE [rest EXCEPT !.options = @ \cup {this}]

ScanFrom(blob, h, i, scan) ==
    IF i + h > Len(blob) THEN [ok |-> TRUE, end |-> i, options |-> {}]
    ELSE IF Refused(blob, h, i) THEN [ok |-> FALSE, end |-> i, options |-> {}]
    ELSE WithOption(scan[NextRecord(blob, h, i)], OptionAt(blob, h, i), blob[i + 2])

LEMMA WordsOf ==
    ASSUME NEW n \in Nat, NEW w, w = Words(n)
    PROVE  w \in Nat /\ n <= 4 * w /\ 4 * w < n + 4
BY DEF Words

LEMMA RecordRead ==
    ASSUME NEW blob \in Seq(Nat), NEW h \in {3, 4}, NEW i \in Nat, i + h <= Len(blob)
    PROVE  /\ blob[i + 1] \in Nat /\ blob[i + 2] \in Nat /\ blob[i + 3] \in Nat
           /\ NextRecord(blob, h, i) \in Nat /\ NextRecord(blob, h, i) > i
           /\ ~Refused(blob, h, i) => /\ NextRecord(blob, h, i) <= Len(blob)
                                      /\ OptionAt(blob, h, i) \in OptionRead
<1>1. Len(blob) \in Nat BY LenProperties
<1>2. i + 1 \in 1 .. Len(blob) /\ i + 2 \in 1 .. Len(blob) /\ i + 3 \in 1 .. Len(blob) BY <1>1
<1>3. blob[i + 1] \in Nat /\ blob[i + 2] \in Nat BY <1>2
<1>4. PICK length \in Nat : length = blob[i + 3] BY <1>2
<1>5. PICK w \in Nat : w = Words(length) BY WordsOf
<1>6. length <= 4 * w /\ 4 * w < length + 4 BY <1>5, WordsOf
<1>7. PICK next \in Nat : next = i + h + w OBVIOUS
<1>8. next = NextRecord(blob, h, i) BY <1>4, <1>5, <1>7 DEF NextRecord
<1>9. next > i BY <1>7
<1>10. ASSUME ~Refused(blob, h, i) PROVE next <= Len(blob) /\ OptionAt(blob, h, i) \in OptionRead
  <2>1. ~(length > 4 * (Len(blob) - i - h)) BY <1>4, <1>10 DEF Refused
  <2>2. next <= Len(blob) BY <1>1, <1>6, <1>7, <2>1
  <2>3. PICK S : S = Nat OBVIOUS
  <2>4. PICK a \in Nat \ {0} : a = i + h + 1 OBVIOUS
  <2>5. next \in 0 .. Len(blob) /\ blob \in Seq(S) BY <1>1, <2>2, <2>3
  <2>6. SubSeq(blob, a, next) \in Seq(S) BY ONLY <2>5, a \in Nat \ {0}, Between
  <2>7. PICK part \in Seq(Nat) : part = SubSeq(blob, i + h + 1, next) BY <2>3, <2>4, <2>6
  <2>8. OptionAt(blob, h, i) = [code |-> blob[i + 1], length |-> length, data |-> part]
    BY <1>4, <1>8, <2>7 DEF OptionAt
  <2> QED BY <1>3, <2>2, <2>8 DEF OptionRead
<1> QED BY <1>3, <1>4, <1>8, <1>9, <1>10

LEMMA OptionAdded ==
    ASSUME NEW rest \in ScanResult, NEW this \in OptionRead, NEW vendor, NEW v, v = WithOption(rest, this, vendor)
    PROVE  /\ v \in ScanResult /\ v.ok = rest.ok /\ v.end = rest.end
           /\ v.options = IF vendor = 1 \/ \E o \in rest.options : o.code = this.code THEN rest.options
                          ELSE rest.options \cup {this}
<1>1. CASE vendor = 1 \/ \E o \in rest.options : o.code = this.code BY <1>1 DEF WithOption
<1>2. CASE ~(vendor = 1 \/ \E o \in rest.options : o.code = this.code)
  <2>1. v = [rest EXCEPT !.options = @ \cup {this}] BY <1>2 DEF WithOption
  <2>2. v.ok = rest.ok /\ v.end = rest.end /\ v.options = rest.options \cup {this} BY <2>1 DEF ScanResult
  <2>3. v \in ScanResult BY <2>1 DEF ScanResult
  <2> QED BY <1>2, <2>2, <2>3
<1> QED BY <1>1, <1>2

(* Scan is a function of this kind, at the first word.                     *)
Scanning(blob, h, f) == f \in [Nat -> ScanResult] /\ \A i \in Nat : f[i] = ScanFrom(blob, h, i, f)

LEMMA ScanIsRecursive ==
    ASSUME NEW blob \in Seq(Nat), NEW h \in {3, 4}
    PROVE  \E f : Scanning(blob, h, f) /\ Scan(blob, h) = f[0]
<1> DEFINE D == Nat
           V == ScanResult
           F == [i \in Nat |-> [g \in [Nat -> ScanResult] |-> ScanFrom(blob, h, i, g)]]
           N == Len(blob) + 1
           rank == [i \in Nat |-> IF i > Len(blob) THEN 0 ELSE N - i]
           scan == CHOOSE f : f = [i \in Nat |-> ScanFrom(blob, h, i, f)]
<1>1. Len(blob) \in Nat BY LenProperties
<1>2. N \in Nat /\ rank \in [Nat -> 0 .. N] BY <1>1
<1>3. ASSUME NEW i \in Nat PROVE [ok |-> TRUE, end |-> i, options |-> {}] \in ScanResult
                                 /\ [ok |-> FALSE, end |-> i, options |-> {}] \in ScanResult
  BY DEF ScanResult
<1>4. ASSUME NEW i \in Nat, NEW g, i + h <= Len(blob) => g[NextRecord(blob, h, i)] \in ScanResult
      PROVE  ScanFrom(blob, h, i, g) \in ScanResult
  <2>1. CASE i + h > Len(blob) BY <2>1, <1>3 DEF ScanFrom
  <2>2. CASE ~(i + h > Len(blob)) /\ Refused(blob, h, i) BY <2>2, <1>3 DEF ScanFrom
  <2>3. CASE ~(i + h > Len(blob)) /\ ~Refused(blob, h, i)
    <3>1. i + h <= Len(blob) BY <2>3, <1>1
    <3>2. NextRecord(blob, h, i) \in Nat /\ OptionAt(blob, h, i) \in OptionRead BY <2>3, <3>1, RecordRead
    <3>3. PICK rest \in ScanResult : rest = g[NextRecord(blob, h, i)] BY <1>4, <3>1
    <3>4. WithOption(rest, OptionAt(blob, h, i), blob[i + 2]) \in ScanResult BY <3>2, OptionAdded
    <3> QED BY <2>3, <3>3, <3>4 DEF ScanFrom
  <2> QED BY <2>1, <2>2, <2>3
<1>5. F \in [Nat -> [[Nat -> ScanResult] -> ScanResult]]
  <2>1. ASSUME NEW i \in Nat, NEW g \in [Nat -> ScanResult] PROVE ScanFrom(blob, h, i, g) \in ScanResult
    <3>1. i + h <= Len(blob) => g[NextRecord(blob, h, i)] \in ScanResult BY RecordRead
    <3> QED BY <3>1, <1>4
  <2> QED BY <2>1
<1>6. \A i \in Nat, g \in [Nat -> ScanResult] : F[i][g] = ScanFrom(blob, h, i, g) OBVIOUS
<1>7. ASSUME NEW d \in Nat, NEW g \in [Nat -> ScanResult], NEW k \in [Nat -> ScanResult],
             \A e \in Nat : rank[e] < rank[d] => g[e] = k[e]
      PROVE  F[d][g] = F[d][k]
  <2>1. CASE d + h > Len(blob) BY <2>1, <1>6 DEF ScanFrom
  <2>2. CASE ~(d + h > Len(blob))
    <3>1. d + h <= Len(blob) BY <2>2, <1>1
    <3>2. PICK next \in Nat : next = NextRecord(blob, h, d) /\ next > d BY <3>1, RecordRead
    <3>3. rank[next] < rank[d] BY <1>1, <3>1, <3>2
    <3>4. g[next] = k[next] BY <1>7, <3>3
    <3>5. ScanFrom(blob, h, d, g) = ScanFrom(blob, h, d, k) BY <2>2, <3>2, <3>4 DEF ScanFrom
    <3> QED BY <3>5, <1>6
  <2> QED BY <2>1, <2>2
<1>8. Recursive(D, V, N, rank, F)
  <2>1. ScanResult # {} BY <1>3
  <2>2. \A d \in Nat : \A g, k \in [Nat -> ScanResult] :
            (\A e \in Nat : rank[e] < rank[d] => g[e] = k[e]) => F[d][g] = F[d][k]
    BY <1>7
  <2> HIDE DEF F, rank, N
  <2> QED BY <1>2, <1>5, <2>1, <2>2 DEF Recursive
<1>9. PICK f \in [D -> V] : \A d \in D : f[d] = F[d][f]
  <2> HIDE DEF D, V, F, rank, N
  <2> QED BY <1>8, RecursiveFunction
<1>10. \E g : g \in [Nat -> ScanResult] /\ g = [i \in Nat |-> ScanFrom(blob, h, i, g)]
  <2>1. f = [d \in Nat |-> f[d]] OBVIOUS
  <2>2. \A d \in Nat : f[d] = ScanFrom(blob, h, d, f) BY <1>9, <1>6
  <2> QED BY <2>1, <2>2
<1>11. scan = [i \in Nat |-> ScanFrom(blob, h, i, scan)] BY <1>10
<1>12. Scan(blob, h) = scan[0] BY DEF Scan, ScanFrom, Refused, NextRecord, OptionAt, WithOption
<1> HIDE DEF scan
<1>13. scan \in [Nat -> ScanResult]
  <2> DEFINE T == {rank[i] : i \in {j \in Nat : scan[j] \notin ScanResult}}
  <2>1. ASSUME T # {} PROVE FALSE
    <3>1. T \subseteq Nat BY <1>2
    <3>2. PICK n \in T : \A m \in T : n <= m
      <4> HIDE DEF T
      <4> QED BY <2>1, <3>1, LeastNatural
    <3>3. PICK i \in Nat : rank[i] = n /\ scan[i] \notin ScanResult OBVIOUS
    <3>4. ASSUME i + h <= Len(blob) PROVE scan[NextRecord(blob, h, i)] \in ScanResult
      <4>1. PICK next \in Nat : next = NextRecord(blob, h, i) /\ next > i BY <3>4, RecordRead
      <4>2. rank[next] < n BY <1>1, <3>3, <3>4, <4>1
      <4>3. rank[next] \in Nat /\ n \in Nat BY <1>2, <3>1
      <4>4. rank[next] \notin T
        <5> HIDE DEF T, rank
        <5> QED BY <3>2, <4>2, <4>3
      <4> QED BY <4>1, <4>4
    <3>5. ScanFrom(blob, h, i, scan) \in ScanResult BY <3>4, <1>4
    <3> QED BY <3>3, <3>5, <1>11
  <2>2. \A i \in Nat : scan[i] \in ScanResult BY <2>1
  <2>3. scan = [i \in Nat |-> scan[i]] BY <1>11
  <2> QED BY <2>2, <2>3
<1>14. \A i \in Nat : scan[i] = ScanFrom(blob, h, i, scan) BY <1>11
<1> QED BY <1>12, <1>13, <1>14 DEF Scanning

OptionStored == [code : 0 .. 255, vendor : {0, 1}, expiry : Nat, length : Nat, data : Seq(Nat)]

WellFormed(list) ==
    /\ list.layout \in {3, 4} /\ list.options \in Seq(OptionStored)
    /\ \A i \in 1 .. Len(list.options) :
           /\ Len(list.options[i].data) = Words(list.options[i].length)
           /\ \A j \in 1 .. i - 1 : list.options[i].code # list.options[j].code

(* The words of one option.                                                *)
IsRecord(r, o, h) ==
    /\ r \in Seq(Nat) /\ Len(r) = h + Words(o.length)
    /\ r[1] = o.code /\ r[2] = o.vendor /\ r[3] = o.length
    /\ \A j \in 1 .. Words(o.length) : r[h + j] = o.data[j]

LEMMA RecordWords ==
    ASSUME NEW o \in OptionStored, Len(o.data) = Words(o.length), NEW h \in {3, 4}, NEW r, r = Record(o, h)
    PROVE  IsRecord(r, o, h)
<1>1. PICK w \in Nat : w = Words(o.length) BY WordsOf DEF OptionStored
<1>2. o.code \in Nat /\ o.vendor \in Nat /\ o.length \in Nat /\ o.expiry \in Nat /\ o.data \in Seq(Nat)
  <2>1. o.code \in 0 .. 255 /\ o.vendor \in {0, 1} BY DEF OptionStored
  <2>2. o.code \in Nat BY ONLY <2>1
  <2>3. o.vendor \in Nat BY ONLY <2>1
  <2>4. o.length \in Nat /\ o.expiry \in Nat /\ o.data \in Seq(Nat) BY DEF OptionStored
  <2> QED BY <2>2, <2>3, <2>4
<1>3. PICK S : S = Nat OBVIOUS
<1>4. PICK a : a = <<o.code, o.vendor, o.length>> OBVIOUS
<1>5. PICK e : e = IF h = 4 THEN <<o.expiry>> ELSE <<>> OBVIOUS
<1>6. PICK x : x = a \o e OBVIOUS
<1>7. x \in Seq(S) /\ Len(x) = h /\ x[1] = o.code /\ x[2] = o.vendor /\ x[3] = o.length
  <2>1. a \in Seq(S) /\ Len(a) = 3 /\ a[1] = o.code /\ a[2] = o.vendor /\ a[3] = o.length BY <1>2, <1>3, <1>4
  <2>2. e \in Seq(S) /\ Len(e) = h - 3
    <3>1. CASE h = 4 BY <3>1, <1>2, <1>3, <1>5
    <3>2. CASE h = 3
      <4>1. e = <<>> BY <3>2, <1>5
      <4> QED BY <4>1, <3>2, EmptySeq
    <3> QED BY <3>1, <3>2
  <2>3. a \in Seq(S) /\ e \in Seq(S) BY <2>1, <2>2
  <2>4. /\ x \in Seq(S) /\ Len(x) = Len(a) + Len(e)
        /\ \A i \in 1 .. Len(a) : x[i] = a[i]
    BY ONLY <2>3, <1>6, Joined
  <2>5. x[1] = a[1] /\ x[2] = a[2] /\ x[3] = a[3] BY <2>1, <2>4
  <2>6. Len(x) = h BY <2>1, <2>2, <2>4
  <2> QED BY <2>1, <2>4, <2>5, <2>6
<1>8. PICK d : d = o.data OBVIOUS
<1>9. d \in Seq(S) /\ Len(d) = w BY <1>2, <1>3, <1>8, <1>1
<1>10. r = x \o d BY <1>4, <1>5, <1>6, <1>8, Zenon DEF Record
<1>11. /\ r \in Seq(S) /\ Len(r) = Len(x) + Len(d)
       /\ \A i \in 1 .. Len(x) : r[i] = x[i]
       /\ \A i \in 1 .. Len(d) : r[Len(x) + i] = d[i]
  <2>1. x \in Seq(S) /\ d \in Seq(S) BY <1>7, <1>9
  <2> QED BY ONLY <2>1, <1>10, Joined
<1>12. r[1] = x[1] /\ r[2] = x[2] /\ r[3] = x[3] BY <1>7, <1>11
<1> QED BY ONLY <1>3, <1>7, <1>1, <1>8, <1>9, <1>11, <1>12 DEF IsRecord

(* Where the options of a list lie in its blob.                            *)
LaidAt(o, blob, h, from, to) ==
    /\ to = from + h + Words(o.length)
    /\ blob[from + 1] = o.code /\ blob[from + 2] = o.vendor /\ blob[from + 3] = o.length
    /\ \A j \in 1 .. Words(o.length) : blob[from + h + j] = o.data[j]

Laid(list, blob, off) ==
    /\ blob \in Seq(Nat)
    /\ off \in [0 .. Len(list.options) -> 0 .. Len(blob)]
    /\ off[0] = 0 /\ off[Len(list.options)] = Len(blob)
    /\ \A k \in 1 .. Len(list.options) : LaidAt(list.options[k], blob, list.layout, off[k - 1], off[k])

LEMMA BlobLaid ==
    ASSUME NEW list, WellFormed(list)
    PROVE  \E off : Laid(list, Blob(list), off)
<1>1. PICK n \in Nat : n = Len(list.options) BY LenProperties DEF WellFormed
<1>2. PICK h \in {3, 4} : h = list.layout BY DEF WellFormed
<1>3. \A k \in 1 .. n : list.options[k] \in OptionStored BY <1>1 DEF WellFormed
<1>4. PICK seqs : seqs = [k \in 1 .. n |-> Record(list.options[k], h)] OBVIOUS
<1>5. \A k \in 1 .. n : IsRecord(seqs[k], list.options[k], h) /\ Words(list.options[k].length) \in Nat
  <2> SUFFICES ASSUME NEW k \in 1 .. n, NEW o, o = list.options[k]
               PROVE  IsRecord(seqs[k], o, h) /\ Words(o.length) \in Nat
    OBVIOUS
  <2>1. o \in OptionStored BY <1>3
  <2>2. Len(o.data) = Words(o.length) BY <1>1 DEF WellFormed
  <2>3. Words(o.length) \in Nat BY <2>1, WordsOf DEF OptionStored
  <2>4. seqs[k] = Record(o, h) BY <1>4
  <2>5. IsRecord(seqs[k], o, h) BY ONLY <2>1, <2>2, <2>4, h \in {3, 4}, RecordWords, Zenon
  <2> QED BY <2>3, <2>5
<1>6. PICK S : S = Nat OBVIOUS
<1>7. seqs \in Seq(Seq(S)) /\ Len(seqs) = n
  <2>1. seqs \in [1 .. n -> Seq(S)]
    <3>1. \A k \in 1 .. n : seqs[k] \in Seq(S) BY <1>5, <1>6 DEF IsRecord
    <3> QED BY <1>4, <3>1
  <2>2. PICK T : T = Seq(S) OBVIOUS
  <2>3. seqs \in [1 .. n -> T] BY <2>1, <2>2
  <2>4. seqs \in Seq(T) /\ Len(seqs) = n BY ONLY <2>3, n \in Nat, FunctionIsSequence
  <2> QED BY <2>2, <2>4
<1>8. PICK blob : blob = FlattenSeq(seqs) OBVIOUS
<1>9. Blob(list) = blob BY <1>1, <1>2, <1>4, <1>8 DEF Blob
<1>10. blob \in Seq(S) /\ \E off : Places(seqs, blob, off) BY ONLY <1>7, <1>8, FlattenPlaces, Zenon
<1>11. PICK off : Places(seqs, blob, off) BY <1>10
<1>12. /\ off \in [0 .. n -> 0 .. Len(blob)] /\ off[0] = 0 /\ off[n] = Len(blob)
       /\ \A k \in 1 .. n :
              /\ off[k] = off[k - 1] + Len(seqs[k])
              /\ \A j \in 1 .. Len(seqs[k]) : blob[off[k - 1] + j] = seqs[k][j]
  BY ONLY <1>7, <1>11 DEF Places
<1>13. ASSUME NEW k \in 1 .. n, NEW o, o = list.options[k]
       PROVE  LaidAt(o, blob, h, off[k - 1], off[k])
  <2>1. PICK b \in Nat : b = off[k - 1] BY <1>12
  <2>2. PICK w \in Nat : w = Words(o.length) BY <1>5, <1>13
  <2>3. PICK s : s = seqs[k] OBVIOUS
  <2>4. /\ s[1] = o.code /\ s[2] = o.vendor /\ s[3] = o.length /\ Len(s) = h + w
        /\ \A j \in 1 .. w : s[h + j] = o.data[j]
    BY <1>5, <1>13, <2>2, <2>3 DEF IsRecord
  <2>5. off[k] = b + Len(s) /\ \A j \in 1 .. Len(s) : blob[b + j] = s[j] BY <1>12, <2>1, <2>3
  <2>6. \A j \in 1 .. h + w : blob[b + j] = s[j] BY <2>4, <2>5
  <2>7. 1 \in 1 .. h + w /\ 2 \in 1 .. h + w /\ 3 \in 1 .. h + w OBVIOUS
  <2>8. blob[b + 1] = s[1] /\ blob[b + 2] = s[2] /\ blob[b + 3] = s[3] BY ONLY <2>6, <2>7
  <2>9. ASSUME NEW j \in 1 .. w PROVE blob[b + h + j] = o.data[j]
    <3>1. PICK m \in 1 .. h + w : m = h + j OBVIOUS
    <3>2. blob[b + m] = s[m] BY <2>6
    <3>3. b + m = b + h + j BY <3>1
    <3> QED BY <2>4, <3>1, <3>2, <3>3
  <2>10. off[k] = b + h + w BY <2>4, <2>5
  <2> QED BY ONLY <2>1, <2>2, <2>4, <2>8, <2>9, <2>10 DEF LaidAt
<1>14. \A k \in 1 .. n : LaidAt(list.options[k], blob, h, off[k - 1], off[k]) BY <1>13
<1>15. Laid(list, blob, off) BY ONLY <1>1, <1>2, <1>6, <1>10, <1>12, <1>14 DEF Laid
<1> QED BY <1>9, <1>15

TellOf(o) == [code |-> o.code, length |-> o.length, data |-> o.data]

(* A reader that knows the layout finds each option where it lies.         *)
LEMMA OptionFound ==
    ASSUME NEW list, WellFormed(list), NEW blob, NEW off, Laid(list, blob, off),
           NEW k \in 1 .. Len(list.options), NEW h, h = list.layout, NEW i, i = off[k - 1], NEW o, o = list.options[k]
    PROVE  /\ i \in Nat /\ i + h <= Len(blob) /\ ~Refused(blob, h, i)
           /\ NextRecord(blob, h, i) = off[k] /\ blob[i + 2] = o.vendor
           /\ OptionAt(blob, h, i) = TellOf(o)
<1>1. h \in {3, 4} /\ o \in OptionStored /\ Len(o.data) = Words(o.length) BY DEF WellFormed
<1>2. blob \in Seq(Nat) /\ Len(blob) \in Nat BY LenProperties DEF Laid
<1>3. i \in 0 .. Len(blob) /\ off[k] \in 0 .. Len(blob)
  <2>1. off \in [0 .. Len(list.options) -> 0 .. Len(blob)] BY DEF Laid
  <2>2. k \in 0 .. Len(list.options) /\ k - 1 \in 0 .. Len(list.options) OBVIOUS
  <2> QED BY <2>1, <2>2
<1>4. PICK to \in 0 .. Len(blob) : to = off[k] BY <1>3
<1>5. LaidAt(o, blob, h, i, to) BY <1>4 DEF Laid
<1>6. o.code \in 0 .. 255 /\ o.vendor \in {0, 1} /\ o.length \in Nat /\ o.data \in Seq(Nat) BY <1>1 DEF OptionStored
<1>7. PICK w \in Nat : w = Words(o.length) BY <1>6, WordsOf
<1>8. o.length <= 4 * w BY <1>6, <1>7, WordsOf
<1>9. to = i + h + w BY <1>5, <1>7 DEF LaidAt
<1>10. i \in Nat /\ h \in Nat /\ to \in Nat /\ Len(blob) \in Nat /\ to <= Len(blob)
  <2>1. h \in {3, 4} BY <1>1
  <2>2. h \in Nat BY ONLY <2>1
  <2>3. i \in Nat BY ONLY <1>2, <1>3
  <2>4. to \in Nat /\ to <= Len(blob) BY ONLY <1>2, to \in 0 .. Len(blob)
  <2> QED BY <2>2, <2>3, <2>4, <1>2
<1>11. i + h <= Len(blob) /\ w <= Len(blob) - i - h BY ONLY <1>9, <1>10, w \in Nat
<1>12. blob[i + 1] = o.code /\ blob[i + 2] = o.vendor /\ blob[i + 3] = o.length BY <1>5 DEF LaidAt
<1>13. ~Refused(blob, h, i)
  <2>1. ~(o.code > 255)
    <3>1. PICK c \in 0 .. 255 : c = o.code BY <1>6
    <3>2. ~(c > 255) BY ONLY c \in 0 .. 255
    <3> QED BY <3>1, <3>2
  <2>2. ~(o.vendor > 1)
    <3>1. PICK v \in {0, 1} : v = o.vendor BY <1>6
    <3>2. ~(v > 1) BY ONLY v \in {0, 1}
    <3> QED BY <3>1, <3>2
  <2>3. ~(o.length > 4 * (Len(blob) - i - h))
    <3>1. PICK l \in Nat : l = o.length BY <1>6
    <3>2. l <= 4 * w BY <1>8, <3>1
    <3>3. ~(l > 4 * (Len(blob) - i - h)) BY ONLY <1>11, <1>10, <3>2, l \in Nat, w \in Nat
    <3> QED BY <3>1, <3>3
  <2> QED BY <1>12, <2>1, <2>2, <2>3 DEF Refused
<1>14. NextRecord(blob, h, i) = to BY <1>7, <1>9, <1>12 DEF NextRecord
<1>15. SubSeq(blob, i + h + 1, to) = o.data
  <2>1. PICK S : S = Nat OBVIOUS
  <2>2. PICK a \in Nat \ {0} : a = i + h + 1 BY <1>1, <1>3
  <2>3. PICK p : p = SubSeq(blob, a, to) OBVIOUS
  <2>4. blob \in Seq(S) BY <1>2, <2>1
  <2>5. /\ p \in Seq(S) /\ Len(p) = (IF a <= to THEN to - a + 1 ELSE 0)
        /\ \A j \in 1 .. to - a + 1 : p[j] = blob[a + j - 1]
    BY ONLY <2>3, <2>4, a \in Nat \ {0}, to \in 0 .. Len(blob), Between
  <2>6. to - a + 1 = w BY ONLY <1>9, <1>10, <2>2, w \in Nat
  <2>7. Len(p) = w BY <2>5, <2>6
  <2>8. ASSUME NEW j \in 1 .. w PROVE p[j] = o.data[j]
    <3>1. p[j] = blob[a + j - 1] BY <2>5, <2>6
    <3>2. a + j - 1 = i + h + j BY <1>1, <1>3, <2>2, SMTT(30)
    <3>3. blob[i + h + j] = o.data[j] BY <1>5, <1>7 DEF LaidAt
    <3> QED BY <3>1, <3>2, <3>3
  <2>9. PICK d \in Seq(S) : d = o.data BY <1>6, <2>1
  <2>10. Len(d) = w BY <1>1, <1>7, <2>9
  <2>11. p = d BY <2>5, <2>7, <2>8, <2>9, <2>10, SeqEqual
  <2> QED BY <2>2, <2>3, <2>9, <2>11
<1>16. OptionAt(blob, h, i) = TellOf(o) BY <1>12, <1>14, <1>15 DEF OptionAt, TellOf
<1> QED BY <1>3, <1>4, <1>11, <1>12, <1>13, <1>14, <1>16

(* The options a list holds after its first k.                             *)
SentFrom(list, k) ==
    {TellOf(list.options[i]) : i \in {j \in k + 1 .. Len(list.options) : list.options[j].vendor = 0}}

LEMMA SentAll ==
    ASSUME NEW list, WellFormed(list)
    PROVE  OptionsSent(list) = SentFrom(list, 0)
<1>1. PICK s : s = list.options OBVIOUS
<1>2. DOMAIN s = 1 .. Len(s) BY <1>1 DEF WellFormed
<1>3. OptionsSent(list) = {TellOf(o) : o \in {q \in {s[i] : i \in 1 .. Len(s)} : q.vendor = 0}}
  BY <1>1, <1>2 DEF OptionsSent, ToSet, TellOf
<1>4. SentFrom(list, 0) = {TellOf(s[i]) : i \in {j \in 1 .. Len(s) : s[j].vendor = 0}}
  <2>1. 0 + 1 = 1 OBVIOUS
  <2> QED BY <1>1, <2>1 DEF SentFrom
<1> QED BY <1>3, <1>4

OneMore(list, k, o) ==
    SentFrom(list, k - 1) = IF o.vendor = 1 \/ \E t \in SentFrom(list, k) : t.code = o.code
                            THEN SentFrom(list, k) ELSE SentFrom(list, k) \cup {TellOf(o)}

LEMMA SentOne ==
    ASSUME NEW list, WellFormed(list), NEW k \in 1 .. Len(list.options), NEW o, o = list.options[k]
    PROVE  OneMore(list, k, o)
<1> USE DEF OneMore
<1>1. PICK n \in Nat : n = Len(list.options) BY LenProperties DEF WellFormed
<1>2. ASSUME NEW t \in SentFrom(list, k) PROVE t.code # o.code
  <2>1. PICK j \in k + 1 .. n : t = TellOf(list.options[j]) BY <1>1 DEF SentFrom
  <2>2. t.code = list.options[j].code BY <2>1 DEF TellOf
  <2>3. j \in 1 .. n /\ k \in 1 .. j - 1 BY <1>1
  <2>4. list.options[j].code # list.options[k].code BY <1>1, <2>3 DEF WellFormed
  <2> QED BY <2>2, <2>4
<1>3. o.vendor \in {0, 1}
  <2>1. o \in OptionStored BY DEF WellFormed
  <2> QED BY <2>1 DEF OptionStored
<1>4. \A j : j \in (k - 1) + 1 .. n <=> j = k \/ j \in k + 1 .. n BY <1>1
<1>5. CASE o.vendor = 1
  <2>1. {j \in (k - 1) + 1 .. n : list.options[j].vendor = 0} = {j \in k + 1 .. n : list.options[j].vendor = 0}
    BY <1>4, <1>5
  <2>2. SentFrom(list, k - 1) = SentFrom(list, k) BY <1>1, <2>1 DEF SentFrom
  <2> QED BY <1>5, <2>2
<1>6. CASE o.vendor = 0
  <2>1. {j \in (k - 1) + 1 .. n : list.options[j].vendor = 0} = {j \in k + 1 .. n : list.options[j].vendor = 0} \cup {k}
    BY <1>4, <1>6
  <2>2. SentFrom(list, k - 1) = SentFrom(list, k) \cup {TellOf(o)} BY <1>1, <2>1 DEF SentFrom
  <2>3. o.vendor # 1 BY <1>6
  <2> QED BY <1>2, <2>2, <2>3
<1> QED BY <1>3, <1>5, <1>6

(* With the layout it was written in, a list is read to its end, and the   *)
(* options of the server are found in it.                                  *)
LEMMA ScanSent ==
    ASSUME NEW list, WellFormed(list), NEW blob, blob = Blob(list)
    PROVE  LET s == Scan(blob, list.layout)
           IN  s.ok /\ s.end = Len(blob) /\ s.options = OptionsSent(list)
<1>1. PICK off : Laid(list, blob, off) BY BlobLaid
<1>2. PICK h \in {3, 4} : h = list.layout BY DEF WellFormed
<1>3. PICK n \in Nat : n = Len(list.options) BY LenProperties DEF WellFormed
<1>4. blob \in Seq(Nat) /\ Len(blob) \in Nat BY <1>1, LenProperties DEF Laid
<1>5. PICK f : Scanning(blob, h, f) /\ Scan(blob, h) = f[0] BY <1>4, ScanIsRecursive
<1>6. off \in [0 .. n -> 0 .. Len(blob)] /\ off[0] = 0 /\ off[n] = Len(blob) BY <1>1, <1>3 DEF Laid
<1> DEFINE read(k) == f[off[k]].ok /\ f[off[k]].end = Len(blob) /\ f[off[k]].options = SentFrom(list, k)
           T == {k \in 0 .. n : read(k)}
<1>7. ASSUME NEW k \in 0 .. n, \A m \in k + 1 .. n : m \in T PROVE k \in T
  <2>1. CASE k = n
    <3>1. ScanFrom(blob, h, Len(blob), f) = [ok |-> TRUE, end |-> Len(blob), options |-> {}]
      <4>1. Len(blob) + h > Len(blob) BY <1>2, <1>4
      <4> QED BY <4>1 DEF ScanFrom
    <3>2. f[Len(blob)] = ScanFrom(blob, h, Len(blob), f) BY <1>4, <1>5 DEF Scanning
    <3>3. SentFrom(list, n) = {}
      <4>1. n + 1 .. n = {} OBVIOUS
      <4> QED BY <1>3, <4>1 DEF SentFrom
    <3>4. PICK v : v = f[off[k]] OBVIOUS
    <3>5. v = [ok |-> TRUE, end |-> Len(blob), options |-> {}] BY <2>1, <1>6, <3>1, <3>2, <3>4
    <3>6. v.ok /\ v.end = Len(blob) /\ v.options = {} BY <3>5
    <3> QED BY <2>1, <3>3, <3>4, <3>6
  <2>2. CASE k # n
    <3>1. PICK m \in 1 .. n : m = k + 1 BY <2>2
    <3>2. m \in k + 1 .. n /\ m - 1 = k BY <3>1
    <3>3. read(m) BY <1>7, <3>2
    <3>4. PICK i : i = off[k] OBVIOUS
    <3>5. PICK o : o = list.options[m] OBVIOUS
    <3>6. m \in 1 .. Len(list.options) /\ i = off[m - 1] BY <1>3, <3>2, <3>4
    <3>7. /\ i \in Nat /\ i + h <= Len(blob) /\ ~Refused(blob, h, i)
          /\ NextRecord(blob, h, i) = off[m] /\ blob[i + 2] = o.vendor
          /\ OptionAt(blob, h, i) = TellOf(o)
      BY ONLY WellFormed(list), <1>1, <1>2, <3>5, <3>6, OptionFound
    <3>8. PICK rest \in ScanResult : rest = f[off[m]]
      <4>1. off[m] \in Nat BY <1>6
      <4> QED BY <4>1, <1>5 DEF Scanning
    <3>9. f[i] = WithOption(rest, TellOf(o), o.vendor)
      <4>1. ~(i + h > Len(blob)) BY <1>2, <1>4, <3>7
      <4>2. ScanFrom(blob, h, i, f) = WithOption(rest, TellOf(o), o.vendor) BY <3>7, <3>8, <4>1 DEF ScanFrom
      <4> QED BY <1>5, <3>7, <4>2 DEF Scanning
    <3>10. TellOf(o) \in OptionRead BY <3>7, <1>4, RecordRead
    <3>11. PICK v : v = f[i] OBVIOUS
    <3>12. /\ v.ok = rest.ok /\ v.end = rest.end
           /\ v.options = IF o.vendor = 1 \/ \E t \in rest.options : t.code = TellOf(o).code THEN rest.options
                          ELSE rest.options \cup {TellOf(o)}
      <4>1. v = WithOption(rest, TellOf(o), o.vendor) BY <3>9, <3>11
      <4>2. PICK this \in OptionRead : this = TellOf(o) BY <3>10
      <4>3. PICK vendor : vendor = o.vendor OBVIOUS
      <4>4. v = WithOption(rest, this, vendor) BY ONLY <4>1, <4>2, <4>3, Zenon
      <4>5. /\ v.ok = rest.ok /\ v.end = rest.end
            /\ v.options = IF vendor = 1 \/ \E t \in rest.options : t.code = this.code THEN rest.options
                           ELSE rest.options \cup {this}
        BY ONLY <4>4, rest \in ScanResult, this \in OptionRead, OptionAdded, SMTT(30)
      <4> QED BY ONLY <4>2, <4>3, <4>5, Zenon
    <3>13. SentFrom(list, k) = IF o.vendor = 1 \/ \E t \in SentFrom(list, m) : t.code = o.code
                               THEN SentFrom(list, m) ELSE SentFrom(list, m) \cup {TellOf(o)}
      <4>1. SentFrom(list, m - 1) = IF o.vendor = 1 \/ \E t \in SentFrom(list, m) : t.code = o.code
                                    THEN SentFrom(list, m) ELSE SentFrom(list, m) \cup {TellOf(o)}
        <5>1. OneMore(list, m, o) BY ONLY WellFormed(list), <3>5, <3>6, SentOne, Zenon
        <5> QED BY ONLY <5>1, Zenon DEF OneMore
      <4> QED BY ONLY <3>2, <4>1, Zenon
    <3>14. rest.ok /\ rest.end = Len(blob) /\ rest.options = SentFrom(list, m) BY <3>3, <3>8
    <3>15. TellOf(o).code = o.code BY DEF TellOf
    <3>16. v.options = SentFrom(list, k) BY ONLY <3>12, <3>13, <3>14, <3>15
    <3> QED BY ONLY <3>4, <3>11, <3>12, <3>14, <3>16, k \in 0 .. n
  <2> QED BY <2>1, <2>2
<1>8. 0 \in T
  <2> HIDE DEF T
  <2>1. 0 .. n \subseteq T BY <1>7, DownwardInduction
  <2> QED BY <2>1
<1> QED BY <1>2, <1>5, <1>6, <1>8, SentAll

(* Read as if it had expiry times, a list without them comes to no end.    *)
LEMMA ScanUnclean ==
    ASSUME NEW list, WellFormed(list), list.layout = 3, Telling(list), Len(list.options) > 0,
           NEW blob, blob = Blob(list)
    PROVE  ~Clean(blob, Scan(blob, 4))
<1>1. PICK off : Laid(list, blob, off) BY BlobLaid
<1>2. PICK n \in Nat \ {0} : n = Len(list.options) BY LenProperties DEF WellFormed
<1>3. PICK L \in Nat : L = Len(blob) BY <1>1, LenProperties DEF Laid
<1>4. blob \in Seq(Nat) BY <1>1 DEF Laid
<1>5. PICK f : Scanning(blob, 4, f) /\ Scan(blob, 4) = f[0] BY <1>4, ScanIsRecursive
<1>6. \A k \in 0 .. n : off[k] \in Nat /\ off[k] <= L BY <1>1, <1>2, <1>3 DEF Laid
<1>7. off[0] = 0 /\ off[n] = L BY <1>1, <1>2, <1>3 DEF Laid
<1>8. \A i \in Nat : f[i] \in ScanResult /\ f[i] = ScanFrom(blob, 4, i, f) BY <1>5 DEF Scanning
<1>9. \A v : Clean(blob, v) => v.ok /\ L - v.end < 1 BY <1>3 DEF Clean
<1>10. PICK o : o = list.options[1] OBVIOUS
<1>11. o \in OptionStored BY <1>2, <1>10 DEF WellFormed
<1>12. PICK l \in Nat : l = o.length BY <1>11 DEF OptionStored
<1>13. PICK w \in Nat : w = Words(l) BY WordsOf
<1>14. l <= 4 * w /\ 4 * w < l + 4 BY <1>13, WordsOf
<1>15. off[1] = 3 + w /\ blob[3] = l
  <2>1. 1 \in 1 .. n /\ 1 - 1 = 0 OBVIOUS
  <2>2. LaidAt(o, blob, 3, 0, off[1]) BY <1>1, <1>2, <1>7, <1>10, <2>1 DEF Laid
  <2> QED BY <1>12, <1>13, <2>2 DEF LaidAt
<1>16. ASSUME NEW i \in Nat, i + 4 > L, L - i >= 1 PROVE ~Clean(blob, f[i])
  <2>1. ScanFrom(blob, 4, i, f) = [ok |-> TRUE, end |-> i, options |-> {}] BY <1>3, <1>16 DEF ScanFrom
  <2>2. f[i].end = i BY <1>8, <2>1
  <2>3. ~(L - i < 1) BY <1>16
  <2> QED BY <1>9, <2>2, <2>3
<1>17. ASSUME NEW i \in Nat, i + 4 <= L, Refused(blob, 4, i) PROVE ~Clean(blob, f[i])
  <2>1. ScanFrom(blob, 4, i, f) = [ok |-> FALSE, end |-> i, options |-> {}] BY <1>3, <1>17 DEF ScanFrom
  <2>2. ~f[i].ok BY <1>8, <2>1
  <2> QED BY <1>9, <2>2
<1>18. CASE n = 1
  <2>1. L = 3 + w BY <1>7, <1>15, <1>18
  <2>2. CASE w = 0
    <3>1. 0 + 4 > L /\ L - 0 >= 1 BY <2>1, <2>2
    <3> QED BY <1>5, <1>16, <3>1
  <2>3. CASE w # 0
    <3>1. 0 + 4 <= L BY <2>1, <2>3
    <3>2. l > 4 * (L - 0 - 4) BY <1>14, <2>1
    <3>3. 0 + 3 = 3 OBVIOUS
    <3>4. Refused(blob, 4, 0) BY <1>3, <1>15, <3>2, <3>3 DEF Refused
    <3> QED BY <1>5, <1>17, <3>1, <3>4
  <2> QED BY <2>2, <2>3
<1>19. CASE n # 1
  <2>1. 2 \in 1 .. n /\ 2 - 1 = 1 BY <1>19
  <2>2. PICK p : p = list.options[2] OBVIOUS
  <2>3. p \in OptionStored BY <1>2, <2>1, <2>2 DEF WellFormed
  <2>4. PICK m \in Nat : m = p.length BY <2>3 DEF OptionStored
  <2>5. m > 1
    <3>1. 2 \in 2 .. n BY <2>1
    <3>2. p.length > 1 BY <1>2, <2>2, <3>1 DEF Telling
    <3> QED BY <2>4, <3>2
  <2>6. PICK x \in Nat : x = Words(m) BY WordsOf
  <2>7. x >= 1
    <3>1. m <= 4 * x BY <2>6, WordsOf
    <3> QED BY <2>5, <3>1
  <2>8. off[2] = 6 + w + x /\ blob[6 + w] = m
    <3>1. LaidAt(p, blob, 3, 3 + w, off[2]) BY <1>1, <1>2, <1>15, <2>1, <2>2 DEF Laid
    <3>2. off[2] = (3 + w) + 3 + x /\ blob[(3 + w) + 3] = m BY <2>4, <2>6, <3>1 DEF LaidAt
    <3>3. (3 + w) + 3 = 6 + w /\ (3 + w) + 3 + x = 6 + w + x OBVIOUS
    <3> QED BY <3>2, <3>3
  <2>9. 6 + w + x <= L
    <3>1. 2 \in 0 .. n BY <2>1
    <3>2. off[2] <= L BY <1>6, <3>1
    <3> QED BY <2>8, <3>2
  <2>10. 0 + 4 <= L BY <2>9
  <2>11. CASE Refused(blob, 4, 0) BY <1>5, <1>17, <2>10, <2>11
  <2>12. CASE ~Refused(blob, 4, 0)
    <3>1. PICK i \in Nat : i = 4 + w OBVIOUS
    <3>2. NextRecord(blob, 4, 0) = i
      <4>1. 0 + 3 = 3 /\ 0 + 4 + w = 4 + w OBVIOUS
      <4> QED BY <1>13, <1>15, <3>1, <4>1 DEF NextRecord
    <3>3. PICK this \in OptionRead : this = OptionAt(blob, 4, 0) BY <1>3, <1>4, <2>10, <2>12, RecordRead
    <3>4. f[0] = WithOption(f[i], this, blob[0 + 2])
      <4>1. ~(0 + 4 > Len(blob)) BY <1>3, <2>10
      <4> QED BY <1>8, <2>12, <3>2, <3>3, <4>1 DEF ScanFrom
    <3>5. f[0].ok = f[i].ok /\ f[0].end = f[i].end
      <4>1. PICK v : v = f[0] OBVIOUS
      <4>2. PICK rest \in ScanResult : rest = f[i] BY <1>8
      <4>3. v = WithOption(rest, this, blob[0 + 2]) BY <3>4, <4>1, <4>2
      <4>4. PICK vendor : vendor = blob[0 + 2] OBVIOUS
      <4>5. v = WithOption(rest, this, vendor) BY ONLY <4>3, <4>4, Zenon
      <4>6. v.ok = rest.ok /\ v.end = rest.end
        <5>1. v = rest \/ v = [rest EXCEPT !.options = @ \cup {this}] BY ONLY <4>5, Zenon DEF WithOption
        <5>2. CASE v = rest BY <5>2
        <5>3. CASE v = [rest EXCEPT !.options = @ \cup {this}] BY <5>3 DEF ScanResult
        <5> QED BY <5>1, <5>2, <5>3
      <4> QED BY <4>1, <4>2, <4>6
    <3>6. Clean(blob, f[0]) => Clean(blob, f[i]) BY <3>5 DEF Clean
    <3>7. CASE i + 4 > L
      <4>1. L - i >= 1 BY <2>7, <2>9, <3>1
      <4> QED BY <1>5, <1>16, <3>6, <3>7, <4>1
    <3>8. CASE i + 4 <= L
      <4>1. i + 2 = 6 + w BY <3>1
      <4>2. blob[i + 2] > 1 BY <2>5, <2>8, <4>1
      <4>3. Refused(blob, 4, i) BY <4>2 DEF Refused
      <4> QED BY <1>5, <1>17, <3>6, <3>8, <4>3
    <3> QED BY <3>7, <3>8
  <2> QED BY <2>11, <2>12
<1> QED BY <1>18, <1>19

(* Whichever layout a build of Windows writes, the options read from the   *)
(* registry are those the server sent (parse_dhcp_interface_options of     *)
(* windows.py), however many there are and whatever they hold.             *)
THEOREM OptionsRight == Spec => []OptionsTold
<1>1. ASSUME NEW list, WellFormed(list), Telling(list)
      PROVE  ParseOptions(Blob(list)) = OptionsSent(list)
  <2>1. PICK blob : blob = Blob(list) OBVIOUS
  <2>2. PICK h : h = list.layout OBVIOUS
  <2>3. h \in {3, 4} BY <2>2, <1>1 DEF WellFormed
  <2>4. PICK s : s = Scan(blob, h) OBVIOUS
  <2>5. s.ok /\ s.end = Len(blob) /\ s.options = OptionsSent(list) BY <1>1, <2>1, <2>2, <2>4, ScanSent
  <2>6. PICK off : Laid(list, blob, off) BY <1>1, <2>1, BlobLaid
  <2>7. Len(blob) \in Nat BY <2>6, LenProperties DEF Laid
  <2>8. Clean(blob, s) BY <2>5, <2>7 DEF Clean
  <2>9. CASE h = 4 BY <2>1, <2>4, <2>5, <2>8, <2>9 DEF ParseOptions
  <2>10. CASE h = 3 /\ Len(list.options) > 0
    <3>1. ~Clean(blob, Scan(blob, 4)) BY <1>1, <2>1, <2>2, <2>10, ScanUnclean
    <3> QED BY <2>1, <2>4, <2>5, <2>8, <2>10, <3>1 DEF ParseOptions
  <2>11. CASE h = 3 /\ ~(Len(list.options) > 0)
    <3>1. Len(list.options) = 0 BY <1>1, <2>11, LenProperties DEF WellFormed
    <3>2. Len(blob) = 0 BY <2>6, <3>1 DEF Laid
    <3>3. OptionsSent(list) = {}
      <4>1. SentFrom(list, 0) = {} BY <3>1 DEF SentFrom
      <4> QED BY <1>1, <4>1, SentAll
    <3>4. PICK f : Scanning(blob, 4, f) /\ Scan(blob, 4) = f[0] BY <2>6, ScanIsRecursive DEF Laid
    <3>5. f[0] = [ok |-> TRUE, end |-> 0, options |-> {}]
      <4>1. 0 + 4 > Len(blob) BY <3>2
      <4> QED BY <3>4, <4>1 DEF Scanning, ScanFrom
    <3>6. Clean(blob, Scan(blob, 4)) BY <3>2, <3>4, <3>5 DEF Clean
    <3> QED BY <2>1, <3>3, <3>4, <3>5, <3>6 DEF ParseOptions
  <2> QED BY <2>3, <2>9, <2>10, <2>11
<1>2. \A list \in Lists : WellFormed(list) BY TablesAssumption DEF WellFormed, OptionStored
<1>3. OptionsSent(NothingStored) = {} BY DEF OptionsSent, NothingStored, ToSet
<1>4. TablesInv => OptionsTold BY <1>1, <1>2, <1>3 DEF TablesInv, OptionsRead, OptionsTold
<1> QED BY <1>4, TablesInvariant, PTL

=============================================================================
