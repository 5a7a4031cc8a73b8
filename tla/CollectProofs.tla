---------------------------- MODULE CollectProofs ----------------------------
(* Why a snapshot is never older than itself, and on Windows of one        *)
(* moment, for all hosts and lease files and however long the daemon runs. *)
EXTENDS Collect, Recursion, FiniteSetTheorems

(* Before the daemon runs there is no cache and nothing is read.           *)
LEMMA CollectInvInit == Init => CollectInv
BY DEF Init, CollectInv, CacheOfSnapshot, WindowsSoFar, OneMoment, Cached, NoCache, Part, Steps

(* Reading a part leaves every other part alone.                           *)
LEMMA ReadParts ==
    ASSUME NEW part \in Part, NEW at \in since .. moment, parts \in [Part -> SUBSET (since .. moment)],
           Read(part, at)
    PROVE  /\ parts' \in [Part -> SUBSET (since .. moment)]
           /\ parts'[part] = parts[part] \cup {at}
           /\ \A p \in Part \ {part} : parts'[p] = parts[p]
BY DEF Read

(* A part that a script has found or not likewise.                         *)
LEMMA FindParts ==
    ASSUME NEW part \in Part, NEW at \in since .. moment, parts \in [Part -> SUBSET (since .. moment)],
           Find(part, at)
    PROVE  /\ parts' \in [Part -> SUBSET (since .. moment)]
           /\ \A p \in Part : parts'[p] \subseteq parts[p] \cup {at}
BY ReadParts DEF Find

(* A part that fails leaves every other part alone, and itself empty.      *)
LEMMA FailParts ==
    ASSUME NEW part \in Part, parts \in [Part -> SUBSET (since .. moment)], Fail(part)
    PROVE  /\ parts' \in [Part -> SUBSET (since .. moment)]
           /\ parts'[part] = {}
           /\ \A p \in Part \ {part} : parts'[p] = parts[p]
           /\ UNCHANGED <<platform, moment, since, cache>>
           /\ pc' = After(part)
BY DEF Fail, host

(* On a host without a cache, a step that keeps to the time of the         *)
(* snapshot keeps the invariant.                                           *)
LEMMA NotWindows ==
    ASSUME CollectInv, platform # "windows", UNCHANGED <<platform, moment, since, cache>>,
           pc' \in Steps, parts' \in [Part -> SUBSET (since .. moment)]
    PROVE  CollectInv'
BY DEF CollectInv, CacheOfSnapshot, WindowsSoFar, OneMoment, Cached

(* A change of the host only makes the moment later.                       *)
LEMMA ChangingKeeps ==
    ASSUME CollectInv, Changing, UNCHANGED <<platform, pc, snapshot, cache>>
    PROVE  CollectInv'
<1>1. /\ moment' \in Nat /\ since' \in 0 .. moment' /\ since .. moment \subseteq since' .. moment'
      /\ UNCHANGED <<platform, pc, parts, since, cache>>
    BY DEF CollectInv, Changing, snapshot
<1>2. parts' \in [Part -> SUBSET (since' .. moment')]
    BY <1>1 DEF CollectInv
<1>3. CacheOfSnapshot' /\ WindowsSoFar' /\ OneMoment'
    BY <1>1 DEF CollectInv, CacheOfSnapshot, WindowsSoFar, OneMoment, Cached
<1> QED
    BY <1>1, <1>2, <1>3 DEF CollectInv

LEMMA BeginKeeps ==
    ASSUME CollectInv, Begin
    PROVE  CollectInv'
BY DEF CollectInv, Begin, host, CacheOfSnapshot, WindowsSoFar, OneMoment, Cached, NoCache, Part, Steps

(* The commands of Linux and macOS, each at its own moment.                *)
LEMMA UnixKeeps ==
    ASSUME CollectInv,
           \/ Interfaces \/ MacLeases
           \/ RoutesOf("routes4", "routes6") \/ RoutesOf("routes6", After("routes"))
           \/ Merge \/ MergeFails
    PROVE  CollectInv'
<1>1. platform # "windows"
    BY DEF CollectInv, WindowsSoFar, Interfaces, MacLeases, RoutesOf, Merge, MergeFails
<1>2. /\ since \in Nat /\ moment \in since .. moment
      /\ parts \in [Part -> SUBSET (since .. moment)]
      /\ pc \in Steps
    BY DEF CollectInv
<1>3. \A part \in Part : After(part) \in Steps
    BY DEF After, Part, Steps
<1>4. \A part \in Part : Read(part, moment) => parts' \in [Part -> SUBSET (since .. moment)]
    BY <1>2, ReadParts
<1>5. \A part \in Part : Fail(part) =>
          /\ parts' \in [Part -> SUBSET (since .. moment)] /\ pc' \in Steps
          /\ UNCHANGED <<platform, moment, since, cache>>
    BY <1>2, <1>3, FailParts
<1>6. /\ UNCHANGED <<platform, moment, since, cache>>
      /\ pc' \in Steps /\ parts' \in [Part -> SUBSET (since .. moment)]
    <2>1. CASE Interfaces
        BY <2>1, <1>3, <1>4, <1>5 DEF Interfaces, host, Part
    <2>2. CASE MacLeases
        BY <2>2, <1>3, <1>4, <1>5 DEF MacLeases, host, Part
    <2>3. CASE RoutesOf("routes4", "routes6")
        BY <2>3, <1>2, <1>4, <1>5 DEF RoutesOf, host, Part, Steps
    <2>4. CASE RoutesOf("routes6", After("routes"))
        BY <2>4, <1>2, <1>3, <1>4, <1>5 DEF RoutesOf, host, Part
    <2>5. CASE Merge
        BY <2>5, <1>2, <1>3, <1>4 DEF Merge, host, Part
    <2>6. CASE MergeFails
        BY <2>6, <1>5 DEF MergeFails, Part
    <2> QED
        BY <2>1, <2>2, <2>3, <2>4, <2>5, <2>6
<1> QED
    BY <1>1, <1>6, NotWindows

(* The first part on Windows fills the cache, or fails without touching    *)
(* the one that the snapshot before has cleared.                           *)
LEMMA WindowsInterfacesKeeps ==
    ASSUME CollectInv, WindowsInterfaces
    PROVE  CollectInv'
<1>1. /\ since \in Nat /\ moment \in since .. moment /\ moment \in Nat
      /\ parts \in [Part -> SUBSET (since .. moment)]
      /\ platform = "windows" /\ ~Cached /\ \A p \in Part : parts[p] = {}
    BY DEF CollectInv, CacheOfSnapshot, WindowsSoFar, WindowsInterfaces
<1>2. "interfaces" \in Part /\ After("interfaces") = "routes"
    BY <1>1 DEF Part, After
<1>3. CASE Fail("interfaces")
    BY <1>1, <1>2, <1>3, FailParts
        DEF CollectInv, CacheOfSnapshot, WindowsSoFar, OneMoment, Cached, Steps
<1>4. CASE Find("interfaces", moment) /\ cache' = moment /\ pc' = After("interfaces") /\ UNCHANGED <<host, since, errors>>
    <2>1. /\ parts' \in [Part -> SUBSET (since .. moment)] /\ \A p \in Part : parts'[p] \subseteq {cache'}
          /\ Cached' /\ cache' \in since .. moment /\ pc' = "routes" /\ UNCHANGED <<platform, moment, since>>
        BY <1>1, <1>2, <1>4, FindParts DEF Cached, NoCache, host
    <2> QED
        BY <2>1, <1>1 DEF CollectInv, CacheOfSnapshot, WindowsSoFar, OneMoment, Steps
<1> QED
    BY <1>3, <1>4 DEF WindowsInterfaces

(* The other two read what is cached, or collect when nothing has been     *)
(* read before them.                                                       *)
LEMMA CollectedReads ==
    ASSUME CollectInv, platform = "windows", NEW part \in Part, pc \in {"routes", "leases"},
           Find(part, Collected)
    PROVE  /\ parts' \in [Part -> SUBSET (since .. moment)]
           /\ Collected \in since .. moment
           /\ \A p \in Part : parts'[p] \subseteq {Collected}
<1>1. Collected \in since .. moment /\ parts \in [Part -> SUBSET (since .. moment)]
    BY DEF CollectInv, CacheOfSnapshot, Collected
<1>2. \A p \in Part : parts[p] \subseteq {Collected}
    BY DEF CollectInv, WindowsSoFar, Collected
<1> QED
    BY <1>1, <1>2, FindParts

LEMMA WindowsRoutesKeeps ==
    ASSUME CollectInv, WindowsRoutes
    PROVE  CollectInv'
<1>1. /\ since \in Nat /\ moment \in Nat /\ platform = "windows" /\ pc = "routes"
      /\ parts \in [Part -> SUBSET (since .. moment)] /\ since \in 0 .. moment
    BY DEF CollectInv, WindowsRoutes
<1>2. "routes" \in Part /\ After("routes") = "leases"
    BY DEF Part, After
<1>3. CASE ~Cached /\ Fail("routes")
    <2>1. /\ UNCHANGED <<platform, moment, since, cache>> /\ pc' = "leases" /\ ~Cached'
          /\ parts' \in [Part -> SUBSET (since .. moment)] /\ \A p \in Part : parts'[p] = {}
        BY <1>1, <1>2, <1>3, FailParts DEF CollectInv, WindowsSoFar, Cached
    <2> QED
        BY <2>1, <1>1 DEF CollectInv, CacheOfSnapshot, WindowsSoFar, OneMoment, Steps
<1>4. CASE Find("routes", Collected) /\ cache' = Collected /\ pc' = After("routes") /\ UNCHANGED <<host, since, errors>>
    <2>1. /\ parts' \in [Part -> SUBSET (since .. moment)] /\ \A p \in Part : parts'[p] \subseteq {cache'}
          /\ cache' \in since .. moment /\ pc' = "leases" /\ UNCHANGED <<platform, moment, since>>
        BY <1>1, <1>2, <1>4, CollectedReads DEF host
    <2>2. Cached'
        BY <2>1, <1>1 DEF Cached, NoCache
    <2> QED
        BY <2>1, <2>2, <1>1 DEF CollectInv, CacheOfSnapshot, WindowsSoFar, OneMoment, Steps
<1> QED
    BY <1>3, <1>4 DEF WindowsRoutes

LEMMA WindowsLeasesKeeps ==
    ASSUME CollectInv, WindowsLeases
    PROVE  CollectInv'
<1>1. /\ since \in Nat /\ moment \in Nat /\ platform = "windows" /\ pc = "leases"
      /\ parts \in [Part -> SUBSET (since .. moment)] /\ since \in 0 .. moment
    BY DEF CollectInv, WindowsLeases
<1>2. "leases" \in Part /\ After("leases") = "endpoints"
    BY DEF Part, After
<1>3. CASE ~Cached /\ Fail("leases")
    <2>1. /\ UNCHANGED <<platform, moment, since, cache>> /\ pc' = "endpoints" /\ ~Cached'
          /\ parts' \in [Part -> SUBSET (since .. moment)] /\ \A p \in Part : parts'[p] = {}
        BY <1>1, <1>2, <1>3, FailParts DEF CollectInv, WindowsSoFar, Cached
    <2> QED
        BY <2>1, <1>1 DEF CollectInv, CacheOfSnapshot, WindowsSoFar, OneMoment, Steps
<1>4. CASE Find("leases", Collected) /\ cache' = Cleared(Collected) /\ pc' = After("leases") /\ UNCHANGED <<host, since, errors>>
    <2>1. /\ parts' \in [Part -> SUBSET (since .. moment)] /\ \A p \in Part : parts'[p] \subseteq {Collected}
          /\ ~Cached' /\ pc' = "endpoints" /\ UNCHANGED <<platform, moment, since>>
        BY <1>1, <1>2, <1>4, CollectedReads DEF host, Cleared, Cached
    <2> QED
        BY <2>1, <1>1 DEF CollectInv, CacheOfSnapshot, WindowsSoFar, OneMoment, Steps
<1> QED
    BY <1>3, <1>4 DEF WindowsLeases

LEMMA EndpointsKeeps ==
    ASSUME CollectInv, Endpoints
    PROVE  CollectInv'
BY DEF CollectInv, Endpoints, host, CacheOfSnapshot, WindowsSoFar, OneMoment, Cached, Steps

LEMMA StutterKeeps ==
    ASSUME CollectInv, UNCHANGED vars
    PROVE  CollectInv'
BY DEF CollectInv, vars, host, snapshot, CacheOfSnapshot, WindowsSoFar, OneMoment, Cached

(* The invariant holds of every snapshot, finished or not (base.py,        *)
(* snapshot; windows.py, the cache).                                       *)
THEOREM CollectInvHolds == Spec => []CollectInv
<1>1. ASSUME CollectInv, [Next]_vars
      PROVE  CollectInv'
    <2>1. CASE Change
        BY <1>1, <2>1, ChangingKeeps DEF Change
    <2>2. CASE \E file \in File, lease \in Lease : Renew(file, lease)
        BY <1>1, <2>2, ChangingKeeps DEF Renew
    <2>3. CASE Begin
        BY <1>1, <2>3, BeginKeeps
    <2>4. CASE \/ Interfaces \/ MacLeases
               \/ RoutesOf("routes4", "routes6") \/ RoutesOf("routes6", After("routes"))
               \/ Merge \/ MergeFails
        BY <1>1, <2>4, UnixKeeps
    <2>5. CASE WindowsInterfaces
        BY <1>1, <2>5, WindowsInterfacesKeeps
    <2>6. CASE WindowsRoutes
        BY <1>1, <2>6, WindowsRoutesKeeps
    <2>7. CASE WindowsLeases
        BY <1>1, <2>7, WindowsLeasesKeeps
    <2>8. CASE Endpoints
        BY <1>1, <2>8, EndpointsKeeps
    <2>9. CASE UNCHANGED vars
        BY <1>1, <2>9, StutterKeeps
    <2> QED
        BY <1>1, <2>1, <2>2, <2>3, <2>4, <2>5, <2>6, <2>7, <2>8, <2>9 DEF Next
<1> QED
    BY <1>1, CollectInvInit, PTL DEF Spec

(* No part of a snapshot was read before the snapshot began, whatever      *)
(* failed in it and in those before it.                                    *)
THEOREM FreshHolds == Spec => []Fresh
<1>1. CollectInv => Fresh
    BY DEF CollectInv, Fresh
<1> QED
    BY <1>1, CollectInvHolds, PTL

(* On Windows no part of a snapshot is of another moment than the rest.    *)
THEOREM OneMomentHolds == Spec => []OneMoment
<1>1. CollectInv => OneMoment
    BY DEF CollectInv
<1> QED
    BY <1>1, CollectInvHolds, PTL

----------------------------------------------------------------------------
(* Merging the lease files on Linux.                                       *)

LEMMA Greatest ==
    ASSUME NEW n \in Nat, NEW s \in SUBSET (1 .. n), s # {}
    PROVE  Max(s) \in s /\ \A y \in s : Max(s) >= y
<1> DEFINE T == {n - y : y \in s}
<1>1. \A y \in s : y \in Nat /\ n - y \in Nat OBVIOUS
<1>2. T \subseteq Nat /\ T # {} BY <1>1
<1>3. PICK m \in T : \A t \in T : m <= t
  <2> HIDE DEF T
  <2> QED BY <1>2, LeastNatural
<1>4. PICK x \in s : m = n - x OBVIOUS
<1>5. ASSUME NEW y \in s PROVE x >= y
  <2>1. n - x <= n - y BY <1>3, <1>4
  <2>2. x \in Nat /\ y \in Nat BY <1>1
  <2> QED BY ONLY <2>1, <2>2, n \in Nat
<1> QED BY <1>4, <1>5, Zenon DEF Max

(* What the leases read so far add up to, one after the other.             *)
Merging(order, n, acc) ==
    /\ acc[0] = found
    /\ \A k \in 1 .. n : acc[k] = Add(acc[k - 1], content[order[k]])
    /\ FoldLeft(LAMBDA kept, file : Add(kept, content[file]), found, order) = acc[n]

LEMMA FoldAdd ==
    ASSUME NEW n \in Nat, NEW order, DOMAIN order = 1 .. n
    PROVE  \E acc : Merging(order, n, acc)
<1> DEFINE V == {found} \cup {content[order[i]] : i \in 1 .. n}
           D == SUBSET (1 .. n)
           body(s, g) == IF s = {} THEN found ELSE Add(g[s \ {Max(s)}], content[order[Max(s)]])
           F == [s \in D |-> [g \in [D -> V] |-> body(s, g)]]
           rank == [s \in D |-> Cardinality(s)]
           iter == CHOOSE g : g = [s \in D |-> body(s, g)]
<1>1. \A s \in D : IsFiniteSet(s) /\ Cardinality(s) \in 0 .. n
  <2>1. IsFiniteSet(1 .. n) /\ Cardinality(1 .. n) = n BY FS_Interval
  <2>2. \A s \in D : IsFiniteSet(s) /\ Cardinality(s) <= n BY <2>1, FS_Subset
  <2> QED BY <2>2, FS_CardinalityType
<1>2. \A s \in D : s # {} => /\ Max(s) \in s /\ Max(s) \in 1 .. n
                             /\ s \ {Max(s)} \in D /\ Cardinality(s \ {Max(s)}) < Cardinality(s)
  <2> SUFFICES ASSUME NEW s \in D, s # {}
               PROVE  /\ Max(s) \in s /\ Max(s) \in 1 .. n
                      /\ s \ {Max(s)} \in D /\ Cardinality(s \ {Max(s)}) < Cardinality(s)
    OBVIOUS
  <2>1. Max(s) \in s BY Greatest
  <2>2. PICK x \in s : x = Max(s) BY <2>1
  <2>3. IsFiniteSet(s) /\ Cardinality(s) \in Nat BY <1>1
  <2>4. Cardinality(s \ {x}) = Cardinality(s) - 1 BY <2>3, FS_RemoveElement
  <2>5. Cardinality(s \ {x}) < Cardinality(s) BY <2>3, <2>4
  <2> QED BY <2>1, <2>2, <2>5
<1>3. ASSUME NEW s \in D, NEW g \in [D -> V] PROVE body(s, g) \in V
  <2>1. CASE s = {} BY <2>1
  <2>2. CASE s # {}
    <3>1. g[s \ {Max(s)}] \in V BY <2>2, <1>2
    <3>2. content[order[Max(s)]] \in V BY <2>2, <1>2
    <3> HIDE DEF V
    <3> QED BY <2>2, <3>1, <3>2 DEF Add
  <2> QED BY <2>1, <2>2
<1>4. \A s \in D, g \in [D -> V] : F[s][g] = body(s, g)
  <2> HIDE DEF D, V, body
  <2> QED OBVIOUS
<1>5. F \in [D -> [[D -> V] -> V]]
  <2> HIDE DEF D, V, body
  <2> QED BY <1>3
<1>6. ASSUME NEW d \in D, NEW g \in [D -> V], NEW h \in [D -> V],
             \A e \in D : rank[e] < rank[d] => g[e] = h[e]
      PROVE  F[d][g] = F[d][h]
  <2>1. CASE d = {} BY <2>1, <1>4
  <2>2. CASE d # {}
    <3>1. PICK e \in D : e = d \ {Max(d)} /\ Cardinality(e) < Cardinality(d) BY <2>2, <1>2
    <3>2. g[e] = h[e] BY <1>6, <3>1
    <3>3. body(d, g) = body(d, h) BY <3>1, <3>2
    <3> HIDE DEF D, V, body, F
    <3> QED BY <1>4, <3>3
  <2> QED BY <2>1, <2>2
<1>7. Recursive(D, V, n, rank, F)
  <2>1. V # {} OBVIOUS
  <2>2. \A d \in D : \A g, h \in [D -> V] :
            (\A e \in D : rank[e] < rank[d] => g[e] = h[e]) => F[d][g] = F[d][h]
    BY <1>6
  <2>3. rank \in [D -> 0 .. n] BY <1>1
  <2> HIDE DEF D, V, F, rank
  <2> QED BY <1>5, <2>1, <2>2, <2>3 DEF Recursive
<1>8. \E f \in [D -> V] : \A d \in D : f[d] = F[d][f]
  <2> HIDE DEF D, V, F, rank
  <2> QED BY <1>7, RecursiveFunction
<1>9. \E g : g = [s \in D |-> body(s, g)]
  <2>1. PICK f \in [D -> V] : \A d \in D : f[d] = F[d][f] BY <1>8
  <2>2. f = [d \in D |-> f[d]] OBVIOUS
  <2>3. \A d \in D : f[d] = body(d, f) BY <2>1, <1>4
  <2> HIDE DEF D, V, F, body
  <2> QED BY <2>2, <2>3
<1>10. iter = [s \in D |-> body(s, iter)] BY <1>9
<1>11. FoldLeft(LAMBDA kept, file : Add(kept, content[file]), found, order) = iter[1 .. n]
  BY DEF FoldLeft, MapThenFoldSet
<1> HIDE DEF iter
<1>12. PICK acc : acc = [k \in 0 .. n |-> iter[1 .. k]] OBVIOUS
<1>13. \A s \in D : iter[s] = body(s, iter)
  <2> HIDE DEF D, body
  <2> QED BY <1>10
<1>14. acc[0] = found
  <2>1. 1 .. 0 = {} /\ {} \in D OBVIOUS
  <2>2. acc[0] = iter[1 .. 0] BY <1>12
  <2> QED BY <1>13, <2>1, <2>2
<1>15. ASSUME NEW k \in 1 .. n PROVE acc[k] = Add(acc[k - 1], content[order[k]])
  <2>1. 1 .. k \in D /\ 1 .. k # {}
    <3>1. 1 .. k \subseteq 1 .. n BY ONLY k \in 1 .. n, n \in Nat
    <3>2. 1 \in 1 .. k BY ONLY k \in 1 .. n
    <3> QED BY <3>1, <3>2
  <2>2. Max(1 .. k) = k
    <3>1. PICK x : x = Max(1 .. k) OBVIOUS
    <3>2. x \in 1 .. k /\ \A y \in 1 .. k : x >= y BY <2>1, <3>1, Greatest
    <3>3. k \in 1 .. k OBVIOUS
    <3> QED BY <3>1, <3>2, <3>3
  <2>3. (1 .. k) \ {k} = 1 .. (k - 1) OBVIOUS
  <2>4. iter[1 .. k] = Add(iter[1 .. (k - 1)], content[order[k]]) BY <1>13, <2>1, <2>2, <2>3
  <2> QED BY <1>12, <2>4
<1>16. acc[n] = iter[1 .. n] BY <1>12
<1> QED BY ONLY <1>11, <1>14, <1>15, <1>16, Zenon DEF Merging

(* Each file of a group that is read is in the order it is read in.        *)
LEMMA AllRead ==
    ASSUME NEW files, IsFiniteSet(files), NEW order \in Orders(files)
    PROVE  \E n \in Nat : DOMAIN order = 1 .. n /\ \A f \in files : \E k \in 1 .. n : order[k] = f
<1>1. PICK n \in Nat : n = Cardinality(files) BY FS_CardinalityType
<1>2. order \in [1 .. n -> files] /\ \A i, j \in 1 .. n : i # j => order[i] # order[j]
  <2>1. order \in SetToSeqs(files) BY DEF Orders
  <2> QED BY <1>1, <2>1 DEF SetToSeqs
<1>3. order \in Injection(1 .. n, files) BY <1>2 DEF Injection, IsInjective
<1>4. Cardinality(1 .. n) = Cardinality(files) BY <1>1, FS_Interval
<1>5. order \in Surjection(1 .. n, files) BY <1>3, <1>4, FS_Injection
<1>6. \A f \in files : \E k \in 1 .. n : order[k] = f BY <1>5 DEF Surjection
<1> QED BY <1>2, <1>6

(* Merging prefers what pushes routes.                                     *)
LEMMA AddPrefers ==
    ASSUME NEW kept, NEW lease, parts["interfaces"] # {}, Pushes(kept) \/ Pushes(lease)
    PROVE  Pushes(Add(kept, lease))
BY DEF Add, Usable, Better, Pushes

LEMMA MergePrefers ==
    ASSUME NEW order, NEW n \in Nat, DOMAIN order = 1 .. n, parts["interfaces"] # {},
           Pushes(found) \/ \E k \in 1 .. n : Pushes(content[order[k]])
    PROVE  Pushes(FoldLeft(LAMBDA kept, file : Add(kept, content[file]), found, order))
<1>1. PICK acc : Merging(order, n, acc) BY FoldAdd
<1>2. acc[0] = found /\ \A k \in 1 .. n : acc[k] = Add(acc[k - 1], content[order[k]]) BY <1>1 DEF Merging
<1>3. PICK m \in 0 .. n : Pushes(acc[m])
  <2>1. CASE Pushes(found) BY <2>1, <1>2
  <2>2. CASE \E k \in 1 .. n : Pushes(content[order[k]])
    <3>1. PICK k \in 1 .. n : Pushes(content[order[k]]) BY <2>2
    <3>2. Pushes(acc[k]) BY <3>1, <1>2, AddPrefers
    <3> QED BY <3>2
  <2> QED BY <2>1, <2>2
<1>4. n \in {k \in 0 .. n : k >= m => Pushes(acc[k])}
  <2> DEFINE T == {k \in 0 .. n : k >= m => Pushes(acc[k])}
  <2>1. 0 \in T BY <1>3
  <2>2. ASSUME NEW k \in 0 .. n - 1, k \in T PROVE k + 1 \in T
    <3>1. PICK l \in 1 .. n : l = k + 1 OBVIOUS
    <3>2. l - 1 = k BY <3>1
    <3>3. acc[l] = Add(acc[k], content[order[l]]) BY <1>2, <3>2
    <3>4. CASE k >= m
      <4>1. Pushes(acc[k]) BY <2>2, <3>4
      <4>2. Pushes(acc[l]) BY <3>3, <4>1, AddPrefers
      <4> QED BY <3>1, <4>2
    <3>5. CASE ~(k >= m)
      <4>1. l >= m => l = m BY <3>1, <3>5
      <4> QED BY <3>1, <4>1, <1>3
    <3> QED BY <3>4, <3>5
  <2>3. 0 .. n \subseteq T
    <3> HIDE DEF T
    <3> QED BY <2>1, <2>2, UpwardInduction
  <2> QED BY <2>3
<1>5. Pushes(acc[n]) BY <1>3, <1>4
<1>6. FoldLeft(LAMBDA kept, file : Add(kept, content[file]), found, order) = acc[n] BY <1>1, Zenon DEF Merging
<1> QED BY ONLY <1>5, <1>6, Zenon

(* How far the merging has come.                                           *)
GroupsRead ==
    CASE pc = "leases" -> group - 1
      [] pc \in {"endpoints", "idle"} -> Len(Groups)
      [] OTHER -> 0

GroupsSeen ==
    \A n \in 1 .. GroupsRead : \A f \in Groups[n] \ missed : Pushes(content[f]) => Pushes(found)

LEMMA MergeKeeps ==
    ASSUME CollectInv, PushedSoFar, Merge
    PROVE  PushedSoFar'
<1>1. /\ platform = "linux" /\ pc = "leases" /\ group' = group + 1 /\ Read("leases", moment)
      /\ pc' = (IF group = Len(Groups) THEN After("leases") ELSE pc)
      /\ UNCHANGED <<host, since, errors, cache>>
  BY DEF Merge
<1>2. PICK unread \in SUBSET Groups[group] : \E order \in Orders(Groups[group] \ unread) :
         /\ found' = FoldLeft(LAMBDA kept, file : Add(kept, content[file]), found, order)
         /\ missed' = missed \cup unread
  BY Zenon DEF Merge
<1>3. PICK order \in Orders(Groups[group] \ unread) :
         /\ found' = FoldLeft(LAMBDA kept, file : Add(kept, content[file]), found, order)
         /\ missed' = missed \cup unread
  BY ONLY <1>2, Zenon
<1>4. group \in 1 .. Len(Groups) BY <1>1 DEF PushedSoFar
<1>5. PICK N \in Nat : N = Len(Groups) BY CollectAssumption, LenProperties
<1>6. \A g \in 1 .. N : Groups[g] \subseteq File /\ IsFiniteSet(Groups[g])
  <2>1. \A g \in 1 .. N : Groups[g] \subseteq File BY <1>5, CollectAssumption
  <2> QED BY <2>1, CollectAssumption, FS_Subset
<1>7. PICK files : files = Groups[group] \ unread OBVIOUS
<1>8. IsFiniteSet(files)
  <2>1. IsFiniteSet(Groups[group]) /\ files \subseteq Groups[group] BY <1>4, <1>5, <1>6, <1>7
  <2> QED BY <2>1, FS_Subset
<1>9. order \in Orders(files) BY ONLY <1>7, order \in Orders(Groups[group] \ unread), Zenon
<1>10. PICK n \in Nat : DOMAIN order = 1 .. n /\ \A f \in files : \E k \in 1 .. n : order[k] = f
  BY ONLY <1>8, <1>9, AllRead, Zenon
<1>11. After("leases") = "endpoints" BY DEF After
<1>12. /\ UNCHANGED <<platform, moment, content, since>> /\ parts'["interfaces"] = parts["interfaces"]
  BY <1>1 DEF host, Read, CollectInv, Part
<1>13. group' \in Nat /\ GroupsRead' = group /\ (pc' = "leases" => group' \in 1 .. N)
       /\ pc' \in {"leases", "endpoints"}
  BY <1>1, <1>4, <1>5, <1>11 DEF GroupsRead
<1>14. ASSUME moment = since, parts["interfaces"] # {},
              NEW g \in 1 .. group, NEW f \in Groups[g] \ missed', Pushes(content[f])
       PROVE  Pushes(found')
  <2>1. f \notin missed /\ f \notin unread BY <1>3
  <2>2. Pushes(found) \/ \E k \in 1 .. n : Pushes(content[order[k]])
    <3>1. CASE g = group
      <4>1. f \in files BY <1>7, <2>1, <3>1
      <4> QED BY <1>10, <1>14, <4>1
    <3>2. CASE g # group
      <4>1. g \in 1 .. group - 1 BY <1>4, <1>5, <3>2
      <4>2. \A h \in 1 .. group - 1 : \A e \in Groups[h] \ missed : Pushes(content[e]) => Pushes(found)
        BY <1>1, <1>14 DEF PushedSoFar
      <4> QED BY <1>14, <2>1, <4>1, <4>2
    <3> QED BY <3>1, <3>2
  <2>3. Pushes(FoldLeft(LAMBDA kept, file : Add(kept, content[file]), found, order))
    BY ONLY <1>10, <1>14, <2>2, n \in Nat, MergePrefers, Zenon
  <2> QED BY ONLY <1>3, <2>3, Zenon
<1>15. \A l : Pushes(l)' = Pushes(l) BY DEF Pushes
<1>16. moment' = since' /\ parts'["interfaces"] # {} => GroupsSeen'
  <2> SUFFICES ASSUME moment' = since', parts'["interfaces"] # {}, NEW g \in 1 .. group,
                      NEW f \in Groups[g] \ missed', Pushes(content'[f])
               PROVE  Pushes(found')
    BY <1>13 DEF GroupsSeen, Pushes
  <2> QED BY <1>12, <1>14
<1> QED BY <1>5, <1>13, <1>16 DEF PushedSoFar, GroupsRead, GroupsSeen

(* As far as the merging has come, what was found pushes routes if a file  *)
(* that was read does.                                                     *)
LEMMA PushedSoFarHolds == Spec => []PushedSoFar
<1>1. Init => PushedSoFar
  <2> SUFFICES ASSUME Init PROVE PushedSoFar OBVIOUS
  <2>1. pc = "idle" /\ parts["leases"] = {} /\ group = 1 BY DEF Init, Part
  <2> QED BY <2>1 DEF PushedSoFar
<1>2. ASSUME CollectInv, PushedSoFar, [Next]_vars PROVE PushedSoFar'
  <2> USE <1>2
  <2>1. /\ moment \in Nat /\ since \in 0 .. moment /\ parts \in [Part -> SUBSET (since .. moment)]
        /\ Len(Groups) \in Nat /\ Len(Groups) > 0
    <3>1. Len(Groups) \in Nat /\ Len(Groups) > 0 BY CollectAssumption
    <3> QED BY <3>1 DEF CollectInv
  <2>2. ASSUME Changing, UNCHANGED <<platform, pc, group, snapshot>> PROVE PushedSoFar'
    <3>1. moment' # since' BY <2>1, <2>2 DEF Changing, snapshot
    <3> QED BY <2>2, <3>1 DEF PushedSoFar
  <2>3. ASSUME pc' \in {"interfaces", "routes4", "routes6", "leases"}, group' = 1 PROVE PushedSoFar'
    <3>1. \A n \in 1 .. (CASE pc' = "leases" -> group' - 1
                           [] pc' \in {"endpoints", "idle"} -> Len(Groups)
                           [] OTHER -> 0) : FALSE
      BY <2>3
    <3>2. group' \in 1 .. Len(Groups) BY <2>1, <2>3
    <3> QED BY <2>3, <3>1, <3>2 DEF PushedSoFar
  <2>4. CASE Change BY <2>2, <2>4 DEF Change
  <2>5. CASE \E file \in File, lease \in Lease : Renew(file, lease) BY <2>2, <2>5 DEF Renew
  <2>6. CASE Begin BY <2>3, <2>6 DEF Begin
  <2>7. CASE Interfaces
    <3>1. CASE platform = "linux"
      <4>1. pc' = "routes4" /\ group' = group /\ group = 1
        BY <2>7, <3>1 DEF Interfaces, Fail, After, PushedSoFar
      <4> QED BY <2>3, <4>1
    <3>2. CASE platform # "linux"
      <4>1. platform' = platform BY <2>7 DEF Interfaces, Fail, host
      <4> QED BY <3>2, <4>1 DEF PushedSoFar
    <3> QED BY <3>1, <3>2
  <2>8. CASE MacLeases
    <3>1. platform' = "macos" BY <2>8 DEF MacLeases, Fail, host
    <3> QED BY <3>1 DEF PushedSoFar
  <2>9. ASSUME NEW family \in {"routes4", "routes6"}, NEW next \in {"routes6", "leases"}, RoutesOf(family, next)
        PROVE  PushedSoFar'
    <3>1. CASE platform = "linux"
      <4>1. pc' \in {"routes6", "leases"} /\ group' = group /\ group = 1
        BY <2>9, <3>1 DEF RoutesOf, Fail, After, PushedSoFar
      <4> QED BY <2>3, <4>1
    <3>2. CASE platform # "linux"
      <4>1. platform' = platform BY <2>9 DEF RoutesOf, Fail, host
      <4> QED BY <3>2, <4>1 DEF PushedSoFar
    <3> QED BY <3>1, <3>2
  <2>10. CASE RoutesOf("routes4", "routes6") BY <2>9, <2>10
  <2>11. CASE RoutesOf("routes6", After("routes"))
    <3>1. After("routes") = "leases" BY DEF After
    <3> QED BY <2>9, <2>11, <3>1
  <2>12. CASE Merge BY <2>12, MergeKeeps
  <2>13. CASE MergeFails
    <3>1. pc' = "endpoints" /\ parts'["leases"] = {} BY <2>1, <2>13 DEF MergeFails, Fail, After, Part
    <3> QED BY <3>1 DEF PushedSoFar
  <2>14. CASE WindowsInterfaces \/ WindowsRoutes \/ WindowsLeases
    <3>1. platform' = "windows" BY <2>14 DEF WindowsInterfaces, WindowsRoutes, WindowsLeases, Fail, host
    <3> QED BY <3>1 DEF PushedSoFar
  <2>15. CASE Endpoints
    <3>1. /\ pc = "endpoints" /\ pc' = "idle"
          /\ UNCHANGED <<platform, moment, content, group, since, parts, found, missed>>
      BY <2>15 DEF Endpoints, host
    <3> QED BY <3>1 DEF PushedSoFar, Pushes
  <2>16. CASE UNCHANGED vars
    <3>1. UNCHANGED <<platform, moment, content, pc, group, since, parts, found, missed>>
      BY <2>16 DEF vars, host, snapshot
    <3> QED BY <3>1 DEF PushedSoFar, Pushes
  <2> QED BY <2>4, <2>5, <2>6, <2>7, <2>8, <2>10, <2>11, <2>12, <2>13, <2>14, <2>15, <2>16 DEF Next
<1> QED BY <1>1, <1>2, CollectInvHolds, PTL DEF Spec

(* Routes of a DHCP client are not hidden by one that reports none         *)
(* (LinuxPlatform.leases, add), in whichever order the files are read.     *)
THEOREM PushedHolds == Spec => []PushedSeen
<1>1. PushedSoFar => PushedSeen
  <2> SUFFICES ASSUME PushedSoFar, platform = "linux", Settled,
                      NEW f \in Files \ missed, Pushes(content[f])
               PROVE  Pushes(found)
    BY DEF PushedSeen
  <2>1. DOMAIN Groups = 1 .. Len(Groups) BY CollectAssumption
  <2>2. PICK n \in 1 .. Len(Groups) : f \in Groups[n] BY <2>1 DEF Files
  <2> QED BY <2>2 DEF PushedSoFar, Settled
<1> QED BY <1>1, PushedSoFarHolds, PTL


----------------------------------------------------------------------------
(* What a snapshot says about itself.                                      *)

(* A part that is read is not empty, and one that fails is noted.          *)
LEMMA NotedParts ==
    ASSUME CollectInv, NEW part \in Part
    PROVE  /\ \A at : Read(part, at) => parts'[part] # {} /\ \A p \in Part \ {part} : parts'[p] = parts[p]
           /\ Fail(part) => /\ parts'[part] = {} /\ \A p \in Part \ {part} : parts'[p] = parts[p]
                            /\ errors' = errors \cup {part} /\ pc' = After(part) /\ UNCHANGED platform
BY DEF CollectInv, Read, Fail, host

(* One part of a snapshot, from its place in the order to the next.        *)
LEMMA NotedStep ==
    ASSUME CollectInv, ErrorsSoFar, NEW part \in Part, part \notin Behind, pc # "idle", UNCHANGED platform,
           Behind' = Behind \cup {part}, pc' # "routes6",
           \/ (\E at : Read(part, at)) /\ UNCHANGED errors
           \/ Fail(part)
           \/ UNCHANGED <<parts, errors>> /\ (platform = "macos" => parts[part] # {})
    PROVE  ErrorsSoFar'
<1>1. part \notin errors
    BY DEF ErrorsSoFar
<1>2. /\ \A p \in Part \ {part} : parts'[p] = parts[p]
      /\ errors' \in {errors, errors \cup {part}}
      /\ part \in errors' => parts'[part] = {}
      /\ platform = "macos" => parts'[part] # {} \/ part \in errors'
    BY <1>1, NotedParts
<1>3. \A p \in Part \cap errors' : parts'[p] = {} /\ p \in Behind'
    BY <1>2 DEF ErrorsSoFar
<1>4. platform' = "macos" => \A p \in Behind' : parts'[p] = {} => p \in errors'
    <2>1. Behind \subseteq Part
        BY Zenon DEF Behind, Part
    <2> QED
        BY <1>2, <2>1 DEF ErrorsSoFar
<1> QED
    BY <1>3, <1>4 DEF ErrorsSoFar

(* Parts are noted as they fail, and no part fails after it was read.      *)
LEMMA NotedKept ==
    ASSUME CollectInv, ErrorsSoFar, platform \in {"linux", "macos", "windows"}, [Next]_vars
    PROVE  ErrorsSoFar'
<1>1. CASE UNCHANGED <<platform, pc, parts, errors>>
    BY <1>1 DEF ErrorsSoFar, Behind
<1>2. CASE Change \/ (\E file \in File, lease \in Lease : Renew(file, lease)) \/ UNCHANGED vars
    BY <1>1, <1>2 DEF Change, Renew, vars, host, snapshot
<1>3. CASE Begin
    <2>1. pc' = "interfaces" /\ errors' = {}
        BY <1>3 DEF Begin
    <2>2. Behind' = {}
        BY <2>1 DEF Behind
    <2> QED
        BY <2>1, <2>2 DEF ErrorsSoFar
<1>4. CASE Interfaces \/ WindowsInterfaces
    <2>1. /\ pc = "interfaces" /\ pc' = After("interfaces") /\ UNCHANGED platform
          /\ \/ (\E at : Read("interfaces", at)) /\ UNCHANGED errors
             \/ platform = "windows" /\ UNCHANGED <<parts, errors>>
             \/ Fail("interfaces")
        BY <1>4 DEF Interfaces, WindowsInterfaces, Find, Fail, host
    <2>2. pc' \in {"routes", "routes4"}
        BY <2>1 DEF After
    <2>3. Behind = {} /\ Behind' = {"interfaces"}
        BY <2>1, <2>2 DEF Behind
    <2> QED
        BY <2>1, <2>2, <2>3, NotedStep DEF Part
<1>5. CASE RoutesOf("routes4", "routes6") /\ pc' = "routes6"
    <2>1. /\ pc = "routes4" /\ UNCHANGED <<platform, errors>>
          /\ (\E at : Read("routes", at)) \/ (platform = "linux" /\ UNCHANGED parts)
        BY <1>5 DEF RoutesOf, Fail, After, host
    <2>2. Behind = {"interfaces"} /\ Behind' = {"interfaces"}
        BY <1>5, <2>1 DEF Behind
    <2>3. \A p \in {"interfaces"} : parts'[p] = parts[p]
        BY <2>1, NotedParts DEF Part
    <2>4. platform = "macos" => parts'["routes"] # {}
        BY <2>1, NotedParts DEF Part
    <2> QED
        BY <1>5, <2>1, <2>2, <2>3, <2>4 DEF ErrorsSoFar
<1>6. CASE \/ RoutesOf("routes4", "routes6") /\ pc' # "routes6"
           \/ RoutesOf("routes6", After("routes"))
           \/ WindowsRoutes
    <2>1. /\ pc \in {"routes4", "routes6", "routes"} /\ pc' = "leases" /\ UNCHANGED platform
          /\ \/ (\E at : Read("routes", at)) /\ UNCHANGED errors
             \/ Fail("routes")
             \/ (pc = "routes6" \/ platform = "windows") /\ UNCHANGED <<parts, errors>>
        BY <1>6 DEF RoutesOf, WindowsRoutes, Find, Fail, After, host
    <2>2. Behind = {"interfaces"} /\ Behind' = {"interfaces", "routes"}
        BY <2>1 DEF Behind
    <2>3. pc = "routes6" /\ platform = "macos" => parts["routes"] # {}
        BY DEF ErrorsSoFar, CollectInv, WindowsSoFar
    <2> QED
        BY <2>1, <2>2, <2>3, NotedStep DEF Part
<1>7. CASE Merge /\ pc' = "leases"
    <2>1. platform = "linux" /\ pc = "leases" /\ UNCHANGED <<platform, errors>> /\ Read("leases", moment)
        BY <1>7 DEF Merge, host
    <2>2. Behind = {"interfaces", "routes"} /\ Behind' = {"interfaces", "routes"}
        BY <1>7, <2>1 DEF Behind
    <2>3. \A p \in {"interfaces", "routes"} : parts'[p] = parts[p]
        BY <2>1, NotedParts DEF Part
    <2> QED
        BY <1>7, <2>1, <2>2, <2>3 DEF ErrorsSoFar
<1>8. CASE MacLeases \/ (Merge /\ pc' # "leases") \/ MergeFails \/ WindowsLeases
    <2>1. /\ pc = "leases" /\ pc' = "endpoints" /\ UNCHANGED platform
          /\ \/ (\E at : Read("leases", at)) /\ UNCHANGED errors
             \/ platform = "windows" /\ UNCHANGED <<parts, errors>>
             \/ Fail("leases")
        BY <1>8 DEF MacLeases, Merge, MergeFails, WindowsLeases, Find, Fail, After, host
    <2>2. Behind = {"interfaces", "routes"} /\ Behind' = Part
        BY <2>1 DEF Behind
    <2> QED
        BY <2>1, <2>2, NotedStep DEF Part
<1>9. CASE Endpoints
    <2>1. /\ pc = "endpoints" /\ pc' = "idle" /\ errors' \subseteq errors \cup {"vpn endpoints"} /\ UNCHANGED <<platform, parts>>
        BY <1>9 DEF Endpoints, host
    <2>2. Behind = Part /\ Behind' = Part
        BY <2>1 DEF Behind
    <2> QED
        BY <2>1, <2>2 DEF ErrorsSoFar, Part
<1> QED
    BY <1>2, <1>3, <1>4, <1>5, <1>6, <1>7, <1>8, <1>9 DEF Next

(* Whatever is merged, the lease is one of the files', and complete enough *)
(* to be one.                                                              *)
LeaseOK(lease) == lease = NoLease \/ (lease \in Lease /\ (lease.server \/ lease.routes # {}))

LEMMA MergeOfLeases ==
    ASSUME NEW order, NEW n \in Nat, DOMAIN order = 1 .. n, LeaseOK(found),
           \A k \in 1 .. n : content[order[k]] \in Lease \cup {NoLease}
    PROVE  LeaseOK(FoldLeft(LAMBDA kept, file : Add(kept, content[file]), found, order))
<1>1. PICK acc : Merging(order, n, acc)
    BY FoldAdd
<1>2. acc[0] = found /\ \A k \in 1 .. n : acc[k] = Add(acc[k - 1], content[order[k]])
    BY <1>1 DEF Merging
<1> DEFINE T == {k \in 0 .. n : LeaseOK(acc[k])}
<1>3. 0 \in T
    BY <1>2
<1>4. ASSUME NEW k \in 0 .. n - 1, k \in T PROVE k + 1 \in T
    <2>1. PICK l \in 1 .. n : l = k + 1 /\ l - 1 = k
        OBVIOUS
    <2>2. LeaseOK(acc[k]) /\ acc[l] = Add(acc[k], content[order[l]])
        BY <1>2, <1>4, <2>1
    <2>3. LeaseOK(acc[l])
        BY <2>2 DEF LeaseOK, Add, Usable
    <2> QED
        BY <2>1, <2>3
<1>5. 0 .. n \subseteq T
  <2> HIDE DEF T
  <2> QED
    BY <1>3, <1>4, UpwardInduction
<1>6. LeaseOK(acc[n])
    BY <1>5
<1>7. FoldLeft(LAMBDA kept, file : Add(kept, content[file]), found, order) = acc[n]
    BY <1>1, Zenon DEF Merging
<1> QED
    BY ONLY <1>6, <1>7, Zenon


CollectData ==
    /\ platform \in {"linux", "macos", "windows"} /\ missed \subseteq File
    /\ content \in [File -> Lease \cup {NoLease}] /\ written \in [File -> 0 .. moment]
    /\ moment \in 0 .. MaxChanges /\ group \in 1 .. Len(Groups) + 1 /\ errors \subseteq Part \cup {"vpn endpoints"}
    /\ LeaseOK(found)

LEMMA DataUnmerged ==
    ASSUME CollectData, NEW part \in Part,
           UNCHANGED host, group' \in 1 .. Len(Groups) + 1, errors' \subseteq errors \cup Part \cup {"vpn endpoints"},
           missed' \subseteq File, found' \in {found, NoLease}
    PROVE  CollectData'
BY DEF CollectData, host, LeaseOK

LEMMA DataMerged ==
    ASSUME CollectInv, CollectData, PushedSoFar, Merge
    PROVE  CollectData'
<1>1. /\ platform = "linux" /\ pc = "leases" /\ group' = group + 1 /\ UNCHANGED <<host, errors>>
    BY DEF Merge
<1>2. group \in 1 .. Len(Groups)
    BY <1>1 DEF PushedSoFar
<1>3. PICK unread \in SUBSET Groups[group] : \E order \in Orders(Groups[group] \ unread) :
          /\ found' = FoldLeft(LAMBDA kept, file : Add(kept, content[file]), found, order)
          /\ missed' = missed \cup unread
    BY Zenon DEF Merge
<1>4. PICK order \in Orders(Groups[group] \ unread) :
          /\ found' = FoldLeft(LAMBDA kept, file : Add(kept, content[file]), found, order)
          /\ missed' = missed \cup unread
    BY ONLY <1>3, Zenon
<1>5. Groups[group] \subseteq File
    BY <1>2, CollectAssumption
<1>6. IsFiniteSet(Groups[group] \ unread)
    BY <1>5, CollectAssumption, FS_Subset
<1>7. order \in SetToSeqs(Groups[group] \ unread)
    BY DEF Orders
<1>8. PICK n \in Nat : n = Cardinality(Groups[group] \ unread)
    BY <1>6, FS_CardinalityType
<1>9. order \in [1 .. n -> Groups[group] \ unread]
    BY <1>7, <1>8 DEF SetToSeqs
<1>10. DOMAIN order = 1 .. n /\ \A k \in 1 .. n : content[order[k]] \in Lease \cup {NoLease}
    BY <1>5, <1>9 DEF CollectData
<1>11. LeaseOK(found)
    BY DEF CollectData
<1>12. LeaseOK(FoldLeft(LAMBDA kept, file : Add(kept, content[file]), found, order))
    BY ONLY <1>10, <1>11, n \in Nat, MergeOfLeases, Zenon
<1>13. LeaseOK(found)'
    BY ONLY <1>4, <1>12, Zenon DEF LeaseOK
<1>14. missed' \subseteq File
    BY <1>4, <1>5 DEF CollectData
<1>15. group' \in 1 .. Len(Groups) + 1
    BY <1>1, <1>2, CollectAssumption
<1> QED
    BY <1>1, <1>13, <1>14, <1>15 DEF CollectData, host

LEMMA DataKept ==
    ASSUME CollectInv, CollectData, PushedSoFar, [Next]_vars
    PROVE  CollectData'
<1>1. group \in 1 .. Len(Groups) + 1 /\ 1 \in 1 .. Len(Groups) + 1 /\ missed \subseteq File
    <2>1. Len(Groups) \in Nat /\ Len(Groups) > 0
        BY CollectAssumption
    <2>2. 1 \in 1 .. Len(Groups) + 1
        BY ONLY <2>1
    <2> QED
        BY <2>2 DEF CollectData
<1>2. CASE Change \/ \E file \in File, lease \in Lease : Renew(file, lease)
    <2>1. Changing /\ UNCHANGED <<platform, group, errors, found, missed>>
        BY <1>2 DEF Change, Renew, snapshot
    <2>2. \/ UNCHANGED <<content, written>>
          \/ \E file \in File, lease \in Lease :
                 content' = [content EXCEPT ![file] = lease] /\ written' = [written EXCEPT ![file] = moment']
        BY <1>2 DEF Change, Renew
    <2>3. moment' \in 0 .. MaxChanges /\ 0 .. moment \subseteq 0 .. moment' /\ moment' \in 0 .. moment'
        <3>1. moment \in 0 .. MaxChanges /\ moment < MaxChanges /\ moment' = moment + 1 /\ MaxChanges \in Nat
            BY <2>1, CollectAssumption DEF Changing, CollectData
        <3> QED
            BY ONLY <3>1
    <2>4. content' \in [File -> Lease \cup {NoLease}]
        BY <2>2 DEF CollectData
    <2>5. written \in [File -> 0 .. moment']
        BY <2>3 DEF CollectData
    <2>6. written' \in [File -> 0 .. moment']
        BY <2>2, <2>3, <2>5
    <2> QED
        BY <2>1, <2>3, <2>4, <2>6 DEF CollectData, LeaseOK
<1>3. CASE \/ Begin \/ Interfaces \/ MacLeases \/ MergeFails
           \/ RoutesOf("routes4", "routes6") \/ RoutesOf("routes6", After("routes"))
           \/ WindowsInterfaces \/ WindowsRoutes \/ WindowsLeases \/ Endpoints \/ UNCHANGED vars
    <2>1. /\ UNCHANGED host /\ group' \in {group, 1} /\ errors' \subseteq errors \cup Part \cup {"vpn endpoints"}
          /\ missed' \in {missed, {}} /\ found' \in {found, NoLease}
        BY <1>3 DEF Begin, Interfaces, MacLeases, MergeFails, RoutesOf, WindowsInterfaces, WindowsRoutes, WindowsLeases,
               Endpoints, Fail, vars, snapshot, Part
    <2> QED
        BY <1>1, <2>1, DataUnmerged DEF Part
<1> QED
    BY <1>2, <1>3, DataMerged DEF Next

(* The lease that is kept is one that a file held and complete enough to be *)
(* one, and every part is of a moment between the beginning of the snapshot *)
(* and now, for any files, groups and changes (linux.py, leases).           *)
THEOREM CollectTypeCorrect == Spec => []CollectTypeOK
<1>1. Init => CollectData
    BY CollectAssumption DEF Init, CollectData, LeaseOK
<1>2. Spec => []CollectData
    BY <1>1, DataKept, CollectInvHolds, PushedSoFarHolds, PTL DEF Spec
<1>3. CollectInv /\ CollectData => CollectTypeOK
    <2> SUFFICES ASSUME CollectInv, CollectData PROVE CollectTypeOK
        OBVIOUS
    <2>1. moment \in Nat /\ since \in 0 .. moment /\ since .. moment \subseteq 0 .. moment
        BY DEF CollectInv
    <2>2. cache \in {NoCache} \cup 0 .. moment
        BY <2>1 DEF CollectInv, CacheOfSnapshot, Cached
    <2>3. parts \in [Part -> SUBSET (0 .. moment)] /\ pc \in Steps
        BY <2>1 DEF CollectInv
    <2> QED
        BY <2>1, <2>2, <2>3 DEF CollectData, CollectTypeOK, LeaseOK
<1> QED
    BY <1>2, <1>3, CollectInvHolds, PTL

(* "keep going with partial data; surface the problem" (base.py:50): a part *)
(* that failed is empty and noted, and on macOS no part is empty otherwise. *)
(* Linux and Windows have commands that fail without a word.                *)
THEOREM ProblemsSurface == Spec => []ErrorsTell
<1>1. Init => ErrorsSoFar
    BY DEF Init, ErrorsSoFar
<1>2. CollectTypeOK => platform \in {"linux", "macos", "windows"}
    BY DEF CollectTypeOK
<1>3. ErrorsSoFar => ErrorsTell
    <2>1. pc = "endpoints" => Behind = Part
        BY DEF Behind
    <2> QED
        BY <2>1 DEF ErrorsSoFar, ErrorsTell
<1> QED
    BY <1>1, <1>2, <1>3, NotedKept, CollectInvHolds, CollectTypeCorrect, PTL DEF Spec

=============================================================================
