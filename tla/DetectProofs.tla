---------------------------- MODULE DetectProofs ----------------------------
(* Proofs that what DetectProperties promises holds of Detect for every    *)
(* value of its constants: all networks, tables, leases and lookups.       *)
EXTENDS DetectProperties, Recursion, FiniteSetTheorems, TLAPS

Snapshots == routes \in Tables /\ leases \in Leases /\ offers \in Offers

Stages == {"scan", "confirm", "canaries", "report", "done"}

Devices == [Address -> Iface \cup {NoDev}]

Findings == [severity : {Info, Low, Medium, High, Critical}, code : Codes,
             iface : Iface, route : Route \cup {NoRoute},
             listed : Seq(Text), notes : SUBSET {"...", "overlaps"}]

LEMMA DetectType == DetectTypeOK <=>
    /\ stage \in Stages /\ os \in Devices /\ asked \in Devices
    /\ routes \subseteq Route /\ findings \subseteq Findings
BY DEF DetectTypeOK, Stages, Devices, Findings

----------------------------------------------------------------------------
(* Routes and the verdicts on them.                                        *)

LEMMA RouteFields ==
    ASSUME NEW r \in Route
    PROVE  /\ r.dest \in Network /\ r.iface \in Iface /\ r.gateway \in Router \cup {OnLink}
           /\ r.dest \subseteq Address
           /\ Key(r) \in RouteKey /\ Key(r) # NoRoute /\ r # NoRoute
           /\ Key(r).dest = r.dest /\ Key(r).iface = r.iface /\ Key(r).gateway = r.gateway
<1>1. r.dest \in Network /\ r.iface \in Iface /\ r.gateway \in Router \cup {OnLink}
  BY DEF Route
<1>2. Key(r) \in RouteKey
  BY <1>1 DEF Key, RouteKey
<1>3. Key(r) # NoRoute /\ r # NoRoute
  BY <1>2, HostAssumption
<1> QED
  BY <1>1, <1>2, <1>3, NetworkAssumption DEF Key

LEMMA TableRoutes ==
    ASSUME Snapshots
    PROVE  routes \subseteq Route
BY SnapshotAssumption DEF Snapshots

LEMMA ProbeInside ==
    ASSUME NEW r \in Route
    PROVE  Probe[r.dest] \in r.dest /\ Probe[r.dest] \in Address
BY RouteFields, NetworkAssumption

(* A suspect is a physical, relevant, covered and untrusted route.         *)
LEMMA SuspectFacts ==
    ASSUME Snapshots, NEW r \in Suspects
    PROVE  /\ r \in routes /\ r \in Route /\ ~r.scoped /\ r.iface \notin Vpn
           /\ ~IsDefault(r) /\ Covered(r.dest) /\ ~Trusted(r.dest)
           /\ ~Local(r) /\ ~Spared(r) /\ VpnActive
BY TableRoutes DEF Suspects, Examined, PhysRoutes, Relevant, Covered, VpnActive

LEMMA RatingType ==
    ASSUME NEW r PROVE Rating(r) \in {Low, Medium, High, Critical}
BY DEF Rating

LEMMA VerdictType ==
    ASSUME Snapshots, NEW r \in Suspects
    PROVE  /\ Verdict(r) \in Findings /\ Mitigable(Verdict(r))
           /\ Verdict(r).route = r /\ Verdict(r).severity \in Int
<1>1. r \in Route /\ r # NoRoute /\ r.iface \in Iface
  BY SuspectFacts, RouteFields
<1>2. Verdict(r).severity \in {Info, Low, Medium, High, Critical}
  BY RatingType DEF Verdict
<1>3. Code(r) \in Codes
  BY DEF Code, Codes
<1>4. <<>> \in Seq(Text) /\ {} \in SUBSET {"...", "overlaps"}
  OBVIOUS
<1> QED
  BY <1>1, <1>2, <1>3, <1>4 DEF Verdict, Findings, Mitigable, Info, Low, Medium, High, Critical

(* Suspects whose findings have one fingerprint are judged alike, so that  *)
(* removing duplicates leaves one verdict on them.                         *)
LEMMA VerdictPrint ==
    ASSUME Snapshots, NEW r \in Suspects, NEW q \in Suspects
    PROVE  Fingerprint(Verdict(r)) = Fingerprint(Verdict(q))
               => Key(r) = Key(q) /\ Code(r) = Code(q)
<1>1. r # NoRoute /\ q # NoRoute
  BY SuspectFacts, RouteFields
<1> QED
  BY <1>1 DEF Fingerprint, Verdict

LEMMA JudgedAlike ==
    ASSUME Snapshots, NEW r \in Suspects, NEW q \in Suspects, Key(r) = Key(q), Code(r) = Code(q)
    PROVE  /\ Verdict(r).severity = Verdict(q).severity
           /\ Fingerprint(Verdict(r)) = Fingerprint(Verdict(q))
           /\ r.dest = q.dest /\ Rating(r) = Rating(q)
<1>1. r \in Route /\ q \in Route
  BY SuspectFacts
<1>2. r.dest = q.dest /\ r.iface = q.iface /\ r # NoRoute /\ q # NoRoute
  BY <1>1, RouteFields
<1>3. Pushed(r) <=> Pushed(q)
  BY DEF Code
<1>4. Rating(r) = Rating(q)
  BY <1>2, <1>3 DEF Rating, IsHost
<1> QED
  BY <1>2, <1>3, <1>4 DEF Verdict, Fingerprint

(* Before the system is asked, a finding about a suspect is a verdict      *)
(* without the answer.                                                     *)
LEMMA Judging ==
    ASSUME Snapshots, NEW r \in Suspects, asked' = os, UNCHANGED snapshot
    PROVE  Confirmed(Finding(Rating(r), Code(r), r.iface, r, <<>>, {})) = Verdict(r)'
<1> DEFINE f == Finding(Rating(r), Code(r), r.iface, r, <<>>, {})
<1>1. Asked(f) = Probe[r.dest]
  <2>1. r \in Route
    BY SuspectFacts
  <2> QED
    BY <2>1, RouteFields DEF Asked, Mitigable, Finding
<1>2. f.code = "dhcp-route-overrides-vpn" <=> Pushed(r)
  BY DEF Finding, Code
<1>3. Verdict(r)' = [severity |-> IF os[Probe[r.dest]] \notin Vpn THEN Rating(r)
                                  ELSE IF Pushed(r) THEN Low ELSE Info,
                     code |-> Code(r), iface |-> r.iface, route |-> r, listed |-> <<>>, notes |-> {}]
  BY DEF Verdict, snapshot, Rating, Pushed, Code, Leased, IsHost
<1> HIDE DEF f
<1>4. CASE os[Probe[r.dest]] \notin Vpn
  BY <1>1, <1>3, <1>4 DEF Confirmed, f, Finding
<1>5. CASE os[Probe[r.dest]] \in Vpn
  <2>1. Confirmed(f) = [f EXCEPT !.severity = IF Pushed(r) THEN Low ELSE Info]
    BY <1>1, <1>2, <1>5 DEF Confirmed
  <2> QED
    BY <2>1, <1>3, <1>5 DEF f, Finding
<1> QED
  BY <1>4, <1>5 DEF f

----------------------------------------------------------------------------
(* The findings keep their type and stay what their stage says.            *)

(* The system answers with one of its interfaces or with nothing.          *)
LEMMA WinnerType ==
    ASSUME NEW table \in SUBSET Route, NEW a, NEW favoured
    PROVE  Winner(table, a, favoured) \in Iface \cup {NoDev}
<1> DEFINE ways == {r.iface : r \in Best(table, a)}
<1>1. ways \subseteq Iface
  BY RouteFields DEF Best
<1>2. CASE ways = {}
  BY <1>2 DEF Winner
<1>3. CASE ways \cap favoured # {}
  <2>1. (CHOOSE i \in ways \cap favoured : TRUE) \in ways
    BY <1>3
  <2>2. Winner(table, a, favoured) = CHOOSE i \in ways \cap favoured : TRUE
    BY <1>3 DEF Winner
  <2> QED
    BY <2>1, <2>2, <1>1
<1>4. CASE ways # {} /\ ways \cap favoured = {}
  <2>1. (CHOOSE i \in ways : TRUE) \in ways
    BY <1>4
  <2>2. Winner(table, a, favoured) = CHOOSE i \in ways : TRUE
    BY <1>4 DEF Winner
  <2> QED
    BY <2>1, <2>2, <1>1
<1> QED
  BY <1>2, <1>3, <1>4

LEMMA DecisionsType ==
    ASSUME NEW table \in SUBSET Route
    PROVE  Decisions(table) \subseteq Devices
<1>1. \A favoured : LongestPrefix(table, favoured) \in Devices
  BY WinnerType DEF LongestPrefix, Devices
<1>2. \A i \in Vpn \cup {NoDev} : [a \in Address |-> i] \in Devices
  BY HostAssumption DEF Devices
<1> QED
  BY <1>1, <1>2 DEF Decisions

LEMMA InitInv == Init => DetectInv
<1> SUFFICES ASSUME Init PROVE DetectInv
  OBVIOUS
<1>1. Snapshots /\ routes \subseteq Route
  BY TableRoutes DEF Init, Snapshots
<1>2. os \in Devices
  BY <1>1, DecisionsType DEF Init
<1> QED
  BY <1>1, <1>2, DetectType DEF Init, DetectInv, Snapshots, Stages, LeaseAccounted


LEMMA FindingType ==
    ASSUME NEW severity \in {Info, Low, Medium, High, Critical}, NEW code \in Codes,
           NEW iface \in Iface, NEW route \in Route \cup {NoRoute},
           NEW listed \in Seq(Text), NEW notes \in SUBSET {"...", "overlaps"}
    PROVE  Finding(severity, code, iface, route, listed, notes) \in Findings
BY DEF Finding, Findings

LEMMA ItemListed ==
    ASSUME NEW dest \in SUBSET Address
    PROVE  <<Item(dest)>> \in Seq(Text)
<1>1. Item(dest) \in Text
  BY DEF Item, Text
<1> QED
  BY <1>1

(* What leases and offers list, and as much of it as a finding names.      *)
LEMMA ListingType ==
    ASSUME NEW list \in Seq(PushedRoute), NEW set
    PROVE  /\ Among(list, set) \in Seq(PushedRoute)
           /\ Listed(Among(list, set), MaxListed) \in Seq(Text)
<1>1. Among(list, set) \in Seq(PushedRoute)
  BY AmongPlaces
<1>2. Listed(Among(list, set), MaxListed) \in Seq(PushedRoute)
  BY <1>1, ListedPlaces, HostAssumption
<1>3. PushedRoute \subseteq Text
  BY NetworkAssumption DEF PushedRoute, Text
<1> QED
  BY <1>1, <1>2, <1>3

LEMMA FindingsType ==
    /\ Snapshots => RouteFindings \subseteq Findings
    /\ \A f \in Findings : /\ Confirmed(f) \in Findings
                           /\ Mitigable(Confirmed(f)) <=> Mitigable(f)
    /\ os \in Devices => \A addresses \in SUBSET Address :
                            /\ CanaryFindings(addresses) \subseteq Findings
                            /\ \A f \in CanaryFindings(addresses) : ~Mitigable(f)
    /\ Snapshots => /\ LeaseFindings \cup OfferFindings \subseteq Findings
                    /\ \A f \in LeaseFindings \cup OfferFindings : ~Mitigable(f)
<1> DEFINE nothing == <<>>
           none == {}
<1>0. nothing \in Seq(Text) /\ none \in SUBSET {"...", "overlaps"}
  OBVIOUS
<1> HIDE DEF nothing, none
<1>1. ASSUME Snapshots PROVE RouteFindings \subseteq Findings
  <2>1. ASSUME NEW r \in Suspects
        PROVE  Finding(Rating(r), Code(r), r.iface, r, nothing, none) \in Findings
    <3>1. r \in Route /\ r.iface \in Iface
      BY <1>1, SuspectFacts, RouteFields
    <3>2. Code(r) \in Codes /\ Rating(r) \in {Info, Low, Medium, High, Critical}
      BY RatingType DEF Code, Codes
    <3> QED
      BY <3>1, <3>2, <1>0, FindingType
  <2>2. ASSUME NEW r \in Oversized
        PROVE  Finding(Medium, "oversized-local-subnet", r.iface, NoRoute, <<Item(r.dest)>>, none) \in Findings
    <3>1. r \in Route
      BY <1>1, TableRoutes DEF Oversized, Examined, PhysRoutes, Relevant
    <3>2. PICK list \in Seq(Text) : list = <<Item(r.dest)>>
      BY <3>1, RouteFields, ItemListed
    <3>3. "oversized-local-subnet" \in Codes
      BY DEF Codes
    <3>4. Finding(Medium, "oversized-local-subnet", r.iface, NoRoute, list, none) \in Findings
      BY <3>1, <3>3, <1>0, RouteFields, FindingType
    <3> QED
      BY <3>2, <3>4
  <2> QED
    BY <2>1, <2>2 DEF RouteFindings, nothing, none
<1>2. ASSUME NEW f \in Findings
      PROVE  Confirmed(f) \in Findings /\ (Mitigable(Confirmed(f)) <=> Mitigable(f))
  <2>1. CASE os[Asked(f)] \notin Vpn
    BY <2>1 DEF Confirmed
  <2>2. CASE os[Asked(f)] \in Vpn
    <3>1. PICK severity \in {Low, Info} : Confirmed(f) = [f EXCEPT !.severity = severity]
      BY <2>2 DEF Confirmed
    <3> QED
      BY <3>1 DEF Findings, Mitigable
  <2> QED
    BY <2>1, <2>2
<1>3. ASSUME os \in Devices, NEW addresses \in SUBSET Address, NEW f \in CanaryFindings(addresses)
      PROVE  f \in Findings /\ ~Mitigable(f)
  <2>1. PICK a \in addresses : /\ os[a] \in Iface \ Vpn
                               /\ f = Finding(High, "canary-leak", os[a], NoRoute, <<Item({a})>>, none)
    BY <1>3 DEF CanaryFindings, none
  <2>2. PICK list \in Seq(Text) : list = <<Item({a})>>
    BY ItemListed
  <2>3. f = Finding(High, "canary-leak", os[a], NoRoute, list, none)
    BY <2>1, <2>2
  <2>4. "canary-leak" \in Codes
    BY DEF Codes
  <2>5. Finding(High, "canary-leak", os[a], NoRoute, list, none) \in Findings
    <3> DEFINE severities == {Info, Low, Medium, High, Critical}
    <3>1. High \in severities /\ os[a] \in Iface /\ NoRoute \in Route \cup {NoRoute}
      BY <2>1
    <3>2. list \in Seq(Text) /\ none \in SUBSET {"...", "overlaps"}
      BY <1>0
    <3> QED
      BY <3>1, <3>2, <2>4, FindingType, Zenon
  <2> QED
    BY <2>3, <2>5 DEF Finding, Mitigable
<1>4. ASSUME Snapshots, NEW f \in LeaseFindings PROVE f \in Findings /\ ~Mitigable(f)
  <2>1. ASSUME NEW lease \in leases
        PROVE  lease.iface \in Iface /\ Listed(Extra(lease), MaxListed) \in Seq(Text)
    BY <1>4, SnapshotAssumption, ListingType DEF Snapshots, Extra
  <2>2. \A lease : /\ LeaseRating(lease) \in {Info, Low, Medium}
                   /\ LeaseNotes(lease) \in SUBSET {"...", "overlaps"}
    BY DEF LeaseRating, LeaseNotes
  <2>3. "dhcp-option-121-present" \in Codes /\ "untrusted-dhcp-server" \in Codes
    BY DEF Codes
  <2>4. CASE \E lease \in leases : f = Finding(LeaseRating(lease), "dhcp-option-121-present",
                 lease.iface, NoRoute, Listed(Extra(lease), MaxListed), LeaseNotes(lease))
    <3>1. PICK lease \in leases : f = Finding(LeaseRating(lease), "dhcp-option-121-present",
                 lease.iface, NoRoute, Listed(Extra(lease), MaxListed), LeaseNotes(lease))
      BY <2>4
    <3>2. f \in Findings
      BY <3>1, <2>1, <2>2, <2>3, FindingType
    <3> QED
      BY <3>1, <3>2 DEF Finding, Mitigable
  <2>5. CASE \E lease \in leases :
                f = Finding(Low, "untrusted-dhcp-server", lease.iface, NoRoute, nothing, none)
    <3>1. PICK lease \in leases :
                f = Finding(Low, "untrusted-dhcp-server", lease.iface, NoRoute, nothing, none)
      BY <2>5
    <3>2. f \in Findings
      BY <3>1, <2>1, <2>3, <1>0, FindingType
    <3> QED
      BY <3>1, <3>2 DEF Finding, Mitigable
  <2> QED
    BY <1>4, <2>4, <2>5 DEF LeaseFindings, nothing, none
<1>5. ASSUME Snapshots, NEW f \in OfferFindings PROVE f \in Findings /\ ~Mitigable(f)
  <2>1. ASSUME NEW offer \in offers
        PROVE  offer.iface \in Iface /\ Listed(Hostile(offer), MaxListed) \in Seq(Text)
    BY <1>5, SnapshotAssumption, ListingType DEF Snapshots, Hostile
  <2>2. "rogue-dhcp-offer" \in Codes /\ "multiple-dhcp-servers" \in Codes
    BY DEF Codes
  <2>3. CASE \E offer \in offers : f = Finding(Critical, "rogue-dhcp-offer", offer.iface, NoRoute,
                                              Listed(Hostile(offer), MaxListed), none)
    <3>1. PICK offer \in offers : f = Finding(Critical, "rogue-dhcp-offer", offer.iface, NoRoute,
                                              Listed(Hostile(offer), MaxListed), none)
      BY <2>3
    <3>2. f \in Findings
      BY <3>1, <2>1, <2>2, <1>0, FindingType
    <3> QED
      BY <3>1, <3>2 DEF Finding, Mitigable
  <2>4. CASE \E offer \in offers :
                f = Finding(Medium, "multiple-dhcp-servers", offer.iface, NoRoute, nothing, none)
    <3>1. PICK offer \in offers :
                f = Finding(Medium, "multiple-dhcp-servers", offer.iface, NoRoute, nothing, none)
      BY <2>4
    <3>2. f \in Findings
      BY <3>1, <2>1, <2>2, <1>0, FindingType
    <3> QED
      BY <3>1, <3>2 DEF Finding, Mitigable
  <2> QED
    BY <1>5, <2>3, <2>4 DEF OfferFindings, nothing, none
<1> QED
  BY <1>1, <1>2, <1>3, <1>4, <1>5

(* Of every fingerprint, a finding of the highest severity is kept.        *)
LEMMA MostSevereKeeps ==
    ASSUME NEW fs \in SUBSET Findings, NEW f \in fs
    PROVE  \E g \in MostSevere(fs) : Fingerprint(g) = Fingerprint(f)
<1> DEFINE same == {g \in fs : Fingerprint(g) = Fingerprint(f)}
           Some(s) == \E g \in same : g.severity = s
<1>1. \A g \in same : g.severity \in {10, 20, 30, 40, 50}
  BY DEF Findings, Info, Low, Medium, High, Critical
<1>2. \E g \in same : \A h \in same : h.severity <= g.severity
  <2>1. CASE Some(50)
    BY <1>1, <2>1
  <2>2. CASE Some(40) /\ ~Some(50)
    BY <1>1, <2>2
  <2>3. CASE Some(30) /\ ~Some(40) /\ ~Some(50)
    BY <1>1, <2>3
  <2>4. CASE Some(20) /\ ~Some(30) /\ ~Some(40) /\ ~Some(50)
    BY <1>1, <2>4
  <2>5. CASE ~Some(20) /\ ~Some(30) /\ ~Some(40) /\ ~Some(50)
    BY <1>1, <2>5
  <2> QED
    BY <2>1, <2>2, <2>3, <2>4, <2>5
<1> QED
  BY <1>2 DEF MostSevere

LEMMA UniqueKeeps ==
    ASSUME NEW fs \in SUBSET Findings, NEW kept \in Unique(fs)
    PROVE  /\ kept \subseteq fs
           /\ \A f \in fs : \E g \in kept : Fingerprint(g) = Fingerprint(f)
<1> DEFINE best == MostSevere(fs)
           tied == {f \in best : \E g \in best \ {f} : Fingerprint(g) = Fingerprint(f)}
<1>1. PICK s \in SUBSET tied : /\ kept = (best \ tied) \cup s
                              /\ \A f \in tied : \E g \in s : Fingerprint(g) = Fingerprint(f)
  BY DEF Unique
<1>2. best \subseteq fs
  BY DEF MostSevere
<1>3. \A f \in best : \E g \in kept : Fingerprint(g) = Fingerprint(f)
  BY <1>1
<1>4. \A f \in fs : \E g \in best : Fingerprint(g) = Fingerprint(f)
  BY MostSevereKeeps
<1>5. kept \subseteq fs
  BY <1>1, <1>2
<1> HIDE DEF best
<1> QED
  BY <1>3, <1>4, <1>5

LEMMA CandidatesSame ==
    ASSUME UNCHANGED snapshot, Flagged' = Flagged
    PROVE  Candidates' = Candidates
<1>1. PhysRoutes' = PhysRoutes /\ VpnRoutes' = VpnRoutes
  BY DEF snapshot, PhysRoutes, VpnRoutes, Relevant
<1>2. \A a : Covered({a})' = Covered({a})
  BY <1>1 DEF Covered
<1>3. \A a : Excluded(a)' = Excluded(a)
  BY <1>1 DEF Excluded
<1>4. Samples' = Samples
  BY <1>1 DEF Samples
<1> QED
  BY <1>2, <1>3, <1>4 DEF Candidates

----------------------------------------------------------------------------
(* One lemma for each stage of analyze.                                    *)

LEMMA ScanInv == DetectInv /\ Scan => DetectInv'
<1> SUFFICES ASSUME DetectInv, Scan PROVE DetectInv'
  OBVIOUS
<1>1. Snapshots /\ Snapshots' /\ routes \subseteq Route
  BY DEF DetectInv, DetectTypeOK, Snapshots, Scan, snapshot
<1>2. VpnActive' = VpnActive /\ Suspects' = Suspects /\ RouteFindings' = RouteFindings
  BY DEF Scan, snapshot, VpnActive, VpnRoutes, Relevant, Suspects, Examined, PhysRoutes, Covered,
         Trusted, Local, Spared, Pushed, Leased, RouteFindings, Rating, Code, Oversized, IsHost
<1>3. findings' \subseteq Findings
  BY <1>1, FindingsType DEF Scan
<1>4. DetectTypeOK'
  BY <1>3, DetectType DEF DetectInv, Scan, snapshot, Stages, DetectTypeOK, Findings
<1>5. CASE VpnActive
  <2>1. findings' = RouteFindings /\ stage' = "confirm"
    BY <1>5 DEF Scan
  <2> QED
    BY <2>1, <1>1, <1>2, <1>4, <1>5 DEF DetectInv, Snapshots, LeaseAccounted
<1>6. CASE ~VpnActive
  <2>1. findings' = {} /\ stage' = "report"
    BY <1>6 DEF Scan
  <2>2. Suspects' = {}
    BY <1>1, <1>2, <1>6, SuspectFacts
  <2>3. Candidates' = {}
    BY <1>2, <1>6 DEF Candidates, Covered, VpnActive
  <2>4. VerdictsStand' /\ CanariesSeen'
    BY <2>1, <2>2, <2>3 DEF VerdictsStand, CanariesSeen
  <2> QED
    BY <2>1, <2>4, <1>1, <1>4 DEF DetectInv, Snapshots, LeaseAccounted
<1> QED
  BY <1>5, <1>6

LEMMA SnapshotSame ==
    ASSUME UNCHANGED snapshot
    PROVE  /\ Suspects' = Suspects /\ (Snapshots => Snapshots')
           /\ \A r : Code(r)' = Code(r)
           /\ asked' = asked => \A r : Verdict(r)' = Verdict(r)
BY DEF snapshot, Snapshots, VpnRoutes, Relevant, Suspects, Examined, PhysRoutes, Covered,
       Trusted, Local, Spared, Pushed, Leased, Verdict, Rating, Code, IsHost

LEMMA ConfirmInv == DetectInv /\ Confirm => DetectInv'
<1> SUFFICES ASSUME DetectInv, Confirm PROVE DetectInv'
  OBVIOUS
<1>1. Snapshots /\ Snapshots' /\ routes \subseteq Route /\ findings = RouteFindings
  BY DEF DetectInv, DetectTypeOK, Snapshots, Confirm, snapshot
<1>2. findings' \subseteq Findings
  BY <1>1, FindingsType DEF Confirm
<1>3. DetectTypeOK'
  BY <1>2, DetectType DEF DetectInv, Confirm, snapshot, Stages, DetectTypeOK, Findings
<1>4. Suspects' = Suspects
  BY SnapshotSame DEF Confirm
<1> DEFINE suspicion(r) == Finding(Rating(r), Code(r), r.iface, r, <<>>, {})
<1>5. \A r \in Suspects : Confirmed(suspicion(r)) = Verdict(r)'
  BY <1>1, Judging DEF Confirm
<1>6. \A f \in RouteFindings : Mitigable(f) => \E r \in Suspects : f = suspicion(r)
  BY DEF RouteFindings, Finding, Mitigable
<1>7. \A r \in Suspects : suspicion(r) \in RouteFindings
  BY DEF RouteFindings
<1> HIDE DEF suspicion
<1>8. \A r \in Suspects : Verdict(r)' \in findings'
  BY <1>1, <1>5, <1>7 DEF Confirm
<1>9. ASSUME NEW g \in findings', Mitigable(g) PROVE \E r \in Suspects : g = Verdict(r)'
  <2>1. PICK f \in RouteFindings : g = Confirmed(f)
    BY <1>1 DEF Confirm
  <2>2. Mitigable(f)
    BY <1>1, <1>9, <2>1, FindingsType
  <2> QED
    BY <2>1, <2>2, <1>5, <1>6
<1>10. VerdictsStand'
  BY <1>4, <1>8, <1>9 DEF VerdictsStand, Mitigable
<1> QED
  BY <1>1, <1>3, <1>10 DEF DetectInv, Snapshots, LeaseAccounted, Confirm

LEMMA ProbeInv == DetectInv /\ ProbeCanaries => DetectInv'
<1> SUFFICES ASSUME DetectInv, ProbeCanaries PROVE DetectInv'
  OBVIOUS
<1>1. Snapshots /\ Snapshots' /\ routes \subseteq Route /\ os \in Devices
  BY DetectType DEF DetectInv, Snapshots, ProbeCanaries, snapshot
<1>2. PICK addresses \in SUBSET Candidates :
          Probed(addresses) /\ findings' = findings \cup CanaryFindings(addresses)
  BY DEF ProbeCanaries
<1>3. Candidates \subseteq Address
  <2>1. \A v \in VpnRoutes : Probe[v.dest] \in Address
    BY <1>1, ProbeInside DEF VpnRoutes, Relevant
  <2> QED
    BY <2>1, HostAssumption DEF Candidates, Samples
<1>4. CanaryFindings(addresses) \subseteq Findings /\ \A f \in CanaryFindings(addresses) : ~Mitigable(f)
  BY <1>1, <1>3, FindingsType
<1>5. DetectTypeOK'
  BY <1>2, <1>4, DetectType
     DEF DetectInv, ProbeCanaries, snapshot, Stages, DetectTypeOK, Findings
<1>6. VerdictsStand'
  <2>1. VerdictsStand
    BY DEF DetectInv, ProbeCanaries
  <2> QED
    BY <2>1, <1>2, <1>4, SnapshotSame DEF VerdictsStand, ProbeCanaries, Mitigable
<1>7. Candidates' = Candidates
  <2>1. Flagged' = Flagged
    BY <1>2, <1>4 DEF Mitigable, Flagged
  <2> QED
    BY <2>1, CandidatesSame DEF ProbeCanaries
<1>8. CanariesSeen'
  <2> SUFFICES ASSUME Cardinality(Candidates) <= MaxCanaries, NEW a \in Candidates,
                      os[a] \in Iface \ Vpn
               PROVE  \E f \in findings' : f.code = "canary-leak" /\ f.listed = <<Item({a})>>
    BY <1>7 DEF CanariesSeen, ProbeCanaries
  <2>1. Cardinality(Candidates) \in Nat
    BY <1>3, FS_Subset, FS_CardinalityType, HostAssumption
  <2>2. addresses = Candidates
    BY <2>1, <1>2, HostAssumption DEF Probed
  <2>3. Finding(High, "canary-leak", os[a], NoRoute, <<Item({a})>>, {}) \in findings'
    BY <2>2, <1>2 DEF CanaryFindings
  <2> QED
    BY <2>3 DEF Finding
<1> QED
  BY <1>1, <1>5, <1>6, <1>8 DEF DetectInv, Snapshots, LeaseAccounted, ProbeCanaries


LEMMA ReportInv == DetectInv /\ Report => DetectInv'
<1> SUFFICES ASSUME DetectInv, Report PROVE DetectInv'
  OBVIOUS
<1>1. Snapshots /\ Snapshots' /\ VerdictsStand /\ CanariesSeen
  BY DEF DetectInv, Snapshots, Report, snapshot
<1> DEFINE all == findings \cup LeaseFindings \cup OfferFindings
<1>2. all \subseteq Findings /\ findings' \in Unique(all)
  BY <1>1, FindingsType, DetectType DEF DetectInv, Report
<1>3. /\ findings' \subseteq all
      /\ \A f \in all : \E g \in findings' : Fingerprint(g) = Fingerprint(f)
  BY <1>2, UniqueKeeps
<1>4. DetectTypeOK'
  BY <1>2, <1>3, DetectType DEF DetectInv, Report, snapshot, Stages, DetectTypeOK, Findings
<1>5. \A f \in all : Mitigable(f) => \E r \in Suspects : f = Verdict(r)
  BY <1>1, FindingsType DEF VerdictsStand
<1>6. ASSUME NEW r \in Suspects
      PROVE  \E q \in Suspects : Key(q) = Key(r) /\ Code(q) = Code(r) /\ Verdict(q) \in findings'
  <2>1. PICK q \in Suspects : Key(q) = Key(r) /\ Code(q) = Code(r) /\ Verdict(q) \in findings
    BY <1>1 DEF VerdictsStand
  <2>2. PICK g \in findings' : Fingerprint(g) = Fingerprint(Verdict(q))
    BY <2>1, <1>3
  <2>3. Mitigable(g)
    <3>1. q \in Route /\ Verdict(q).route = q
      BY <1>1, SuspectFacts, VerdictType
    <3>2. q # NoRoute /\ Key(q) # NoRoute
      BY <3>1, RouteFields
    <3> QED
      BY <2>2, <3>1, <3>2 DEF Fingerprint, Mitigable
  <2>4. PICK s \in Suspects : g = Verdict(s)
    BY <2>3, <1>3, <1>5
  <2>5. Key(s) = Key(q) /\ Code(s) = Code(q)
    BY <2>2, <2>4, <1>1, VerdictPrint
  <2> QED
    BY <2>1, <2>2, <2>4, <2>5
<1>7. VerdictsStand'
  <2>1. \A f \in findings' : Mitigable(f) => \E r \in Suspects : f = Verdict(r)
    BY <1>3, <1>5
  <2>2. Suspects' = Suspects /\ \A r : Verdict(r)' = Verdict(r)
    BY SnapshotSame DEF Report
  <2>3. \A r : Code(r)' = Code(r)
    BY SnapshotSame DEF Report
  <2> QED
    BY <2>1, <2>2, <2>3, <1>6 DEF VerdictsStand, Mitigable
<1>8. Candidates' = Candidates
  <2>1. ASSUME NEW f \in findings', Mitigable(f) PROVE f \in findings
    BY <2>1, <1>1, <1>3, FindingsType
  <2>2. ASSUME NEW f \in findings, Mitigable(f)
        PROVE  \E g \in findings' : Mitigable(g) /\ g.route.dest = f.route.dest
    <3>1. PICK r \in Suspects : f = Verdict(r)
      BY <2>2, <1>5
    <3>2. PICK q \in Suspects : Key(q) = Key(r) /\ Verdict(q) \in findings'
      BY <1>6
    <3>3. /\ Verdict(q).route = q /\ Verdict(r).route = r /\ Mitigable(Verdict(q))
          /\ q \in Route /\ r \in Route
      BY <1>1, VerdictType, SuspectFacts
    <3> QED
      BY <3>1, <3>2, <3>3, RouteFields
  <2>3. Flagged' = Flagged
    BY <2>1, <2>2 DEF Flagged, Mitigable
  <2> QED
    BY <2>3, CandidatesSame DEF Report
<1>9. CanariesSeen'
  <2> SUFFICES ASSUME Cardinality(Candidates) <= MaxCanaries, NEW a \in Candidates,
                      os[a] \in Iface \ Vpn
               PROVE  \E f \in findings' : f.code = "canary-leak" /\ f.listed = <<Item({a})>>
    BY <1>8 DEF CanariesSeen, Report
  <2>1. PICK f \in all : f.code = "canary-leak" /\ f.listed = <<Item({a})>>
    BY <1>1 DEF CanariesSeen
  <2>2. PICK g \in findings' : Fingerprint(g) = Fingerprint(f)
    BY <1>3
  <2> QED
    BY <2>1, <2>2 DEF Fingerprint
<1>10. LeaseAccounted'
  <2> SUFFICES ASSUME NEW lease \in leases, NEW i \in DOMAIN lease.routes
               PROVE  \/ \E f \in findings' :
                           Mitigable(f) /\ f.severity >= Low /\ f.route.dest = lease.routes[i].dest
                      \/ \E f \in findings' :
                           /\ f.code = "dhcp-option-121-present" /\ f.iface = lease.iface
                           /\ \/ \E k \in DOMAIN f.listed : f.listed[k] = lease.routes[i]
                              \/ i > MaxListed /\ "..." \in f.notes
    BY DEF LeaseAccounted, Report, snapshot, Mitigable
  <2>0. lease.routes \in Seq(PushedRoute) /\ i \in 1 .. Len(lease.routes)
    BY <1>1, SnapshotAssumption DEF Snapshots
  <2>1. CASE lease.routes[i].dest \in Reported
    <3>1. PICK r \in Suspects : r.dest = lease.routes[i].dest /\ r.dest \in Leased
      BY <2>1 DEF Reported
    <3>2. PICK q \in Suspects : Key(q) = Key(r) /\ Code(q) = Code(r) /\ Verdict(q) \in findings'
      BY <1>6
    <3>3. /\ r \in Route /\ q \in Route /\ Mitigable(Verdict(q)) /\ Verdict(q).route = q
      BY <1>1, VerdictType, SuspectFacts
    <3>4. q.dest = r.dest
      BY <3>2, <3>3, RouteFields
    <3>5. Verdict(q).severity \in {Low, Critical}
      BY <3>1, <3>4 DEF Verdict, Rating, Pushed
    <3> QED
      BY <3>1, <3>2, <3>3, <3>4, <3>5 DEF Low, Critical
  <2>2. CASE lease.routes[i].dest \notin Reported
    <3>1. PICK extra \in Seq(PushedRoute) : extra = Extra(lease)
      BY <2>0, ListingType DEF Extra
    <3>2. PICK k \in 1 .. Len(extra) : k <= i /\ extra[k] = lease.routes[i]
      <4> DEFINE unsaid == {route \in PushedRoute : route.dest \notin Reported}
      <4>1. Extra(lease) = Among(lease.routes, unsaid)
        BY DEF Extra
      <4>2. lease.routes[i] \in unsaid
        BY <2>0, <2>2
      <4> HIDE DEF unsaid
      <4> QED
        BY <2>0, <3>1, <4>1, <4>2, AmongPlaces
    <3>3. extra # <<>>
      BY <3>2
    <3> DEFINE f == Finding(LeaseRating(lease), "dhcp-option-121-present", lease.iface, NoRoute,
                            Listed(Extra(lease), MaxListed), LeaseNotes(lease))
    <3>4. f \in all
      BY <3>1, <3>3 DEF LeaseFindings
    <3>5. /\ f.code = "dhcp-option-121-present" /\ f.iface = lease.iface
          /\ f.listed = Listed(extra, MaxListed) /\ f.notes = LeaseNotes(lease)
      BY <3>1 DEF Finding
    <3> HIDE DEF f
    <3>6. PICK g \in findings' : Fingerprint(g) = Fingerprint(f)
      BY <3>4, <1>3
    <3>7. /\ g.code = "dhcp-option-121-present" /\ g.iface = lease.iface
          /\ g.listed = Listed(extra, MaxListed) /\ g.notes = LeaseNotes(lease)
      BY <3>5, <3>6 DEF Fingerprint
    <3>8. MaxListed \in Nat /\ Len(extra) \in Nat /\ i \in Nat
      BY <2>0, HostAssumption
    <3>9. CASE k <= MaxListed
      <4>1. PICK list \in Seq(PushedRoute) : list = Listed(extra, MaxListed)
        BY <3>8, ListedPlaces
      <4>2. /\ Len(list) = IF Len(extra) > MaxListed THEN MaxListed ELSE Len(extra)
            /\ \A n \in 1 .. Len(list) : list[n] = extra[n]
        BY <4>1, <3>8, ListedPlaces
      <4>3. k \in DOMAIN list /\ list[k] = lease.routes[i]
        BY <4>2, <3>2, <3>8, <3>9
      <4> QED
        BY <4>1, <4>3, <3>7
    <3>10. CASE k > MaxListed
      <4>1. i > MaxListed /\ Len(extra) > MaxListed
        BY <3>2, <3>8, <3>10
      <4>2. "..." \in LeaseNotes(lease)
        BY <4>1, <3>1 DEF LeaseNotes
      <4> QED
        BY <4>1, <4>2, <3>7
    <3> QED
      BY <3>2, <3>8, <3>9, <3>10
  <2> QED
    BY <2>1, <2>2
<1> QED
  BY <1>1, <1>4, <1>7, <1>9, <1>10 DEF DetectInv, Snapshots, Report

LEMMA RerouteInv == DetectInv /\ Reroute => DetectInv'
<1> SUFFICES ASSUME DetectInv, Reroute PROVE DetectInv'
  OBVIOUS
<1>1. Snapshots /\ Snapshots' /\ routes \subseteq Route
  BY DEF DetectInv, DetectTypeOK, Snapshots, Reroute, snapshot
<1>2. os' \in Devices
  BY <1>1, DecisionsType DEF Reroute
<1>3. DetectTypeOK'
  BY <1>2, DetectType DEF DetectInv, Reroute, snapshot, DetectTypeOK, Devices
<1>4. RouteFindings' = RouteFindings /\ VpnActive' = VpnActive
  BY DEF Reroute, snapshot, VpnActive, VpnRoutes, Relevant, Suspects, Examined, PhysRoutes, Covered,
         Trusted, Local, Spared, Pushed, Leased, RouteFindings, Rating, Code, Oversized, IsHost
<1>5. VerdictsStand' <=> VerdictsStand
  BY SnapshotSame DEF VerdictsStand, Reroute, Mitigable
<1> QED
  BY <1>1, <1>3, <1>4, <1>5 DEF DetectInv, Snapshots, LeaseAccounted, Reroute

(* The findings are, at every stage, what DetectInv says.                  *)
THEOREM DetectInvHolds == Spec => []DetectInv
<1>1. DetectInv /\ [Next]_vars => DetectInv'
  <2> SUFFICES ASSUME DetectInv, [Next]_vars PROVE DetectInv'
    OBVIOUS
  <2>1. CASE Scan
    BY <2>1, ScanInv
  <2>2. CASE Confirm
    BY <2>2, ConfirmInv
  <2>3. CASE ProbeCanaries
    BY <2>3, ProbeInv
  <2>4. CASE Report
    BY <2>4, ReportInv
  <2>5. CASE Reroute
    BY <2>5, RerouteInv
  <2>6. CASE UNCHANGED vars
    <3>1. UNCHANGED snapshot /\ UNCHANGED <<os, asked, stage, findings>>
      BY <2>6 DEF vars
    <3>2. RouteFindings' = RouteFindings /\ VpnActive' = VpnActive
      BY <3>1 DEF snapshot, VpnActive, VpnRoutes, Relevant, Suspects, Examined, PhysRoutes, Covered,
             Trusted, Local, Spared, Pushed, Leased, RouteFindings, Rating, Code, Oversized, IsHost
    <3>3. VerdictsStand' <=> VerdictsStand
      BY <3>1, SnapshotSame DEF VerdictsStand, Mitigable
    <3>4. CanariesSeen' <=> CanariesSeen
      BY <3>1, CandidatesSame DEF CanariesSeen, Flagged, Mitigable
    <3> QED
      BY <3>1, <3>2, <3>3, <3>4 DEF DetectInv, DetectTypeOK, LeaseAccounted, snapshot, Mitigable
  <2> QED
    BY <2>1, <2>2, <2>3, <2>4, <2>5, <2>6 DEF Next
<1> QED
  BY <1>1, InitInv, PTL DEF Spec

----------------------------------------------------------------------------
(* What is reported with MEDIUM or more.                                   *)

(* Only suspects are, and those in effect only once the system was asked.  *)
LEMMA CondemnedFacts ==
    ASSUME DetectInv, NEW r \in routes, Condemned(r)
    PROVE  /\ r \in Suspects /\ Rating(r) >= Medium
           /\ stage # "confirm" => asked[Probe[r.dest]] \notin Vpn
<1>1. Snapshots /\ r \in Route
  BY TableRoutes DEF DetectInv, Snapshots
<1>2. PICK f \in findings : f.route = r /\ f.severity >= Medium
  BY DEF Condemned
<1>3. Mitigable(f)
  BY <1>1, <1>2, RouteFields DEF Mitigable
<1>4. CASE stage = "confirm"
  <2>1. PICK q \in Suspects : f = Finding(Rating(q), Code(q), q.iface, q, <<>>, {})
    BY <1>3, <1>4 DEF DetectInv, RouteFindings, Finding, Mitigable
  <2> QED
    BY <2>1, <1>2, <1>4 DEF Finding
<1>5. CASE stage \in {"canaries", "report", "done"}
  <2>1. PICK q \in Suspects : f = Verdict(q)
    BY <1>3, <1>5 DEF DetectInv, VerdictsStand
  <2>2. q = r
    BY <2>1, <1>2 DEF Verdict
  <2>3. f.severity = IF asked[Probe[r.dest]] \notin Vpn THEN Rating(r)
                     ELSE IF Pushed(r) THEN Low ELSE Info
    BY <2>1, <2>2 DEF Verdict
  <2> QED
    BY <2>1, <2>2, <2>3, <1>2 DEF Low, Info, Medium
<1>6. CASE stage = "scan"
  BY <1>2, <1>6 DEF DetectInv
<1> QED
  BY <1>4, <1>5, <1>6 DEF DetectInv, DetectTypeOK

(* Of the suspects that share key and code, one is reported as severely    *)
(* as each deserves.                                                       *)
LEMMA SuspectCondemned ==
    ASSUME DetectInv, stage = "done", NEW r \in Suspects, Rating(r) >= Medium,
           asked[Probe[r.dest]] \notin Vpn
    PROVE  \E q \in Suspects :
                Key(q) = Key(r) /\ Code(q) = Code(r) /\ q.dest = r.dest /\ Condemned(q)
<1>1. PICK q \in Suspects : Key(q) = Key(r) /\ Code(q) = Code(r) /\ Verdict(q) \in findings
  BY DEF DetectInv, VerdictsStand
<1>2. q.dest = r.dest /\ Rating(q) = Rating(r)
  BY <1>1, JudgedAlike DEF DetectInv, Snapshots
<1>3. Verdict(q).route = q /\ Verdict(q).severity >= Medium
  BY <1>2 DEF Verdict
<1> QED
  BY <1>1, <1>2, <1>3 DEF Condemned

(* A route reported with MEDIUM or more is one that mitigation may delete. *)
THEOREM MitigationSparesOthers == Spec => []MitigationSpares
<1>1. ASSUME DetectInv, NEW r \in routes, Condemned(r)
      PROVE  /\ r.iface \notin Vpn /\ ~OnTrusted(r)
             /\ \A a \in r.dest \cap Endpoints : ~KnownHost(a, r)
             /\ \A net \in Connected[r.iface] : r.dest \subseteq net => r.gateway # OnLink
  <2>1. r \in Suspects /\ Snapshots
    BY <1>1, CondemnedFacts DEF DetectInv, Snapshots
  <2>2. r.iface \notin Vpn /\ ~OnTrusted(r)
    BY <2>1, SuspectFacts DEF OnTrusted, Trusted
  <2>3. ASSUME NEW a \in r.dest \cap Endpoints, KnownHost(a, r) PROVE FALSE
    BY <2>1, <2>3, SuspectFacts DEF KnownHost, FromDhcp, Spared, Pushed, Leased
  <2>4. \A net \in Connected[r.iface] : r.dest \subseteq net => r.gateway # OnLink
    BY <2>1, SuspectFacts DEF Local
  <2> QED
    BY <2>2, <2>3, <2>4
<1>2. DetectInv => MitigationSpares
  BY <1>1 DEF MitigationSpares
<1> QED
  BY <1>2, DetectInvHolds, PTL

(* An alarm about a route was confirmed by the system, as far as it        *)
(* answered.                                                               *)
THEOREM AlarmsConfirmed == Spec => []NoFalseAlarm
<1>1. ASSUME DetectInv, stage \in {"canaries", "report", "done"},
             NEW f \in findings, Mitigable(f), f.severity >= Medium
      PROVE  asked[Asked(f)] \notin Vpn
  <2>1. PICK r \in Suspects : f = Verdict(r)
    BY <1>1 DEF DetectInv, VerdictsStand
  <2>2. Asked(f) = Probe[r.dest]
    <3>1. r \in Route
      BY SuspectFacts, <1>1 DEF DetectInv, Snapshots
    <3> QED
      BY <3>1, <2>1, <1>1, RouteFields DEF Asked, Verdict
  <2> QED
    BY <2>1, <2>2, <1>1 DEF Verdict, Low, Info, Medium
<1>2. DetectInv => NoFalseAlarm
  BY <1>1 DEF NoFalseAlarm
<1> QED
  BY <1>2, DetectInvHolds, PTL

(* No route pushed by a lease goes unmentioned, by name or as one of more. *)
THEOREM LeasesAccounted == Spec => []LeaseAccounted
<1>1. DetectInv => LeaseAccounted
  BY DEF DetectInv
<1> QED
  BY <1>1, DetectInvHolds, PTL

(* A canary that leaves past the VPN is reported or explained.             *)
THEOREM DefaultLeaksSeen == Spec => []DefaultLeakSeen
<1>1. ASSUME DetectInv, Steady, Cardinality(Candidates) <= MaxCanaries,
             NEW a \in Canaries \ Endpoints, Leaks(a, routes), ~Excluded(a)
      PROVE  \E f \in findings : f.code = "canary-leak" /\ f.listed = <<Item({a})>>
  <2>1. a \in Candidates
    BY <1>1 DEF Leaks, Candidates, Samples
  <2>2. os[a] \in Iface \ Vpn
    <3>1. os = LongestPrefix(routes, Favoured) /\ a \in Address
      BY <1>1, HostAssumption DEF Steady, Favoured
    <3> QED
      BY <3>1, <1>1 DEF Leaks, LongestPrefix
  <2> QED
    BY <2>1, <2>2, <1>1 DEF DetectInv, CanariesSeen, Steady
<1>2. DetectInv => DefaultLeakSeen
  BY <1>1 DEF DefaultLeakSeen, Excluded, Flagged
<1> QED
  BY <1>2, DetectInvHolds, PTL

----------------------------------------------------------------------------
(* The routing the detector is about.  A route that wins an address has    *)
(* the smallest network around it, so the interfaces that could win are    *)
(* those of the routes to that network.                                    *)

Ways(table, a) == {r.iface : r \in Best(table, a)}

LEMMA WinnerWay ==
    ASSUME NEW table \in SUBSET Route, NEW a, NEW favoured,
           Winner(table, a, favoured) \in Iface
    PROVE  /\ Winner(table, a, favoured) \in Ways(table, a)
           /\ Ways(table, a) \cap favoured # {} => Winner(table, a, favoured) \in favoured
<1>1. CASE Ways(table, a) = {}
  BY <1>1, HostAssumption DEF Winner, Ways
<1>2. CASE Ways(table, a) \cap favoured # {}
  <2>1. (CHOOSE i \in Ways(table, a) \cap favoured : TRUE) \in Ways(table, a) \cap favoured
    BY <1>2
  <2> QED
    BY <2>1, <1>2 DEF Winner, Ways
<1>3. CASE Ways(table, a) # {} /\ Ways(table, a) \cap favoured = {}
  <2>1. (CHOOSE i \in Ways(table, a) : TRUE) \in Ways(table, a)
    BY <1>3
  <2> QED
    BY <2>1, <1>3 DEF Winner, Ways
<1> QED
  BY <1>1, <1>2, <1>3

(* Two addresses whose best routes lead to one network have the same best  *)
(* routes.                                                                 *)
LEMMA SameBest ==
    ASSUME NEW table \in SUBSET Route, NEW a, NEW b,
           NEW r \in Best(table, a), NEW u \in Best(table, b), r.dest = u.dest
    PROVE  Best(table, a) = Best(table, b)
BY DEF Best

(* A physical route that wins an address the VPN covers is a suspect worth *)
(* MEDIUM or more, unless there is an excuse for it.                       *)
LEMMA WinnerSuspect ==
    ASSUME DetectInv, NEW table \in SUBSET routes, VpnRoutes \subseteq table,
           NEW a \in Address, Covered({a}), ~Excused(a, table),
           NEW r \in Best(table, a), r.iface \notin Vpn
    PROVE  r \in Suspects /\ Rating(r) >= Medium /\ a \in r.dest /\ r \in PhysRoutes
<1>1. Snapshots /\ r \in routes /\ r \in Route /\ ~r.scoped /\ a \in r.dest
  BY TableRoutes DEF DetectInv, Snapshots, Best
<1>2. ~OnLan(a, r) /\ ~OnTrusted(r) /\ ~KnownHost(a, r) /\ ~IsDefault(r)
  BY DEF Excused
<1>3. Covered(r.dest)
  <2>1. PICK v \in VpnRoutes : a \in v.dest
    BY DEF Covered
  <2>2. r.dest \subseteq v.dest
    BY <2>1 DEF Best, VpnRoutes, Relevant
  <2> QED
    BY <2>1, <2>2 DEF Covered
<1>4. r \in Examined
  BY <1>1, <1>2, <1>3 DEF Examined, PhysRoutes, Relevant, OnTrusted, Trusted
<1>5. ~Local(r)
  <2>1. r.iface \in Iface
    BY <1>1, RouteFields
  <2> QED
    BY <1>1, <1>2, <2>1 DEF Local, OnLan
<1>6. FromDhcp(r) <=> Pushed(r)
  BY DEF FromDhcp, Pushed, Leased
<1>7. ASSUME IsHost(r) PROVE r.dest = {a}
  BY <1>1, <1>7 DEF IsHost
<1>8. ~Spared(r)
  BY <1>1, <1>2, <1>6 DEF Spared, KnownHost
<1>9. Rating(r) >= Medium
  BY <1>2, <1>6, <1>7 DEF Rating, KnownHost, Critical, High, Medium, Low
<1> QED
  BY <1>1, <1>4, <1>5, <1>8, <1>9 DEF Suspects, Examined

(* When the system sends the probe address of a suspect into the tunnel, a *)
(* VPN route to the same network is among its best routes.                 *)
LEMMA ProbeWins ==
    ASSUME DetectInv, Steady, Representative, NEW r \in Suspects,
           asked[Probe[r.dest]] \in Vpn
    PROVE  \E u \in VpnRoutes : /\ u.dest = r.dest /\ u \in Best(routes, Probe[r.dest])
                                /\ r \in Best(routes, Probe[r.dest])
<1> DEFINE p == Probe[r.dest]
<1>1. Snapshots /\ routes \in SUBSET Route
  BY TableRoutes DEF DetectInv, Snapshots
<1>2. r \in routes /\ r \in Route /\ ~r.scoped /\ r.iface \notin Vpn /\ ~IsDefault(r)
  BY <1>1, SuspectFacts
<1>3. p \in r.dest /\ p \in Address
  BY <1>2, ProbeInside
<1> HIDE DEF p
<1>4. Winner(routes, p, Favoured) \in Vpn
  <2>1. asked = LongestPrefix(routes, Favoured)
    BY DEF Steady, Favoured
  <2> QED
    BY <2>1, <1>3 DEF LongestPrefix, p
<1>5. PICK u \in Best(routes, p) : u.iface \in Vpn
  BY <1>1, <1>4, WinnerWay, HostAssumption DEF Ways
<1>6. u \in VpnRoutes /\ u.dest \subseteq r.dest
  BY <1>2, <1>3, <1>5 DEF Best, VpnRoutes, Relevant
<1>7. u.dest = r.dest
  BY <1>2, <1>6 DEF Representative, PhysRoutes, Relevant
<1>8. r \in Best(routes, p)
  BY <1>2, <1>3, <1>5, <1>7 DEF Best
<1> QED
  BY <1>5, <1>6, <1>7, <1>8 DEF p

(* A leak is inside a route that is reported with MEDIUM or more.          *)
THEOREM LeaksReported == Spec => []LeakReported
<1>1. ASSUME DetectInv, Steady, Representative, NEW a \in Address,
             Leaks(a, routes), ~Excused(a, routes)
      PROVE  \E r \in PhysRoutes : a \in r.dest /\ Condemned(r)
  <2>1. Snapshots /\ routes \in SUBSET Route /\ VpnRoutes \subseteq routes /\ stage = "done"
    BY <1>1, TableRoutes DEF DetectInv, Snapshots, VpnRoutes, Relevant, Steady
  <2>2. PICK r \in Best(routes, a) : r.iface = Winner(routes, a, Favoured) /\ r.iface \notin Vpn
    BY <2>1, <1>1, WinnerWay DEF Leaks, Ways
  <2>3. r \in Suspects /\ Rating(r) >= Medium /\ a \in r.dest /\ r \in PhysRoutes
    BY <2>1, <2>2, <1>1, WinnerSuspect DEF Leaks
  <2>4. asked[Probe[r.dest]] \notin Vpn
    <3> SUFFICES ASSUME asked[Probe[r.dest]] \in Vpn PROVE FALSE
      OBVIOUS
    <3>1. r \in Best(routes, Probe[r.dest])
      BY <1>1, <2>3, ProbeWins
    <3>2. Best(routes, Probe[r.dest]) = Best(routes, a)
      BY <2>1, <2>2, <3>1, SameBest
    <3>3. Winner(routes, Probe[r.dest], Favoured) = Winner(routes, a, Favoured)
      BY <3>2 DEF Winner
    <3>4. asked[Probe[r.dest]] = Winner(routes, Probe[r.dest], Favoured)
      <4>1. asked = LongestPrefix(routes, Favoured)
        BY <1>1 DEF Steady, Favoured
      <4>2. Probe[r.dest] \in Address
        BY <2>1, <2>3, SuspectFacts, ProbeInside
      <4> QED
        BY <4>1, <4>2 DEF LongestPrefix
    <3> QED
      BY <2>2, <3>3, <3>4
  <2>5. PICK q \in Suspects : q.dest = r.dest /\ Condemned(q)
    BY <1>1, <2>1, <2>3, <2>4, SuspectCondemned
  <2>6. q \in PhysRoutes
    BY DEF Suspects, Examined
  <2> QED
    BY <2>3, <2>5, <2>6
<1>2. DetectInv => LeakReported
  BY <1>1 DEF LeakReported
<1> QED
  BY <1>2, DetectInvHolds, PTL

(* Deleting what is reported gives the VPN its traffic back, but for what  *)
(* the twin of a deleted route takes.                                      *)
THEOREM MitigationGivesBack == Spec => []MitigationRestores
<1>1. ASSUME DetectInv, Steady, Representative, NEW a \in Address,
             Leaks(a, Remaining), ~Excused(a, Remaining),
             \A r \in Best(Remaining, a) : ~TwinGone(r)
      PROVE  FALSE
  <2>1. Snapshots /\ routes \in SUBSET Route /\ stage = "done" /\ Remaining \in SUBSET routes
    BY <1>1, TableRoutes DEF DetectInv, Snapshots, Steady, Remaining
  <2>2. VpnRoutes \subseteq Remaining
    BY <1>1, <2>1, CondemnedFacts, SuspectFacts DEF VpnRoutes, Relevant, Remaining
  <2>3. PICK r \in Best(Remaining, a) : r.iface = Winner(Remaining, a, Favoured) /\ r.iface \in Iface \ Vpn
    BY <2>1, <1>1, WinnerWay DEF Leaks, Ways
  <2>4. r \in Suspects /\ Rating(r) >= Medium /\ a \in r.dest /\ r \in Remaining
    BY <2>1, <2>2, <2>3, <1>1, WinnerSuspect DEF Leaks, Best
  <2>5. asked[Probe[r.dest]] \in Vpn
    <3> SUFFICES ASSUME asked[Probe[r.dest]] \notin Vpn PROVE FALSE
      OBVIOUS
    <3>1. PICK q \in Suspects : Key(q) = Key(r) /\ Code(q) = Code(r) /\ Condemned(q)
      BY <1>1, <2>1, <2>4, SuspectCondemned
    <3>2. q \in routes \ Remaining
      BY <2>1, <3>1, SuspectFacts DEF Remaining
    <3> QED
      BY <1>1, <2>3, <3>1, <3>2 DEF TwinGone
  <2>6. PICK u \in VpnRoutes : /\ u.dest = r.dest /\ u \in Best(routes, Probe[r.dest])
                               /\ r \in Best(routes, Probe[r.dest])
    BY <1>1, <2>4, <2>5, ProbeWins
  <2>7. u \in Best(Remaining, a) /\ u.iface \in Vpn
    BY <2>2, <2>3, <2>6 DEF Best, VpnRoutes, Relevant
  <2>8. Favoured # Vpn
    BY <2>1, <2>3, <2>7, WinnerWay DEF Ways
  <2>9. Favoured = Iface \ Vpn
    BY <2>8 DEF Favoured
  <2>10. asked[Probe[r.dest]] = Winner(routes, Probe[r.dest], Favoured)
    <3>1. asked = LongestPrefix(routes, Favoured)
      BY <1>1 DEF Steady, Favoured
    <3>2. Probe[r.dest] \in Address
      BY <2>1, <2>4, SuspectFacts, ProbeInside
    <3> QED
      BY <3>1, <3>2 DEF LongestPrefix
  <2>11. r.iface \in Ways(routes, Probe[r.dest]) \cap Favoured
    BY <2>3, <2>6, <2>9 DEF Ways
  <2>12. asked[Probe[r.dest]] \in Favoured
    BY <2>1, <2>5, <2>10, <2>11, WinnerWay, HostAssumption
  <2> QED
    BY <2>5, <2>9, <2>12
<1>2. DetectInv => MitigationRestores
  BY <1>1 DEF MitigationRestores
<1> QED
  BY <1>2, DetectInvHolds, PTL

=============================================================================
