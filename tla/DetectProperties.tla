-------------------------- MODULE DetectProperties --------------------------
(* What the detector promises about the routing it was shown.              *)
EXTENDS Detect

Codes ==
    {"dhcp-route-overrides-vpn", "route-overrides-vpn", "oversized-local-subnet", "canary-leak",
     "dhcp-option-121-present", "untrusted-dhcp-server", "rogue-dhcp-offer", "multiple-dhcp-servers"}

Text == [dest : SUBSET Address, via : Router \cup {OnLink}]

DetectTypeOK ==
    /\ stage \in {"scan", "confirm", "canaries", "report", "done"}
    /\ os \in [Address -> Iface \cup {NoDev}] /\ asked \in [Address -> Iface \cup {NoDev}]
    /\ routes \subseteq Route
    /\ findings \subseteq [severity : {Info, Low, Medium, High, Critical}, code : Codes,
                           iface : Iface, route : Route \cup {NoRoute},
                           listed : Seq(Text), notes : SUBSET {"...", "overlaps"}]

(* The routing did not change while it was examined, and is decided by     *)
(* prefixes and metrics.                                                   *)
Steady ==
    /\ stage = "done" /\ os = asked
    /\ os \in {LongestPrefix(routes, Vpn), LongestPrefix(routes, Iface \ Vpn)}

Favoured == IF os = LongestPrefix(routes, Vpn) THEN Vpn ELSE Iface \ Vpn

(* An address that the VPN should carry and a routing table sends          *)
(* elsewhere, given a preference among equal prefixes.                     *)
Leaks(a, table) ==
    Covered({a}) /\ Winner(table, a, Favoured) \in Iface \ Vpn

(* Reasons for it that are no route's fault: the address is on the LAN,    *)
(* trusted, the VPN's server, or had its route before the VPN came; or two *)
(* default routes compete.                                                 *)
OnLan(a, r) ==
    /\ r.gateway = OnLink
    /\ \/ \E net \in Connected[r.iface] : a \in net
       \/ Connected[r.iface] = {} /\ r.proto = "kernel"

FromDhcp(r) == r.proto = "dhcp" \/ \E lease \in leases : r.dest \in Dests(lease.routes)

KnownHost(a, r) ==
    /\ r.dest = {a} /\ ~FromDhcp(r)
    /\ a \in Endpoints \/ (baseline.known /\ Key(r) \in baseline.keys)

OnTrusted(r) == \E t \in TrustedRoutes : r.dest \subseteq t

Excused(a, table) ==
    \E r \in Best(table, a) :
        /\ r.iface \notin Vpn
        /\ OnLan(a, r) \/ OnTrusted(r) \/ KnownHost(a, r) \/ IsDefault(r)

(* The VPN has no route of its own inside a suspect one, so that one       *)
(* address of it stands for all.                                           *)
Representative ==
    \A r \in PhysRoutes, v \in VpnRoutes : v.dest \subseteq r.dest => v.dest = r.dest \/ IsDefault(r)

Condemned(r) == \E f \in findings : f.route = r /\ f.severity >= Medium

(* Every address that a route takes from the VPN is inside a route that is *)
(* reported with MEDIUM or more (detect.py, analyze).                      *)
LeakReported ==
    Steady /\ Representative =>
        \A a \in Address :
            Leaks(a, routes) /\ ~Excused(a, routes) =>
                \E r \in PhysRoutes : a \in r.dest /\ Condemned(r)

(* Once the routes named by findings of MEDIUM or more are deleted, the    *)
(* VPN carries what it should: "traffic falls back to VPN route"           *)
(* (actions.py:46).  It does not where one of two routes with one key is   *)
(* left, one of another metric (model.py:62-63, detect.py:208-213,         *)
(* linux.py:302-303): that one is for a later round.                       *)
Remaining == {r \in routes : ~Condemned(r)}

TwinGone(r) == \E q \in routes \ Remaining : Key(q) = Key(r) /\ Code(q) = Code(r)

MitigationRestores ==
    Steady /\ Representative =>
        \A a \in Address : Leaks(a, Remaining) =>
            Excused(a, Remaining) \/ \E r \in Best(Remaining, a) : TwinGone(r)

(* Deleting them leaves alone the VPN's own routes, the routes to its      *)
(* servers, trusted routes and the LAN, whatever the system answered.      *)
MitigationSpares ==
    \A r \in routes :
        Condemned(r) =>
            /\ r.iface \notin Vpn /\ ~OnTrusted(r)
            /\ \A a \in r.dest \cap Endpoints : ~KnownHost(a, r)
            /\ \A net \in Connected[r.iface] : r.dest \subseteq net => r.gateway # OnLink

(* A route is reported with MEDIUM or more only if the system, when asked, *)
(* did not send its probe address into the tunnel (detect.py:125-128).     *)
NoFalseAlarm ==
    stage \in {"canaries", "report", "done"} =>
        \A f \in findings : Mitigable(f) /\ f.severity >= Medium => asked[Asked(f)] \notin Vpn

(* A physical default route that wins against the VPN's is seen through    *)
(* every canary address that is not a VPN server, on the LAN, trusted or   *)
(* inside a reported route, unless there are more of them than are looked  *)
(* up (detect.py:132-161).                                                 *)
DefaultLeakSeen ==
    Steady /\ Cardinality(Candidates) <= MaxCanaries =>
        \A a \in Canaries \ Endpoints :
            Leaks(a, routes) =>
                \/ \E f \in findings : f.code = "canary-leak" /\ f.listed = <<Item({a})>>
                \/ \E f \in findings : Mitigable(f) /\ a \in f.route.dest
                \/ \E r \in PhysRoutes : r.dest = {a}
                \/ \E i \in Iface \ Vpn : \E net \in Connected[i] : a \in net
                \/ \E t \in TrustedRoutes : a \in t

(* What a DHCP server pushes by option 121 is accounted for: by a finding  *)
(* about the route it became, or by one about the lease, which names it,   *)
(* unless it comes after the first MaxListed: then that one says that      *)
(* there are more (detect.py:165-170).                                     *)
LeaseAccounted ==
    stage = "done" =>
        \A lease \in leases : \A i \in DOMAIN lease.routes :
            \/ \E f \in findings :
                Mitigable(f) /\ f.severity >= Low /\ f.route.dest = lease.routes[i].dest
            \/ \E f \in findings :
                /\ f.code = "dhcp-option-121-present" /\ f.iface = lease.iface
                /\ \/ \E k \in DOMAIN f.listed : f.listed[k] = lease.routes[i]
                   \/ i > MaxListed /\ "..." \in f.notes

----------------------------------------------------------------------------
(* The inductive invariant: once the system has been asked, the findings   *)
(* that name a route are verdicts on suspects, and of suspects with one    *)
(* key and code one has its verdict, until the end; canary and lease       *)
(* findings join them.                                                     *)

Verdict(r) ==
    [severity |-> IF asked[Probe[r.dest]] \notin Vpn THEN Rating(r)
                  ELSE IF Pushed(r) THEN Low ELSE Info,
     code |-> Code(r), iface |-> r.iface, route |-> r, listed |-> <<>>, notes |-> {}]

VerdictsStand ==
    /\ \A f \in findings : Mitigable(f) => \E r \in Suspects : f = Verdict(r)
    /\ \A r \in Suspects : \E q \in Suspects :
        Key(q) = Key(r) /\ Code(q) = Code(r) /\ Verdict(q) \in findings

CanariesSeen ==
    Cardinality(Candidates) <= MaxCanaries =>
        \A a \in Candidates : os[a] \in Iface \ Vpn =>
            \E f \in findings : f.code = "canary-leak" /\ f.listed = <<Item({a})>>

(* What the findings are at each stage of analyze.                         *)
DetectInv ==
    /\ DetectTypeOK
    /\ routes \in Tables /\ leases \in Leases /\ offers \in Offers
    /\ stage = "scan" => findings = {}
    /\ stage = "confirm" => VpnActive /\ findings = RouteFindings
    /\ stage \in {"canaries", "report", "done"} => VerdictsStand
    /\ stage \in {"report", "done"} => CanariesSeen
    /\ LeaseAccounted

=============================================================================
