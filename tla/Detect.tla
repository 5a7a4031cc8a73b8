------------------------------- MODULE Detect -------------------------------
(***************************************************************************)
(* The detector (detect.py): analyze looks at a snapshot for physical      *)
(* routes that take traffic a VPN route would carry, asks the operating    *)
(* system about each, probes canary addresses, and adds what leases and    *)
(* the sniffer saw.  The operating system answers from its present state,  *)
(* which may have changed since the snapshot.                              *)
(*                                                                         *)
(* A network is the set of its addresses, of one IP version; a longer      *)
(* prefix is a smaller set, and two networks are nested or disjoint.       *)
(* Destinations that are never of interest (loopback, link-local,          *)
(* multicast) and loopback interfaces are left out of the snapshot.        *)
(*                                                                         *)
(* TrustedExactly, LocalIfOnLink, SparedByAddress, ExcludedIfRouted and    *)
(* ReportedAnyhow are variants with a plausible bug that no action uses.   *)
(***************************************************************************)
EXTENDS Integers, Sequences, FiniteSets, Lists

CONSTANTS
    Address,        \* IP addresses
    Network,        \* the networks routes lead to
    Probe,          \* a representative address of a network (util.py, probe_address)
    Middle,         \* the address in the middle of a network
    Iface,          \* interfaces
    Vpn,            \* tunnel interfaces that are up
    NoDev,          \* the answer of a lookup that failed
    Router,         \* gateways
    OnLink,         \* Route.gateway of a route without one
    NoRoute,        \* Finding.route of a finding that names none
    Connected,      \* the networks an interface has addresses in
    Oversize,       \* networks with a prefix below Config.max_local_prefix
    Endpoints,      \* addresses of VPN servers, detected or configured
    TrustedRoutes,  \* Config.trusted_routes
    TrustedServers, \* Config.trusted_dhcp_servers
    NoServer,       \* the server of a lease or an observation that names none
    Canaries,       \* Config.canary_ips
    Sampled,        \* networks of VPN routes that get a canary of their own
    MaxCanaries,    \* canary addresses looked up (24 in the code)
    MaxListed,      \* pushed routes that a text names (8 in the code)
    Tables,         \* the route tables of this instance
    Leases,         \* the sets of leases of this instance
    Offers,         \* the sets of recent sniffer observations of this instance
    Baselines       \* what the daemon knows of host routes in this instance

Info     == 10
Low      == 20
Medium   == 30
High     == 40
Critical == 50

Route == [dest : Network, iface : Iface, gateway : Router \cup {OnLink}, metric : Nat,
          proto : {"dhcp", "kernel", "static"}, scoped : BOOLEAN]

(* Routes that differ in the metric have one key.                          *)
RouteKey  == [dest : Network, gateway : Router \cup {OnLink}, iface : Iface]
Key(r)    == [dest |-> r.dest, gateway |-> r.gateway, iface |-> r.iface]
IsHost(r) == \E a \in Address : r.dest = {a}
IsDefault(r) == r.dest = Address

(* What a lease or an observation lists, and the networks in such a list.  *)
PushedRoute == [dest : Network, via : Router]
Dests(list) == {list[n].dest : n \in DOMAIN list}

(* No baseline is known until the grace period is over.                    *)
Unknown == [known |-> FALSE, keys |-> {}]

ASSUME NetworkAssumption ==
    /\ Network \subseteq SUBSET Address
    /\ \A p, q \in Network : p \subseteq q \/ q \subseteq p \/ p \cap q = {}
    /\ Probe \in [Network -> Address] /\ Middle \in [Network -> Address]
    /\ \A p \in Network : Probe[p] \in p /\ Middle[p] \in p
ASSUME HostAssumption ==
    /\ Vpn \subseteq Iface /\ NoDev \notin Iface /\ OnLink \notin Router
    /\ NoRoute \notin Route \cup RouteKey
    /\ Connected \in [Iface -> SUBSET Network]
    /\ Endpoints \subseteq Address /\ Canaries \subseteq Address
    /\ TrustedRoutes \subseteq Network /\ NoServer \notin TrustedServers
    /\ IsFiniteSet(Address) /\ MaxCanaries \in Nat /\ MaxListed \in Nat
ASSUME SnapshotAssumption ==
    /\ Tables \subseteq SUBSET Route
    /\ \A seen \in Leases \cup Offers : \A lease \in seen :
        lease.iface \in Iface /\ lease.routes \in Seq(PushedRoute)

VARIABLES
    routes,     \* Snapshot.routes
    leases,     \* Snapshot.leases
    offers,     \* DetectContext.sniffed, those within the window
    baseline,   \* DetectContext.baseline
    os,         \* the interface the operating system selects for an address now
    asked,      \* history variable: os as it was for the route findings
    stage,      \* progress of analyze
    findings    \* findings collected so far

snapshot == <<routes, leases, offers, baseline>>
vars     == <<snapshot, os, asked, stage, findings>>

----------------------------------------------------------------------------
(* Which routes of the snapshot bypass the VPN.                            *)

Relevant   == {r \in routes : ~r.scoped}
VpnRoutes  == {r \in Relevant : r.iface \in Vpn}
PhysRoutes == {r \in Relevant : r.iface \notin Vpn}
VpnActive  == VpnRoutes # {}

Covered(dest) == \E v \in VpnRoutes : dest \subseteq v.dest

TrustedExactly(dest) == dest \in TrustedRoutes

Trusted(dest) == \E t \in TrustedRoutes : dest \subseteq t

(* A default route against another is left to the canaries.                *)
Examined == {r \in PhysRoutes : ~IsDefault(r) /\ Covered(r.dest) /\ ~Trusted(r.dest)}

LocalIfOnLink(r) == r.gateway = OnLink

(* The LAN of an interface, its own address, broadcasts.                   *)
Local(r) ==
    /\ r.gateway = OnLink
    /\ \/ \E net \in Connected[r.iface] : r.dest \subseteq net
       \/ Connected[r.iface] = {} /\ r.proto = "kernel"

Oversized == {r \in Examined : Local(r) /\ r.dest \in Connected[r.iface] \cap Oversize}

Leased    == UNION {Dests(lease.routes) : lease \in leases}
Pushed(r) == r.dest \in Leased \/ r.proto = "dhcp"

SparedByAddress(r) == r.dest \cap Endpoints # {}

(* The VPN's own route to a server that is known.                          *)
Spared(r) == ~Pushed(r) /\ \E a \in Endpoints : r.dest = {a}

Suspects == {r \in Examined : ~Local(r) /\ ~Spared(r)}

Rating(r) ==
    IF Pushed(r) THEN Critical
    ELSE IF ~IsHost(r) THEN High
    ELSE IF ~baseline.known THEN Medium
    ELSE IF Key(r) \in baseline.keys THEN Low ELSE High

(* A finding names a route, or it names networks in its text, those that   *)
(* DHCP pushes with their gateways; notes is what else of the text         *)
(* differs between findings of one code.                                   *)
Finding(severity, code, iface, route, listed, notes) ==
    [severity |-> severity, code |-> code, iface |-> iface, route |-> route,
     listed |-> listed, notes |-> notes]

Item(dest) == [dest |-> dest, via |-> OnLink]

Fingerprint(f) ==
    <<f.code, f.iface, IF f.route = NoRoute THEN NoRoute ELSE Key(f.route), f.listed, f.notes>>
Mitigable(f)   == f.route # NoRoute

Code(r) == IF Pushed(r) THEN "dhcp-route-overrides-vpn" ELSE "route-overrides-vpn"

RouteFindings ==
    {Finding(Rating(r), Code(r), r.iface, r, <<>>, {}) : r \in Suspects}
    \cup {Finding(Medium, "oversized-local-subnet", r.iface, NoRoute, <<Item(r.dest)>>, {})
            : r \in Oversized}

----------------------------------------------------------------------------
(* What the operating system says about them.                              *)

Asked(f) == IF Mitigable(f) THEN Probe[f.route.dest] ELSE Middle[f.listed[1].dest]

Confirmed(f) ==
    IF os[Asked(f)] \notin Vpn THEN f
    ELSE [f EXCEPT !.severity = IF f.code = "dhcp-route-overrides-vpn" THEN Low ELSE Info]

ExcludedIfRouted(a) == \E r \in PhysRoutes : a \in r.dest

Flagged == {f.route.dest : f \in {g \in findings : Mitigable(g)}}

(* Addresses whose way around the VPN has an explanation already.          *)
Excluded(a) ==
    \/ \E net \in Flagged : a \in net
    \/ \E r \in PhysRoutes : r.dest = {a}
    \/ \E t \in TrustedRoutes : a \in t
    \/ \E i \in Iface \ Vpn : \E net \in Connected[i] : a \in net

Samples == Canaries \cup {Probe[v.dest] : v \in {w \in VpnRoutes : w.dest \in Sampled}}

Candidates == {a \in Samples \ Endpoints : Covered({a}) /\ ~Excluded(a)}

(* Configured canaries come before those of VPN routes.                    *)
Probed(addresses) ==
    /\ addresses \subseteq Candidates
    /\ \/ addresses = Candidates
       \/ Cardinality(addresses) = MaxCanaries /\ Cardinality(Candidates) > MaxCanaries
    /\ addresses \subseteq Canaries \/ Candidates \cap Canaries \subseteq addresses

CanaryFindings(addresses) ==
    {Finding(High, "canary-leak", os[a], NoRoute, <<Item({a})>>, {})
        : a \in {b \in addresses : os[b] \in Iface \ Vpn}}

----------------------------------------------------------------------------
(* Leases and the wire.                                                    *)

ReportedAnyhow == Leased

Reported == {r.dest : r \in {s \in Suspects : s.dest \in Leased}}

(* What a lease pushes that no route finding speaks of.                    *)
Extra(lease) == Among(lease.routes, {route \in PushedRoute : route.dest \notin Reported})

Overlaps(list) == \E dest \in Dests(list) : Covered(dest)

LeaseRating(lease) ==
    IF lease.server \in TrustedServers THEN Info
    ELSE IF Overlaps(Extra(lease)) THEN Medium ELSE Low

LeaseNotes(lease) ==
    {note \in {"...", "overlaps"} :
        IF note = "..." THEN Len(Extra(lease)) > MaxListed ELSE Overlaps(Extra(lease))}

LeaseFindings ==
    {Finding(LeaseRating(lease), "dhcp-option-121-present", lease.iface, NoRoute,
             Listed(Extra(lease), MaxListed), LeaseNotes(lease))
        : lease \in {l \in leases : Extra(l) # <<>>}}
    \cup {Finding(Low, "untrusted-dhcp-server", lease.iface, NoRoute, <<>>, {})
        : lease \in {l \in leases : /\ TrustedServers # {}
                                   /\ l.server \notin TrustedServers \cup {NoServer}}}

Hostile(offer) ==
    Among(offer.routes, {route \in PushedRoute : Covered(route.dest) /\ route.dest # Address})

OfferFindings ==
    {Finding(Critical, "rogue-dhcp-offer", offer.iface, NoRoute,
             Listed(Hostile(offer), MaxListed), {})
        : offer \in {o \in offers : Hostile(o) # <<>> /\ o.server \notin TrustedServers}}
    \cup {Finding(Medium, "multiple-dhcp-servers", i, NoRoute, <<>>, {})
        : i \in {o.iface : o \in {p \in offers : p.server # NoServer
                    /\ \E q \in offers : q.iface = p.iface /\ q.server \notin {NoServer, p.server}}}}

MostSevere(fs) ==
    {f \in fs : \A g \in fs : Fingerprint(g) = Fingerprint(f) => g.severity <= f.severity}

(* Of findings with one fingerprint, the most severe is kept, and of       *)
(* equally severe ones the first, in the order of the routing table.       *)
Unique(fs) ==
    LET best   == MostSevere(fs)
        tied   == {f \in best : \E g \in best \ {f} : Fingerprint(g) = Fingerprint(f)}
        one(s) == \A f \in tied : \E g \in s :
                    Fingerprint(g) = Fingerprint(f)
                        /\ \A h \in s : Fingerprint(h) = Fingerprint(f) => h = g
    IN  {(best \ tied) \cup s : s \in {some \in SUBSET tied : one(some)}}

----------------------------------------------------------------------------
(* Routing as the operating system does it: the longest prefix wins, and   *)
(* among equal ones the better metric, here a preference between tunnel    *)
(* and physical interfaces.  Policy routing can send everything into the   *)
(* tunnel, and a lookup can fail.                                          *)

Best(table, a) ==
    {r \in table : a \in r.dest /\ ~r.scoped
        /\ \A s \in table : a \in s.dest /\ ~s.scoped => r.dest \subseteq s.dest}

Winner(table, a, favoured) ==
    LET ways == {r.iface : r \in Best(table, a)}
    IN  IF ways = {} THEN NoDev
        ELSE IF ways \cap favoured # {} THEN CHOOSE i \in ways \cap favoured : TRUE
        ELSE CHOOSE i \in ways : TRUE

LongestPrefix(table, favoured) == [a \in Address |-> Winner(table, a, favoured)]

Decisions(table) ==
    {LongestPrefix(table, Vpn), LongestPrefix(table, Iface \ Vpn), [a \in Address |-> NoDev]}
        \cup {[a \in Address |-> v] : v \in Vpn}

----------------------------------------------------------------------------

Init ==
    /\ routes \in Tables
    /\ leases \in Leases
    /\ offers \in Offers
    /\ baseline \in Baselines
    /\ os \in Decisions(routes)
    /\ asked = os
    /\ stage = "scan"
    /\ findings = {}

Scan ==
    /\ stage = "scan"
    /\ findings' = IF VpnActive THEN RouteFindings ELSE {}
    /\ stage' = IF VpnActive THEN "confirm" ELSE "report"
    /\ UNCHANGED <<snapshot, os, asked>>

Confirm ==
    /\ stage = "confirm"
    /\ findings' = {Confirmed(f) : f \in findings}
    /\ asked' = os
    /\ stage' = "canaries"
    /\ UNCHANGED <<snapshot, os>>

ProbeCanaries ==
    /\ stage = "canaries"
    /\ \E addresses \in SUBSET Candidates :
        /\ Probed(addresses)
        /\ findings' = findings \cup CanaryFindings(addresses)
    /\ stage' = "report"
    /\ UNCHANGED <<snapshot, os, asked>>

Report ==
    /\ stage = "report"
    /\ findings' \in Unique(findings \cup LeaseFindings \cup OfferFindings)
    /\ stage' = "done"
    /\ UNCHANGED <<snapshot, os, asked>>

(* The routing changes while analyze runs.                                 *)
Reroute ==
    /\ stage \in {"confirm", "canaries"}
    /\ os' \in Decisions(routes)
    /\ UNCHANGED <<snapshot, asked, stage, findings>>

Next == Scan \/ Confirm \/ ProbeCanaries \/ Report \/ Reroute

Spec == Init /\ [][Next]_vars

=============================================================================
