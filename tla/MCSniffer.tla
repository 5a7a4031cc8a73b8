----------------------------- MODULE MCSniffer -----------------------------
(* What is expected of sniffing and of lease files, and an instance.       *)
EXTENDS Sniffer

SnifferTypeOK ==
    /\ backend \in {"af_packet", "scapy", "disabled"}
    /\ Len(observations) <= MaxLen /\ Len(heard) <= MaxHeard
    /\ \A o \in ToSet(observations) : o.iface \in Iface /\ o.age \in 0 .. Window

(* The answers that no MaxLen later ones have pushed out.                  *)
Kept == {heard[n] : n \in {m \in DOMAIN heard : m > Len(heard) - MaxLen}}

Canonical(routes) == [n \in DOMAIN routes |-> RouteVia(Network(routes[n].dest.octets, routes[n].dest.width), routes[n].gw)]

Hostile(h) ==
    /\ h.age < Window /\ h.answer.server \notin Trusted
    /\ \E r \in ToSet(h.answer.routes) : Bypasses(r)

(* A hostile answer that passed by whole in the last ten minutes is        *)
(* reported whenever the VPN is up, in whatever shape the options came,    *)
(* unless 500 others came after it: some report for its interface names    *)
(* the first of its routes that bypass the VPN.  It names one of the       *)
(* servers that offered them (sniff.py, detect.py).                        *)
OfferReported ==
    \A h \in Kept : Hostile(h) /\ h.whole =>
        \E report \in RogueOffers :
            /\ report.iface = h.iface
            /\ ToSet(Named(Canonical(h.answer.routes))) \subseteq ToSet(report.listed)

(* What is reported was sent: a report names the interface, the server and *)
(* only routes of one hostile answer of the last ten minutes.              *)
OfferReal ==
    \A report \in RogueOffers : \E h \in ToSet(heard) :
        /\ Hostile(h) /\ h.iface = report.iface /\ h.answer.server = report.server
        /\ ToSet(report.listed) \subseteq ToSet(Canonical(h.answer.routes))

(* Servers that answered on the same network within ten minutes are        *)
(* reported as competing, and servers of different networks are not.       *)
CompetitorsSeen ==
    \A iface \in Iface :
        LET servers(H) == {h.answer.server : h \in {g \in H : g.iface = iface /\ g.age < Window}} \ {NoServer}
        IN  /\ Cardinality(servers({h \in Kept : h.whole})) > 1 => iface \in Crowded
            /\ iface \in Crowded => Cardinality(servers(ToSet(heard))) > 1

(* The routes read from a lease file are those the server sent, in each of *)
(* the forms in which clients write them (dhcp.py, parse_route_text), save *)
(* dumps that nothing tells from decimal ones.                             *)
LeaseRead ==
    \A h \in Kept, form \in Forms :
        Telling(form, h.answer.routes) => LeaseRoutes(form, h.answer) = Canonical(h.answer.routes)

(* Encoding is undone by decoding, and yields what the standard says       *)
(* (dhcp.py, "Inverse of decode_rfc3442").                                 *)
EncodeInverse ==
    \A h \in Kept :
        LET routes == h.answer.routes
        IN  /\ Decode(Encode(routes)) = Routes(Canonical(routes))
            /\ Encode(routes) = Wire(Canonical(routes))

----------------------------------------------------------------------------

Home  == <<192, 168, 1, 1>>
Rogue == <<192, 168, 1, 66>>
Other == <<192, 168, 1, 99>>

LowHalf  == RouteVia(Net(<<0, 0, 0, 0>>, 1), Addr(Rogue))
HighHalf == RouteVia(Net(<<129, 2, 0, 0>>, 1), Addr(Rogue))
All      == RouteVia(Net(<<0, 0, 0, 0>>, 0), Addr(Home))
Host     == RouteVia(Net(<<10, 9, 8, 7>>, 32), Addr(Rogue))
Numeric  == RouteVia(Net(<<16, 16, 0, 0>>, 16), Addr(<<16, 16, 1, 1>>))
Site     == RouteVia(Net(<<10, 16, 0, 0>>, 12), Addr(Home))

MCAnswer ==
    {[type |-> Offer, server |-> Rogue, routes |-> <<LowHalf, HighHalf, All>>],
     [type |-> Ack, server |-> Rogue, routes |-> <<Host>>],
     [type |-> Offer, server |-> Other, routes |-> <<All, LowHalf>>],
     [type |-> Ack, server |-> Home, routes |-> <<All, Site>>],
     [type |-> Ack, server |-> NoServer, routes |-> <<Numeric>>],
     [type |-> Offer, server |-> Home, routes |-> <<>>],
     [type |-> 6, server |-> Rogue, routes |-> <<Host>>]}

Networks  == Permutations(Iface)
MCVpnNets == {Net(<<0, 0, 0, 0>>, 0)}
MCTrusted == {Home}

=============================================================================
