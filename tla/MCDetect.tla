------------------------------ MODULE MCDetect ------------------------------
(* Instances of Detect: eight addresses, a tunnel and a LAN.               *)
EXTENDS DetectProperties, TLC

CONSTANTS tun, eth, wlan, gw, honest, rogueServer, MaxRoutes

Width == 3
MCAddress == 0 .. 2^Width - 1
Net(first, len) == first .. first + 2^(Width - len) - 1
MCNetwork ==
    UNION {{Net(i * 2^(Width - len), len) : i \in 0 .. 2^len - 1} : len \in 0 .. Width}
Least(net) == CHOOSE a \in net : \A b \in net : a <= b
MCProbe    == [net \in Network |-> Least(net) + (IF Cardinality(net) <= 2 THEN 0 ELSE 1)]
MCMiddle   == [net \in Network |-> Least(net) + Cardinality(net) \div 2]
MCOversize == {net \in Network : Cardinality(net) > 2}
MCSampled  == {net \in Network : Cardinality(net) \in 2 .. 4}
Via(dest, iface, gateway, proto, metric) ==
    [dest |-> dest, iface |-> iface, gateway |-> gateway, proto |-> proto,
     metric |-> metric, scoped |-> FALSE]

(* The LAN is the network 6/2; wlan has no address.                        *)
MCConnected == [i \in Iface |-> IF i = eth THEN {Net(4, 1), Net(6, 2)} ELSE {}]

Tunnel(dest, proto) == Via(dest, tun, OnLink, proto, 0)

VpnTables ==
    {{}, {Tunnel(Net(0, 0), "static")},
     {Tunnel(Net(0, 1), "static"), Tunnel(Net(4, 1), "static")},
     {Tunnel(Net(0, 0), "static"), Tunnel(Net(1, 3), "kernel")}}

Host == Via(Net(2, 3), eth, gw, "static", 0)

PhysTable ==
    {Via(Net(0, 0), eth, gw, "static", 0),          \* default route
     Via(Net(0, 1), eth, gw, "static", 0),          \* pushed, if a lease says so
     Via(Net(0, 1), eth, gw, "static", 100),        \* the same with another metric
     Via(Net(0, 2), eth, gw, "dhcp", 0),            \* pushed, as the system says
     Host,                                          \* host route
     Via(Net(3, 3), eth, gw, "static", 0),          \* host route to the VPN's server
     Via(Net(4, 1), eth, OnLink, "kernel", 0),      \* an oversized LAN
     Via(Net(6, 2), eth, OnLink, "kernel", 0),      \* the LAN
     Via(Net(5, 3), eth, gw, "static", 0),          \* host route in a trusted network
     Via(Net(2, 2), wlan, OnLink, "static", 0),     \* an on-link route outside any
     Via(Net(2, 2), wlan, OnLink, "kernel", 100),
     [Via(Net(0, 1), wlan, gw, "static", 0) EXCEPT !.scoped = TRUE]}

MCTables ==
    {vpn \cup phys : vpn \in VpnTables,
                     phys \in {s \in SUBSET PhysTable : Cardinality(s) <= MaxRoutes}}

Lease(iface, server, dests) ==
    [iface |-> iface, server |-> server,
     routes |-> [n \in DOMAIN dests |-> [dest |-> dests[n], via |-> gw]]]

MCLeases ==
    {{}, {Lease(eth, rogueServer, <<Net(0, 1), Net(3, 3)>>)},
     {Lease(eth, NoServer, <<Net(0, 1)>>), Lease(wlan, rogueServer, <<Net(2, 2), Net(0, 1)>>)}}

MCOffers == {{}, {Lease(eth, honest, <<>>), Lease(eth, rogueServer, <<Net(0, 0), Net(0, 1)>>),
      Lease(wlan, NoServer, <<Net(2, 2)>>)}}

MCBaselines ==
    {Unknown, [known |-> TRUE, keys |-> {}],
     [known |-> TRUE, keys |-> {Key(Host)}]}

MCTrusted == {Net(4, 2)}

=============================================================================
