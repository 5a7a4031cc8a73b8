------------------------------ MODULE MCTables ------------------------------
(* Instances of Tables for TLC.                                            *)
EXTENDS Tables

Networks == [half  |-> Net(<<0, 0, 0, 0>>, 1),   upper |-> Net(<<128, 0, 0, 0>>, 1),
             all   |-> Net(<<0, 0, 0, 0>>, 0),   ten   |-> Net(<<10, 0, 0, 0>>, 8),
             lan   |-> Net(<<192, 168, 0, 0>>, 24), wide |-> Net(<<172, 16, 0, 0>>, 12),
             host  |-> Net(<<10, 0, 0, 0>>, 32)]

Entry(net, dev, via, in, metric, type) ==
    [dest |-> Networks[net], dev |-> dev, via |-> via, table |-> in, metric |-> metric, type |-> type]

MCEntries ==
    [ip |-> {Entry("all", "eth0", "gw", "main", 0, "unicast"),
             Entry("all", "eth0", "gw", "main", 100, "unicast"),
             Entry("all", "tun0", NoGateway, "51820", 0, "unicast"),
             Entry("half", "eth0", "gw", "main", 100, "unicast"),
             Entry("half", "tun0", NoGateway, "main", 0, "unicast"),
             Entry("host", "eth0", NoGateway, "main", 0, "unicast"),
             Entry("lan", "eth0", NoGateway, "main", 100, "unicast"),
             Entry("host", "eth0", NoGateway, "local", 0, "unicast"),
             Entry("all", "none", NoGateway, "main", 200, "reject"),
             Entry("upper", "several", "gw", "main", 0, "multipath")},
     proc |-> {Entry("all", "eth0", "gw", "main", 0, "unicast"),
               Entry("half", "eth0", "gw", "main", 0, "unicast"),
               Entry("wide", "eth0", NoGateway, "main", 1, "unicast"),
               Entry("host", "tun0", NoGateway, "main", 0, "unicast"),
               Entry("all", "none", NoGateway, "main", 200, "reject")},
     netstat |-> {Entry("all", "en0", "gw", "main", 0, "unicast"),
                  Entry("all", "utun3", NoGateway, "main", 0, "scoped"),
                  Entry("half", "en0", "gw", "main", 0, "unicast"),
                  Entry("half", "utun3", NoGateway, "main", 0, "unicast"),
                  Entry("upper", "en0", "gw", "main", 0, "unicast"),
                  Entry("ten", "en0", NoGateway, "main", 0, "unicast"),
                  Entry("lan", "en0", NoGateway, "main", 0, "unicast"),
                  Entry("wide", "en0", "gw", "main", 0, "unicast"),
                  Entry("host", "en0", NoGateway, "main", 0, "host"),
                  Entry("host", "en0", NoGateway, "main", 0, "cloned"),
                  Entry("ten", "lo0", "gw", "main", 0, "unicast"),
                  Entry("upper", "lo0", NoGateway, "main", 0, "reject")},
     windows |-> {Entry("all", "Wi-Fi", "gw", "main", 25, "unicast"),
                  Entry("all", "VPN", NoGateway, "main", 5, "unicast"),
                  Entry("half", "Wi-Fi", "gw", "main", 25, "unicast"),
                  Entry("half", "Wi-Fi", NoGateway, "main", 25, "unicast"),
                  Entry("half", "VPN", NoGateway, "main", 5, "unicast"),
                  Entry("ten", "Loopback", NoGateway, "main", 1, "unicast")}]

Datum == {[data |-> <<>>, length |-> 0], [data |-> <<5>>, length |-> 1],
          [data |-> <<700>>, length |-> 4], [data |-> <<0, 1>>, length |-> 8]}

Codes == <<53, 43, 121>>

(* A client stores an option once, and with the time it expires.           *)
MCLists ==
    [layout : {3, 4},
     options : UNION {{[i \in 1 .. n |-> [code |-> Codes[i], vendor |-> v[i], expiry |-> 700,
                                          data |-> d[i].data, length |-> d[i].length]] :
                         v \in [1 .. n -> {0, 1}], d \in [1 .. n -> Datum]} : n \in 0 .. 3}]

=============================================================================
