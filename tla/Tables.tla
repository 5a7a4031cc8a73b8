------------------------------- MODULE Tables -------------------------------
(***************************************************************************)
(* Reading a routing table and deleting from it (platforms/linux.py,       *)
(* macos.py, windows.py): what each system prints, what the program makes  *)
(* of it, which command it deletes a route with, and what the system takes *)
(* away.  The table may change between the reading and the deletion.       *)
(*                                                                         *)
(* `source` is where the program reads: "ip" (iproute2), "proc"            *)
(* (/proc/net/route, without iproute2), "netstat" (macOS), "windows"       *)
(* (Get-NetRoute), and "registry" for the one other thing with decisions   *)
(* in it, the DHCP options Windows keeps.  Networks are IPv4: four octets  *)
(* and a length.  The blob in the registry is a sequence of 32-bit words.  *)
(*                                                                         *)
(* SizeByOctets, WithoutMetric and CleanEnough are variants with a         *)
(* plausible bug; no action uses them.                                     *)
(***************************************************************************)
EXTENDS Integers, Sequences, FiniteSets, SequencesExt

CONSTANTS
    Entries,    \* for each source, what its routing table may contain
    MaxEntries, \* size of a routing table
    Loopback,   \* loopback devices
    Tunnel,     \* the devices of the VPN
    NoGateway,  \* on-link
    NoMetric,   \* a route without a metric
    Unnamed,    \* what a command leaves open
    Lists       \* lists of options a DHCP client stores, with their layout

(* What a routing table contains: networks without bits beyond their       *)
(* length, and types that depend on the system.  What a client stores: an  *)
(* option once, in words of which the last may be padded.                  *)
Octets4 == [1 .. 4 -> 0 .. 255]

Kinds == [ip      |-> {"unicast", "local", "reject", "multipath"},
          proc    |-> {"unicast", "reject", "multipath"},
          netstat |-> {"unicast", "host", "cloned", "scoped", "reject"},
          windows |-> {"unicast"}]

Words(bytes) == (bytes + 3) \div 4

ASSUME TablesAssumption ==
    /\ DOMAIN Entries = DOMAIN Kinds
    /\ \A s \in DOMAIN Kinds : \A e \in Entries[s] :
           /\ e.dest \in [addr : Octets4, plen : 0 .. 32]
           /\ \A i \in 1 .. 4 : 8 * (i - 1) >= e.dest.plen => e.dest.addr[i] = 0
           /\ e.type \in Kinds[s] /\ (e.type \in {"host", "cloned"} => e.dest.plen = 32)
           /\ (s # "ip" => e.table = "main") /\ e.metric \in Nat
           /\ e.dev # Unnamed /\ e.via \notin {Unnamed, "0.0.0.0"}
    /\ NoMetric \notin Nat /\ Unnamed \notin Nat
    /\ \A list \in Lists :
           /\ list.layout \in {3, 4}
           /\ list.options \in Seq([code : 0 .. 255, vendor : {0, 1}, expiry : Nat, length : Nat, data : Seq(Nat)])
           /\ \A i \in 1 .. Len(list.options) :
                  /\ Len(list.options[i].data) = Words(list.options[i].length)
                  /\ \A j \in 1 .. i - 1 : list.options[i].code # list.options[j].code

VARIABLES
    source,     \* where the program reads
    table,      \* the system's routing table
    routes,     \* Snapshot.routes
    stored,     \* the options in the registry, as they were written
    told        \* what parse_dhcp_interface_options made of them

vars == <<source, table, routes, stored, told>>

----------------------------------------------------------------------------
(* What the systems print.  `plen` is Bare when no length is printed, and  *)
(* `octets` is empty for the word "default".                               *)

Bare    == 33
Default == [octets |-> <<>>, plen |-> Bare]
Zeros   == <<0, 0, 0, 0>>

NetText(net) ==
    IF net.plen = 0 THEN Default
    ELSE [octets |-> net.addr, plen |-> IF net.plen = 32 THEN Bare ELSE net.plen]

(* netstat leaves out octets beyond the class of the address, when they    *)
(* are zero, and the length, when it is that of the class.                 *)
ClassOctets(net) == IF net.addr[1] < 128 THEN 1 ELSE IF net.addr[1] < 192 THEN 2 ELSE 3

ShownOctets(net) ==
    CHOOSE k \in ClassOctets(net) .. 4 :
        /\ \A i \in k + 1 .. 4 : net.addr[i] = 0
        /\ \A j \in ClassOctets(net) .. k - 1 : \E i \in j + 1 .. 4 : net.addr[i] # 0

NetstatText(net, isHost) ==
    CASE net.plen = 0 -> Default
      [] net.plen # 0 /\ isHost -> [octets |-> net.addr, plen |-> Bare]
      [] OTHER -> [octets |-> SubSeq(net.addr, 1, ShownOctets(net)),
                   plen   |-> IF net.plen = 8 * ClassOctets(net) THEN Bare ELSE net.plen]

Mask(plen) ==
    [i \in 1 .. 4 |-> LET bits == IF plen >= 8 * i THEN 8 ELSE IF plen > 8 * (i - 1) THEN plen - 8 * (i - 1) ELSE 0
                      IN  256 - 2 ^ (8 - bits)]

IpRow(e) == [text |-> NetText(e.dest), type |-> e.type, table |-> e.table, via |-> e.via,
             metric |-> IF e.metric = 0 THEN NoMetric ELSE e.metric,
             devs |-> IF e.type = "unicast" THEN {e.dev} ELSE {}]

(* The kernel prints words in its own byte order, and one hop of several.  *)
ProcRow(e) == [dest |-> Reverse(e.dest.addr), mask |-> Reverse(Mask(e.dest.plen)), via |-> e.via,
               dev |-> IF e.type = "reject" THEN "*" ELSE e.dev, metric |-> e.metric,
               flags |-> {"U"} \cup (IF e.via = NoGateway THEN {} ELSE {"G"})
                               \cup (IF e.type = "reject" THEN {"!"} ELSE {})]

NetstatRow(e) == [text |-> NetstatText(e.dest, e.type \in {"host", "cloned"}), via |-> e.via, dev |-> e.dev,
                  flags |-> {"U"} \cup CASE e.type = "host"   -> {"H"}
                                         [] e.type = "cloned" -> {"H", "W"}
                                         [] e.type = "scoped" -> {"I"}
                                         [] e.type = "reject" -> {"R"}
                                         [] OTHER             -> {}]

WindowsRow(e) == [dest |-> e.dest, dev |-> e.dev, metric |-> e.metric,
                  hop |-> IF e.via = NoGateway THEN "0.0.0.0" ELSE e.via]

----------------------------------------------------------------------------
(* What the program reads.  Each operator returns no route or one.         *)

Net(addr, plen) == [addr |-> addr, plen |-> plen]

Route(dest, dev, via, in, metric, scoped) ==
    [dest |-> dest, iface |-> dev, gateway |-> via, table |-> in, metric |-> metric, scoped |-> scoped]

SkipTypes == {"local", "reject"}

ParseIpRoute(row) ==
    LET net == IF row.text = Default THEN Net(Zeros, 0)
               ELSE Net(row.text.octets, IF row.text.plen = Bare THEN 32 ELSE row.text.plen)
    IN  IF row.type \in SkipTypes \/ row.table = "local" THEN {}
        ELSE {Route(net, dev, row.via, row.table, row.metric, FALSE) : dev \in row.devs}

ParseProcRoute(row) ==
    LET plen == CHOOSE n \in 0 .. 32 : Mask(n) = Reverse(row.mask)
        via  == IF "G" \in row.flags THEN row.via ELSE NoGateway
    IN  IF "U" \notin row.flags THEN {}
        ELSE {Route(Net(Reverse(row.dest), plen), row.dev, via, "main", row.metric, FALSE)}

SizeByOctets(text, flags) == 8 * Len(text.octets)

(* _mac_v4_dest: the length printed, that of a host, or that of the octets. *)
Size(text, flags) ==
    CASE text.plen # Bare -> text.plen
      [] text.plen = Bare /\ ("H" \in flags \/ Len(text.octets) = 4) -> 32
      [] OTHER -> 8 * Len(text.octets)

SkipFlags == {"W", "L", "b", "m", "R", "B"}

ParseNetstat(row) ==
    LET net == IF row.text = Default THEN Net(Zeros, 0)
               ELSE Net(SubSeq(row.text.octets \o Zeros, 1, 4), Size(row.text, row.flags))
    IN  IF row.flags \cap SkipFlags # {} \/ "U" \notin row.flags THEN {}
        ELSE {Route(net, row.dev, row.via, "main", NoMetric, "I" \in row.flags)}

(* Get-NetRoute prints an address of zeros for an on-link route.           *)
NextHop(hop) == IF hop = "0.0.0.0" THEN NoGateway ELSE hop

ParseWindows(row) ==
    IF row.dev \in Loopback THEN {}
    ELSE {Route(row.dest, row.dev, NextHop(row.hop), "main", row.metric, FALSE)}

Parsed(e) ==
    CASE source = "ip"      -> ParseIpRoute(IpRow(e))
      [] source = "proc"    -> ParseProcRoute(ProcRow(e))
      [] source = "netstat" -> ParseNetstat(NetstatRow(e))
      [] source = "windows" -> ParseWindows(WindowsRow(e))

----------------------------------------------------------------------------
(* Deleting a route.  A command names what it wants gone; a field that is  *)
(* Unnamed is left open.                                                   *)

WithoutMetric(r) == Unnamed

MetricNamed(r) == IF r.metric = NoMetric THEN Unnamed ELSE r.metric

Command(r) ==
    [dest |-> r.dest,
     via |-> IF r.gateway # NoGateway \/ source = "windows" THEN r.gateway ELSE Unnamed,
     dev |-> IF source = "netstat" /\ r.gateway # NoGateway THEN Unnamed ELSE r.iface,
     table |-> r.table,
     metric |-> IF source = "ip" THEN MetricNamed(r) ELSE Unnamed]

Named(field, value) == field = Unnamed \/ field = value

(* The entries a command may mean.  macOS has one unscoped entry for a     *)
(* destination and may not compare its gateway.                            *)
Meant(cmd) ==
    {e \in table : /\ e.dest = cmd.dest /\ e.type \notin SkipTypes \cup {"multipath", "scoped", "cloned"}
                   /\ Named(cmd.dev, e.dev) /\ Named(cmd.via, e.via)
                   /\ e.table = cmd.table /\ Named(cmd.metric, e.metric)}

Careless(cmd) ==
    IF source # "netstat" THEN {}
    ELSE {e \in table : e.dest = cmd.dest /\ e.type \notin {"scoped", "cloned", "reject"}}

(* Of several the kernel takes the one it would use first.                 *)
Taken(es) == CHOOSE e \in es : \A f \in es : e.metric <= f.metric

(* Findings that can be mitigated name unscoped routes of physical devices. *)
(* Without iproute2 there is no command; a dry run only prints it.         *)
Delete(r) ==
    /\ ~r.scoped /\ r.iface \notin Tunnel
    /\ \/ \E es \in {Meant(Command(r)), Careless(Command(r))} :
            /\ source # "proc" /\ es # {}
            /\ table' = table \ {Taken(es)}
       \/ table' = table
    /\ UNCHANGED <<source, routes, stored, told>>

----------------------------------------------------------------------------
(* DhcpInterfaceOptions: records of a code, a vendor flag, a length in     *)
(* bytes, in one of two layouts an expiry time, and the data, padded.      *)

Record(option, layout) ==
    <<option.code, option.vendor, option.length>>
        \o (IF layout = 4 THEN <<option.expiry>> ELSE <<>>) \o option.data

Blob(list) == FlattenSeq([i \in 1 .. Len(list.options) |-> Record(list.options[i], list.layout)])

(* One attempt, from word i on, with headers of h words: the options by    *)
(* code, or failure.                                                       *)
Scan(blob, h) ==
    LET scan[i \in Nat] ==
          IF i + h > Len(blob)
          THEN [ok |-> TRUE, end |-> i, options |-> {}]
          ELSE LET code   == blob[i + 1]
                   vendor == blob[i + 2]
                   length == blob[i + 3]
                   next   == i + h + Words(length)
               IN  IF code > 255 \/ vendor > 1 \/ length > 4 * (Len(blob) - i - h)
                   THEN [ok |-> FALSE, end |-> i, options |-> {}]
                   ELSE LET rest == scan[next]
                            this == [code |-> code, length |-> length,
                                     data |-> SubSeq(blob, i + h + 1, next)]
                        IN  IF vendor = 1 \/ \E o \in rest.options : o.code = code THEN rest
                            ELSE [rest EXCEPT !.options = @ \cup {this}]
    IN  scan[0]

CleanEnough(blob, scan) == scan.ok

(* Fewer than four bytes are left.                                         *)
Clean(blob, scan) == scan.ok /\ Len(blob) - scan.end < 1

ParseOptions(blob) ==
    CASE Clean(blob, Scan(blob, 4)) -> Scan(blob, 4).options
      [] ~Clean(blob, Scan(blob, 4)) /\ Clean(blob, Scan(blob, 3)) -> Scan(blob, 3).options
      [] OTHER -> {}

----------------------------------------------------------------------------

(* What no routing table contains twice.                                   *)
Distinct(s, e, f) ==
    \/ e.dest # f.dest
    \/ s \in {"ip", "proc"} /\ <<e.table, e.metric>> # <<f.table, f.metric>>
    \/ s = "netstat" /\ {e.type, f.type} \cap {"scoped", "cloned"} # {}
    \/ s = "windows" /\ <<e.dev, e.via>> # <<f.dev, f.via>>

NothingStored == [layout |-> 4, options |-> <<>>]

Change ==
    /\ source # "registry"
    /\ \E e \in Entries[source] :
        \/ e \in table /\ table' = table \ {e}
        \/ /\ Cardinality(table) < MaxEntries
           /\ \A f \in table : Distinct(source, e, f)
           /\ table' = table \cup {e}
    /\ UNCHANGED <<source, routes, stored, told>>

Snapshot ==
    /\ source # "registry"
    /\ routes' = UNION {Parsed(e) : e \in table}
    /\ UNCHANGED <<source, table, stored, told>>

(* A lease is stored and read, or given up.                                *)
Renew ==
    /\ source = "registry"
    /\ stored = NothingStored /\ stored' \in Lists
    /\ told' = ParseOptions(Blob(stored'))
    /\ UNCHANGED <<source, table, routes>>

Release ==
    /\ source = "registry"
    /\ stored' = NothingStored /\ told' = {}
    /\ UNCHANGED <<source, table, routes>>

Init ==
    /\ source \in DOMAIN Entries \cup {"registry"}
    /\ table = {} /\ routes = {} /\ told = {}
    /\ stored = NothingStored

Next == Change \/ Snapshot \/ (\E r \in routes : Delete(r)) \/ Renew \/ Release

Spec == Init /\ [][Next]_vars

----------------------------------------------------------------------------
(* Properties.                                                             *)

(* Windows lists what never leaves the host beside what does, and Linux    *)
(* has a table of it.                                                      *)
Forwards(e) ==
    /\ e.type \notin SkipTypes \cup {"cloned"} /\ e.table # "local"
    /\ source = "windows" => e.dev \notin Loopback

Means(r, e) ==
    /\ r.dest = e.dest /\ r.iface = e.dev /\ r.gateway = e.via
    /\ r.table = e.table /\ r.scoped = (e.type = "scoped")

(* Rows the readers do not understand: routes of several hops, and with    *)
(* /proc/net/route those that refuse traffic.                              *)
Plain(e) == e.type # "multipath" /\ (source = "proc" => e.type # "reject")

(* A snapshot shows the routes that forward traffic, each with its         *)
(* network, device, gateway and table, and no others, however the system   *)
(* abbreviates or encodes them (linux.py, macos.py, windows.py, the pure   *)
(* parsers).                                                               *)
TableFaithful ==
    \A e \in table : Plain(e) =>
        /\ Cardinality(Parsed(e)) = IF Forwards(e) THEN 1 ELSE 0
        /\ \A r \in Parsed(e) : Means(r, e)

(* A command that deletes a route of a snapshot takes away the entry that  *)
(* was read as that route, as long as there is one; when there is none any *)
(* more it leaves other destinations alone, and other interfaces too,      *)
(* unless its system cannot be told the interface (delete_route on each    *)
(* platform, against a table that has changed since).                      *)
DeletionExact ==
    [][\A r \in routes : Delete(r) /\ table' # table =>
        LET read == {e \in table : Parsed(e) = {r}}
        IN  IF read # {} THEN table' = table \ read
            ELSE \A e \in table \ table' :
                    e.dest = r.dest /\ (source # "netstat" => e.dev = r.iface)]_vars

(* Whatever layout a build of Windows writes, the options that are read    *)
(* are those a server sent (windows.py, parse_dhcp_interface_options).     *)
(* Without expiry times an option shorter than two bytes after the first   *)
(* can make the list read like one with them.                              *)
Telling(list) == list.layout = 4 \/ \A i \in 2 .. Len(list.options) : list.options[i].length > 1

OptionsSent(list) ==
    {[code |-> o.code, length |-> o.length, data |-> o.data] :
        o \in {q \in ToSet(list.options) : q.vendor = 0}}

OptionsTold == Telling(stored) => told = OptionsSent(stored)

=============================================================================
