------------------------------ MODULE Sniffer ------------------------------
(***************************************************************************)
(* What the host learns of the DHCP answers on its network: the sniffer    *)
(* thread hears them (sniff.py) and the detector looks at what it heard in *)
(* the last ten minutes (detect.py); the host's DHCP client keeps one in   *)
(* its lease file, where the collectors read it.  Bytes and text are those *)
(* of Dhcp.                                                                *)
(*                                                                         *)
(* RecentAlways and SameInterfaceAny are variants with a plausible bug     *)
(* that no action or report uses.                                          *)
(***************************************************************************)
EXTENDS Dhcp, Lists, FiniteSets, SequencesExt

CONSTANTS
    Iface,      \* network interfaces
    Answer,     \* what DHCP servers send in this instance
    VpnNets,    \* networks routed into the VPN while it is up
    Trusted,    \* trusted_dhcp_servers
    MaxLen,     \* observations kept (500)
    Window,     \* SNIFF_WINDOW, in ticks
    MaxListed,  \* routes that a report names (8)
    MaxHeard    \* bound on the answers of a behaviour

Shapes == {"plain", "ms", "both", "split", "padded", "cut"}
Forms  == {"nets", "decimal", "hex", "0x"}

VARIABLES
    backend,        \* how packets arrive, or that the thread has ended
    observations,   \* the sniffer's deque
    heard           \* history variable: answers that passed by since the thread runs

vars == <<backend, observations, heard>>

----------------------------------------------------------------------------
(* Servers and clients of other makes, as the standards have it: RFC 3442, *)
(* and RFC 3396 for options in pieces.                                     *)

Octets(width) == CHOOSE n \in 0 .. 4 : 8 * n >= width /\ 8 * n < width + 8

Wire(routes) ==
    FlattenSeq([n \in DOMAIN routes |->
        <<routes[n].dest.width>> \o SubSeq(routes[n].dest.octets, 1, Octets(routes[n].dest.width)) \o routes[n].gw.octets])

(* Networks are of version 4, and an answer has at most as many routes as  *)
(* one option holds.                                                       *)
Octets4 == [1 .. 4 -> 0 .. 255]

ASSUME SnifferAssumption ==
    /\ \A a \in Answer :
           /\ a.type \in 1 .. 8 /\ a.server \in Octets4 \cup {NoServer}
           /\ a.routes \in Seq([dest : [net : {TRUE}, octets : Octets4, width : 0 .. 32],
                                gw : [net : {FALSE}, octets : Octets4, width : {32}]])
           /\ Len(Wire(a.routes)) <= 255
    /\ VpnNets \subseteq [net : {TRUE}, octets : Octets4, width : 0 .. 32]
    /\ MaxLen \in Nat \ {0} /\ Window \in Nat \ {0} /\ MaxListed \in Nat \ {0} /\ MaxHeard \in Nat

Packet(answer, shape) ==
    LET bytes == Wire(answer.routes)
        half  == Len(bytes) \div 2
        start == Entry(MessageType, <<answer.type>>) \o Entry(ServerId, answer.server)
        plain == start \o Entry(ClasslessRoutes, bytes) \o <<End>>
    IN  CASE shape = "plain"  -> plain
          [] shape = "ms"     -> start \o Entry(MsRoutes, bytes) \o <<End>>
          [] shape = "both"   -> Entry(MsRoutes, bytes) \o start \o Entry(ClasslessRoutes, bytes) \o <<End>>
          [] shape = "split"  -> Entry(ClasslessRoutes, SubSeq(bytes, 1, half)) \o start
                                    \o Entry(ClasslessRoutes, SubSeq(bytes, half + 1, Len(bytes))) \o <<End>>
          [] shape = "padded" -> <<Pad>> \o start \o <<Pad, Pad>> \o Entry(ClasslessRoutes, bytes)
          [] shape = "cut"    -> SubSeq(plain, 1, Len(plain) - 4)

Word(hex, digits) == [hex |-> hex, digits |-> digits]

Decimal(byte) ==
    Word(FALSE, IF byte < 10 THEN <<byte>>
                ELSE IF byte < 100 THEN <<byte \div 10, byte % 10>>
                ELSE <<byte \div 100, (byte \div 10) % 10, byte % 10>>)

HexDigits(byte) == <<byte \div 16, byte % 16>>

LeaseText(form, routes) ==
    LET bytes == Wire(routes)
    IN  IF form = "nets"
        THEN [slash |-> routes # <<>>, words |-> FlattenSeq([n \in DOMAIN routes |-> <<routes[n].dest, routes[n].gw>>])]
        ELSE [slash |-> FALSE,
              words |-> CASE form = "decimal" -> [j \in DOMAIN bytes |-> Decimal(bytes[j])]
                          [] form = "hex"     -> [j \in DOMAIN bytes |-> Word(FALSE, HexDigits(bytes[j]))]
                          [] form = "0x"      -> <<Word(TRUE, FlattenSeq([j \in DOMAIN bytes |-> HexDigits(bytes[j])]))>>]

(* A dump in hexadecimal reads like one only if some digit says so.        *)
Telling(form, routes) ==
    form = "hex" => routes = <<>> \/ \E j \in DOMAIN Wire(routes) : \E d \in {1, 2} : HexDigits(Wire(routes)[j])[d] > 9

----------------------------------------------------------------------------
(* The sniffer.                                                            *)

(* The kernel's filter and parse_ip_udp, or scapy's filter.                *)
Passes(ports) ==
    CASE backend = "af_packet" -> ports = <<67, 68>>
      [] backend = "scapy"     -> ports[1] = 67
      [] backend = "disabled"  -> FALSE

Trim(seen) == IF Len(seen) > MaxLen THEN Tail(seen) ELSE seen

(* _record                                                                 *)
Recorded(iface, info) ==
    IF info.type \in {Offer, Ack}
    THEN Trim(Append(observations, [iface |-> iface, server |-> info.server, routes |-> info.routes, age |-> 0]))
    ELSE observations

(* A packet between the given ports, with an answer in some shape.         *)
Hear(iface, ports, answer, shape) ==
    /\ Len(heard) < MaxHeard
    /\ Passes(ports)
    /\ observations' = Recorded(iface, Parse(Packet(answer, shape)))
    /\ heard' = IF answer.type \in {Offer, Ack}
                THEN Append(heard, [iface |-> iface, answer |-> answer, whole |-> shape # "cut", age |-> 0])
                ELSE heard
    /\ UNCHANGED backend

(* An exception ends the thread; the daemon goes on without it.            *)
Disable ==
    /\ backend # "disabled"
    /\ backend' = "disabled"
    /\ UNCHANGED <<observations, heard>>

Older(s) == [n \in DOMAIN s |-> [s[n] EXCEPT !.age = IF @ < Window THEN @ + 1 ELSE @]]

Tick ==
    /\ observations' = Older(observations)
    /\ heard' = Older(heard)
    /\ UNCHANGED backend

----------------------------------------------------------------------------
(* What is made of it.                                                     *)

(* The collectors: the routes of a lease file with an answer.              *)
LeaseRoutes(form, answer) == ParseText(LeaseText(form, answer.routes)).routes

RecentAlways(o) == TRUE

Recent(o) == o.age < Window

Bypasses(route) == route.dest.width > 0 /\ \E v \in VpnNets : Within(route.dest, v)

(* rogue-dhcp-offer, when the VPN is up.                                   *)
Alarming(o) == Recent(o) /\ o.server \notin Trusted /\ \E r \in ToSet(o.routes) : Bypasses(r)

Named(routes) == Listed(Among(routes, {r \in ToSet(routes) : Bypasses(r)}), MaxListed)

Report(o) == [iface |-> o.iface, server |-> o.server, listed |-> Named(o.routes)]

Fingerprint(report) == <<report.iface, report.listed>>

(* Of the reports that name the same routes on the same interface, which   *)
(* are equally severe, the first one stays.                                *)
RogueOffers ==
    LET alarming == {n \in DOMAIN observations : Alarming(observations[n])}
        print(n) == Fingerprint(Report(observations[n]))
    IN  {Report(observations[n]) :
            n \in {m \in alarming : \A other \in alarming : print(other) = print(m) => m <= other}}

SameInterfaceAny(o, iface) == TRUE

SameInterface(o, iface) == o.iface = iface

(* multiple-dhcp-servers                                                   *)
Servers(iface) ==
    {o.server : o \in {p \in ToSet(observations) : Recent(p) /\ SameInterface(p, iface) /\ p.server # NoServer}}

Crowded == {iface \in Iface : Cardinality(Servers(iface)) > 1}

----------------------------------------------------------------------------

Init ==
    /\ backend \in {"af_packet", "scapy"}
    /\ observations = <<>> /\ heard = <<>>

Next ==
    \/ \E iface \in Iface, ports \in {<<67, 68>>, <<67, 67>>, <<68, 67>>}, answer \in Answer, shape \in Shapes :
            Hear(iface, ports, answer, shape)
    \/ Disable
    \/ Tick

Spec == Init /\ [][Next]_vars

=============================================================================
