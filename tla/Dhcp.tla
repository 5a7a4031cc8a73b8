-------------------------------- MODULE Dhcp --------------------------------
(***************************************************************************)
(* Option 121 of DHCP, as bytes in a packet and as the text in which DHCP  *)
(* clients keep it (dhcp.py).  Bytes are numbers, a packet is its options  *)
(* field and what its header decides, a text is its sequence of words.     *)
(*                                                                         *)
(* SignificantDown, OptionCodesStandard and DecimalIfAny are variants with *)
(* a plausible bug that nothing uses.                                      *)
(***************************************************************************)
EXTENDS Integers, Sequences

MessageType     == 53
ServerId        == 54
ClasslessRoutes == 121
MsRoutes        == 249
Pad             == 0
End             == 255

Offer == 2
Ack   == 5

(* An address or a network as it is written, and a route to a network.     *)
Addr(octets)       == [net |-> FALSE, octets |-> octets, width |-> 32]
Net(octets, width) == [net |-> TRUE, octets |-> octets, width |-> width]
RouteVia(dest, gw) == [dest |-> dest, gw |-> gw]

Failed        == [ok |-> FALSE, routes |-> <<>>]
Routes(found) == [ok |-> TRUE, routes |-> found]

(* ipaddress with strict=False: what lies beyond the prefix is zero.       *)
Network(octets, width) ==
    LET unit(j) == IF width >= 8 * j THEN 1 ELSE IF width <= 8 * (j - 1) THEN 256 ELSE 2 ^ (8 * j - width)
    IN  Net([j \in 1 .. 4 |-> (octets[j] \div unit(j)) * unit(j)], width)

Within(dest, net) == dest.width >= net.width /\ Network(dest.octets, net.width) = net

SignificantDown(width) == width \div 8

Significant(width) == (width + 7) \div 8

----------------------------------------------------------------------------
(* Bytes to routes and back.                                               *)

Truncated(bytes, i) == i + Significant(bytes[i]) + 4 > Len(bytes)

Decode(bytes) ==
    LET from[i \in 1 .. Len(bytes) + 1] ==
            IF i > Len(bytes) THEN Routes(<<>>)
            ELSE IF bytes[i] > 32 \/ Truncated(bytes, i) THEN Failed
            ELSE LET sig  == Significant(bytes[i])
                     dest == [j \in 1 .. 4 |-> IF j <= sig THEN bytes[i + j] ELSE 0]
                     gw   == Addr(SubSeq(bytes, i + sig + 1, i + sig + 4))
                     rest == from[i + sig + 5]
                 IN  IF rest.ok
                     THEN Routes(<<RouteVia(Network(dest, bytes[i]), gw)>> \o rest.routes)
                     ELSE Failed
    IN  from[1]

Encode(routes) ==
    LET upto[n \in 0 .. Len(routes)] ==
            IF n = 0 THEN <<>>
            ELSE LET dest == Network(routes[n].dest.octets, routes[n].dest.width)
                 IN  upto[n - 1] \o <<dest.width>> \o SubSeq(dest.octets, 1, Significant(dest.width))
                                 \o routes[n].gw.octets
    IN  upto[Len(routes)]

----------------------------------------------------------------------------
(* The options field and the packet.                                       *)

(* The value of an option: its occurrences joined.  A value that the field *)
(* cuts short is as long as it is.                                         *)
Option(code, field) ==
    LET from[i \in 1 .. Len(field) + 260] ==
            IF i > Len(field) \/ field[i] = End THEN <<>>
            ELSE IF field[i] = Pad THEN from[i + 1]
            ELSE IF i + 1 > Len(field) THEN <<>>
            ELSE LET last == i + 1 + field[i + 1]
                     rest == from[last + 1]
                     value == SubSeq(field, i + 2, IF last > Len(field) THEN Len(field) ELSE last)
                 IN  IF field[i] = code THEN value \o rest ELSE rest
    IN  from[1]

OptionCodesStandard == <<ClasslessRoutes>>

OptionCodes == <<ClasslessRoutes, MsRoutes>>

NoServer == <<>>

(* parse_bootp: of an option that does not decode, no route counts.        *)
Parse(field) ==
    LET type   == Option(MessageType, field)
        server == Option(ServerId, field)
        upto[n \in 0 .. Len(OptionCodes)] ==
            IF n = 0 THEN <<>> ELSE upto[n - 1] \o Decode(Option(OptionCodes[n], field)).routes
    IN  [type   |-> IF type = <<>> THEN 0 ELSE type[1],
         server |-> IF Len(server) >= 4 THEN SubSeq(server, 1, 4) ELSE NoServer,
         routes |-> upto[Len(OptionCodes)]]

Entry(code, value) == IF value = <<>> THEN <<>> ELSE <<code, Len(value)>> \o value

(* build_dhcp_packet, after the header.                                    *)
Build(type, server, routes) ==
    Entry(MessageType, <<type>>) \o Entry(ServerId, server) \o Entry(ClasslessRoutes, Encode(routes)) \o <<End>>

----------------------------------------------------------------------------
(* Text to routes: words that are networks and addresses, or numbers.  A   *)
(* number is its digits, which have values from 0 to 15, and whether 0x    *)
(* stands before them.                                                     *)

ParseNets(words) ==
    LET from[i \in 1 .. Len(words) + 2] ==
            IF i > Len(words) THEN <<>>
            ELSE IF ~words[i].net THEN from[i + 1]
            ELSE LET gw == IF i = Len(words) THEN Addr(<<0, 0, 0, 0>>) ELSE words[i + 1]
                 IN  <<RouteVia(Network(words[i].octets, words[i].width), gw)>> \o from[i + 2]
    IN  Routes(from[1])

Number(digits, base) ==
    LET upto[n \in 0 .. Len(digits)] == IF n = 0 THEN 0 ELSE upto[n - 1] * base + digits[n]
    IN  upto[Len(digits)]

IsDecimal(word) == ~word.hex /\ Len(word.digits) \in 1 .. 3 /\ \A j \in DOMAIN word.digits : word.digits[j] < 10
IsHex(word)     == ~word.hex /\ Len(word.digits) \in 1 .. 2

DecimalIfAny(words) == \E j \in DOMAIN words : IsDecimal(words[j])

Decimals(words) == \A j \in DOMAIN words : IsDecimal(words[j])

ReadBytes(words, base) ==
    LET bytes == [j \in DOMAIN words |-> Number(words[j].digits, base)]
    IN  IF \A j \in DOMAIN bytes : bytes[j] <= 255 THEN Decode(bytes) ELSE Failed

ParseNumbers(words) ==
    IF Len(words) = 1 /\ words[1].hex
    THEN LET d == words[1].digits
         IN  IF Len(d) % 2 = 1 THEN Failed
             ELSE Decode([j \in 1 .. Len(d) \div 2 |-> 16 * d[2 * j - 1] + d[2 * j]])
    ELSE IF Decimals(words) THEN ReadBytes(words, 10)
    ELSE IF \A j \in DOMAIN words : IsHex(words[j]) THEN ReadBytes(words, 16)
    ELSE Failed

(* parse_route_text tells the two apart by a slash.                        *)
ParseText(text) == IF text.slash THEN ParseNets(text.words) ELSE ParseNumbers(text.words)

=============================================================================
