------------------------------- MODULE NetAddr -------------------------------
(***************************************************************************)
(* Addresses, services and subnets of util/netbase/netbase.cpp: CNetAddr,  *)
(* CService and CSubNet.  An address is its sixteen bytes, an IPv4 address *)
(* is mapped to ::ffff:0:0/96.  A text is a sequence of tokens, what the   *)
(* program can tell about it: a number, a dotted byte, an encoded byte of  *)
(* an onion address, ".onion", a colon, a bracket, a name.  The mask of a  *)
(* subnet is none, a number of bits, an address or bad.                    *)
(***************************************************************************)
EXTENDS Integers, Sequences, SequencesExt, Bitwise

CONSTANTS Addresses,    \* addresses that callers ask about
          SubnetTexts,  \* subnets that callers parse, [host, mask]
          Hosts         \* the addresses that the resolver has for a name

VARIABLES addr,      \* an address
          partner,   \* another one, or NULL
          net        \* a parsed subnet

vars == <<addr, partner, net>>

NULL == <<>>
None == [i \in 1 .. 16 |-> 0]
pchIPv4 == <<0, 0, 0, 0, 0, 0, 0, 0, 0, 0, 255, 255>>
pchOnionCat == <<253, 135, 216, 126, 235, 67>>

\* SetRaw: four bytes are mapped, sixteen are copied.
SetRaw(bytes) == IF Len(bytes) = 4 THEN pchIPv4 \o bytes ELSE bytes

GetByte(a, n) == a[16 - n]
IsIPv4(a) == IsPrefix(pchIPv4, a)
IsTor(a) == IsPrefix(pchOnionCat, a)
IsIPv6(a) == ~IsIPv4(a) /\ ~IsTor(a)

\* What an IPv4 address is reserved for.
IsRFC1918(a) ==
    IsIPv4(a) /\ \/ GetByte(a, 3) = 10
                 \/ GetByte(a, 3) = 192 /\ GetByte(a, 2) = 168
                 \/ GetByte(a, 3) = 172 /\ GetByte(a, 2) \in 16 .. 31
IsRFC2544(a) == IsIPv4(a) /\ GetByte(a, 3) = 198 /\ GetByte(a, 2) \in {18, 19}
IsRFC3927(a) == IsIPv4(a) /\ GetByte(a, 3) = 169 /\ GetByte(a, 2) = 254
IsRFC6598(a) == IsIPv4(a) /\ GetByte(a, 3) = 100 /\ GetByte(a, 2) \in 64 .. 127
IsRFC5737(a) == IsIPv4(a) /\ <<GetByte(a, 3), GetByte(a, 2), GetByte(a, 1)>> \in
                                {<<192, 0, 2>>, <<198, 51, 100>>, <<203, 0, 113>>}

\* What an IPv6 address is reserved for.
IsRFC3849(a) == IsPrefix(<<32, 1, 13, 184>>, a)
IsRFC3964(a) == IsPrefix(<<32, 2>>, a)
IsRFC6052(a) == IsPrefix(<<0, 100, 255, 155, 0, 0, 0, 0, 0, 0, 0, 0>>, a)
IsRFC4380(a) == IsPrefix(<<32, 1, 0, 0>>, a)
IsRFC4862(a) == IsPrefix(<<254, 128, 0, 0, 0, 0, 0, 0>>, a)
IsRFC4193(a) == (GetByte(a, 15) & 254) = 252
IsRFC6145(a) == IsPrefix(<<0, 0, 0, 0, 0, 0, 0, 0, 255, 255, 0, 0>>, a)
IsRFC4843(a) == IsPrefix(<<32, 1, 0>>, a) /\ (GetByte(a, 12) & 240) = 16

IsLocal(a) ==
    \/ IsIPv4(a) /\ GetByte(a, 3) \in {127, 0}
    \/ a = [None EXCEPT ![16] = 1]

\* The first conjunct refuses an IPv4 address that was read three bytes too late.
IsValid(a) ==
    /\ ~IsPrefix(SubSeq(pchIPv4, 4, 12), a)
    /\ a # None
    /\ ~IsRFC3849(a)
    /\ IsIPv4(a) => SubSeq(a, 13, 16) \notin {<<255, 255, 255, 255>>, <<0, 0, 0, 0>>}

IsRoutable(a) ==
    /\ IsValid(a)
    /\ ~(\/ IsRFC1918(a) \/ IsRFC2544(a) \/ IsRFC3927(a) \/ IsRFC4862(a) \/ IsRFC6598(a)
         \/ IsRFC5737(a) \/ (IsRFC4193(a) /\ ~IsTor(a)) \/ IsRFC4843(a) \/ IsLocal(a))

GetNetwork(a) ==
    CASE ~IsRoutable(a) -> "unroutable"
      [] IsRoutable(a) /\ IsIPv4(a) -> "ipv4"
      [] IsRoutable(a) /\ IsTor(a) -> "onion"
      [] OTHER -> "ipv6"

-----------------------------------------------------------------------------
\* The first bits of a from byte start on; what is left of the last byte is filled with ones.
Leading(a, start, bits) ==
    SubSeq(a, start + 1, start + (bits \div 8))
        \o (IF bits % 8 = 0 THEN <<>>
            ELSE <<a[start + (bits \div 8) + 1] | (2 ^ (8 - (bits % 8)) - 1)>>)

\* Mutant: the address a Teredo address carries is not inverted.
TeredoAsIs(a) ==
    CASE ~IsRoutable(a) -> <<"unroutable">>
      [] OTHER -> IF IsRFC4380(a) THEN <<"ipv4", GetByte(a, 3), GetByte(a, 2)>>
                  ELSE <<"ipv4">> \o Leading(a, IF IsRFC3964(a) THEN 2 ELSE 12, 16)

\* The canonical identifier of an address' group.
GetGroup(a) ==
    CASE ~IsRoutable(a) -> <<"unroutable">>
      [] IsRoutable(a) /\ (IsIPv4(a) \/ IsRFC6145(a) \/ IsRFC6052(a)) ->
            <<"ipv4">> \o Leading(a, 12, 16)
      [] IsRoutable(a) /\ IsRFC3964(a) -> <<"ipv4">> \o Leading(a, 2, 16)
      [] IsRoutable(a) /\ IsRFC4380(a) -> <<"ipv4", 255 - GetByte(a, 3), 255 - GetByte(a, 2)>>
      [] IsTor(a) -> <<"onion">> \o Leading(a, 6, 4)
      [] IsRoutable(a) /\ IsPrefix(<<32, 1, 4, 112>>, a) -> <<"ipv6">> \o Leading(a, 0, 36)
      [] OTHER -> <<"ipv6">> \o Leading(a, 0, 32)

GetExtNetwork(a) ==
    IF a = NULL THEN "unknown" ELSE IF IsRFC4380(a) THEN "teredo" ELSE GetNetwork(a)

REACH_UNREACHABLE == 0
REACH_DEFAULT == 1
REACH_TEREDO == 2
REACH_IPV6_WEAK == 3
REACH_IPV4 == 4
REACH_IPV6_STRONG == 5
REACH_PRIVATE == 6

\* How reachable a is for a partner: by the partner's network, then by a's own.
Reachability(a, theirNet, ourNet) ==
    LET tunnel == IsRFC3964(a) \/ IsRFC6052(a) \/ IsRFC6145(a) IN
    CASE ourNet = "ipv4" -> REACH_IPV4
      [] ourNet = "onion" /\ theirNet \in {"onion", "unknown", "unroutable"} -> REACH_PRIVATE
      [] ourNet = "ipv6" /\ theirNet = "ipv6" ->
            IF tunnel THEN REACH_IPV6_WEAK ELSE REACH_IPV6_STRONG
      [] ourNet = "ipv6" /\ theirNet \in {"teredo", "unknown", "unroutable"} -> REACH_IPV6_WEAK
      [] ourNet = "teredo" /\ theirNet \in {"ipv6", "teredo", "unknown", "unroutable"} -> REACH_TEREDO
      [] OTHER -> REACH_DEFAULT

GetReachabilityFrom(a, p) ==
    IF IsRoutable(a) THEN Reachability(a, GetExtNetwork(p), GetExtNetwork(a)) ELSE REACH_UNREACHABLE

-----------------------------------------------------------------------------
\* The tokens of a text; a number is its value.
Colon == -1
Open == -2
Close == -3
Onion == -4
Name == -5
Dotted(byte) == -1000 - byte
Encoded(byte) == -2000 - byte
IsDotted(c) == c \in -1255 .. -1000
IsEncoded(c) == c \in -2255 .. -2000

\* Only an IPv6 text has colons, and it ends like a port.
ToStringIP(a) ==
    CASE IsTor(a) -> [i \in 1 .. 10 |-> Encoded(a[6 + i])] \o <<Onion>>
      [] IsIPv4(a) -> [i \in 1 .. 4 |-> Dotted(a[12 + i])]
      [] OTHER -> [i \in 1 .. 15 |-> IF i % 2 = 0 THEN Colon ELSE a[i] * 256 + a[i + 1]]

\* CService::ToStringIPPort.
ToStringIPPort(a, port) ==
    IF IsIPv6(a) THEN <<Open>> \o ToStringIP(a) \o <<Close, Colon, port>> ELSE ToStringIP(a) \o <<Colon, port>>

InBrackets(text) == Len(text) > 1 /\ text[1] = Open /\ text[Len(text)] = Close
Unbracketed(text) == IF InBrackets(text) THEN SubSeq(text, 2, Len(text) - 1) ELSE text

SplitHostPort(in, port) ==
    LET colon == SelectLastInSeq(in, LAMBDA c : c = Colon)
        bracketed == colon > 1 /\ in[1] = Open /\ in[colon - 1] = Close
        multi == \E i \in 1 .. colon - 1 : in[i] = Colon
        number == colon # 0 /\ Len(in) = colon + 1 /\ in[Len(in)] \in 1 .. 65535
        split == number /\ (colon = 1 \/ bracketed \/ ~multi)
    IN [host |-> Unbracketed(IF split THEN SubSeq(in, 1, colon - 1) ELSE in),
        port |-> IF split THEN in[Len(in)] ELSE port]

\* SetSpecial: the address of an onion name, <<>> when it is none or of the wrong length.
SetSpecial(name) ==
    IF Len(name) = 11 /\ name[11] = Onion /\ \A i \in 1 .. 10 : IsEncoded(name[i])
    THEN pchOnionCat \o [i \in 1 .. 10 |-> -2000 - name[i]] ELSE <<>>

\* getaddrinfo: the addresses of a number, and of a name unless AI_NUMERICHOST is set.
getaddrinfo(name, allow) ==
    CASE Len(name) = 4 /\ \A i \in 1 .. Len(name) : IsDotted(name[i]) ->
            <<SetRaw([i \in 1 .. 4 |-> -1000 - name[i]])>>
      [] Len(name) = 15 /\ \A i \in 1 .. Len(name) : IF i % 2 = 0 THEN name[i] = Colon ELSE name[i] >= 0 ->
            <<[i \in 1 .. 16 |-> IF i % 2 = 1 THEN name[i] \div 256 ELSE name[i - 1] % 256]>>
      [] name = <<Name>> /\ allow -> Hosts
      [] OTHER -> <<>>

\* At most nMaxSolutions addresses, all of them when it is 0; <<>> is a failure.
LookupIntern(name, nMaxSolutions, allow) ==
    IF SetSpecial(name) # <<>> THEN <<SetSpecial(name)>>
    ELSE LET found == getaddrinfo(name, allow)
         IN  IF nMaxSolutions = 0 \/ Len(found) <= nMaxSolutions THEN found ELSE SubSeq(found, 1, nMaxSolutions)

LookupHost(text, nMaxSolutions, allow) ==
    IF text = <<>> THEN <<>> ELSE LookupIntern(Unbracketed(text), nMaxSolutions, allow)

Service(a, port) == [addr |-> a, port |-> port]

Lookup(text, portDefault, allow, nMaxSolutions) ==
    IF text = <<>> THEN <<>>
    ELSE LET split == SplitHostPort(text, portDefault)
             vIP == LookupIntern(split.host, nMaxSolutions, allow)
         IN  [i \in DOMAIN vIP |-> Service(vIP[i], split.port)]

LookupNumeric(text, portDefault) == Lookup(text, portDefault, FALSE, 1)

\* The address structure of the socket calls, by family; an onion address has none.
GetSockAddr(s) ==
    CASE IsIPv4(s.addr) -> [family |-> "AF_INET", bytes |-> SubSeq(s.addr, 13, 16), port |-> s.port]
      [] IsIPv6(s.addr) -> [family |-> "AF_INET6", bytes |-> s.addr, port |-> s.port]
      [] OTHER -> [family |-> "none", bytes |-> <<>>, port |-> 0]
SetSockAddr(sa) == Service(SetRaw(sa.bytes), sa.port)

\* CService::GetKey: the address and the port, high byte first.
GetKey(s) == s.addr \o <<s.port \div 256, s.port & 255>>

-----------------------------------------------------------------------------
Ones == [i \in 1 .. 16 |-> 255]

\* The mask that keeps the first n bits.
BitMask(n) ==
    [i \in 1 .. 16 |-> IF n >= 8 * i THEN 255
                       ELSE IF n <= 8 * (i - 1) THEN 0 ELSE 256 - 2 ^ (8 * i - n)]

Offset(a) == IF IsIPv4(a) THEN 12 ELSE 0

NoSubNet == [valid |-> FALSE, network |-> None, netmask |-> None]

\* Normalise the network according to the netmask.
SubNet(valid, a, mask) ==
    [valid |-> valid, network |-> [i \in 1 .. 16 |-> a[i] & mask[i]], netmask |-> mask]

\* CSubNet::CSubNet: "address", "address/bits" or "address/mask".
ParseSubNet(text) ==
    LET vIP == LookupHost(text.host, 1, FALSE) IN
    IF vIP = <<>> THEN SubNet(FALSE, None, Ones)
    ELSE LET a == vIP[1]
             mask == text.mask
             start == Offset(a)
         IN CASE mask = <<"none">> -> SubNet(TRUE, a, Ones)
              [] mask[1] = "bits" ->
                    IF mask[2] \in 0 .. (128 - 8 * start) THEN SubNet(TRUE, a, BitMask(mask[2] + 8 * start))
                    ELSE SubNet(FALSE, a, Ones)
              [] mask[1] = "mask" ->
                    SubNet(TRUE, a, [i \in 1 .. 16 |-> IF i > start THEN mask[2][i] ELSE 255])
              [] OTHER -> SubNet(FALSE, a, Ones)

\* CSubNet of one address.
Single(a) == [valid |-> IsValid(a), network |-> a, netmask |-> Ones]

Match(s, a) ==
    s.valid /\ IsValid(a) /\ \A i \in 1 .. 16 : (a[i] & s.netmask[i]) = s.network[i]

\* The number of bits of a byte 1{n}0{8-n}, -1 for another.
NetmaskBits(x) ==
    IF \E n \in 0 .. 8 : x = 256 - 2 ^ (8 - n) THEN CHOOSE n \in 0 .. 8 : x = 256 - 2 ^ (8 - n) ELSE -1

\* CSubNet::ToString: "/bits" when the mask is ones and then zeros, a full mask otherwise.
SubNetText(s) ==
    LET start == Offset(s.network)
        rest == SubSeq(s.netmask, start + 1, 16)
        full == SelectInSeq(rest, LAMBDA x : x # 255)
        bits == IF full = 0 THEN 0 ELSE NetmaskBits(rest[full])
        cidr == bits >= 0 /\ (full # 0 => \A i \in full + 1 .. Len(rest) : rest[i] = 0)
    IN [host |-> ToStringIP(s.network),
        mask |-> IF ~cidr THEN <<"mask", IF start = 12 THEN SetRaw(rest) ELSE rest>>
                 ELSE <<"bits", 8 * (IF full = 0 THEN Len(rest) ELSE full - 1) + bits>>]

-----------------------------------------------------------------------------
Init == addr = None /\ partner = NULL /\ net = NoSubNet

\* A caller takes another address.
SetIP == \E a \in Addresses : addr' = a /\ partner' = NULL /\ net' = NoSubNet

\* A caller compares it with a partner's.
SetPartner == net = NoSubNet /\ partner' \in Addresses /\ UNCHANGED <<addr, net>>

\* A caller parses a subnet for the address.
Fresh == partner = NULL /\ net = NoSubNet
NewSubNet == Fresh /\ (\E t \in SubnetTexts : net' = ParseSubNet(t)) /\ UNCHANGED <<addr, partner>>

SingleSubNet == Fresh /\ net' = Single(addr) /\ UNCHANGED <<addr, partner>>

Next == SetIP \/ SetPartner \/ NewSubNet \/ SingleSubNet

-----------------------------------------------------------------------------
\* The IPv4 address that a tunnel or translation address carries (RFC 6145, 6052, 3964, 4380).
Carried(a) ==
    CASE IsRFC6145(a) \/ IsRFC6052(a) -> SetRaw(SubSeq(a, 13, 16))
      [] IsRFC3964(a) -> SetRaw(SubSeq(a, 3, 6))
      [] IsRFC4380(a) -> SetRaw([i \in 1 .. 4 |-> 255 - a[12 + i]])
      [] OTHER -> a

\* Groups (GetGroup): every unroutable address is in one group and no routable one is in it;
\* an address that carries a routable IPv4 address is in that address' group, however it
\* carries it; and two routable addresses of one /32 are in the same group unless they are
\* tunnels or he.net's.
GroupsAgree ==
    /\ GetGroup(addr) = <<"unroutable">> <=> ~IsRoutable(addr)
    /\ IsRoutable(addr) /\ IsRoutable(Carried(addr)) => GetGroup(addr) = GetGroup(Carried(addr))
    /\ partner # NULL /\ IsRoutable(addr) /\ IsRoutable(partner) =>
         /\ GetGroup(addr) = GetGroup(partner) =>
              GetNetwork(Carried(addr)) = GetNetwork(Carried(partner))
         /\ /\ GetNetwork(Carried(addr)) = "ipv6" /\ GetNetwork(Carried(partner)) = "ipv6"
            /\ SubSeq(addr, 1, 4) = SubSeq(partner, 1, 4) /\ ~IsPrefix(<<32, 1, 4, 112>>, addr)
            => GetGroup(addr) = GetGroup(partner)

\* Reachability (GetReachabilityFrom): an unroutable address is never preferred to a
\* routable one, a tunnelled IPv6 address never to an IPv4 one, and an onion address is
\* preferred to all others exactly by a partner that is on Tor or not known.
ReachabilityOrdered ==
    /\ IsRoutable(addr) <=> GetReachabilityFrom(addr, partner) > REACH_UNREACHABLE
    /\ IsRoutable(addr) /\ Carried(addr) # addr => GetReachabilityFrom(addr, partner) < REACH_IPV4
    /\ GetReachabilityFrom(addr, partner) = REACH_PRIVATE <=>
          IsRoutable(addr) /\ IsTor(addr) /\ GetExtNetwork(partner) \in {"onion", "unknown", "unroutable"}

\* Subnets: a subnet written with a number of bits matches exactly the valid addresses that
\* agree with it in those bits, an IPv4 one only IPv4 addresses (Match); and parsing the
\* text of a subnet gives the subnet back (ToString) as long as the mask does not turn an
\* IPv6 network into a mapped IPv4 one.
SubnetsSound ==
    net.valid =>
        /\ Match(net, addr) => IsValid(addr) /\ (Offset(net.network) = 12 => IsIPv4(addr))
        /\ \A n \in 0 .. 128 : net.netmask = BitMask(n) =>
              (Match(net, addr) <=>
                  IsValid(addr) /\ \A i \in 0 .. n - 1 :
                      (addr[(i \div 8) + 1] \div 2 ^ (7 - (i % 8))) % 2 =
                      (net.network[(i \div 8) + 1] \div 2 ^ (7 - (i % 8))) % 2)
        /\ Offset(net.network) = 0 \/ SubSeq(net.netmask, 1, 12) = SubSeq(Ones, 1, 12) =>
              ParseSubNet(SubNetText(net)) = net

\* Texts of services (ToStringIPPort, SplitHostPort, Lookup): the text of a service with a
\* port is read back as that service without asking the resolver for a name, in any family;
\* the text of an address alone takes the default port although an IPv6 one ends like a
\* port; and a service that has a socket address is its socket address' service.
ServicesReadBack ==
    /\ \A port \in {1, 255, 65535} :
          LET s == Service(addr, port) IN
          /\ LookupNumeric(ToStringIPPort(addr, port), 7) = <<s>>
          /\ GetSockAddr(s).family = "none" <=> IsTor(addr)
          /\ ~IsTor(addr) => SetSockAddr(GetSockAddr(s)) = s
    /\ LookupNumeric(ToStringIP(addr), 7) = <<Service(addr, 7)>>
    /\ LookupHost(<<Open>> \o ToStringIP(addr) \o <<Close>>, 1, FALSE) = <<addr>>
    /\ partner # NULL /\ partner # addr => GetKey(Service(addr, 256)) # GetKey(Service(partner, 1))
    /\ LookupNumeric(<<Name, Colon, 80>>, 7) = <<>>
    /\ Lookup(<<Name, Colon, 80>>, 7, TRUE, 0) = [i \in DOMAIN Hosts |-> Service(Hosts[i], 80)]
=============================================================================
