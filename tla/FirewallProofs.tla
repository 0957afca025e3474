--------------------------- MODULE FirewallProofs ---------------------------
(***************************************************************************)
(* Proofs about Firewall: whatever calls fail and whenever the daemon      *)
(* dies, an applied policy is enforced and a reset gives the host its      *)
(* firewall back, for every set of policies.                               *)
(***************************************************************************)
EXTENDS Firewall, WellFoundedInduction, TLAPS

-----------------------------------------------------------------------------
(* First-match semantics of a list of rules *)

\* Some rule of the list matches the packet.
Matched(rs, p) == \E i \in DOMAIN rs : Matches(rs[i], p)

\* Every rule of the list accepts.
AllAccept(rs) == \A i \in DOMAIN rs : rs[i].accept

\* A set of naturals that is not empty has a minimum, and Min is it.
LEMMA MinIsLeast ==
    ASSUME NEW S, S \subseteq Nat, S # {}
    PROVE  Min(S) \in S /\ \A j \in S : Min(S) <= j
<1> DEFINE R == {ss \in Nat \X Nat : ss[1] < ss[2]}
<1>1. \A m, n \in Nat : <<m, n>> \in R <=> m < n
      OBVIOUS
<1>2. IsWellFoundedOn(R, Nat)
      BY NatLessThanWellFounded, Zenon DEF OpToRel
<1> HIDE DEF R
<1>3. PICK x \in S : \A y \in S : ~(<<y, x>> \in R)
      BY <1>2, WFMin
<1>4. ASSUME NEW y \in S PROVE x <= y
      <2>1. x \in Nat /\ y \in Nat /\ ~(y < x)
            BY <1>1, <1>3
      <2> QED BY <2>1
<1> QED BY <1>4 DEF Min

\* The verdict of two lists in a row: the second decides what the first does not match.
LEMMA PassesConcat ==
    ASSUME NEW T, NEW a \in Seq(T), NEW b \in Seq(T), NEW p
    PROVE  /\ Matched(a \o b, p) <=> Matched(a, p) \/ Matched(b, p)
           /\ Passes(a \o b, p) <=> Passes(a, p) \/ (~Matched(a, p) /\ Passes(b, p))
<1> DEFINE ma == {i \in DOMAIN a : Matches(a[i], p)}
           mb == {i \in DOMAIN b : Matches(b[i], p)}
           mc == {i \in DOMAIN (a \o b) : Matches((a \o b)[i], p)}
<1>1. /\ DOMAIN a = 1 .. Len(a) /\ DOMAIN b = 1 .. Len(b) /\ Len(a) \in Nat /\ Len(b) \in Nat
      /\ DOMAIN (a \o b) = 1 .. Len(a) + Len(b)
      /\ \A i \in 1 .. Len(a) : (a \o b)[i] = a[i]
      /\ \A i \in 1 .. Len(b) : (a \o b)[i + Len(a)] = b[i]
      OBVIOUS
<1> HIDE DEF ma, mb, mc
<1>2. mc = ma \cup {i + Len(a) : i \in mb}
      <2>1. ASSUME NEW i \in mc PROVE i \in ma \cup {j + Len(a) : j \in mb}
            <3>1. CASE i \in 1 .. Len(a)
                  BY <1>1, <2>1, <3>1 DEF mc, ma
            <3>2. CASE i \notin 1 .. Len(a)
                  <4>1. i - Len(a) \in 1 .. Len(b) /\ i = (i - Len(a)) + Len(a)
                        BY <1>1, <2>1, <3>2 DEF mc
                  <4>2. i - Len(a) \in mb
                        BY <1>1, <2>1, <4>1 DEF mc, mb
                  <4> QED BY <4>1, <4>2
            <3> QED BY <3>1, <3>2
      <2>2. ASSUME NEW i \in ma PROVE i \in mc
            BY <1>1, <2>2 DEF ma, mc
      <2>3. ASSUME NEW i \in mb PROVE i + Len(a) \in mc
            BY <1>1, <2>3 DEF mb, mc
      <2> QED BY <2>1, <2>2, <2>3
<1>3. ma \subseteq 1 .. Len(a) /\ mb \subseteq 1 .. Len(b) /\ mc \subseteq Nat
      BY <1>1 DEF ma, mb, mc
<1>4. Matched(a, p) <=> ma # {}
      BY DEF Matched, ma
<1>5. Matched(b, p) <=> mb # {}
      BY DEF Matched, mb
<1>6. Matched(a \o b, p) <=> mc # {}
      BY DEF Matched, mc
<1>7. CASE ma # {}
      <2> ma \subseteq Nat /\ mc # {}
          BY <1>1, <1>2, <1>3, <1>7
      <2>1. /\ Min(ma) \in ma /\ \A j \in ma : Min(ma) <= j
            /\ Min(mc) \in mc /\ \A j \in mc : Min(mc) <= j
            BY <1>3, <1>7, MinIsLeast
      <2>2. Min(mc) = Min(ma)
            BY <1>1, <1>2, <1>3, <2>1
      <2>3. (a \o b)[Min(mc)] = a[Min(ma)]
            BY <1>1, <1>3, <2>1, <2>2
      <2>4. Passes(a \o b, p) <=> a[Min(ma)].accept
            BY <2>3, <1>2, <1>7 DEF Passes, mc
      <2>5. Passes(a, p) <=> a[Min(ma)].accept
            BY <1>7 DEF Passes, ma
      <2> QED BY <2>4, <2>5, <1>4, <1>6, <1>2, <1>7
<1>8. CASE ma = {}
      <2>1. ~Passes(a, p)
            BY <1>8 DEF Passes, ma
      <2>2. CASE mb = {}
            BY <1>2, <1>4, <1>5, <1>6, <1>8, <2>1, <2>2 DEF Passes, mc, mb
      <2>3. CASE mb # {}
            <3> mb \subseteq Nat
                BY <1>1, <1>3
            <3> mc # {}
                <4>1. PICK i : i \in mb
                      BY <2>3
                <4>2. i + Len(a) \in mc
                      BY <1>2, <4>1
                <4> QED BY <4>2
            <3>1. /\ Min(mb) \in mb /\ \A j \in mb : Min(mb) <= j
                  /\ Min(mc) \in mc /\ \A j \in mc : Min(mc) <= j
                  BY <1>3, <2>3, MinIsLeast
            <3>2. Min(mc) = Min(mb) + Len(a)
                  <4>1. Min(mb) + Len(a) \in mc
                        BY <1>2, <3>1
                  <4>2. PICK i \in mb : Min(mc) = i + Len(a)
                        BY <1>2, <1>8, <3>1
                  <4>3. Min(mb) <= i /\ Min(mc) <= Min(mb) + Len(a) /\ i \in Nat /\ Min(mb) \in Nat
                        BY <3>1, <4>1, <4>2
                  <4> HIDE <4>1
                  <4> QED BY SMTT(30), <1>1, <4>2, <4>3
            <3>3. (a \o b)[Min(mc)] = b[Min(mb)]
                  BY <1>1, <1>3, <3>1, <3>2
            <3>4. Passes(a \o b, p) <=> b[Min(mb)].accept
                  BY <3>3, <1>2, <2>3 DEF Passes, mc
            <3>5. Passes(b, p) <=> b[Min(mb)].accept
                  BY <2>3 DEF Passes, mb
            <3> QED BY <3>4, <3>5, <1>4, <1>5, <1>6, <1>2, <1>8, <2>1, <2>3
      <2> QED BY <2>2, <2>3
<1> QED BY <1>7, <1>8

\* A list whose rules all accept lets through what any of them matches.
LEMMA PassesAllAccept ==
    ASSUME NEW T, NEW rs \in Seq(T), AllAccept(rs), NEW p
    PROVE  Passes(rs, p) <=> Matched(rs, p)
<1> DEFINE m == {i \in DOMAIN rs : Matches(rs[i], p)}
<1>1. m \subseteq Nat
      OBVIOUS
<1>2. m # {} => Min(m) \in m
      BY <1>1, MinIsLeast
<1>3. Passes(rs, p) <=> m # {} /\ rs[Min(m)].accept
      BY DEF Passes
<1>4. Matched(rs, p) <=> m # {}
      BY DEF Matched
<1>5. \A i \in m : rs[i].accept
      BY DEF AllAccept
<1> HIDE DEF m
<1> QED BY <1>2, <1>3, <1>4, <1>5

-----------------------------------------------------------------------------
(* Lists of rules put together *)

IsList(rs) == \E T : rs \in Seq(T)

\* The lists that the rules are written as.
LEMMA Lists ==
    /\ IsList(<<>>)
    /\ \A a : IsList(<<a>>)
    /\ \A a, b : IsList(<<a, b>>)
    /\ \A a, b, c : IsList(<<a, b, c>>)
    /\ \A a, b, c, d, e : IsList(<<a, b, c, d, e>>)
    /\ \A a, b, c, d, e, f : IsList(<<a, b, c, d, e, f>>)
<1>1. IsList(<<>>)
      <2>1. <<>> \in Seq({})
            OBVIOUS
      <2> QED BY <2>1 DEF IsList
<1>2. ASSUME NEW a PROVE IsList(<<a>>)
      <2>1. <<a>> \in Seq({a})
            OBVIOUS
      <2> QED BY <2>1 DEF IsList
<1>3. ASSUME NEW a, NEW b PROVE IsList(<<a, b>>)
      <2>1. <<a, b>> \in Seq({a, b})
            OBVIOUS
      <2> QED BY <2>1 DEF IsList
<1>4. ASSUME NEW a, NEW b, NEW c PROVE IsList(<<a, b, c>>)
      <2>1. <<a, b, c>> \in Seq({a, b, c})
            OBVIOUS
      <2> QED BY <2>1 DEF IsList
<1>5. ASSUME NEW a, NEW b, NEW c, NEW d, NEW e PROVE IsList(<<a, b, c, d, e>>)
      <2>1. <<a, b, c, d, e>> \in Seq({a, b, c, d, e})
            OBVIOUS
      <2> QED BY <2>1 DEF IsList
<1>6. ASSUME NEW a, NEW b, NEW c, NEW d, NEW e, NEW f PROVE IsList(<<a, b, c, d, e, f>>)
      <2>1. <<a, b, c, d, e, f>> \in Seq({a, b, c, d, e, f})
            OBVIOUS
      <2> QED BY <2>1 DEF IsList
<1> QED BY <1>1, <1>2, <1>3, <1>4, <1>5, <1>6

\* Two lists in a row: the second decides what the first does not match.
LEMMA InARow ==
    ASSUME NEW a, NEW b, IsList(a), IsList(b)
    PROVE  /\ IsList(a \o b)
           /\ \A p : Matched(a \o b, p) <=> Matched(a, p) \/ Matched(b, p)
           /\ \A p : Passes(a \o b, p) <=> Passes(a, p) \/ (~Matched(a, p) /\ Passes(b, p))
           /\ \A p : Passes(a, p) => Matched(a, p)
<1>1. PICK A : a \in Seq(A)
      BY DEF IsList
<1>2. PICK B : b \in Seq(B)
      BY DEF IsList
<1> DEFINE T == A \cup B
<1>3. a \in Seq(T) /\ b \in Seq(T) /\ a \o b \in Seq(T)
      BY <1>1, <1>2
<1> HIDE DEF T
<1>4. IsList(a \o b)
      BY <1>3 DEF IsList
<1>5. \A p : Passes(a, p) => Matched(a, p)
      BY DEF Passes, Matched
<1> QED BY <1>3, <1>4, <1>5, PassesConcat

\* A list of accepting rules lets through what any of them matches.
LEMMA AcceptingList ==
    ASSUME NEW rs, IsList(rs), AllAccept(rs), NEW p
    PROVE  Passes(rs, p) <=> Matched(rs, p)
<1>1. PICK T : rs \in Seq(T)
      BY DEF IsList
<1> QED BY <1>1, PassesAllAccept

\* A list of dropping rules lets nothing through.
LEMMA DroppingList ==
    ASSUME NEW rs, IsList(rs), \A i \in DOMAIN rs : rs[i].accept = FALSE, NEW p
    PROVE  ~Passes(rs, p)
<1>1. PICK T : rs \in Seq(T)
      BY DEF IsList
<1> DEFINE m == {i \in DOMAIN rs : Matches(rs[i], p)}
<1>2. m \subseteq Nat /\ m \subseteq DOMAIN rs
      BY <1>1
<1>3. m # {} => Min(m) \in m
      BY <1>2, MinIsLeast
<1>4. Passes(rs, p) => m # {} /\ rs[Min(m)].accept
      BY DEF Passes
<1> HIDE DEF m
<1> QED BY <1>2, <1>3, <1>4

-----------------------------------------------------------------------------
(* The packets *)

\* Every field of a packet has its type, its local end is an address of the host, and a
\* message of ICMP has no ports.
PacketOK(p) ==
    /\ p.dir \in {"in", "out"} /\ p.iface \in {"lo", "tun", "eth"}
    /\ p.proto \in {"udp", "tcp", "icmp", "icmp6"} /\ p.src \in Address /\ p.dst \in Address
    /\ p.sport \in Ports /\ p.dport \in Ports /\ p.icmp \in IcmpTypes /\ p.est \in BOOLEAN
    /\ p.dir = "out" => p.src \in {"Host4"} \cup Host6s
    /\ p.dir = "in" => p.dst \in {"Host4", "Broadcast"} \cup Host6s
    /\ p.proto \in {"icmp", "icmp6"} => p.sport = 0 /\ p.dport = 0

\* Every packet that is tried is one a network can carry.
LEMMA PacketsAreOK == \A p \in Packets : PacketOK(p)
<1>1. \A ps \in PortPairs : ps[1] \in Ports /\ ps[2] \in Ports
      BY DEF PortPairs, Ports
<1>2. \A h \in Hosts4 \cup Hosts6 : h[1] \in {"Host4"} \cup Host6s /\ h[2] \in Address
      BY DEF Hosts4, Hosts6, Address
<1>3. ASSUME NEW p \in Transport PROVE PacketOK(p)
      <2>1. PICK d \in {"in", "out"}, i \in {"tun", "eth"}, pr \in {"udp", "tcp"},
                 h \in Hosts4 \cup Hosts6, ps \in PortPairs, e \in BOOLEAN :
                    p = Packet(d, i, pr, h, ps, 0, e)
            BY DEF Transport
      <2> QED BY <2>1, <1>1, <1>2 DEF PacketOK, Packet, IcmpTypes, Address
<1>4. ASSUME NEW p \in Icmp4 \cup Icmp6 PROVE PacketOK(p)
      <2>1. PICK d \in {"in", "out"}, i \in {"tun", "eth"}, pr \in {"icmp", "icmp6"},
                 h \in Hosts4 \cup Hosts6, t \in IcmpTypes : p = IcmpPacket(d, i, pr, h, t)
            <3>1. 0 \in IcmpTypes
                  BY DEF IcmpTypes
            <3>2. CASE p \in Icmp4
                  BY <3>1, <3>2 DEF Icmp4
            <3>3. CASE p \in Icmp6
                  BY <3>3 DEF Icmp6
            <3> QED BY <3>2, <3>3
      <2> QED BY <2>1, <1>2 DEF PacketOK, IcmpPacket, Packet, Address, Ports
<1>5. ASSUME NEW p \in Broadcasts PROVE PacketOK(p)
      <2>1. PICK i \in {"tun", "eth"}, ps \in PortPairs, s \in {"Lan4", "Internet4"} :
                    p = BroadcastPacket(i, ps, s)
            BY DEF Broadcasts
      <2>2. /\ p.dir = "in" /\ p.iface = i /\ p.proto = "udp" /\ p.src = s
            /\ p.dst = "Broadcast" /\ p.sport = ps[2] /\ p.dport = ps[1]
            /\ p.icmp = 0 /\ p.est = FALSE
            BY <2>1 DEF BroadcastPacket, Packet
      <2>3. s \in Remote4 /\ "Broadcast" \in Remote4
            BY DEF Remote4
      <2> QED BY <2>2, <2>3, <1>1 DEF PacketOK, IcmpTypes, Address
<1>6. ASSUME NEW p \in Loopback PROVE PacketOK(p)
      <2>1. PICK d \in {"in", "out"}, pr \in {"udp", "tcp"} : p = LoopbackPacket(d, pr)
            BY DEF Loopback
      <2> QED BY <2>1 DEF PacketOK, LoopbackPacket, Packet, IcmpTypes, Address, Ports
<1> QED BY <1>3, <1>4, <1>5, <1>6 DEF Packets

-----------------------------------------------------------------------------
(* The parts that both platforms' rules are made of *)

\* A rule matches a packet when it does in every field.
LEMMA MatchesFields ==
    ASSUME NEW r, NEW p
    PROVE  Matches(r, p) <=>
             /\ p.dir \in r.dir /\ p.iface \in r.iface /\ p.proto \in r.proto
             /\ p.src \in r.src /\ p.dst \in r.dst /\ p.sport \in r.sport
             /\ p.dport \in r.dport /\ p.icmp \in r.icmp /\ p.est \in r.est
BY DEF Matches

\* A list of accepting rules that matches exactly the packets with the property.
Lets(rs, p, what) == IsList(rs) /\ (Matched(rs, p) <=> what) /\ (Passes(rs, p) <=> what)

\* No rules let nothing through.
LEMMA LetsNothing == \A p : Lets(<<>>, p, FALSE)
BY Lists DEF Lets, Matched, Passes

\* The verdict of a single rule.
LEMMA OneRule ==
    ASSUME NEW r, NEW p
    PROVE  /\ IsList(<<r>>)
           /\ Matched(<<r>>, p) <=> Matches(r, p)
           /\ r.accept = TRUE => Lets(<<r>>, p, Matches(r, p))
           /\ r.accept = FALSE => ~Passes(<<r>>, p)
<1>1. IsList(<<r>>)
      BY Lists
<1>2. Matched(<<r>>, p) <=> Matches(r, p)
      BY DEF Matched
<1>3. ASSUME r.accept = TRUE PROVE Lets(<<r>>, p, Matches(r, p))
      <2>1. AllAccept(<<r>>)
            BY <1>3 DEF AllAccept
      <2> QED BY <1>1, <1>2, <2>1, AcceptingList DEF Lets
<1>4. ASSUME r.accept = FALSE PROVE ~Passes(<<r>>, p)
      <2>1. \A i \in DOMAIN <<r>> : <<r>>[i].accept = FALSE
            BY <1>4
      <2> QED BY <1>1, <2>1, DroppingList
<1> QED BY <1>1, <1>2, <1>3, <1>4

\* add_dhcp_client_rules lets DHCP and neighbour discovery through, and nothing else.
LEMMA LinuxDhcp ==
    ASSUME NEW p, PacketOK(p)
    PROVE  Lets(add_dhcp_client_rules, p, DhcpAllowed("linux", p) \/ NdpAllowed("linux", p))
<1> DEFINE rs == add_dhcp_client_rules
<1>1. IsList(rs)
      BY Lists DEF add_dhcp_client_rules
<1>2. DOMAIN rs = 1 .. 6
      BY DEF add_dhcp_client_rules
<1>3. /\ rs[1].accept /\ rs[2].accept /\ rs[3].accept
      /\ rs[4].accept /\ rs[5].accept /\ rs[6].accept
      BY DEF add_dhcp_client_rules, check_net, udp, In, Out, Accept, check_port,
             check_l4proto, check_icmp
<1>4. AllAccept(rs)
      BY <1>2, <1>3 DEF AllAccept
<1>5. Matched(rs, p) <=> DhcpAllowed("linux", p) \/ NdpAllowed("linux", p)
      <2> USE MatchesFields DEF PacketOK, check_net, udp, In, Out, Accept, check_port,
             check_l4proto, check_icmp, add_dhcp_client_rules
      <2>1. Matches(rs[1], p) <=>
               /\ p.proto = "udp" /\ p.dir = "out" /\ p.dst = "Broadcast"
               /\ p.sport = DHCPV4_CLIENT_PORT /\ p.dport = DHCPV4_SERVER_PORT
            OBVIOUS
      <2>2. Matches(rs[2], p) <=>
               /\ p.proto = "udp" /\ p.dir = "in"
               /\ p.sport = DHCPV4_SERVER_PORT /\ p.dport = DHCPV4_CLIENT_PORT
            OBVIOUS
      <2>3. Matches(rs[3], p) <=>
               /\ p.proto = "udp" /\ p.dir = "out" /\ p.src \in IPV6_LINK_LOCAL
               /\ p.dst \in DHCPV6_SERVER_ADDRS
               /\ p.sport = DHCPV6_CLIENT_PORT /\ p.dport = DHCPV6_SERVER_PORT
            OBVIOUS
      <2>4. Matches(rs[4], p) <=>
               /\ p.proto = "udp" /\ p.dir = "in" /\ p.src \in IPV6_LINK_LOCAL
               /\ p.dst \in IPV6_LINK_LOCAL
               /\ p.sport = DHCPV6_SERVER_PORT /\ p.dport = DHCPV6_CLIENT_PORT
            OBVIOUS
      <2>5. Matches(rs[5], p) <=>
               p.proto = "icmp6" /\ p.dir = "out" /\ p.dst = "RouterSol" /\ p.icmp = 133
            BY ZenonT(60)
      <2>6. Matches(rs[6], p) <=>
               p.proto = "icmp6" /\ p.dir = "in" /\ p.src \in IPV6_LINK_LOCAL /\ p.icmp \in {134, 137}
            BY ZenonT(60)
      <2> HIDE DEF rs
      <2>7. Matched(rs, p) <=> \/ Matches(rs[1], p) \/ Matches(rs[2], p) \/ Matches(rs[3], p)
                              \/ Matches(rs[4], p) \/ Matches(rs[5], p) \/ Matches(rs[6], p)
            BY ONLY <1>2 DEF Matched
      <2> QED BY ONLY <2>1, <2>2, <2>3, <2>4, <2>5, <2>6, <2>7 DEF DhcpAllowed, NdpAllowed, V4
<1> QED BY <1>1, <1>4, <1>5, AcceptingList DEF Lets

\* get_allow_dhcp_client_rules does the same on macOS.
LEMMA MacosDhcp ==
    ASSUME NEW p, PacketOK(p)
    PROVE  Lets(get_allow_dhcp_client_rules, p, DhcpAllowed("macos", p) \/ NdpAllowed("macos", p))
<1> DEFINE rs == get_allow_dhcp_client_rules
<1>1. IsList(rs)
      BY Lists DEF get_allow_dhcp_client_rules
<1>2. DOMAIN rs = 1 .. 6
      BY DEF get_allow_dhcp_client_rules
<1>3. /\ rs[1].accept /\ rs[2].accept /\ rs[3].accept
      /\ rs[4].accept /\ rs[5].accept /\ rs[6].accept
      BY DEF get_allow_dhcp_client_rules, check_net, udp, In, Out, Accept, check_port, check_l4proto
<1>4. AllAccept(rs)
      BY <1>2, <1>3 DEF AllAccept
<1>5. Matched(rs, p) <=> DhcpAllowed("macos", p) \/ NdpAllowed("macos", p)
      <2> USE MatchesFields DEF PacketOK, check_net, udp, In, Out, Accept, check_port,
             check_l4proto, get_allow_dhcp_client_rules
      <2>1. Matches(rs[1], p) <=>
               /\ p.proto = "udp" /\ p.dir = "out" /\ p.dst = "Broadcast"
               /\ p.sport = DHCPV4_CLIENT_PORT /\ p.dport = DHCPV4_SERVER_PORT
            OBVIOUS
      <2>2. Matches(rs[2], p) <=>
               /\ p.proto = "udp" /\ p.dir = "in" /\ p.src \in Remote4
               /\ p.sport = DHCPV4_SERVER_PORT /\ p.dport = DHCPV4_CLIENT_PORT
            OBVIOUS
      <2>3. Matches(rs[3], p) <=>
               /\ p.proto = "udp" /\ p.dir = "out" /\ p.src \in IPV6_LINK_LOCAL
               /\ p.dst \in DHCPV6_SERVER_ADDRS
               /\ p.sport = DHCPV6_CLIENT_PORT /\ p.dport = DHCPV6_SERVER_PORT
            OBVIOUS
      <2>4. Matches(rs[4], p) <=>
               /\ p.proto = "udp" /\ p.dir = "in" /\ p.src \in IPV6_LINK_LOCAL
               /\ p.dst \in IPV6_LINK_LOCAL
               /\ p.sport = DHCPV6_SERVER_PORT /\ p.dport = DHCPV6_CLIENT_PORT
            OBVIOUS
      <2>5. Matches(rs[5], p) <=> p.proto = "icmp6" /\ p.dir = "out" /\ p.dst = "RouterSol"
            OBVIOUS
      <2>6. Matches(rs[6], p) <=> p.proto = "icmp6" /\ p.dir = "in" /\ p.src \in IPV6_LINK_LOCAL
            OBVIOUS
      <2> HIDE DEF rs
      <2>7. Matched(rs, p) <=> \/ Matches(rs[1], p) \/ Matches(rs[2], p) \/ Matches(rs[3], p)
                              \/ Matches(rs[4], p) \/ Matches(rs[5], p) \/ Matches(rs[6], p)
            BY ONLY <1>2 DEF Matched
      <2> QED BY ONLY <2>1, <2>2, <2>3, <2>4, <2>5, <2>6, <2>7 DEF DhcpAllowed, NdpAllowed, V4
<1> QED BY <1>1, <1>4, <1>5, AcceptingList DEF Lets

\* Out to the endpoint, and back from it for a flow that is known.
LEMMA LinuxEndpoint ==
    ASSUME NEW p, PacketOK(p), NEW pol \in Policies
    PROVE  Lets(add_allow_endpoint_rules(pol.peer), p, PeerAllowed(pol, p) /\ (p.dir = "in" => p.est))
<1> DEFINE e == pol.peer
           rs == add_allow_endpoint_rules(e)
<1>0. e.addr \in Address /\ e.port \in Ports
      BY PoliciesAssumption DEF Endpoints, Address, Remote4, Ports
<1>1. IsList(rs)
      BY Lists DEF add_allow_endpoint_rules
<1>2. DOMAIN rs = 1 .. 2
      BY DEF add_allow_endpoint_rules
<1> HIDE DEF e
<1>3. rs[1].accept /\ rs[2].accept
      BY DEF add_allow_endpoint_rules, check_endpoint, check_net, In, Out, Accept, check_port, check_l4proto
<1>4. AllAccept(rs)
      BY <1>2, <1>3 DEF AllAccept
<1>5. Matches(rs[1], p) <=> /\ p.proto = e.proto /\ p.dir = "in" /\ p.src = e.addr /\ p.sport = e.port
                            /\ p.est
      BY MatchesFields DEF PacketOK, add_allow_endpoint_rules, check_endpoint, check_net, In, Accept,
         check_port, check_l4proto
<1>6. Matches(rs[2], p) <=> p.proto = e.proto /\ p.dir = "out" /\ p.dst = e.addr /\ p.dport = e.port
      BY MatchesFields DEF PacketOK, add_allow_endpoint_rules, check_endpoint, check_net, Out, Accept,
         check_port, check_l4proto
<1>7. Matched(rs, p) <=> Matches(rs[1], p) \/ Matches(rs[2], p)
      BY <1>2 DEF Matched
<1> HIDE DEF rs
<1>8. Matched(rs, p) <=> PeerAllowed(pol, p) /\ (p.dir = "in" => p.est)
      BY <1>5, <1>6, <1>7 DEF PeerAllowed, e
<1> QED BY <1>1, <1>4, <1>8, AcceptingList DEF Lets, rs, e

\* get_allow_relay_rule lets new flows to the peer through, and nothing else.
LEMMA MacosEndpoint ==
    ASSUME NEW p, PacketOK(p), NEW pol \in Policies
    PROVE  Lets(get_allow_relay_rule(pol.peer), p, PeerAllowed(pol, p) /\ p.dir = "out")
<1> DEFINE e == pol.peer
           r == check_endpoint(Out(Accept), "dst", "dport", e)
<1> HIDE DEF e
<1>1. r.accept = TRUE
      BY DEF check_endpoint, check_net, Out, Accept, check_port, check_l4proto
<1>2. Matches(r, p) <=> p.proto = e.proto /\ p.dir = "out" /\ p.dst = e.addr /\ p.dport = e.port
      BY MatchesFields DEF PacketOK, check_endpoint, check_net, Out, Accept, check_port, check_l4proto
<1>3. get_allow_relay_rule(e) = <<r>>
      BY DEF get_allow_relay_rule
<1> HIDE DEF r
<1>4. Matches(r, p) <=> PeerAllowed(pol, p) /\ p.dir = "out"
      BY <1>2 DEF PeerAllowed, e
<1>5. Lets(<<r>>, p, Matches(r, p))
      BY <1>1, OneRule
<1> QED BY <1>3, <1>4, <1>5 DEF Lets, e

\* The rules for the hosts to ping let ICMP to and from them through, and nothing else.
LEMMA Pingable ==
    ASSUME NEW p, PacketOK(p), NEW pol \in Policies
    PROVE  Lets(add_allow_icmp_pingable_hosts(pol.pingable), p, PingAllowed(pol, p))
<1> DEFINE Hs(proto) == {h \in pol.pingable : IcmpProto(h) = proto}
           o(proto)  == check_l4proto(check_net(Out(Accept), "dst", Hs(proto)), proto)
           i(proto)  == check_l4proto(check_net(In(Accept), "src", Hs(proto)), proto)
           Sees(proto) == p.proto = proto /\ (IF p.dir = "out" THEN p.dst ELSE p.src) \in Hs(proto)
<1>0. add_allow_icmp_pingable_hosts(pol.pingable)
        = <<o("icmp"), i("icmp")>> \o <<o("icmp6"), i("icmp6")>>
      BY DEF add_allow_icmp_pingable_hosts
<1>1. ASSUME NEW proto PROVE Lets(<<o(proto), i(proto)>>, p, Sees(proto))
      <2> HIDE DEF Hs
      <2>1. o(proto).accept = TRUE /\ i(proto).accept = TRUE
            BY DEF check_net, In, Out, Accept, check_l4proto
      <2>2. Matches(o(proto), p) <=> p.proto = proto /\ p.dir = "out" /\ p.dst \in Hs(proto)
            BY MatchesFields DEF PacketOK, check_net, Out, Accept, check_l4proto
      <2>3. Matches(i(proto), p) <=> p.proto = proto /\ p.dir = "in" /\ p.src \in Hs(proto)
            BY MatchesFields DEF PacketOK, check_net, In, Accept, check_l4proto
      <2> DEFINE a == o(proto)
                 b == i(proto)
      <2>4. a.accept = TRUE /\ b.accept = TRUE /\ (Matches(a, p) \/ Matches(b, p) <=> Sees(proto))
            BY <2>1, <2>2, <2>3 DEF PacketOK
      <2> HIDE DEF a, b, Sees
      <2>5. IsList(<<a, b>>) /\ AllAccept(<<a, b>>) /\ (Matched(<<a, b>>, p) <=> Matches(a, p) \/ Matches(b, p))
            BY <2>4, Lists DEF AllAccept, Matched
      <2>6. Lets(<<a, b>>, p, Sees(proto))
            BY <2>4, <2>5, AcceptingList DEF Lets
      <2> QED BY <2>6 DEF a, b
<1>2. Lets(add_allow_icmp_pingable_hosts(pol.pingable), p, Sees("icmp") \/ Sees("icmp6"))
      <2> HIDE DEF o, i, Sees
      <2>1. Lets(<<o("icmp"), i("icmp")>>, p, Sees("icmp")) /\ Lets(<<o("icmp6"), i("icmp6")>>, p, Sees("icmp6"))
            BY <1>1
      <2> DEFINE a == <<o("icmp"), i("icmp")>>
                 b == <<o("icmp6"), i("icmp6")>>
      <2> HIDE DEF a, b
      <2>2. Lets(a \o b, p, Sees("icmp") \/ Sees("icmp6"))
            BY <2>1, InARow DEF a, b, Lets
      <2> QED BY <1>0, <2>2 DEF a, b
<1>3. Sees("icmp") \/ Sees("icmp6") <=> PingAllowed(pol, p)
      <2>1. pol.pingable \subseteq {"Gateway4", "Gateway6"}
            BY PoliciesAssumption
      <2>2. CASE p.dir = "out"
            BY <2>1, <2>2 DEF PacketOK, PingAllowed, IcmpProto, Host6s
      <2>3. CASE p.dir = "in"
            BY <2>1, <2>3 DEF PacketOK, PingAllowed, IcmpProto, Host6s
      <2> QED BY <2>2, <2>3 DEF PacketOK
<1> QED BY <1>2, <1>3 DEF Lets

\* A rule for an interface lets the interface's traffic through, and nothing else.
LEMMA Interface ==
    ASSUME NEW p, PacketOK(p), NEW iface
    PROVE  Lets(<<check_iface(Accept, iface)>>, p, p.iface = iface)
<1> DEFINE r == check_iface(Accept, iface)
<1>1. r.accept = TRUE
      BY DEF check_iface, Accept
<1>2. Matches(r, p) <=> p.iface = iface
      BY MatchesFields DEF PacketOK, check_iface, Accept
<1> HIDE DEF r
<1>3. Lets(<<r>>, p, p.iface = iface)
      BY <1>1, <1>2, OneRule DEF Lets
<1> QED BY <1>3 DEF r

\* add_allow_dns_rule lets DNS to the gateways through the tunnel, and nothing else.
LEMMA AllowDns ==
    ASSUME NEW p, PacketOK(p), NEW proto, NEW hosts
    PROVE  Lets(add_allow_dns_rule(proto, hosts), p,
                p.dir = "out" /\ p.iface = "tun" /\ p.proto = proto /\ p.dport = DNS /\ p.dst \in hosts)
<1> DEFINE r == check_net(check_port(check_iface(Out(Accept), "tun"), proto, "dport", DNS), "dst", hosts)
<1>1. r.accept = TRUE
      BY DEF check_iface, Accept, check_net, check_port, check_l4proto, Out
<1>2. Matches(r, p) <=> p.dir = "out" /\ p.iface = "tun" /\ p.proto = proto /\ p.dport = DNS /\ p.dst \in hosts
      BY MatchesFields DEF PacketOK, check_iface, Accept, check_net, check_port, check_l4proto, Out
<1>3. add_allow_dns_rule(proto, hosts) = <<r>>
      BY DEF add_allow_dns_rule
<1> HIDE DEF r
<1> QED BY <1>1, <1>2, <1>3, OneRule DEF Lets

\* The rule against DNS drops DNS on every interface and matches nothing else.
LEMMA DropDns ==
    ASSUME NEW p, PacketOK(p), NEW proto
    PROVE  LET rs == <<check_port(Out(Drop), proto, "dport", DNS)>>
           IN  /\ IsList(rs) /\ ~Passes(rs, p)
               /\ Matched(rs, p) <=> p.dir = "out" /\ p.proto = proto /\ p.dport = DNS
<1> DEFINE r == check_port(Out(Drop), proto, "dport", DNS)
<1>1. r.accept = FALSE
      BY DEF Drop, Accept, check_port, check_l4proto, Out
<1>2. Matches(r, p) <=> p.dir = "out" /\ p.proto = proto /\ p.dport = DNS
      BY MatchesFields DEF PacketOK, Drop, Accept, check_port, check_l4proto, Out
<1> HIDE DEF r
<1>3. IsList(<<r>>) /\ ~Passes(<<r>>, p) /\ (Matched(<<r>>, p) <=> Matches(r, p))
      BY <1>1, OneRule
<1> QED BY <1>2, <1>3 DEF r

\* add_allow_lan_rules lets the local network's traffic through, and nothing else.
LEMMA LinuxLan ==
    ASSUME NEW p, PacketOK(p)
    PROVE  Lets(add_allow_lan_rules, p, LanAllowed("linux", p))
<1> DEFINE rs == << check_net(Out(Accept), "dst", ALLOWED_LAN_NETS),
                    check_net(In(Accept), "src", ALLOWED_LAN_NETS),
                    check_net(Out(Accept), "dst", ALLOWED_LAN_MULTICAST_NETS) >>
           ds == add_dhcp_server_rules
<1>1. add_allow_lan_rules = rs \o ds
      BY DEF add_allow_lan_rules
<1>2. IsList(rs) /\ IsList(ds)
      BY Lists DEF add_dhcp_server_rules
<1>3. DOMAIN rs = 1 .. 3 /\ DOMAIN ds = 1 .. 2
      BY DEF add_dhcp_server_rules
<1>4. rs[1].accept /\ rs[2].accept /\ rs[3].accept /\ ds[1].accept /\ ds[2].accept
      BY DEF add_dhcp_server_rules, check_net, udp, In, Out, Accept, check_port, check_l4proto
<1>5. AllAccept(rs) /\ AllAccept(ds)
      <2> HIDE DEF rs, ds
      <2> QED BY <1>3, <1>4 DEF AllAccept
<1>6. Matched(rs, p) \/ Matched(ds, p) <=> LanAllowed("linux", p)
      <2> USE MatchesFields DEF PacketOK, check_net, udp, In, Out, Accept, check_port, check_l4proto,
              add_dhcp_server_rules
      <2>1. Matches(rs[1], p) <=> p.dir = "out" /\ p.dst \in ALLOWED_LAN_NETS
            OBVIOUS
      <2>2. Matches(rs[2], p) <=> p.dir = "in" /\ p.src \in ALLOWED_LAN_NETS
            OBVIOUS
      <2>3. Matches(rs[3], p) <=> p.dir = "out" /\ p.dst \in ALLOWED_LAN_MULTICAST_NETS
            OBVIOUS
      <2>4. Matches(ds[1], p) <=> /\ p.proto = "udp" /\ p.dir = "out"
                                  /\ p.sport = DHCPV4_SERVER_PORT /\ p.dport = DHCPV4_CLIENT_PORT
            OBVIOUS
      <2>5. Matches(ds[2], p) <=> /\ p.proto = "udp" /\ p.dir = "in" /\ p.dst = "Broadcast"
                                  /\ p.sport = DHCPV4_CLIENT_PORT /\ p.dport = DHCPV4_SERVER_PORT
            OBVIOUS
      <2> HIDE DEF rs, ds
      <2>6. /\ Matched(rs, p) <=> Matches(rs[1], p) \/ Matches(rs[2], p) \/ Matches(rs[3], p)
            /\ Matched(ds, p) <=> Matches(ds[1], p) \/ Matches(ds[2], p)
            BY ONLY <1>3 DEF Matched
      <2> QED BY ONLY <2>1, <2>2, <2>3, <2>4, <2>5, <2>6 DEF LanAllowed, V4
<1> HIDE DEF rs, ds
<1> QED BY <1>1, <1>2, <1>5, <1>6, InARow, AcceptingList DEF Lets

\* get_allow_lan_rules does the same on macOS.
LEMMA MacosLan ==
    ASSUME NEW p, PacketOK(p)
    PROVE  Lets(get_allow_lan_rules, p, LanAllowed("macos", p))
<1> DEFINE rs == get_allow_lan_rules
<1>1. IsList(rs)
      BY Lists DEF get_allow_lan_rules
<1>2. DOMAIN rs = 1 .. 5
      BY DEF get_allow_lan_rules
<1>3. rs[1].accept /\ rs[2].accept /\ rs[3].accept /\ rs[4].accept /\ rs[5].accept
      BY DEF get_allow_lan_rules, check_net, In, Out, Accept
<1>4. AllAccept(rs)
      BY <1>2, <1>3 DEF AllAccept
<1>5. Matched(rs, p) <=> LanAllowed("macos", p)
      <2> USE MatchesFields DEF get_allow_lan_rules, PacketOK, check_net, In, Out, Accept
      <2>1. Matches(rs[1], p) <=> p.dir = "out" /\ p.dst \in ALLOWED_LAN_NETS
            OBVIOUS
      <2>2. Matches(rs[2], p) <=> p.dir = "in" /\ p.src \in ALLOWED_LAN_NETS
            OBVIOUS
      <2>3. Matches(rs[3], p) <=> p.dir = "out" /\ p.dst \in ALLOWED_LAN_MULTICAST_NETS
            OBVIOUS
      <2>4. Matches(rs[4], p) <=> /\ p.dir = "out" /\ p.dst \in Remote4
                                  /\ p.sport = DHCPV4_SERVER_PORT /\ p.dport = DHCPV4_CLIENT_PORT
            OBVIOUS
      <2>5. Matches(rs[5], p) <=> /\ p.dir = "in" /\ p.dst = "Broadcast"
                                  /\ p.sport = DHCPV4_CLIENT_PORT /\ p.dport = DHCPV4_SERVER_PORT
            OBVIOUS
      <2> HIDE DEF rs
      <2>6. Matched(rs, p) <=> \/ Matches(rs[1], p) \/ Matches(rs[2], p) \/ Matches(rs[3], p)
                              \/ Matches(rs[4], p) \/ Matches(rs[5], p)
            BY ONLY <1>2 DEF Matched
      <2>7. p.sport = DHCPV4_SERVER_PORT \/ p.sport = DHCPV4_CLIENT_PORT => p.proto \in {"udp", "tcp"}
            BY ONLY PacketOK(p) DEF PacketOK, DHCPV4_CLIENT_PORT, DHCPV4_SERVER_PORT
      <2> QED BY ONLY <2>1, <2>2, <2>3, <2>4, <2>5, <2>6, <2>7 DEF LanAllowed, V4
<1> QED BY <1>1, <1>4, <1>5, AcceptingList DEF Lets

-----------------------------------------------------------------------------
(* The verdict of the whole list, for every policy *)

\* What the list matches and what it lets through.
Gives(rs, p, m, y) == IsList(rs) /\ (Matched(rs, p) <=> m) /\ (Passes(rs, p) <=> y)

\* What the rules that finalize puts together let through, for any policy.
LEMMA LinuxVerdict ==
    ASSUME NEW p, PacketOK(p), NEW pol \in Policies
    PROVE  Passes(finalize(pol), p) <=>
             \/ p.iface = "lo" \/ DhcpAllowed("linux", p) \/ NdpAllowed("linux", p)
             \/ pol.kind # "Blocked" /\ PeerAllowed(pol, p) /\ (p.dir = "in" => p.est)
             \/ pol.kind = "Connecting" /\ PingAllowed(pol, p)
             \/ pol.kind = "Connected" /\ TunnelAllowed(pol, p)
             \/ pol.allow_lan /\ LanAllowed("linux", p) /\ ~(pol.kind = "Connected" /\ IsDns(p))
<1> DEFINE Base == DhcpAllowed("linux", p) \/ NdpAllowed("linux", p)
           Lan == pol.allow_lan /\ LanAllowed("linux", p)
           Peer == PeerAllowed(pol, p) /\ (p.dir = "in" => p.est)
           Dns(proto) == p.dir = "out" /\ p.proto = proto /\ p.dport = DNS
           TunDns(proto) == Dns(proto) /\ p.iface = "tun" /\ p.dst \in Gateways(pol)
           first == allow_interface_rule("lo") \o add_dhcp_client_rules
           kind == CASE pol.kind = "Connecting" ->
                           add_allow_icmp_pingable_hosts(pol.pingable) \o add_allow_endpoint_rules(pol.peer)
                     [] pol.kind = "Connected" ->
                           add_allow_endpoint_rules(pol.peer) \o add_dns_rule(pol, "udp")
                           \o add_dns_rule(pol, "tcp") \o allow_interface_rule("tun")
                     [] pol.kind = "Blocked" -> <<>>
           lan == IF pol.allow_lan THEN add_allow_lan_rules ELSE <<>>
<1>1. finalize(pol) = first \o (kind \o lan)
      BY DEF finalize, add_policy_specific_rules
<1>2. Gives(first, p, p.iface = "lo" \/ Base, p.iface = "lo" \/ Base)
      <2>1. Lets(allow_interface_rule("lo"), p, p.iface = "lo")
            BY Interface DEF allow_interface_rule
      <2>2. Lets(add_dhcp_client_rules, p, Base)
            BY LinuxDhcp
      <2> HIDE DEF Base
      <2> QED BY <2>1, <2>2, InARow DEF Gives, Lets
<1>3. Gives(lan, p, Lan, Lan)
      <2>1. pol.allow_lan \in BOOLEAN
            BY PoliciesAssumption
      <2>2. CASE pol.allow_lan
            BY <2>2, LinuxLan DEF Gives, Lets
      <2>3. CASE ~pol.allow_lan
            BY <2>3, LetsNothing DEF Gives, Lets
      <2> QED BY <2>2, <2>3
<1>4. ASSUME NEW proto
      PROVE  Gives(add_dns_rule(pol, proto), p, Dns(proto), TunDns(proto))
      <2> DEFINE a == add_allow_dns_rule(proto, Gateways(pol))
                 b == << check_port(Out(Drop), proto, "dport", DNS) >>
      <2>1. Gives(a, p, TunDns(proto), TunDns(proto))
            BY AllowDns DEF Gives, Lets
      <2>2. Gives(b, p, Dns(proto), FALSE)
            BY DropDns DEF Gives
      <2>3. add_dns_rule(pol, proto) = a \o b
            BY DEF add_dns_rule
      <2>4. TunDns(proto) => Dns(proto)
            OBVIOUS
      <2> HIDE DEF a, b, Dns, TunDns
      <2> QED BY <2>1, <2>2, <2>3, <2>4, InARow DEF Gives
<1> DEFINE TunAny == p.iface = "tun"
           Ping == PingAllowed(pol, p)
<1>8. Passes(finalize(pol), p) <=> p.iface = "lo" \/ Base \/ Passes(kind \o lan, p)
      <2>1. IsList(kind)
            <3>1. IsList(add_allow_icmp_pingable_hosts(pol.pingable)) /\ IsList(add_allow_endpoint_rules(pol.peer))
                  BY Pingable, LinuxEndpoint DEF Lets
            <3>2. IsList(add_dns_rule(pol, "udp")) /\ IsList(add_dns_rule(pol, "tcp"))
                  BY <1>4 DEF Gives
            <3>3. IsList(allow_interface_rule("tun"))
                  BY Interface DEF allow_interface_rule, Lets
            <3>4. CASE pol.kind = "Connecting"
                  BY <3>1, <3>4, InARow
            <3>5. CASE pol.kind = "Connected"
                  BY <3>1, <3>2, <3>3, <3>5, InARow
            <3>6. CASE pol.kind = "Blocked"
                  BY <3>6, Lists
            <3> QED BY <3>4, <3>5, <3>6, PoliciesAssumption
      <2> HIDE DEF first, kind, lan, Base
      <2>2. IsList(first) /\ IsList(kind \o lan)
            BY <1>2, <1>3, <2>1, InARow DEF Gives
      <2> QED BY <1>1, <1>2, <2>2, InARow DEF Gives
<1>5. CASE pol.kind = "Blocked"
      <2>1. Gives(kind, p, FALSE, FALSE)
            BY <1>5, LetsNothing DEF Gives, Lets
      <2> HIDE DEF kind
      <2>2. Passes(kind \o lan, p) <=> Lan
            BY <1>3, <2>1, InARow DEF Gives
      <2> QED BY <1>5, <1>8, <2>2
<1>6. CASE pol.kind = "Connecting"
      <2>1. Gives(kind, p, Ping \/ Peer, Ping \/ Peer)
            <3>1. Lets(add_allow_icmp_pingable_hosts(pol.pingable), p, Ping)
                  BY Pingable
            <3>2. Lets(add_allow_endpoint_rules(pol.peer), p, Peer)
                  BY LinuxEndpoint
            <3>3. kind = add_allow_icmp_pingable_hosts(pol.pingable) \o add_allow_endpoint_rules(pol.peer)
                  BY <1>6
            <3> HIDE DEF kind, Ping, Peer
            <3> QED BY <3>1, <3>2, <3>3, InARow DEF Gives, Lets
      <2> HIDE DEF kind, Ping, Peer, Lan
      <2>2. Passes(kind \o lan, p) <=> Ping \/ Peer \/ Lan
            BY <1>3, <2>1, InARow DEF Gives
      <2> QED BY <1>6, <1>8, <2>2 DEF Ping, Peer, Lan
<1>7. CASE pol.kind = "Connected"
      <2> DEFINE m1 == Dns("udp")
                 m2 == Dns("tcp")
                 y1 == TunDns("udp")
                 y2 == TunDns("tcp")
      <2>1. Gives(kind, p, Peer \/ m1 \/ m2 \/ TunAny,
                  Peer \/ y1 \/ (~m1 /\ (y2 \/ (~m2 /\ TunAny))))
            <3> DEFINE e == add_allow_endpoint_rules(pol.peer)
                       u == add_dns_rule(pol, "udp")
                       t == add_dns_rule(pol, "tcp")
                       i == allow_interface_rule("tun")
            <3>1. Gives(e, p, Peer, Peer)
                  BY LinuxEndpoint DEF Gives, Lets
            <3>2. Gives(u, p, m1, y1)
                  BY <1>4
            <3>3. Gives(t, p, m2, y2)
                  BY <1>4
            <3>4. Gives(i, p, TunAny, TunAny)
                  BY Interface DEF Gives, Lets, allow_interface_rule
            <3>5. kind = ((e \o u) \o t) \o i
                  BY <1>7
            <3>6. (y1 => m1) /\ (y2 => m2)
                  OBVIOUS
            <3> HIDE DEF kind, Peer, m1, m2, y1, y2, TunAny, e, u, t, i
            <3>7. Gives(e \o u, p, Peer \/ m1, Peer \/ y1)
                  BY <3>1, <3>2, <3>6, InARow DEF Gives
            <3>8. Gives((e \o u) \o t, p, Peer \/ m1 \/ m2, Peer \/ y1 \/ (~m1 /\ y2))
                  BY <3>3, <3>6, <3>7, InARow DEF Gives
            <3> QED BY <3>4, <3>5, <3>6, <3>8, InARow DEF Gives
      <2>2. (m1 \/ m2 <=> IsDns(p)) /\ ~(m1 /\ m2)
            BY DEF IsDns
      <2>3. TunnelAllowed(pol, p) <=> y1 \/ y2 \/ (TunAny /\ ~m1 /\ ~m2)
            BY DEF TunnelAllowed, IsDns
      <2>4. (y1 => m1) /\ (y2 => m2)
            OBVIOUS
      <2> HIDE DEF kind, Peer, m1, m2, y1, y2, TunAny, Lan
      <2>5. IsList(kind) /\ IsList(lan)
            BY <1>3, <2>1 DEF Gives
      <2>6. Passes(kind \o lan, p) <=> Passes(kind, p) \/ (~Matched(kind, p) /\ Passes(lan, p))
            BY <2>5, InARow
      <2>7. Passes(kind \o lan, p) <=> Peer \/ TunnelAllowed(pol, p) \/ (Lan /\ ~IsDns(p))
            BY <1>3, <2>1, <2>2, <2>3, <2>4, <2>6 DEF Gives
      <2> QED BY <1>7, <1>8, <2>7 DEF Peer, Lan
<1> QED BY <1>5, <1>6, <1>7, PoliciesAssumption

\* What the rules that set_rules puts together let through, for any policy.
LEMMA MacosVerdict ==
    ASSUME NEW p, PacketOK(p), NEW pol \in Policies
    PROVE  Passes(set_rules(pol), p) <=>
             \/ p.iface = "lo" \/ DhcpAllowed("macos", p) \/ NdpAllowed("macos", p)
             \/ /\ pol.kind # "Blocked" /\ PeerAllowed(pol, p) /\ p.dir = "out"
                /\ ~(pol.kind = "Connected" /\ IsDns(p))
             \/ pol.kind = "Connecting" /\ PingAllowed(pol, p)
             \/ pol.kind = "Connected" /\ TunnelAllowed(pol, p)
             \/ pol.allow_lan /\ LanAllowed("macos", p) /\ ~(pol.kind = "Connected" /\ IsDns(p))
<1> DEFINE Base == DhcpAllowed("macos", p) \/ NdpAllowed("macos", p)
           Lan == pol.allow_lan /\ LanAllowed("macos", p)
           Peer == PeerAllowed(pol, p) /\ p.dir = "out"
           Ping == PingAllowed(pol, p)
           TunAny == p.iface = "tun"
           Dns(proto) == p.dir = "out" /\ p.proto = proto /\ p.dport = DNS
           TunDns(proto) == Dns(proto) /\ p.iface = "tun" /\ p.dst \in Gateways(pol)
           drops == << check_port(Out(Drop), "tcp", "dport", DNS),
                       check_port(Out(Drop), "udp", "dport", DNS) >>
           first == << check_iface(Accept, "lo") >> \o get_allow_dhcp_client_rules
           kind == CASE pol.kind = "Connecting" ->
                           get_allow_relay_rule(pol.peer) \o get_allow_pingable_hosts(pol.pingable)
                     [] pol.kind = "Connected" ->
                           add_allow_dns_rule("tcp", Gateways(pol)) \o add_allow_dns_rule("udp", Gateways(pol))
                           \o drops \o get_allow_relay_rule(pol.peer) \o get_allow_tunnel_rule
                     [] pol.kind = "Blocked" -> <<>>
           lan == IF pol.allow_lan THEN get_allow_lan_rules ELSE <<>>
<1>1. set_rules(pol) = (first \o (kind \o lan)) \o <<Drop>>
      BY DEF set_rules, get_policy_specific_rules
<1>2. Gives(first, p, p.iface = "lo" \/ Base, p.iface = "lo" \/ Base)
      <2>1. Lets(<< check_iface(Accept, "lo") >>, p, p.iface = "lo")
            BY Interface
      <2>2. Lets(get_allow_dhcp_client_rules, p, Base)
            BY MacosDhcp
      <2> HIDE DEF Base
      <2> QED BY <2>1, <2>2, InARow DEF Gives, Lets
<1>3. Gives(lan, p, Lan, Lan)
      <2>1. pol.allow_lan \in BOOLEAN
            BY PoliciesAssumption
      <2>2. CASE pol.allow_lan
            BY <2>2, MacosLan DEF Gives, Lets
      <2>3. CASE ~pol.allow_lan
            BY <2>3, LetsNothing DEF Gives, Lets
      <2> QED BY <2>2, <2>3
<1>4. Gives(drops, p, Dns("tcp") \/ Dns("udp"), FALSE)
      <2> DEFINE a == check_port(Out(Drop), "tcp", "dport", DNS)
                 b == check_port(Out(Drop), "udp", "dport", DNS)
      <2>1. a.accept = FALSE /\ b.accept = FALSE
            BY DEF Drop, Accept, check_port, check_l4proto, Out
      <2>2. Matches(a, p) <=> Dns("tcp")
            BY MatchesFields DEF PacketOK, Drop, Accept, check_port, check_l4proto, Out
      <2>3. Matches(b, p) <=> Dns("udp")
            BY MatchesFields DEF PacketOK, Drop, Accept, check_port, check_l4proto, Out
      <2> HIDE DEF a, b, Dns
      <2>4. IsList(<<a, b>>) /\ (Matched(<<a, b>>, p) <=> Matches(a, p) \/ Matches(b, p))
            BY Lists DEF Matched
      <2>5. \A i \in DOMAIN <<a, b>> : <<a, b>>[i].accept = FALSE
            BY <2>1
      <2>6. Gives(<<a, b>>, p, Dns("tcp") \/ Dns("udp"), FALSE)
            BY <2>2, <2>3, <2>4, <2>5, DroppingList DEF Gives
      <2> QED BY <2>6 DEF a, b
<1>5. /\ Lets(get_allow_relay_rule(pol.peer), p, Peer)
      /\ Lets(get_allow_pingable_hosts(pol.pingable), p, Ping)
      /\ Lets(get_allow_tunnel_rule, p, TunAny)
      /\ Lets(add_allow_dns_rule("tcp", Gateways(pol)), p, TunDns("tcp"))
      /\ Lets(add_allow_dns_rule("udp", Gateways(pol)), p, TunDns("udp"))
      <2>1. Lets(get_allow_relay_rule(pol.peer), p, Peer)
            BY MacosEndpoint
      <2>2. Lets(get_allow_pingable_hosts(pol.pingable), p, Ping)
            BY Pingable DEF get_allow_pingable_hosts
      <2>3. Lets(get_allow_tunnel_rule, p, TunAny)
            BY Interface DEF get_allow_tunnel_rule
      <2>4. ASSUME NEW proto PROVE Lets(add_allow_dns_rule(proto, Gateways(pol)), p, TunDns(proto))
            BY AllowDns DEF Lets
      <2> HIDE DEF Peer, Ping, TunAny, TunDns
      <2> QED BY <2>1, <2>2, <2>3, <2>4
<1>6. IsList(kind)
      <2> HIDE DEF drops, Peer, Ping, TunAny, TunDns
      <2>1. CASE pol.kind = "Connecting"
            BY <1>5, <2>1, InARow DEF Lets
      <2>2. CASE pol.kind = "Connected"
            BY <1>4, <1>5, <2>2, InARow DEF Lets, Gives
      <2>3. CASE pol.kind = "Blocked"
            BY <2>3, Lists
      <2> QED BY <2>1, <2>2, <2>3, PoliciesAssumption
<1>7. Passes(set_rules(pol), p) <=> p.iface = "lo" \/ Base \/ Passes(kind \o lan, p)
      <2>1. Drop.accept = FALSE
            BY DEF Drop, Accept
      <2>2. IsList(<<Drop>>) /\ ~Passes(<<Drop>>, p)
            BY <2>1, OneRule
      <2> HIDE DEF first, kind, lan, Base
      <2>3. IsList(first) /\ IsList(kind \o lan)
            BY <1>2, <1>3, <1>6, InARow DEF Gives
      <2>4. /\ IsList(first \o (kind \o lan))
            /\ Passes(first \o (kind \o lan), p) <=> p.iface = "lo" \/ Base \/ Passes(kind \o lan, p)
            BY <1>2, <2>3, InARow DEF Gives
      <2> DEFINE body == first \o (kind \o lan)
      <2> HIDE DEF body
      <2>5. Passes(body \o <<Drop>>, p) <=> Passes(body, p)
            BY <2>2, <2>4, InARow DEF body
      <2> QED BY <1>1, <2>4, <2>5 DEF body
<1>8. CASE pol.kind = "Blocked"
      <2>1. Gives(kind, p, FALSE, FALSE)
            BY <1>8, LetsNothing DEF Gives, Lets
      <2> HIDE DEF kind
      <2>2. Passes(kind \o lan, p) <=> Lan
            BY <1>3, <2>1, InARow DEF Gives
      <2> QED BY <1>8, <1>7, <2>2
<1>9. CASE pol.kind = "Connecting"
      <2>1. kind = get_allow_relay_rule(pol.peer) \o get_allow_pingable_hosts(pol.pingable)
            BY <1>9
      <2> HIDE DEF kind, Ping, Peer, Lan
      <2>2. Gives(kind, p, Peer \/ Ping, Peer \/ Ping)
            BY <1>5, <2>1, InARow DEF Gives, Lets
      <2>3. Passes(kind \o lan, p) <=> Peer \/ Ping \/ Lan
            BY <1>3, <2>2, InARow DEF Gives
      <2> QED BY <1>7, <1>9, <2>3 DEF Ping, Peer, Lan
<1>10. CASE pol.kind = "Connected"
      <2> DEFINE a == add_allow_dns_rule("tcp", Gateways(pol))
                 b == add_allow_dns_rule("udp", Gateways(pol))
                 e == get_allow_relay_rule(pol.peer)
                 i == get_allow_tunnel_rule
                 ya == TunDns("tcp")
                 yb == TunDns("udp")
      <2>1. kind = (((a \o b) \o drops) \o e) \o i
            BY <1>10
      <2>2. (Dns("tcp") \/ Dns("udp") <=> IsDns(p)) /\ (ya \/ yb => IsDns(p))
            BY DEF IsDns
      <2>3. TunnelAllowed(pol, p) <=> ya \/ yb \/ (TunAny /\ ~IsDns(p))
            BY DEF TunnelAllowed, IsDns
      <2>4. Gives(drops, p, IsDns(p), FALSE)
            BY <1>4, <2>2 DEF Gives
      <2> HIDE DEF kind, drops, Peer, TunAny, Lan, Dns, TunDns
      <2>5. Lets(a, p, ya) /\ Lets(b, p, yb) /\ Lets(e, p, Peer) /\ Lets(i, p, TunAny)
            BY <1>5
      <2> HIDE DEF a, b, e, i, ya, yb
      <2>6. Gives(a \o b, p, ya \/ yb, ya \/ yb)
            BY <2>5, InARow DEF Lets, Gives
      <2>7. Gives((a \o b) \o drops, p, IsDns(p), ya \/ yb)
            BY <2>2, <2>4, <2>6, InARow DEF Gives
      <2>8. Gives(((a \o b) \o drops) \o e, p, IsDns(p) \/ Peer, ya \/ yb \/ (~IsDns(p) /\ Peer))
            BY <2>2, <2>5, <2>7, InARow DEF Gives, Lets
      <2>9. Gives(kind, p, IsDns(p) \/ Peer \/ TunAny, ya \/ yb \/ (~IsDns(p) /\ (Peer \/ TunAny)))
            BY <2>1, <2>5, <2>8, InARow DEF Gives, Lets
      <2>10. Passes(kind \o lan, p) <=> Passes(kind, p) \/ (~Matched(kind, p) /\ Passes(lan, p))
            BY <1>3, <2>9, InARow DEF Gives
      <2>11. Passes(kind \o lan, p)
               <=> (Peer /\ ~IsDns(p)) \/ TunnelAllowed(pol, p) \/ (Lan /\ ~IsDns(p))
            BY <1>3, <2>2, <2>3, <2>9, <2>10 DEF Gives
      <2> QED BY <1>7, <1>10, <2>11 DEF Peer, Lan
<1> QED BY <1>8, <1>9, <1>10, PoliciesAssumption

-----------------------------------------------------------------------------
(* The type invariant, and what is in force after a call *)

\* A policy is not the absence of one, neither as asked for nor as winfw gets it.
LEMMA NotNoPolicy == \A pol \in Policies : pol # NoPolicy /\ winfw(pol) # NoPolicy
<1> SUFFICES ASSUME NEW pol \in Policies PROVE pol.kind # "None" /\ winfw(pol).kind # "None"
    BY DEF NoPolicy
<1> QED BY PoliciesAssumption DEF winfw

\* The type invariant holds at the start ...
LEMMA TypeInit == Init => TypeOK
BY PlatformsAssumption DEF Init, TypeOK

\* ... and every step keeps it.
LEMMA TypeNext ==
    ASSUME TypeOK, [Next]_vars
    PROVE  TypeOK'
<1>1. CASE InitializeBlocked
      BY <1>1 DEF InitializeBlocked, TypeOK
<1>2. CASE apply_policy
      <2>1. PICK pol \in Policies : policy' = pol /\ (LinuxApply(pol) \/ MacosApply(pol) \/ WindowsApply(pol))
            BY <1>2 DEF apply_policy
      <2>2. platform' = platform /\ pf_before' = pf_before
            BY <1>2 DEF apply_policy
      <2>3. CASE LinuxApply(pol)
            BY <2>1, <2>2, <2>3 DEF LinuxApply, TypeOK
      <2>4. CASE MacosApply(pol)
            <3>1. /\ loaded' \in {loaded, pol} /\ anchored' \in BOOLEAN /\ outcome' \in {"applied", "failed"}
                  /\ restoreFailed' = restoreFailed
                  BY <2>4, Zenon DEF MacosApply, TypeOK
            <3>2. pf_enabled' \in BOOLEAN /\ pf_was_enabled' \in {{}, {TRUE}, {FALSE}}
                  BY <2>4 DEF MacosApply, enable, TypeOK
            <3> QED BY <2>1, <2>2, <3>1, <3>2 DEF TypeOK
      <2>5. CASE WindowsApply(pol)
            BY <2>1, <2>2, <2>5 DEF WindowsApply, TypeOK
      <2> QED BY <2>1, <2>3, <2>4, <2>5
<1>3. CASE reset_policy
      <2>1. policy' = NoPolicy /\ platform' = platform /\ pf_before' = pf_before /\ (MacosReset \/ OtherReset)
            BY <1>3 DEF reset_policy
      <2>2. CASE MacosReset
            <3>1. /\ loaded' \in {loaded, NoPolicy} /\ anchored' \in BOOLEAN
                  /\ outcome' \in {"reset", "failed"} /\ restoreFailed' \in BOOLEAN
                  BY <2>2 DEF MacosReset, restore_state, TypeOK
            <3>2. pf_enabled' \in BOOLEAN /\ pf_was_enabled' = {}
                  BY <2>2 DEF MacosReset, restore_state, TypeOK
            <3> QED BY <2>1, <3>1, <3>2 DEF TypeOK
      <2>3. CASE OtherReset
            BY <2>1, <2>3 DEF OtherReset, TypeOK
      <2> QED BY <2>1, <2>2, <2>3
<1>4. CASE Crash
      BY <1>4 DEF Crash, TypeOK
<1>5. CASE UNCHANGED vars
      BY <1>5 DEF vars, TypeOK
<1> QED BY <1>1, <1>2, <1>3, <1>4, <1>5 DEF Next

\* Every step keeps AppliedIsEnforced.
LEMMA AppliedNext ==
    ASSUME TypeOK, AppliedIsEnforced, [Next]_vars
    PROVE  AppliedIsEnforced'
<1>1. CASE InitializeBlocked
      BY <1>1, NotNoPolicy DEF InitializeBlocked, AppliedIsEnforced, InForce
<1>2. CASE apply_policy
      <2>1. PICK pol \in Policies : policy' = pol /\ (LinuxApply(pol) \/ MacosApply(pol) \/ WindowsApply(pol))
            BY <1>2 DEF apply_policy
      <2>2. platform' = platform /\ pol # NoPolicy /\ winfw(pol) # NoPolicy
            BY <1>2, NotNoPolicy DEF apply_policy
      <2>3. CASE LinuxApply(pol)
            BY <2>1, <2>2, <2>3 DEF LinuxApply, AppliedIsEnforced, InForce
      <2>4. CASE MacosApply(pol)
            BY <2>1, <2>2, <2>4 DEF MacosApply, enable, AppliedIsEnforced, InForce
      <2>5. CASE WindowsApply(pol)
            BY <2>1, <2>2, <2>5 DEF WindowsApply, AppliedIsEnforced, InForce
      <2> QED BY <2>1, <2>3, <2>4, <2>5
<1>3. CASE reset_policy
      BY <1>3 DEF reset_policy, MacosReset, OtherReset, AppliedIsEnforced
<1>4. CASE Crash
      BY <1>4 DEF Crash, AppliedIsEnforced
<1>5. CASE UNCHANGED vars
      BY <1>5 DEF vars, AppliedIsEnforced, InForce
<1> QED BY <1>1, <1>2, <1>3, <1>4, <1>5 DEF Next

\* In a state that satisfies the two invariants, the rules in force decide as the
\* specification says.
LEMMA RulesAreRight ==
    ASSUME TypeOK, AppliedIsEnforced
    PROVE  NothingElsePasses /\ AllowedPasses
<1> SUFFICES ASSUME outcome = "applied", platform # "windows"
             PROVE  /\ \A p \in Passed[platform][policy] : Allowed(platform, policy, p)
                    /\ \A p \in Seen(platform) \ Passed[platform][policy] :
                         Allowed(platform, policy, p) =>
                             /\ policy.kind # "Blocked" /\ PeerAllowed(policy, p)
                             /\ \/ p.dir = "in" /\ ~p.est
                                \/ platform = "macos" /\ policy.kind = "Connected" /\ IsDns(p)
    BY DEF NothingElsePasses, AllowedPasses
<1>1. platform \in {"linux", "macos"} /\ platform \in Platforms \ {"windows"} /\ policy \in Policies
      BY PlatformsAssumption DEF TypeOK, AppliedIsEnforced, InForce
<1>2. Passed[platform][policy] = {p \in Seen(platform) : Passes(RulesOf(platform, policy), p)}
      BY <1>1 DEF Passed
<1>3. \A p \in Seen(platform) : PacketOK(p) /\ (platform = "macos" => ~p.est)
      BY PacketsAreOK DEF Seen
<1>4. ASSUME NEW p \in Seen(platform), Passes(RulesOf(platform, policy), p)
      PROVE  Allowed(platform, policy, p)
      <2>1. CASE platform = "linux"
            BY <1>1, <1>3, <1>4, <2>1, LinuxVerdict DEF RulesOf, Allowed
      <2>2. CASE platform = "macos"
            BY <1>1, <1>3, <1>4, <2>2, MacosVerdict DEF RulesOf, Allowed
      <2> QED BY <1>1, <2>1, <2>2
<1>5. ASSUME NEW p \in Seen(platform), ~Passes(RulesOf(platform, policy), p), Allowed(platform, policy, p)
      PROVE  /\ policy.kind # "Blocked" /\ PeerAllowed(policy, p)
             /\ \/ p.dir = "in" /\ ~p.est
                \/ platform = "macos" /\ policy.kind = "Connected" /\ IsDns(p)
      <2>1. CASE platform = "linux"
            BY <1>1, <1>3, <1>5, <2>1, LinuxVerdict DEF RulesOf, Allowed
      <2>2. CASE platform = "macos"
            <3>1. p.dir \in {"in", "out"}
                  BY <1>3 DEF PacketOK
            <3> QED BY <1>1, <1>3, <1>5, <2>2, <3>1, MacosVerdict DEF RulesOf, Allowed
      <2> QED BY <1>1, <2>1, <2>2
<1> QED BY <1>2, <1>4, <1>5

(***************************************************************************)
(* Whatever policies are asked for, whatever calls fail and wherever the   *)
(* daemon dies: after a call of apply_policy that succeeded, the rules of  *)
(* its policy are in force, what they let through is what the block/allow  *)
(* specification of FirewallPolicy allows, and they let through all of it  *)
(* but the packets AllowedPasses names.                                    *)
(***************************************************************************)
THEOREM PolicyIsEnforcedHolds == Spec => []PolicyIsEnforced
<1>1. Init => TypeOK /\ AppliedIsEnforced
      BY TypeInit DEF Init, AppliedIsEnforced
<1>2. TypeOK /\ AppliedIsEnforced /\ [Next]_vars => TypeOK' /\ AppliedIsEnforced'
      BY TypeNext, AppliedNext
<1>3. TypeOK /\ AppliedIsEnforced => PolicyIsEnforced
      BY RulesAreRight DEF PolicyIsEnforced
<1> QED BY <1>1, <1>2, <1>3, PTL DEF Spec

-----------------------------------------------------------------------------
(* The host's own firewall *)

\* What this Firewall remembers of pf is what it found, until putting it back has failed;
\* from then on it is at least not less than what the user had.
PfInv ==
    /\ platform # "macos" => pf_was_enabled = {}
    /\ ~restoreFailed => pf_was_enabled \in {{}, {pf_before}}
    /\ ~restoreFailed /\ pf_was_enabled = {} => pf_enabled = pf_before
    /\ pf_before => pf_enabled /\ pf_was_enabled \in {{}, {TRUE}}

\* enable keeps what is remembered of pf.
LEMMA EnablePf ==
    ASSUME TypeOK, PfInv, NEW ok \in BOOLEAN, enable(ok), platform' = platform, platform = "macos",
           pf_before' = pf_before, restoreFailed' = restoreFailed
    PROVE  PfInv'
BY DEF enable, PfInv, TypeOK

\* Every step keeps what is remembered of pf, and a reset that succeeds restores it.
LEMMA PfNext ==
    ASSUME TypeOK, PfInv, ResetRestores, [Next]_vars
    PROVE  PfInv' /\ ResetRestores'
<1>1. CASE InitializeBlocked
      BY <1>1 DEF InitializeBlocked, PfInv, ResetRestores
<1>2. CASE apply_policy
      <2>1. PICK pol \in Policies : LinuxApply(pol) \/ MacosApply(pol) \/ WindowsApply(pol)
            BY <1>2 DEF apply_policy
      <2>2. platform' = platform /\ pf_before' = pf_before
            BY <1>2 DEF apply_policy
      <2>3. outcome' # "reset" /\ restoreFailed' = restoreFailed
            BY <2>1 DEF LinuxApply, MacosApply, WindowsApply
      <2>4. CASE LinuxApply(pol) \/ WindowsApply(pol)
            BY <2>2, <2>3, <2>4 DEF LinuxApply, WindowsApply, PfInv, ResetRestores
      <2>5. CASE MacosApply(pol)
            <3>1. \/ UNCHANGED <<pf_enabled, pf_was_enabled>>
                  \/ \E ok \in BOOLEAN : enable(ok)
                  BY <2>5 DEF MacosApply
            <3>2. platform = "macos"
                  BY <2>5 DEF MacosApply
            <3>3. PfInv'
                  BY <2>2, <2>3, <3>1, <3>2, EnablePf DEF PfInv
            <3> QED BY <2>3, <3>3 DEF ResetRestores
      <2> QED BY <2>1, <2>4, <2>5
<1>3. CASE reset_policy
      <2>1. platform' = platform /\ pf_before' = pf_before /\ (MacosReset \/ OtherReset)
            BY <1>3 DEF reset_policy
      <2>2. CASE MacosReset
            <3>1. PICK flushed \in BOOLEAN, removed \in BOOLEAN, ok \in BOOLEAN :
                     /\ loaded' = IF flushed THEN NoPolicy ELSE loaded
                     /\ restore_state(ok)
                     /\ outcome' = IF flushed /\ removed /\ ok THEN "reset" ELSE "failed"
                  BY <2>2 DEF MacosReset
            <3>2. PfInv' /\ (ok /\ ~restoreFailed' => pf_enabled' = pf_before')
                  BY <2>1, <3>1 DEF restore_state, PfInv, TypeOK
            <3>3. outcome' = "reset" => ok /\ loaded' = NoPolicy
                  BY <3>1
            <3> QED BY <3>2, <3>3 DEF ResetRestores, InForce
      <2>3. CASE OtherReset
            BY <2>1, <2>3 DEF OtherReset, PfInv, ResetRestores, InForce
      <2> QED BY <2>1, <2>2, <2>3
<1>4. CASE Crash
      BY <1>4 DEF Crash, PfInv, ResetRestores, TypeOK
<1>5. CASE UNCHANGED vars
      BY <1>5 DEF vars, PfInv, ResetRestores, InForce
<1> QED BY <1>1, <1>2, <1>3, <1>4, <1>5 DEF Next

(***************************************************************************)
(* Through any failures, repeated calls and crashes, a reset that succeeds *)
(* leaves no rules of ours in force and pf as it was before this Firewall  *)
(* first changed it, unless an earlier attempt to put it back has failed;  *)
(* and pf is never disabled for a user who had it enabled.                 *)
(***************************************************************************)
THEOREM HostFirewallIsGivenBackHolds == Spec => []HostFirewallIsGivenBack
<1>1. Init => TypeOK /\ PfInv /\ ResetRestores
      <2> SUFFICES ASSUME Init PROVE PfInv /\ ResetRestores
          BY TypeInit
      <2>1. TypeOK
            BY TypeInit
      <2> QED BY <2>1 DEF Init, TypeOK, PfInv, ResetRestores
<1>2. TypeOK /\ PfInv /\ ResetRestores /\ [Next]_vars => (TypeOK /\ PfInv /\ ResetRestores)'
      BY TypeNext, PfNext
<1>3. PfInv /\ ResetRestores => HostFirewallIsGivenBack
      BY DEF HostFirewallIsGivenBack, UsersPfStaysOn, PfInv
<1> QED BY <1>1, <1>2, <1>3, PTL DEF Spec

=============================================================================
