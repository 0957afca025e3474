------------------------------ MODULE Firewall ------------------------------
(***************************************************************************)
(* The firewall of talpid-core: how a FirewallPolicy becomes the rules of  *)
(* the operating system (nftables on Linux, pf on macOS, the winfw library *)
(* on Windows), and how the rules are put in force and taken away when any *)
(* of the calls it takes may fail.                                         *)
(*                                                                         *)
(* Addresses are classes: what the rules can tell apart.  A packet is one  *)
(* that starts a flow unless `est' says that it belongs to a flow that the *)
(* connection tracking already knows.                                      *)
(***************************************************************************)
EXTENDS Naturals, Sequences, FiniteSetsExt

CONSTANTS
    Platforms,      \* the platforms to check, among "linux", "macos", "windows"
    Policies        \* the policies that may be asked for

Policy(kind, peer, pingable, v6gateway, lan) ==
    [kind |-> kind, peer |-> peer, pingable |-> pingable,
     v6gateway |-> v6gateway, allow_lan |-> lan]

Endpoints == [addr : {"Peer"}, proto : {"udp", "tcp"}, port : Nat]

ASSUME PlatformsAssumption == Platforms \subseteq {"linux", "macos", "windows"}
ASSUME PoliciesAssumption ==
    Policies \subseteq [kind : {"Connecting", "Connected", "Blocked"}, peer : Endpoints,
                        pingable : SUBSET {"Gateway4", "Gateway6"},
                        v6gateway : BOOLEAN, allow_lan : BOOLEAN]

VARIABLES
    platform,        \* the platform of this behaviour
    loaded,          \* the policy whose rules the operating system holds, or NoPolicy
    anchored,        \* macOS: the main ruleset refers to our anchor
    pf_enabled,      \* macOS: pf evaluates rules at all
    pf_was_enabled,  \* macOS: Firewall.pf_was_enabled, {} for None
    policy,          \* the policy last asked for
    outcome,         \* how the last call ended
    pf_before,       \* history: was pf enabled before this Firewall's first call?
    restoreFailed    \* history: putting pf back has failed

vars == <<platform, loaded, anchored, pf_enabled, pf_was_enabled, policy, outcome,
          pf_before, restoreFailed>>

-----------------------------------------------------------------------------
(* Addresses, ports and packets.                                           *)

Remote4 == {"Peer", "Internet4", "Gateway4", "Lan4", "Broadcast", "Multicast4"}
Remote6 == {"Internet6", "Gateway6", "LinkLocal6", "Dhcp6Link", "Dhcp6Site", "RouterSol"}
Host6s  == {"Host6", "HostLL6"}
Address == Remote4 \cup Remote6 \cup {"Host4"} \cup Host6s

\* The gateway inside the tunnel has an address of 10.0.0.0/8.
ALLOWED_LAN_NETS == {"Gateway4", "Lan4", "LinkLocal6", "HostLL6"}
ALLOWED_LAN_MULTICAST_NETS == {"Multicast4", "Dhcp6Link", "Dhcp6Site", "RouterSol"}
IPV6_LINK_LOCAL == {"LinkLocal6", "HostLL6"}
DHCPV6_SERVER_ADDRS == {"Dhcp6Link", "Dhcp6Site"}

DHCPV4_SERVER_PORT == 67
DHCPV4_CLIENT_PORT == 68
DHCPV6_SERVER_PORT == 547
DHCPV6_CLIENT_PORT == 546
DNS == 53
HIGH == 4000
Ports == {0, DNS, DHCPV4_SERVER_PORT, DHCPV4_CLIENT_PORT, DHCPV6_SERVER_PORT,
          DHCPV6_CLIENT_PORT, HIGH} \cup {p.peer.port : p \in Policies}

\* ICMPv6 types with code 0 that the rules name; 0 stands for every other message.
IcmpTypes == {0, 133, 134, 137}

\* The pairs of local and remote port worth trying.
PortPairs ==
    {<<DHCPV4_CLIENT_PORT, DHCPV4_SERVER_PORT>>, <<DHCPV4_SERVER_PORT, DHCPV4_CLIENT_PORT>>,
     <<DHCPV6_CLIENT_PORT, DHCPV6_SERVER_PORT>>, <<DHCPV6_SERVER_PORT, DHCPV6_CLIENT_PORT>>,
     <<HIGH, HIGH>>, <<HIGH, DNS>>}
    \cup {<<HIGH, p.peer.port>> : p \in Policies}

Hosts4 == {"Host4"} \X Remote4
Hosts6 == Host6s \X Remote6

Packet(dir, iface, proto, h, ports, icmp, est) ==
    [dir |-> dir, iface |-> iface, proto |-> proto, icmp |-> icmp, est |-> est,
     src   |-> IF dir = "out" THEN h[1] ELSE h[2],
     dst   |-> IF dir = "out" THEN h[2] ELSE h[1],
     sport |-> IF dir = "out" THEN ports[1] ELSE ports[2],
     dport |-> IF dir = "out" THEN ports[2] ELSE ports[1]]

Transport ==
    {Packet(d, i, pr, h, ps, 0, e) : d \in {"in", "out"}, i \in {"tun", "eth"},
        pr \in {"udp", "tcp"}, h \in Hosts4 \cup Hosts6, ps \in PortPairs, e \in BOOLEAN}

IcmpPacket(dir, iface, proto, h, icmp) == Packet(dir, iface, proto, h, <<0, 0>>, icmp, FALSE)
Icmp4 ==
    {IcmpPacket(d, i, "icmp", h, 0) : d \in {"in", "out"}, i \in {"tun", "eth"}, h \in Hosts4}
Icmp6 ==
    {IcmpPacket(d, i, "icmp6", h, t) :
        d \in {"in", "out"}, i \in {"tun", "eth"}, h \in Hosts6, t \in IcmpTypes}

\* A broadcast that comes in, and traffic on the loopback adapter.
BroadcastPacket(iface, ports, src) ==
    [Packet("in", iface, "udp", <<"Broadcast", "Lan4">>, ports, 0, FALSE) EXCEPT !.src = src]
Broadcasts ==
    {BroadcastPacket(i, ps, s) : i \in {"tun", "eth"}, ps \in PortPairs, s \in {"Lan4", "Internet4"}}

LoopbackPacket(dir, proto) ==
    Packet(dir, "lo", proto, <<"Host4", "Host4">>, <<HIGH, DNS>>, 0, FALSE)
Loopback == {LoopbackPacket(d, pr) : d \in {"in", "out"}, pr \in {"udp", "tcp"}}

Packets == Transport \cup Icmp4 \cup Icmp6 \cup Broadcasts \cup Loopback

-----------------------------------------------------------------------------
(* A rule restricts each part of a packet to a set; the first rule that    *)
(* matches decides.  Rules next to each other with the same verdict that   *)
(* differ in one part only (a loop over networks, say) are one rule here.  *)

Accept == [dir |-> {"in", "out"}, iface |-> {"lo", "tun", "eth"},
           proto |-> {"udp", "tcp", "icmp", "icmp6"}, src |-> Address, dst |-> Address,
           sport |-> Ports, dport |-> Ports, icmp |-> IcmpTypes, est |-> BOOLEAN,
           accept |-> TRUE]
Drop == [Accept EXCEPT !.accept = FALSE]

In(r)  == [r EXCEPT !.dir = {"in"}]
Out(r) == [r EXCEPT !.dir = {"out"}]
check_iface(r, iface) == [r EXCEPT !.iface = {iface}]
check_net(r, end, net) == [r EXCEPT ![end] = net]
check_l4proto(r, proto) == [r EXCEPT !.proto = {proto}]
check_port(r, proto, end, port) == [check_l4proto(r, proto) EXCEPT ![end] = {port}]
check_endpoint(r, addr, port, e) ==
    check_port(check_net(r, addr, {e.addr}), e.proto, port, e.port)
check_icmp(r, types) == [check_l4proto(r, "icmp6") EXCEPT !.icmp = types]

Matches(r, p) == \A f \in {"dir", "iface", "proto", "src", "dst", "sport", "dport",
                           "icmp", "est"} : p[f] \in r[f]

\* The verdict: that of the first match; the chains' policy is to drop.
Passes(rs, p) ==
    LET matching == {i \in DOMAIN rs : Matches(rs[i], p)}
    IN  matching # {} /\ rs[Min(matching)].accept

-----------------------------------------------------------------------------
(* Linux: PolicyBatch.                                                     *)

\* An interface rule for each chain.
allow_interface_rule(iface) == <<check_iface(Accept, iface)>>

udp(r, sport, dport) == check_port(check_port(r, "udp", "sport", sport), "udp", "dport", dport)

add_dhcp_client_rules ==
    << check_net(udp(Out(Accept), DHCPV4_CLIENT_PORT, DHCPV4_SERVER_PORT), "dst", {"Broadcast"}),
       udp(In(Accept), DHCPV4_SERVER_PORT, DHCPV4_CLIENT_PORT),
       check_net(check_net(udp(Out(Accept), DHCPV6_CLIENT_PORT, DHCPV6_SERVER_PORT),
                           "src", IPV6_LINK_LOCAL), "dst", DHCPV6_SERVER_ADDRS),
       check_net(check_net(udp(In(Accept), DHCPV6_SERVER_PORT, DHCPV6_CLIENT_PORT),
                           "src", IPV6_LINK_LOCAL), "dst", IPV6_LINK_LOCAL),
       check_icmp(check_net(Out(Accept), "dst", {"RouterSol"}), {133}),
       check_icmp(check_net(In(Accept), "src", IPV6_LINK_LOCAL), {134, 137}) >>

\* Mutant: the peer's port and protocol are not looked at.
add_allow_host_rules(e) ==
    << [check_net(In(Accept), "src", {e.addr}) EXCEPT !.est = {TRUE}],
       check_net(Out(Accept), "dst", {e.addr}) >>

add_allow_endpoint_rules(e) ==
    << [check_endpoint(In(Accept), "src", "sport", e) EXCEPT !.est = {TRUE}],
       check_endpoint(Out(Accept), "dst", "dport", e) >>

IcmpProto(host) == IF host \in Remote4 THEN "icmp" ELSE "icmp6"

\* A rule for each chain and protocol; the hosts of one protocol share a rule.
add_allow_icmp_pingable_hosts(hosts) ==
    LET Rules(hs, proto) == << check_l4proto(check_net(Out(Accept), "dst", hs), proto),
                               check_l4proto(check_net(In(Accept), "src", hs), proto) >>
    IN  Rules({h \in hosts : IcmpProto(h) = "icmp"}, "icmp")
        \o Rules({h \in hosts : IcmpProto(h) = "icmp6"}, "icmp6")

Gateways(pol) == {"Gateway4"} \cup (IF pol.v6gateway THEN {"Gateway6"} ELSE {})

add_allow_dns_rule(proto, hosts) ==
    << check_net(check_port(check_iface(Out(Accept), "tun"), proto, "dport", DNS), "dst", hosts) >>

add_dns_rule(pol, proto) ==
    add_allow_dns_rule(proto, Gateways(pol))
    \o << check_port(Out(Drop), proto, "dport", DNS) >>

add_dhcp_server_rules ==
    << udp(Out(Accept), DHCPV4_SERVER_PORT, DHCPV4_CLIENT_PORT),
       check_net(udp(In(Accept), DHCPV4_CLIENT_PORT, DHCPV4_SERVER_PORT), "dst", {"Broadcast"}) >>

add_allow_lan_rules ==
    << check_net(Out(Accept), "dst", ALLOWED_LAN_NETS),
       check_net(In(Accept), "src", ALLOWED_LAN_NETS),
       check_net(Out(Accept), "dst", ALLOWED_LAN_MULTICAST_NETS) >> \o add_dhcp_server_rules

add_policy_specific_rules(pol) ==
    (CASE pol.kind = "Connecting" ->
              add_allow_icmp_pingable_hosts(pol.pingable) \o add_allow_endpoint_rules(pol.peer)
       [] pol.kind = "Connected" ->
              add_allow_endpoint_rules(pol.peer) \o add_dns_rule(pol, "udp")
              \o add_dns_rule(pol, "tcp") \o allow_interface_rule("tun")
       [] pol.kind = "Blocked" -> <<>>)
    \o (IF pol.allow_lan THEN add_allow_lan_rules ELSE <<>>)

finalize(pol) ==
    allow_interface_rule("lo") \o add_dhcp_client_rules \o add_policy_specific_rules(pol)

-----------------------------------------------------------------------------
(* macOS: every rule is quick, so the first match decides there too.       *)

get_allow_dhcp_client_rules ==
    << check_net(udp(Out(Accept), DHCPV4_CLIENT_PORT, DHCPV4_SERVER_PORT), "dst", {"Broadcast"}),
       check_net(udp(In(Accept), DHCPV4_SERVER_PORT, DHCPV4_CLIENT_PORT), "src", Remote4),
       check_net(check_net(udp(Out(Accept), DHCPV6_CLIENT_PORT, DHCPV6_SERVER_PORT),
                           "src", IPV6_LINK_LOCAL), "dst", DHCPV6_SERVER_ADDRS),
       check_net(check_net(udp(In(Accept), DHCPV6_SERVER_PORT, DHCPV6_CLIENT_PORT),
                           "src", IPV6_LINK_LOCAL), "dst", IPV6_LINK_LOCAL),
       check_l4proto(check_net(Out(Accept), "dst", {"RouterSol"}), "icmp6"),
       check_l4proto(check_net(In(Accept), "src", IPV6_LINK_LOCAL), "icmp6") >>

get_allow_relay_rule(e) == << check_endpoint(Out(Accept), "dst", "dport", e) >>

\* The port in the rule, 0, is not looked at for ICMP.
get_allow_pingable_hosts(hosts) == add_allow_icmp_pingable_hosts(hosts)

get_allow_tunnel_rule == << check_iface(Accept, "tun") >>

get_allow_lan_rules ==
    << check_net(Out(Accept), "dst", ALLOWED_LAN_NETS),
       check_net(In(Accept), "src", ALLOWED_LAN_NETS),
       check_net(Out(Accept), "dst", ALLOWED_LAN_MULTICAST_NETS),
       [check_net(Out(Accept), "dst", Remote4) EXCEPT
            !.sport = {DHCPV4_SERVER_PORT}, !.dport = {DHCPV4_CLIENT_PORT}],
       [check_net(In(Accept), "dst", {"Broadcast"}) EXCEPT
            !.sport = {DHCPV4_CLIENT_PORT}, !.dport = {DHCPV4_SERVER_PORT}] >>

get_policy_specific_rules(pol) ==
    (CASE pol.kind = "Connecting" ->
              get_allow_relay_rule(pol.peer) \o get_allow_pingable_hosts(pol.pingable)
       [] pol.kind = "Connected" ->
              add_allow_dns_rule("tcp", Gateways(pol)) \o add_allow_dns_rule("udp", Gateways(pol))
              \o << check_port(Out(Drop), "tcp", "dport", DNS),
                    check_port(Out(Drop), "udp", "dport", DNS) >>
              \o get_allow_relay_rule(pol.peer) \o get_allow_tunnel_rule
       [] pol.kind = "Blocked" -> <<>>)
    \o (IF pol.allow_lan THEN get_allow_lan_rules ELSE <<>>)

set_rules(pol) ==
    << check_iface(Accept, "lo") >> \o get_allow_dhcp_client_rules
    \o get_policy_specific_rules(pol) \o << Drop >>

-----------------------------------------------------------------------------
(* Windows: the policy goes to the winfw library as it is, except that the *)
(* hosts to ping are left out.  What the library makes of it is outside.   *)

winfw(pol) == [pol EXCEPT !.pingable = {}]

RulesOf(pl, pol) == IF pl = "linux" THEN finalize(pol) ELSE set_rules(pol)

-----------------------------------------------------------------------------
NoPolicy == [kind |-> "None"]

Init ==
    /\ platform \in Platforms
    /\ loaded = NoPolicy /\ anchored = FALSE
    /\ pf_enabled \in (IF platform = "macos" THEN BOOLEAN ELSE {FALSE})
    /\ pf_was_enabled = {} /\ pf_before = pf_enabled /\ restoreFailed = FALSE
    /\ policy = NoPolicy /\ outcome = "new"

\* Windows: WinFw_InitializeBlocked blocks before anything else has run.
InitializeBlocked ==
    /\ platform = "windows" /\ outcome = "new"
    /\ \E p \in Policies :
        /\ p.kind = "Blocked"
        /\ policy' = p /\ loaded' = winfw(p) /\ outcome' = "applied"
    /\ UNCHANGED <<platform, anchored, pf_enabled, pf_was_enabled, pf_before, restoreFailed>>

\* Linux: an interface may be gone when the batch is made, the batch may be refused
\* (it is applied as a whole or not at all), and looking whether our table is
\* there may fail although the rules are in force.
LinuxApply(pol) ==
    /\ platform = "linux"
    /\ \/ loaded' = pol /\ outcome' \in {"applied", "failed"}
       \/ loaded' = loaded /\ outcome' = "failed"
    /\ UNCHANGED <<anchored, pf_enabled, pf_was_enabled, restoreFailed>>

\* Mutant: the state of pf is remembered at every call.
enable_forgetting(ok) == pf_was_enabled' = {pf_enabled} /\ pf_enabled' = (ok \/ pf_enabled)

\* The state of pf is remembered the first time; enabling may fail after that.
enable(ok) ==
    /\ pf_was_enabled' = IF pf_was_enabled = {} THEN {pf_enabled} ELSE pf_was_enabled
    /\ pf_enabled' = (ok \/ pf_enabled)

\* macOS: enable, add_anchor and set_rules, each of which may fail.
MacosApply(pol) ==
    /\ platform = "macos"
    /\ \/ UNCHANGED <<loaded, anchored, pf_enabled, pf_was_enabled>> /\ outcome' = "failed"
       \/ \E ok \in BOOLEAN :
            enable(ok) /\ UNCHANGED <<loaded, anchored>> /\ outcome' = "failed"
       \/ /\ enable(TRUE) /\ anchored' = TRUE
          /\ \/ loaded' = loaded /\ outcome' = "failed"
             \/ loaded' = pol /\ outcome' = "applied"
    /\ UNCHANGED restoreFailed

\* Windows: setting the metric of the tunnel interface comes first, then winfw applies the
\* policy in one transaction.
WindowsApply(pol) ==
    /\ platform = "windows"
    /\ \/ loaded' = winfw(pol) /\ outcome' = "applied"
       \/ loaded' = loaded /\ outcome' = "failed"
    /\ UNCHANGED <<anchored, pf_enabled, pf_was_enabled, restoreFailed>>

apply_policy ==
    /\ \E pol \in Policies :
        /\ policy' = pol
        /\ LinuxApply(pol) \/ MacosApply(pol) \/ WindowsApply(pol)
    /\ UNCHANGED <<platform, pf_before>>

\* macOS: pf_was_enabled is taken whether or not pf can be put back.
restore_state(ok) ==
    /\ pf_was_enabled = {} => ok
    /\ pf_was_enabled' = {}
    /\ pf_enabled' \in (IF ok /\ pf_was_enabled # {} THEN pf_was_enabled ELSE {pf_enabled})
    /\ restoreFailed' = (restoreFailed \/ ~ok)

\* macOS: all three parts are tried; the first failure is the result.
MacosReset ==
    /\ platform = "macos"
    /\ \E flushed, removed, restored \in BOOLEAN :
        /\ loaded' = IF flushed THEN NoPolicy ELSE loaded
        /\ anchored' \in (IF removed THEN {FALSE} ELSE {anchored, FALSE})
        /\ restore_state(restored)
        /\ outcome' = IF flushed /\ removed /\ restored THEN "reset" ELSE "failed"

OtherReset ==
    /\ platform # "macos"
    /\ \/ loaded' = NoPolicy /\ outcome' = "reset"
       \/ loaded' = loaded /\ outcome' = "failed"
    /\ UNCHANGED <<anchored, pf_enabled, pf_was_enabled, restoreFailed>>

reset_policy ==
    /\ policy' = NoPolicy
    /\ MacosReset \/ OtherReset
    /\ UNCHANGED <<platform, pf_before>>

\* The daemon dies without resetting; a new Firewall starts on what is left.  (On
\* Windows, what survives is up to winfw.)
Crash ==
    /\ platform # "windows"
    /\ policy' = NoPolicy /\ outcome' = "new"
    /\ pf_was_enabled' = {} /\ pf_before' = pf_enabled /\ restoreFailed' = FALSE
    /\ UNCHANGED <<platform, loaded, anchored, pf_enabled>>

Next == InitializeBlocked \/ apply_policy \/ reset_policy \/ Crash

Spec == Init /\ [][Next]_vars

-----------------------------------------------------------------------------
(* What the rules promise.  The reference is the specification in the      *)
(* comment on FirewallPolicy (firewall/mod.rs), written as a predicate on  *)
(* packets.                                                                *)

IsDns(p) == p.dir = "out" /\ p.dport = DNS /\ p.proto \in {"udp", "tcp"}

\* On Linux the rules for DHCPv4 without an address do not look at the IP version.
V4(pl, addr) == pl = "linux" \/ addr \in Remote4

DhcpAllowed(pl, p) ==
    /\ p.proto = "udp"
    /\ \/ /\ p.dir = "out" /\ p.dst = "Broadcast"
          /\ p.sport = DHCPV4_CLIENT_PORT /\ p.dport = DHCPV4_SERVER_PORT
       \/ /\ p.dir = "in" /\ V4(pl, p.src)
          /\ p.sport = DHCPV4_SERVER_PORT /\ p.dport = DHCPV4_CLIENT_PORT
       \/ /\ p.dir = "out" /\ p.src \in IPV6_LINK_LOCAL /\ p.dst \in DHCPV6_SERVER_ADDRS
          /\ p.sport = DHCPV6_CLIENT_PORT /\ p.dport = DHCPV6_SERVER_PORT
       \/ /\ p.dir = "in" /\ p.src \in IPV6_LINK_LOCAL /\ p.dst \in IPV6_LINK_LOCAL
          /\ p.sport = DHCPV6_SERVER_PORT /\ p.dport = DHCPV6_CLIENT_PORT

\* On macOS the types of ICMPv6 are not looked at.
NdpAllowed(pl, p) ==
    /\ p.proto = "icmp6"
    /\ \/ p.dir = "out" /\ p.dst = "RouterSol" /\ (pl = "macos" \/ p.icmp = 133)
       \/ p.dir = "in" /\ p.src \in IPV6_LINK_LOCAL /\ (pl = "macos" \/ p.icmp \in {134, 137})

\* On macOS the rules for being a DHCP server do not look at the protocol.
LanAllowed(pl, p) ==
    \/ p.dir = "out" /\ p.dst \in ALLOWED_LAN_NETS \cup ALLOWED_LAN_MULTICAST_NETS
    \/ p.dir = "in" /\ p.src \in ALLOWED_LAN_NETS
    \/ /\ p.proto = "udp" \/ (pl = "macos" /\ p.proto = "tcp")
       /\ \/ /\ p.dir = "in" /\ p.dst = "Broadcast"
             /\ p.sport = DHCPV4_CLIENT_PORT /\ p.dport = DHCPV4_SERVER_PORT
          \/ /\ p.dir = "out" /\ V4(pl, p.dst)
             /\ p.sport = DHCPV4_SERVER_PORT /\ p.dport = DHCPV4_CLIENT_PORT

PeerAllowed(pol, p) ==
    /\ p.proto = pol.peer.proto
    /\ \/ p.dir = "out" /\ p.dst = pol.peer.addr /\ p.dport = pol.peer.port
       \/ p.dir = "in" /\ p.src = pol.peer.addr /\ p.sport = pol.peer.port

PingAllowed(pol, p) ==
    \E h \in pol.pingable : p.proto = IcmpProto(h) /\ h \in {p.src, p.dst}

TunnelAllowed(pol, p) ==
    p.iface = "tun" /\ (IsDns(p) => p.dst \in Gateways(pol))

Allowed(pl, pol, p) ==
    \/ p.iface = "lo" \/ DhcpAllowed(pl, p) \/ NdpAllowed(pl, p)
    \/ pol.kind # "Blocked" /\ PeerAllowed(pol, p)
    \/ pol.kind = "Connecting" /\ PingAllowed(pol, p)
    \/ pol.kind = "Connected" /\ TunnelAllowed(pol, p)
    \/ pol.allow_lan /\ LanAllowed(pl, p) /\ ~(pol.kind = "Connected" /\ IsDns(p))

\* What pf's rules are asked about: packets that start a flow.
Seen(pl) == IF pl = "macos" THEN {p \in Packets : ~p.est} ELSE Packets

\* The rules of every policy of every platform whose rules are built here, once each.
Passed == [pl \in Platforms \ {"windows"} |-> [pol \in Policies |->
              {p \in Seen(pl) : Passes(RulesOf(pl, pol), p)}]]

\* What is loaded is a policy that was applied, pf's state is remembered at most once, and
\* every variable has its type.
TypeOK ==
    /\ platform \in Platforms
    /\ loaded \in {NoPolicy} \cup Policies \cup {winfw(pol) : pol \in Policies}
    /\ anchored \in BOOLEAN /\ pf_enabled \in BOOLEAN /\ pf_before \in BOOLEAN
    /\ pf_was_enabled \in {{}, {TRUE}, {FALSE}}
    /\ policy \in {NoPolicy} \cup Policies
    /\ outcome \in {"new", "applied", "reset", "failed"}
    /\ restoreFailed \in BOOLEAN

InForce == loaded # NoPolicy /\ (platform = "macos" => pf_enabled /\ anchored)

\* After a call of apply_policy that succeeded, its policy's rules are in force, whatever
\* calls failed before it and whatever a crash has left behind.
AppliedIsEnforced ==
    outcome = "applied" => InForce /\ loaded = (IF platform = "windows" THEN winfw(policy) ELSE policy)

\* Whatever is let through while a policy is in force is allowed by the block/allow
\* specification: no packet slips through the order of the rules.
NothingElsePasses ==
    outcome = "applied" /\ platform # "windows" =>
        \A p \in Passed[platform][policy] : Allowed(platform, policy, p)

\* What the specification allows is let through.  Packets from the peer must belong to
\* a flow towards it, and macOS drops a new flow to a peer at port 53 once connected
\* (the rules against DNS come first).
AllowedPasses ==
    outcome = "applied" /\ platform # "windows" =>
        \A p \in Seen(platform) \ Passed[platform][policy] :
            Allowed(platform, policy, p) =>
                /\ policy.kind # "Blocked" /\ PeerAllowed(policy, p)
                /\ \/ p.dir = "in" /\ ~p.est
                   \/ platform = "macos" /\ policy.kind = "Connected" /\ IsDns(p)

\* A policy that was applied is enforced: exactly its traffic passes, up to the differences
\* named above, after whatever failures and crashes.
PolicyIsEnforced == TypeOK /\ AppliedIsEnforced /\ NothingElsePasses /\ AllowedPasses

\* A reset that succeeds leaves no rules and puts pf back as it was before this Firewall
\* first changed it, unless an earlier attempt to put it back has failed.
ResetRestores ==
    outcome = "reset" =>
        /\ ~InForce
        /\ platform = "macos" /\ ~restoreFailed => pf_enabled = pf_before

\* If the user had pf enabled, this Firewall never disables it, through failures and
\* repeated calls.
UsersPfStaysOn == pf_before => pf_enabled

\* The host's firewall is the user's again after a reset, and pf is never disabled for a user
\* who had it enabled.
HostFirewallIsGivenBack == ResetRestores /\ UsersPfStaysOn
=============================================================================
