--------------------------- MODULE MCRelaySelector ---------------------------
EXTENDS RelaySelector

UdpAndTcp == {[port |-> 3, protocol |-> "udp"], [port |-> 1, protocol |-> "tcp"]}
MCRelay(name, country, weight, openvpn, wireguard, bridges, km) ==
    [name |-> name, country |-> country, city |-> "city", include_in_country |-> name # "d",
     weight |-> weight, openvpn |-> openvpn, wireguard |-> wireguard, bridges |-> bridges, km |-> km]

\* a has everything, b WireGuard only, c no weight, d is not for its country.
RelayA == MCRelay("a", "se", 2, UdpAndTcp, {<<<<1, 2>>, <<3, 3>>>>}, {"tcp"}, 5)
RelayB == MCRelay("b", "se", 1, {}, {<<<<2, 3>>>>}, {}, 1)
RelayC == MCRelay("c", "no", 0, UdpAndTcp, {}, {"tcp", "udp"}, 3)
RelayD == MCRelay("d", "no", 1, {[port |-> 2, protocol |-> "tcp"]}, {<<<<0, 3>>>>, <<<<1, 1>>>>}, {"tcp"}, 4)

MCLists == [v \in 0 .. 2 |-> CASE v = 0 -> <<>> [] v = 1 -> <<RelayB, RelayC, RelayD>>
                               [] v = 2 -> <<RelayC, RelayA, RelayB>>]

MCUpdates ==
    {[location |-> <<"no">>], [location |-> <<"no", "city", "d">>], [location |-> <<"se", "city">>],
     [tunnel_protocol |-> {"openvpn"}, openvpn |-> [port |-> Ports, protocol |-> {"tcp"}]],
     [tunnel_protocol |-> {"wireguard"}], [tunnel_protocol |-> {"wireguard"}, wireguard |-> {3}],
     [openvpn |-> [port |-> {1}, protocol |-> Protocols]]}

MCBridgeSettings ==
    {[kind |-> "normal", location |-> <<"no">>], [kind |-> "custom", location |-> <<>>]}
=============================================================================
