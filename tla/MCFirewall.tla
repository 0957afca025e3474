----------------------------- MODULE MCFirewall -----------------------------
(* Peers of both protocols, and one at the port of DNS; every kind of       *)
(* policy with and without LAN, IPv6 in the tunnel and hosts to ping.       *)
EXTENDS Firewall

MCPeers == {[addr |-> "Peer", proto |-> "udp", port |-> 1194],
            [addr |-> "Peer", proto |-> "tcp", port |-> 443],
            [addr |-> "Peer", proto |-> "udp", port |-> 53]}

MCPolicies ==
    {Policy("Connecting", e, h, FALSE, lan) :
        e \in MCPeers, h \in {{}, {"Gateway4", "Gateway6"}}, lan \in BOOLEAN}
    \cup {Policy("Connected", e, {}, v6, lan) :
        e \in MCPeers, v6 \in BOOLEAN, lan \in BOOLEAN}
    \cup {Policy("Blocked", [addr |-> "Peer", proto |-> "udp", port |-> 1194], {}, FALSE, lan) :
        lan \in BOOLEAN}
=============================================================================
