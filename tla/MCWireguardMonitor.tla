------------------------- MODULE MCWireguardMonitor -------------------------
EXTENDS WireguardMonitor

All(f) == [fam |-> f, net |-> "all"]

\* The parameters the daemon makes for both kinds of relay address; one without IPv6, and
\* custom ones that leave nothing to route or no address.
MCParams ==
    {[mtu |-> 1420, enable_ipv6 |-> TRUE, addresses |-> {"v4"}, gateways |-> {"v4", "v6"},
      allowed_ips |-> {All("v4")}, peer |-> "v4"],
     [mtu |-> 1419, enable_ipv6 |-> TRUE, addresses |-> {"v4", "v6"}, gateways |-> {"v4", "v6"},
      allowed_ips |-> {All("v4"), All("v6")}, peer |-> "v6"],
     [mtu |-> 1420, enable_ipv6 |-> FALSE, addresses |-> {"v4"}, gateways |-> {"v4"},
      allowed_ips |-> {All("v6")}, peer |-> "v4"],
     [mtu |-> 1420, enable_ipv6 |-> FALSE, addresses |-> {"v6"}, gateways |-> {"v4"},
      allowed_ips |-> {[fam |-> "v4", net |-> "lan"]}, peer |-> "v4"]}

Wlan  == [fam |-> "v4", dev |-> "wlan", metric |-> 600]
Eth   == [fam |-> "v4", dev |-> "eth", metric |-> 100]
Wlan6 == [fam |-> "v6", dev |-> "wlan", metric |-> 1024]

MCDefaultRoutes == {Wlan, Eth, Wlan6}
MCInitialDefaults == {{}, {Wlan}, MCDefaultRoutes}
=============================================================================
