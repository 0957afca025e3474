SPECIFICATION FairSpec
CONSTANTS
    t1 = t1
    t2 = t2
    Tunnels <- MCTunnels
    TunnelParameters <- MCOneParameters
    NoTunnel = NoTunnel
    NoParameters = NoParameters
    NoProxy = NoProxy
    RetryLimit = 2
    MaxCommands = 1
    MaxEvents = 1
    CommandReasons = {}
    Faults = {"start"}
INVARIANT
    DnsFollowsTunnel
PROPERTIES
    DisconnectingEnds
    LanSettingReachesFirewall
