SPECIFICATION Spec
CONSTANTS
    t1 = t1
    t2 = t2
    Tunnels <- MCTunnels
    TunnelParameters <- MCParameters
    NoTunnel = NoTunnel
    NoParameters = NoParameters
    NoProxy = NoProxy
    RetryLimit = 2
    MaxCommands = 1
    MaxEvents = 1
    CommandReasons = {"SetDnsError"}
    Faults = {"firewall", "start", "tap", "cancel", "dns", "hangup", "deaf"}
CHECK_DEADLOCK FALSE
SYMMETRY Symmetry
INVARIANTS
    
    KillSwitch
    PolicyFitsState
    OneTunnel
    FollowsRequest
    OfflineIsKnown
PROPERTIES
    OpensOnlyWhenDown
    ImplementsProtection
