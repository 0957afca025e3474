SPECIFICATION DaemonSpec
CONSTANTS
    t1 = t1
    a1 = a1
    Tunnels <- MCTunnels
    TunnelParameters <- MCParameters
    NoTunnel = NoTunnel
    NoParameters = NoParameters
    NoProxy = NoProxy
    RetryLimit = 1
    MaxCommands = 1
    MaxEvents = 1
    CommandReasons = {}
    Faults = {}
    Accounts <- MCAccounts
    NoAccount = NoAccount
    EmptyAccount = EmptyAccount
    Requests <- MCSettings
    MaxQueue = 1
    InitialSettings <- MCDefaults
    OfflineMonitor = TRUE
    DaemonFaults = {}
CHECK_DEADLOCK FALSE
INVARIANTS
    OrdersFollowTarget
    SettingsTakeEffect
