SPECIFICATION FairDaemonSpec
CONSTANTS
    t1 = t1
    a1 = a1
    Tunnels <- MCTunnels
    TunnelParameters <- MCParameters
    NoTunnel = NoTunnel
    NoParameters = NoParameters
    NoProxy = NoProxy
    RetryLimit = 1
    MaxCommands = 1
    MaxEvents = 1
    CommandReasons = {}
    Faults = {}
    Accounts <- MCAccounts
    NoAccount = NoAccount
    EmptyAccount = EmptyAccount
    Requests <- MCShutdown
    MaxQueue = 1
    InitialSettings <- MCDefaults
    OfflineMonitor = FALSE
    DaemonFaults = {}
CHECK_DEADLOCK FALSE
PROPERTIES
    ShutdownCompletes
    AuthFailureIsRetried
