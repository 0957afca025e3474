SPECIFICATION DaemonSpec
CONSTANTS
    t1 = t1
    a1 = a1
    Tunnels <- MCTunnels
    TunnelParameters <- MCParameters
    NoTunnel = NoTunnel
    NoParameters = NoParameters
    NoProxy = NoProxy
    RetryLimit = 1
    MaxCommands = 2
    MaxEvents = 1
    CommandReasons = {}
    Faults = {}
    Accounts <- MCAccounts
    NoAccount = NoAccount
    EmptyAccount = EmptyAccount
    Requests <- MCSteering
    MaxQueue = 2
    InitialSettings <- MCDefaults
    OfflineMonitor = FALSE
    DaemonFaults = {"relay", "management", "save"}
CHECK_DEADLOCK FALSE
INVARIANTS
    OrdersFollowTarget
    SecuredIsSealed
    LoopAndMachineAgree
