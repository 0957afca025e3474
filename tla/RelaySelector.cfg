CONSTANTS
    Fallback = "fallback"
    ApiAddresses = {"api1", "api2"}
    BogusAddresses = {"10.0.0.1"}
    None = "None"
    MaxVersion = 2
    MaxTicks = 1
    MaxJumps = 1
    MaxBoots = 2
    MaxUpgrades = 1
    Lists <- MCLists
    PortBits = 2
    Port443 = 1
    Updates <- MCUpdates
    BridgeSettings <- MCBridgeSettings
    Attempts = {0, 2, 4, 5}
    MaxUpdates = 2
    Focused = TRUE
SPECIFICATION Spec
CHECK_DEADLOCK FALSE
INVARIANTS
    StartIsSound
    
PROPERTIES
    ListStaysFresh
