CONSTANTS
    Platforms = {"linux", "macos"}
    DefaultRoutes <- MCDefaultRoutes
    InitialDefaults <- MCInitialDefaults
    MaxHostChanges = 2
    Faults = {"device", "listener", "notice", "spawn", "command"}
    Params <- MCParams
SPECIFICATION Spec
CHECK_DEADLOCK FALSE

    
    
PROPERTIES
    ClosedTunnelEnds
