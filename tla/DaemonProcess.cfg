CONSTANTS
    Accounts = {"account"}
    Clients = {"gui", "cli"}
    Capacity = 1
    MaxEvents = 2
    MaxChanges = 4
    MaxLaunches = 3
    MaxRequests = 2
    Scenarios = {"network", "settings", "clients", "service"}
SPECIFICATION Spec
CHECK_DEADLOCK FALSE
INVARIANTS
    NetworkIsKnown
    ClientsAreServed
PROPERTIES
    SettingsSurvive
    
