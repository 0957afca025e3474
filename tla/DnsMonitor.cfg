CONSTANTS
    Platforms = {"linux", "macos", "windows"}
    Hosts <- MCHosts
    Ours = {"ours1", "ours2"}
    Theirs = {"host1", "host2"}
    None = "None"
    MaxHostChanges = 2
    MaxCrashes = 1
    Faults = {"write", "remove"}
SPECIFICATION Spec
INVARIANTS
    OurServersAreInForce
    
PROPERTIES
    ChangesAreUndone
