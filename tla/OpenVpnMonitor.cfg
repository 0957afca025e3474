SPECIFICATION Spec

CONSTANTS
    Proxies <- MCProxies
    Tries = 2
    Faults = {"wait", "kill", "server"}
INVARIANTS
    CredentialsLiveAsLongAsNeeded
    
PROPERTIES
    AllEndsTogether
