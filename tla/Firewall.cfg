SPECIFICATION Spec

CONSTANTS
    Platforms = {"linux", "macos", "windows"}
    Policies <- MCPolicies
INVARIANTS
    
    HostFirewallIsGivenBack
