\* index.js:34 against the code: a restart replaces the server without stopping it.
CONSTANTS
    p1 = p1
    p2 = p2
    u1 = u1
    None = None
    Unbound = Unbound
    Ambient = Ambient
    Native = Native
    Garbage = Garbage
    Ports <- MCPorts
    Urls <- MCUrls
    Configs <- MCConfigs
    Requests <- AllRequests
    MaxQueue = 3
    MaxBodies = 1
SPECIFICATION Spec
INVARIANT DisabledNoProxyListens
CHECK_DEADLOCK FALSE
