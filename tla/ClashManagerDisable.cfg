\* README.md:76 against the code: a restart that awaits its own stop.
CONSTANTS
    p1 = p1
    p2 = p2
    u1 = u1
    None = None
    Unbound = Unbound
    Ambient = Ambient
    Native = Native
    Garbage = Garbage
    Ports <- MCPorts
    Urls <- MCUrls
    Configs <- MCTwoConfigs
    Requests <- AllRequests
    MaxQueue = 2
    MaxBodies = 1
SPECIFICATION FairSpec
PROPERTY
    DisablingRestores
CHECK_DEADLOCK FALSE
