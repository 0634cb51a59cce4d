\* Every request, at most three operations pending.
CONSTANTS
    p1 = p1
    p2 = p2
    u1 = u1
    None = None
    Unbound = Unbound
    Ambient = Ambient
    Native = Native
    Garbage = Garbage
    Ports <- MCPorts
    Urls <- MCUrls
    Configs <- MCConfigs
    Requests <- AllRequests
    MaxQueue = 3
    MaxBodies = 1
SPECIFICATION FairSpec
INVARIANTS
    TypeOK
    SnapshotsAreOriginal
    ChannelsLive
    SettledStates
    DisabledIsClean
    DisposedIsClean
PROPERTIES
    ImplementsScopedInjection
    OperationsSettle
    DisposeRestores
    RestoresDangling
\* A disposed plugin whose queue has drained does nothing more.
CHECK_DEADLOCK FALSE
