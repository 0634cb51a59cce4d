\* A native node is all it takes.
CONSTANTS
    Handshake <- MCHandshake
    ChunkSizes = {1, 2, 3}
    MaxBytes = 4
    Kinds <- MCKinds
    Cap = 2
    CountLimit = 2
    MaxUp = 1
    MaxDown = 1
    MaxExtras = 0
SPECIFICATION ConnectFairSpec
PROPERTY UniformEnd
CHECK_DEADLOCK FALSE
