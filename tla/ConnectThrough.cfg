\* Raw: four bytes of handshake and three of payload, cut everywhere.  Framed:
\* chunks of 2 bytes, a counter of 2 nonces: cut writes, a counter that runs out.
CONSTANTS
    Handshake <- MCHandshake
    ChunkSizes = {1, 2, 3}
    MaxBytes = 7
    Kinds <- MCKinds
    Cap = 2
    CountLimit = 2
    MaxUp = 3
    MaxDown = 2
    MaxExtras = 1
SPECIFICATION ConnectFairSpec
INVARIANTS
    ConnectTypeOK
    InOrder
    RelayStartsAfterHandshake
    NoMissedWakeup
    UpInOrder
    UpInStep
    NoncesFresh
    DownInOrder
    EndsComplete
PROPERTIES
    FacesCarryStreams
    SocketsEnd
    Relayed
    Reaped
    Answered
\* A connection may be over.
CHECK_DEADLOCK FALSE
