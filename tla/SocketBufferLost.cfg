\* What is written of an upstream that closes in good order.
CONSTANTS
    Handshake <- MCHandshake
    ChunkSizes = {1, 2, 3}
    MaxBytes = 7
SPECIFICATION Spec
INVARIANT NeverLost
\* A relay may end.
CHECK_DEADLOCK FALSE
