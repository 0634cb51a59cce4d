\* Two connections in every phase, three payload chunks each.
CONSTANTS
    Conns = {c1, c2}
    MaxChunks = 3
    MaxDown = 1
SYMMETRY Symmetry
SPECIFICATION Spec
INVARIANTS
    TypeOK
    FacesFollowClients
    TunnelCarries
    ToldBeforeData
\* Every connection may be over.
CHECK_DEADLOCK FALSE
