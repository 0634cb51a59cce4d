\* The body of an absolute-form request.
CONSTANTS
    Conns = {c1}
    MaxChunks = 2
    MaxDown = 1
SPECIFICATION Spec
INVARIANT BodyForwarded
CHECK_DEADLOCK FALSE
