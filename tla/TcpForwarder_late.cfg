SPECIFICATION Spec
CONSTANTS
    Conns = {g1}
    MaxInFlight = 1
PROPERTIES LateEstablishIsNoOp
\* Conns are finite, and a conn that is over is not used again.
CHECK_DEADLOCK FALSE
