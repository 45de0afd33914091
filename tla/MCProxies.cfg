SPECIFICATION Spec
CONSTANTS
    Parts = {"px", "pt", "pr", "au", "wg", "wm", "wc", "gs", "wn", "ki", "kj", "ips", "ipr", "ipn", "re", "sp"}
    Nil = Nil
INVARIANTS TypesOK RoutesAreLive WireIsAsSent DialsKeepState
PROPERTIES NoStepBack CallsEnd
CHECK_DEADLOCK FALSE
