SPECIFICATION MCSpec
CONSTANTS
    Parts = {"fwd", "ib", "il", "ic", "ip", "se", "sq", "tu", "tp", "fl", "sv", "mc", "lg", "ring"}
    Nil = Nil
    Conns = {g1, g2}
    MaxInFlight = 1
INVARIANTS TypesOK CompletedOnce ServedHoldsNoSlot NothingLeaks BuffersHaveOneOwner
PROPERTIES FlowOrder WaitsEnd
CHECK_DEADLOCK FALSE
