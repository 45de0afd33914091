SPECIFICATION WorkSpec
CONSTANTS
    Keys = {k1}
    Calls = {1, 2}
    NoCall = 0
    Ops = {"Go"}
    Outcomes = {"ok", "panic"}
    TTL = 2
    Neg = 1
    ReapThreshold = 2
    MaxReapIter = 0
    MaxNow = 1
PROPERTIES DuplicateReturns
CHECK_DEADLOCK FALSE
