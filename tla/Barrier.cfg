SPECIFICATION LiveSpec
CONSTANTS
    Keys = {k1}
    Calls = {1, 2, 3}
    NoCall = 0
    Ops = {"Do", "Go"}
    Outcomes = {"ok", "fail"}
    TTL = 2
    Neg = 1
    ReapThreshold = 3
    MaxReapIter = 0
    MaxNow = 0
INVARIANTS BoundedOverlap ClearedStaysEmpty
PROPERTIES PublishedIsFinal DoReturns
\* The calls are finite, and a work may hang.
CHECK_DEADLOCK FALSE
