SPECIFICATION Spec
CONSTANTS
    Slots = {s1}
    Uids = {u1}
    Calls = {c1, c2, c3}
    Muxers = {x1, x2, x3}
    Nil = Nil
    MaxResets = 1

PROPERTIES CallbacksSpareRunning
\* The calls of associate are finite.
CHECK_DEADLOCK FALSE
