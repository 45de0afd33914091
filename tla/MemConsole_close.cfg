SPECIFICATION Spec
CONSTANTS
    Writers = {"x", "y"}
    Slots = 2
    MaxMsg = 2
    MaxLines = 3
    Traces = {}
    Nil = Nil
INVARIANT DrainsEndFirst
CHECK_DEADLOCK FALSE
