SPECIFICATION Spec
CONSTANTS
    Flows = {f1, f2}
    Protos = {"tcp"}
    Verdicts = {"allow"}
    Dsts = {d1}
    SmmchSize = 1
    MaxResets = 0
    MaxToggles = 0
INVARIANTS NoSendOnClosed
\* Flows are finite, and a handler that has ended or crashed does nothing.
CHECK_DEADLOCK FALSE
