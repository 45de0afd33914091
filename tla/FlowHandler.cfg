SPECIFICATION Spec
CONSTANTS
    Flows = {f1, f2}
    Protos = {"tcp", "udp", "icmp"}
    Verdicts = {"block", "dns", "allow"}
    Dsts = {d1}
    SmmchSize = 1
    MaxResets = 1
    MaxToggles = 1
SYMMETRY Symmetry
INVARIANTS ConnsClosed TrackedAreLive OneSummary NoLoopsLeft
\* Flows are finite, and a handler that has ended or crashed does nothing.
CHECK_DEADLOCK FALSE
