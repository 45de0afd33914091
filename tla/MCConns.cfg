SPECIFICATION MCSpec
CONSTANTS
    Parts = {"conns", "um", "uw", "mt", "dx"}
    Nil = Nil
    Cids = {c1, c2}
    Uids = {u1, u2}
    Pids = {p1, p2}
    Conns = {k1, k2, k3}
    NoId = NoId
    Addrs = {a1, a2}
    OneAddr = {a1}
    MuxConns = {d1, d2, d3}
    Egress = {f1}
    Reader = reader
    MaxTimeoutErrors = 2
    Slots = {s1}
    Owners = {o1, o2}
    FirstOwner = o1
    Calls = {l1, l2, l3}
    OddCall = l3
    Muxers = {x1, x2}
    MaxResets = 1
    Bufs = {b1, b2}
    MaxSize = 2
    MaxInFlight = 1
    MaxOverflow = 1
INVARIANTS TypesOK NoConnIsLost IndicesAgree RoutesAreSound OneHolder
PROPERTIES UserIsClosed KeepsPromise WaitsEnd
CHECK_DEADLOCK FALSE
