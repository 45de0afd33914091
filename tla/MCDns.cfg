SPECIFICATION MCSpec
CONSTANTS
    Parts = {"al", "ak", "rs", "rq", "rf", "ca", "cb", "pl", "na", "nb", "md"}
    Nil = Nil
    Tids = {"t1", "t2"}
    Uids = {"u1", "none", "me"}
    NoTransport = "any"
    AnyIp = "zero"
    TidPrefix = {}
    UidSuffix = {}
    StaleThres = 2
    VacuumInterval = 1
    Domains = {"d1", "d2"}
    Ip4 = {"p", "q"}
    Ip6 = {"np"}
    AlgIps = {"a1", "a2", "b1"}
    GenIp <- Hashes
    MaxIter = 2
    FixedIps = {"p", "np"}
    Preset = "t2"
    FixedId = "t2"
    BlockAll = "ba"
    FixedTid = "fx"
    Unknown = "none"
    MyUid = "me"
    IdOf <- OwnId
    Nat64 <- LocalNat64
    Asks <- AppAsks
    Upstream <- AppUpstream
    Ttls = {1}
    MinTtl = 1
    AlgTtl = 2
    Calls = {1}
    MaxNow = 3
    MaxOps = 3
    Modes <- AppModes
    StopTids = {"t1"}
INVARIANTS TypesOK AlgIsUndone NamesAreGuarded TranslationIsUndone
PROPERTIES AsksEnd
CHECK_DEADLOCK FALSE
