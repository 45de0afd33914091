SPECIFICATION Spec
CONSTANTS
    Parts = {"do", "dp", "ds", "dh", "de", "dw", "od", "dm", "dr", "dc", "dq", "mh"}
    Nil = Nil
    OdThreads = {1, 2}
    OdMaxKey = 2
    OdMaxNow = 1
    OdTtl = 1
    DcAttempts = {1, 2}
    DcRtts = {1, 2}
    DcSerials = {0, 1}
    DcMaxCerts = 2
    DqQueries = {1}
    DqMaxRoutes = 1
    DqMaxUdpTries = 2
    DmIds = {"a"}
    DmRelays = {"r"}
    DmApis = {1, 2}
    DmRouteJobs = {1, 2}
    DmMaxTries = 2
    DmMaxStops = 1
    DmMaxCalls = 2
    DmMaxEnv = 1
    MhHosts = {"a", "b"}
    MhNamed = {"a", "b"}
    MhRefreshers = {1, 2}
    MhBuilders = {3}
    MhMaxVer = 2
    MhMaxCalls = 2
INVARIANTS TypesOK OneOwner AnswersAreSound
PROPERTIES RecheckIsSpaced ExchangesEnd
CHECK_DEADLOCK FALSE
