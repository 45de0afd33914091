----------------------------- MODULE MCProxies ------------------------------
(***************************************************************************)
(* What makes connections: the table of proxies and the choice among them, *)
(* WireGuard, accounts of a remote provider (intra/ipn), and the dialers   *)
(* that retry, split and remember addresses (intra/dialers), as a disjoint *)
(* union of components. part says which one runs; the others stay where    *)
(* they are. Fairness is stated per component, as the premise of what it   *)
(* promises to end.                                                        *)
(***************************************************************************)
EXTENDS Integers, Sequences

CONSTANTS Parts, Nil

VARIABLE part          \* the component that runs

On(p) == part = p

\* The table of proxies: one that is replaced, one that never is.
VARIABLES px_p, px_st, px_via, px_viaUp, px_hp, px_jobs, px_calls, px_eventch, px_told,
          px_ctxDone, px_stopPc
pxVars == <<px_p, px_st, px_via, px_viaUp, px_hp, px_jobs, px_calls, px_eventch, px_told,
            px_ctxDone, px_stopPc>>
Px == INSTANCE Proxies WITH
    Ids <- {"w1", "w2"}, Gens <- {0, 1}, Immutables <- {"w2"}, Gateways <- {"w1", "w2"},
    EventCap <- 1, MaxOps <- 2,
    p <- px_p, st <- px_st, via <- px_via, viaUp <- px_viaUp, hp <- px_hp,
    jobs <- px_jobs, calls <- px_calls, eventch <- px_eventch, told <- px_told,
    ctxDone <- px_ctxDone, stopPc <- px_stopPc
\* Goroutines run; calls, pauses and the end of the context may never come.
pxFair == /\ \A s \in Px!Slots : WF_pxVars(On("px") /\ Px!jobStep(s))
          /\ \A o \in Px!Objects : WF_pxVars(On("px") /\ Px!closeOnDone(o))
          /\ WF_pxVars(On("px") /\ Px!stopHops)
          /\ WF_pxVars(On("px") /\ Px!stopProxies)
          /\ WF_pxVars(On("px") /\ Px!processEvents)

\* Two calls that choose a proxy for a destination.
VARIABLES pt_reg, pt_uidPins, pt_ipPin, pt_calls, pt_nCalls, pt_nChanges
ptVars == <<pt_reg, pt_uidPins, pt_ipPin, pt_calls, pt_nCalls, pt_nChanges>>
Pt == INSTANCE ProxyTo WITH
    Remotes <- {"a", "b", "c", "d"}, Locals <- {"L"}, NoRoute <- {"b", "d"}, Circular <- {},
    NoH3 <- {"c", "d"}, Noops <- {}, H3 <- TRUE, Uids <- {1}, Callers <- {1, 2},
    Offers <- {<<"b">>, <<"d">>, <<"a", "b", "L">>, <<"c", "d">>}, MaxCalls <- 2, MaxChanges <- 0,
    reg <- pt_reg, uidPins <- pt_uidPins, ipPin <- pt_ipPin, calls <- pt_calls,
    nCalls <- pt_nCalls, nChanges <- pt_nChanges
\* Calls run on.
ptFair == \A c \in {1, 2} : WF_ptVars(On("pt") /\ Pt!step(c))

\* One call after another, while proxies come, go and fail.
VARIABLES pr_reg, pr_uidPins, pr_ipPin, pr_calls, pr_nCalls, pr_nChanges
prVars == <<pr_reg, pr_uidPins, pr_ipPin, pr_calls, pr_nCalls, pr_nChanges>>
Pr == INSTANCE ProxyTo WITH
    Remotes <- {"a", "d", "e"}, Locals <- {"L"}, NoRoute <- {}, Circular <- {"d"},
    NoH3 <- {}, Noops <- {"e"}, H3 <- FALSE, Uids <- {1}, Callers <- {1},
    Offers <- {<<"a">>, <<"a", "d", "L">>, <<"e", "a">>}, MaxCalls <- 2, MaxChanges <- 2,
    reg <- pr_reg, uidPins <- pr_uidPins, ipPin <- pr_ipPin, calls <- pr_calls,
    nCalls <- pr_nCalls, nChanges <- pr_nChanges

\* The Auto proxy: a race of exits.
VARIABLES au_up, au_remoteOnly, au_parallel, au_pin, au_status, au_call, au_n
auVars == <<au_up, au_remoteOnly, au_parallel, au_pin, au_status, au_call, au_n>>
Au == INSTANCE Auto WITH
    Calls <- {1}, Ops <- {"dial", "listen", "probe"}, MaxCalls <- 2,
    up <- au_up, remoteOnly <- au_remoteOnly, parallel <- au_parallel, pin <- au_pin,
    status <- au_status, call <- au_call, n <- au_n
\* Contestants are bounded by their timeouts.
auFair == /\ WF_auVars(On("au") /\ Au!caller(1))
          /\ WF_auVars(On("au") /\ Au!contestant(1))

\* A WireGuard proxy: two calls at a time.
VARIABLES wg_status, wg_via, wg_viaUp, wg_hole, wg_dev, wg_events, wg_ingress,
          wg_panicked, wg_netmtu, wg_desiredmtu, wg_mtu, wg_mtuVia, wg_now, wg_latestOpen,
          wg_latestRefresh, wg_latestPing, wg_threads, wg_calls
wgVars == <<wg_status, wg_via, wg_viaUp, wg_hole, wg_dev, wg_events, wg_ingress,
            wg_panicked, wg_netmtu, wg_desiredmtu, wg_mtu, wg_mtuVia, wg_now, wg_latestOpen,
            wg_latestRefresh, wg_latestPing, wg_threads, wg_calls>>
Wg == INSTANCE WgProxy WITH
    Threads <- {1, 2}, Reports <- {<<"Rcv", "none">>, <<"Rcv", "timeout">>, <<"Clo", "none">>},
    Kinds <- {"listen", "pause", "resume", "refresh", "hop", "unhop", "ping", "close", "notify"},
    NetMtus <- {1500}, DesiredMtus <- {1420}, ViaMtu <- 1300, MinMtu <- 1280,
    AgeThreshold <- 1, MinRefresh <- 1, PingThreshold <- 2, TNTAfter <- 1, MaxNow <- 2,
    MaxCalls <- 3, EventCap <- 4,
    status <- wg_status, via <- wg_via, viaUp <- wg_viaUp, hole <- wg_hole,
    dev <- wg_dev, events <- wg_events, ingress <- wg_ingress, panicked <- wg_panicked,
    netmtu <- wg_netmtu, desiredmtu <- wg_desiredmtu, mtu <- wg_mtu, mtuVia <- wg_mtuVia, now <- wg_now,
    latestOpen <- wg_latestOpen, latestRefresh <- wg_latestRefresh,
    latestPing <- wg_latestPing, threads <- wg_threads, calls <- wg_calls

\* Its mtu, while the network, the hop and the configuration change.
VARIABLES wm_status, wm_via, wm_viaUp, wm_hole, wm_dev, wm_events, wm_ingress,
          wm_panicked, wm_netmtu, wm_desiredmtu, wm_mtu, wm_mtuVia, wm_now, wm_latestOpen,
          wm_latestRefresh, wm_latestPing, wm_threads, wm_calls
wmVars == <<wm_status, wm_via, wm_viaUp, wm_hole, wm_dev, wm_events, wm_ingress,
            wm_panicked, wm_netmtu, wm_desiredmtu, wm_mtu, wm_mtuVia, wm_now, wm_latestOpen,
            wm_latestRefresh, wm_latestPing, wm_threads, wm_calls>>
Wm == INSTANCE WgProxy WITH
    Threads <- {1, 2}, Reports <- {}, Kinds <- {"refresh", "hop", "unhop", "update", "close"},
    NetMtus <- {1500, 1270}, DesiredMtus <- {1420, 1280}, ViaMtu <- 1400,
    MinMtu <- 1280, AgeThreshold <- 1, MinRefresh <- 1, PingThreshold <- 2,
    TNTAfter <- 1, MaxNow <- 2, MaxCalls <- 2, EventCap <- 4,
    status <- wm_status, via <- wm_via, viaUp <- wm_viaUp, hole <- wm_hole,
    dev <- wm_dev, events <- wm_events, ingress <- wm_ingress, panicked <- wm_panicked,
    netmtu <- wm_netmtu, desiredmtu <- wm_desiredmtu, mtu <- wm_mtu, mtuVia <- wm_mtuVia, now <- wm_now,
    latestOpen <- wm_latestOpen, latestRefresh <- wm_latestRefresh,
    latestPing <- wm_latestPing, threads <- wm_threads, calls <- wm_calls

\* Its sockets.
VARIABLES wc_sock, wc_live, wc_mu, wc_tries, wc_hole, wc_eps, wc_use6, wc_closed,
          wc_ended, wc_ctxDone, wc_quits, wc_obsCh, wc_sends, wc_ops
wcVars == <<wc_sock, wc_live, wc_mu, wc_tries, wc_hole, wc_eps, wc_use6, wc_closed,
            wc_ended, wc_ctxDone, wc_quits, wc_obsCh, wc_sends, wc_ops>>
Wc == INSTANCE WgConn WITH
    Senders <- {1}, Peers <- [a |-> {4, 6}, b |-> {4}], MaxTries <- 1, ObsCap <- 2,
    Prefer6 <- FALSE, MaxOps <- 3,
    sock <- wc_sock, live <- wc_live, mu <- wc_mu, tries <- wc_tries, hole <- wc_hole,
    eps <- wc_eps, use6 <- wc_use6, closed <- wc_closed, ended <- wc_ended,
    ctxDone <- wc_ctxDone, quits <- wc_quits, obsCh <- wc_obsCh, sends <- wc_sends,
    ops <- wc_ops
\* Open returns, and so does Close.
wcFair == /\ WF_wcVars(On("wc") /\ Wc!opening)
          /\ WF_wcVars(On("wc") /\ Wc!quitClose)

\* Segments: one sender, one receiver.
VARIABLES gs_sock, gs_hole, gs_closed, gs_tx, gs_cksum, gs_sends, gs_rx, gs_ops
gsVars == <<gs_sock, gs_hole, gs_closed, gs_tx, gs_cksum, gs_sends, gs_rx, gs_ops>>
Gs == INSTANCE WgGso WITH
    Senders <- {1}, MaxPayload <- 7,
    Batches <- UNION {[1..n -> 1..2] : n \in 1..3}
               \cup {<<1, 3>>, <<3, 1>>, <<3, 3, 1>>, <<3, 2, 1>>, <<3, 3, 3>>, <<2, 2, 3, 1, 1, 1>>},
    BufCap <- 6, MaxDatagrams <- 3, MaxLen <- 4, MaxOps <- 2,
    sock <- gs_sock, hole <- gs_hole, closed <- gs_closed, tx <- gs_tx,
    cksum <- gs_cksum, sends <- gs_sends, rx <- gs_rx, ops <- gs_ops

\* An account: updates against what the provider knows.
VARIABLES wn_keys, wn_addr, wn_rev, wn_cfg, wn_fresh, wn_active, wn_ops, wn_locs, wn_u,
          wn_nkey, wn_naddr, wn_updates
wnVars == <<wn_keys, wn_addr, wn_rev, wn_cfg, wn_fresh, wn_active, wn_ops, wn_locs, wn_u,
            wn_nkey, wn_naddr, wn_updates>>
Wn == INSTANCE RpnWin WITH
    Lists <- <<{"a"}, {"a", "b"}>>,
    OpsSet <- {[force |-> TRUE, rotate |-> FALSE, fetch |-> FALSE, excl |-> {}], [force |-> FALSE, rotate |-> TRUE, fetch |-> FALSE, excl |-> {"a"}]},
    MaxKeys <- 1, MaxUpdates <- 1, MaxAddr <- 2,
    keys <- wn_keys, addr <- wn_addr, rev <- wn_rev, cfg <- wn_cfg, fresh <- wn_fresh,
    active <- wn_active, ops <- wn_ops, locs <- wn_locs, u <- wn_u, nkey <- wn_nkey,
    naddr <- wn_naddr, updates <- wn_updates
\* An update runs on; the api answers or times out.
wnFair == WF_wnVars(On("wn") /\ Wn!step)

\* Its kids, one per country: two calls at a time.
VARIABLES ki_kids, ki_px, ki_main, ki_mainS, ki_reg, ki_job, ki_met, ki_calls
kiVars == <<ki_kids, ki_px, ki_main, ki_mainS, ki_reg, ki_job, ki_met, ki_calls>>
Ki == INSTANCE RpnKids WITH
    CCs <- {"a", "b", "c"}, Excluded <- {"c"}, Slots <- {1, 2, 3}, Apis <- {1, 2},
    Async <- {}, FailIn <- {1}, MaxCalls <- 3,
    kids <- ki_kids, px <- ki_px, main <- ki_main, mainS <- ki_mainS, reg <- ki_reg,
    job <- ki_job, met <- ki_met, calls <- ki_calls

\* The same beside an update, which forks the kids anew.
VARIABLES kj_kids, kj_px, kj_main, kj_mainS, kj_reg, kj_job, kj_met, kj_calls
kjVars == <<kj_kids, kj_px, kj_main, kj_mainS, kj_reg, kj_job, kj_met, kj_calls>>
Kj == INSTANCE RpnKids WITH
    CCs <- {"a", "b", "c"}, Excluded <- {"c"}, Slots <- {1, 2, 3}, Apis <- {1},
    Async <- {2}, FailIn <- {1}, MaxCalls <- 2,
    kids <- kj_kids, px <- kj_px, main <- kj_main, mainS <- kj_mainS, reg <- kj_reg,
    job <- kj_job, met <- kj_met, calls <- kj_calls
\* Goroutines run on.
kjFair == \A s \in {1, 2, 3} : WF_kjVars(On("kj") /\ Kj!step(s))

\* A protected host, dialed by two: its seed is dead.
VARIABLES ips_sets, ips_m, ips_dial, ips_tasks, ips_clears
ipsVars == <<ips_sets, ips_m, ips_dial, ips_tasks, ips_clears>>
Ips == INSTANCE IpMap WITH
    Dials <- {"a", "b"}, HostOf <- [t \in {"a", "b"} |-> "prot"], Seed <- [prot |-> {1}],
    Never <- {}, IPs <- {1, 2}, Alive <- {2}, Fam <- <<4, 4>>, Prefer <- {4},
    Answers4 <- {{2}, Nil}, Answers6 <- {Nil}, X <- <<{1}, {2}>>, FailLimit <- 1,
    MaxFails <- 5, MaxClears <- 1, SetIds <- {1, 2, 3},
    sets <- ips_sets, m <- ips_m, dial <- ips_dial, tasks <- ips_tasks,
    clears <- ips_clears

\* A host that may resolve to a stale address.
VARIABLES ipr_sets, ipr_m, ipr_dial, ipr_tasks, ipr_clears
iprVars == <<ipr_sets, ipr_m, ipr_dial, ipr_tasks, ipr_clears>>
Ipr == INSTANCE IpMap WITH
    Dials <- {"a"}, HostOf <- [t \in {"a"} |-> "reg"], Seed <- [reg |-> {}], Never <- {},
    IPs <- {1, 2}, Alive <- {2}, Fam <- <<4, 4>>, Prefer <- {4},
    Answers4 <- {{1}, {2}, Nil}, Answers6 <- {Nil}, X <- <<{1}, {2}>>, FailLimit <- 1,
    MaxFails <- 6, MaxClears <- 0, SetIds <- {1, 2},
    sets <- ipr_sets, m <- ipr_m, dial <- ipr_dial, tasks <- ipr_tasks,
    clears <- ipr_clears
\* Threads and goroutines run; lookups and dials that can do well do at times.
iprFair == /\ \A kind \in Ipr!Kinds : WF_iprVars(On("ipr") /\ Ipr!goroutine(kind))
           /\ WF_iprVars(On("ipr") /\ Ipr!step("a"))
           /\ SF_iprVars(On("ipr") /\ Ipr!resolvesAlive("a"))
           /\ SF_iprVars(On("ipr") /\ Ipr!connects("a"))

\* Beside a host that is never resolved.
VARIABLES ipn_sets, ipn_m, ipn_dial, ipn_tasks, ipn_clears
ipnVars == <<ipn_sets, ipn_m, ipn_dial, ipn_tasks, ipn_clears>>
Ipn == INSTANCE IpMap WITH
    Dials <- {"a", "b"}, HostOf <- [a |-> "self", b |-> "reg"],
    Seed <- [self |-> {1}, reg |-> {}], Never <- {"self"}, IPs <- {1, 2}, Alive <- {2},
    Fam <- <<4, 4>>, Prefer <- {4}, Answers4 <- {{1}, Nil}, Answers6 <- {Nil},
    X <- <<{1}, {2}>>, FailLimit <- 1, MaxFails <- 2, MaxClears <- 1, SetIds <- {1, 2},
    sets <- ipn_sets, m <- ipn_m, dial <- ipn_dial, tasks <- ipn_tasks,
    clears <- ipn_clears

\* A dial that is retried with another dialer.
VARIABLES re_conns, re_conn, re_idx, re_tee, re_retryCount, re_retryWriteErr,
          re_retryDone, re_readDone, re_writeDone, re_mu, re_up, re_sent, re_down,
          re_reads, re_shut, re_ippPin
reVars == <<re_conns, re_conn, re_idx, re_tee, re_retryCount, re_retryWriteErr,
            re_retryDone, re_readDone, re_writeDone, re_mu, re_up, re_sent, re_down,
            re_reads, re_shut, re_ippPin>>
Re == INSTANCE Retrier WITH
    Strat <- "auto", Retry <- "with", Dialers <- <<"a", "b">>, MaxRetries <- 2,
    Chunks <- 3, Reads <- 2, LateReads <- FALSE,
    conns <- re_conns, conn <- re_conn, idx <- re_idx, tee <- re_tee,
    retryCount <- re_retryCount, retryWriteErr <- re_retryWriteErr,
    retryDone <- re_retryDone, readDone <- re_readDone, writeDone <- re_writeDone,
    mu <- re_mu, up <- re_up, sent <- re_sent, down <- re_down, reads <- re_reads,
    shut <- re_shut, ippPin <- re_ippPin
\* Dials and first reads have a time limit of the retrier's own. That writes end
\* is assumed: only a first write has a deadline, the caller's if it set one
\* (retrier.go:576), and the others have none (434, 680).
reFair == /\ WF_reVars(On("re") /\ Re!upload)
          /\ WF_reVars(On("re") /\ Re!download)
          /\ WF_reVars(On("re") /\ Re!retryStep)

\* First writes, split.
VARIABLES sp_strat, sp_size, sp_tls, sp_used, sp_ttl, sp_cached, sp_pc, sp_ret, sp_wire,
          sp_broken
spVars == <<sp_strat, sp_size, sp_tls, sp_used, sp_ttl, sp_cached, sp_pc, sp_ret,
            sp_wire, sp_broken>>
Sp == INSTANCE Splitter WITH
    Writers <- {"x", "y"}, Copiers <- {"z"}, Sizes <- {0, 1, 11, 14},
    RecordLens <- {1, 2, 9}, HdrLen <- 5, TlsSplits <- {6, 8}, TcpSplits <- {7},
    PayloadLen <- 11, Ttls <- {0, 7}, NoopTtl <- 3,
    strat <- sp_strat, size <- sp_size, tls <- sp_tls, used <- sp_used, ttl <- sp_ttl,
    cached <- sp_cached, pc <- sp_pc, ret <- sp_ret, wire <- sp_wire,
    broken <- sp_broken
\* Writes return.
spFair == /\ WF_spVars(On("sp") /\ Sp!dial)
          /\ \A x \in {"x", "y", "z"} : WF_spVars(On("sp") /\ Sp!Step(x))

-----------------------------------------------------------------------------
\* The components that do not run stay in one initial state.
Init ==
    /\ part \in Parts
    /\ Px!Init
    /\ Pt!Init /\ (part # "pt" => \A i \in {"a", "b", "c", "d"} : pt_reg[i] = "ok")
    /\ Pr!Init /\ (part # "pr" => \A i \in {"a", "d", "e"} : pr_reg[i] = "ok")
    /\ Au!Init /\ (part # "au" => au_up = {"exit"} /\ au_remoteOnly /\ au_parallel)
    /\ Wg!Init /\ (part # "wg" => wg_netmtu = 1500 /\ wg_desiredmtu = 1420)
    /\ Wm!Init /\ (part # "wm" => wm_netmtu = 1500 /\ wm_desiredmtu = 1420)
    /\ Wc!Init
    /\ Gs!Init /\ (part # "gs" => gs_cksum)
    /\ Wn!Init /\ (part # "wn" => wn_fresh)
    /\ Ki!Init /\ (part # "ki" => ki_main = "a")
    /\ Kj!Init /\ (part # "kj" => kj_main = "a")
    /\ Ips!Init
    /\ Ipr!Init
    /\ Ipn!Init
    /\ Re!Init
    /\ Sp!Init /\ (part # "sp" => sp_strat = "tcp" /\ sp_size = 0 /\ sp_tls = Nil /\ sp_cached = Nil)

Next ==
    /\ UNCHANGED part
    /\ IF part = "px" THEN Px!Next ELSE UNCHANGED pxVars
    /\ IF part = "pt" THEN Pt!Next ELSE UNCHANGED ptVars
    /\ IF part = "pr" THEN Pr!Next ELSE UNCHANGED prVars
    /\ IF part = "au" THEN Au!Next ELSE UNCHANGED auVars
    /\ IF part = "wg" THEN Wg!Next ELSE UNCHANGED wgVars
    /\ IF part = "wm" THEN Wm!Next ELSE UNCHANGED wmVars
    /\ IF part = "wc" THEN Wc!Next ELSE UNCHANGED wcVars
    /\ IF part = "gs" THEN Gs!Next ELSE UNCHANGED gsVars
    /\ IF part = "wn" THEN Wn!Next ELSE UNCHANGED wnVars
    /\ IF part = "ki" THEN Ki!Next ELSE UNCHANGED kiVars
    /\ IF part = "kj" THEN Kj!Next ELSE UNCHANGED kjVars
    /\ IF part = "ips" THEN Ips!Next ELSE UNCHANGED ipsVars
    /\ IF part = "ipr" THEN Ipr!Next ELSE UNCHANGED iprVars
    /\ IF part = "ipn" THEN Ipn!Next ELSE UNCHANGED ipnVars
    /\ IF part = "re" THEN Re!Next ELSE UNCHANGED reVars
    /\ IF part = "sp" THEN Sp!Next ELSE UNCHANGED spVars

vars == <<part, pxVars, ptVars, prVars, auVars, wgVars, wmVars, wcVars, gsVars, wnVars,
          kiVars, kjVars, ipsVars, iprVars, ipnVars, reVars, spVars>>

Spec == Init /\ [][Next]_vars

-----------------------------------------------------------------------------
\* The type invariant of every component.
TypesOK ==
    /\ On("px") => Px!TypeOK
    /\ On("pt") => Pt!TypeOK
    /\ On("pr") => Pr!TypeOK
    /\ On("au") => Au!TypeOK
    /\ On("wg") => Wg!TypeOK
    /\ On("wm") => Wm!TypeOK
    /\ On("wc") => Wc!TypeOK
    /\ On("gs") => Gs!TypeOK
    /\ On("wn") => Wn!TypeOK
    /\ On("ki") => Ki!TypeOK
    /\ On("kj") => Kj!TypeOK
    /\ On("ips") => Ips!TypeOK
    /\ On("ipr") => Ipr!TypeOK
    /\ On("ipn") => Ipn!TypeOK
    /\ On("re") => Re!TypeOK
    /\ On("sp") => Sp!TypeOK

\* Whom to route by is known.
\* - proxies.go ProxyTo: at rest no pin names a proxy that cannot carry what is
\*   pinned to it, save one that lacks h3 too, and a call ends with a proxy or
\*   with a reason;
\* - rpn.go: kids in the books are those in the table, save where a fork and a
\*   purge of the same country met.
RoutesAreLive ==
    /\ On("pt") => Pt!PinsAreRoutable /\ Pt!AnswerOrReason
    /\ On("pr") => Pr!PinsAreRoutable /\ Pr!AnswerOrReason
    /\ On("ki") => Ki!BooksMatch
    /\ On("kj") => Kj!BooksMatch

\* wgconn2.go, wgconn.go, wgproxy.go: datagrams go out and come in one for one and in
\* order however they are coalesced and split; no socket is lost by an Open that
\* failed or raced; a device is not left down by a refresh.
WireIsAsSent ==
    /\ On("gs") => Gs!WireIsAsSent /\ Gs!SplitIsExact
    /\ On("wc") => Wc!NoSocketLeak
    /\ On("wg") => Wg!DeviceIsUp
    /\ On("wm") => Wm!DeviceIsUp

\* retrier.go, direct_split.go, split_and_desync.go, ipmap.go: what a dial keeps is
\* sound. The peer gets the stream that was written, though it was retried or
\* split; closes reach the conn in use and no other is left open; a protected host
\* keeps its seeds and confirms only an address it holds.
DialsKeepState ==
    /\ On("re") => /\ Re!StreamIsIntact /\ Re!ClosesReachFinal
                   /\ Re!OldConnsAreClosed /\ Re!PinIsOfFinal
    /\ On("sp") => Sp!SplitIsFaithful
    /\ On("ips") => Ips!SeedsAreKept /\ Ips!ConfirmedIsKnown
    /\ On("ipn") => Ipn!SeedsAreKept /\ Ipn!ConfirmedIsKnown

\* Steps nobody may take: the observer is told of no addition after a removal; a
\* stopped proxy does not come back, and a paused one only by Resume; an mtu that
\* is set leaves room for the header; an account makes no needless "/init" call.
NoStepBack ==
    /\ Px!RemovalIsLast
    /\ Au!EndHolds
    /\ Wg!EndAndPauseHold /\ Wm!MtuFits
    /\ Wn!NoNeedlessInit

\* A proxy that left the table is stopped; choosing a proxy, racing for one,
\* updating an account and moving its kids end; once a WireGuard proxy ends its
\* sockets are closed for good; a write returns while its conn is retried or its
\* first message split; a host with a stale address is dialed in the end.
CallsEnd ==
    /\ (On("px") /\ pxFair) => Px!ReplacedIsStopped
    /\ (On("pt") /\ ptFair) => Pt!CallsEnd
    /\ (On("au") /\ auFair) => Au!CallsEnd
    /\ (On("wc") /\ wcFair) => Wc!QuitCloses
    /\ (On("wn") /\ wnFair) => Wn!UpdatesEnd
    /\ (On("kj") /\ kjFair) => Kj!JobsEnd
    /\ (On("ipr") /\ iprFair) => Ipr!DialsRecover
    /\ (On("re") /\ reFair) => Re!WritesReturn
    /\ (On("sp") /\ spFair) => Sp!WritesReturn
=============================================================================
