----------------------------- MODULE MCNetstack -----------------------------
(***************************************************************************)
(* What moves packets: the forwarders, the inbound dispatch, the link and  *)
(* the tunnel (intra/netstack, tunnel), the handlers of flows, and the     *)
(* expiring maps, the console and the logger they use, as a disjoint union *)
(* of components. part says which one runs; the others stay where they     *)
(* are. Fairness is stated per component, as the premise of what it        *)
(* promises to end.                                                        *)
(***************************************************************************)
EXTENDS TcpForwarder

CONSTANTS Parts, Nil

VARIABLE part          \* the component that runs

On(p) == part = p

\* The watchdog is a timer.
fwdFair == \A g \in Conns : WF_vars(On("fwd") /\ Watchdog(g))

\* Packets to a flow of IPv4: two processors, one for whole packets and one for
\* fragments; Slowdown may change who delivers them.
VARIABLES ib_q, ib_ready, ib_waker, ib_closer, ib_proc, ib_loop, ib_stack, ib_inFlight,
          ib_handler, ib_sent, ib_got, ib_stop, ib_single, ib_slow
ibVars == <<ib_q, ib_ready, ib_waker, ib_closer, ib_proc, ib_loop, ib_stack, ib_inFlight,
            ib_handler, ib_sent, ib_got, ib_stop, ib_single, ib_slow>>
Ib == INSTANCE Inbound WITH
    Procs <- {0, 1}, Flows <- {"f"},
    Hash <- [k \in {"f"} \X BOOLEAN |-> IF k[2] THEN {0} ELSE {1}],
    HappyEyeballs <- FALSE, MaxSlow <- 1,
    MaxPkts <- [frag \in BOOLEAN |-> IF frag THEN 1 ELSE 2],
    q <- ib_q, ready <- ib_ready, waker <- ib_waker, closer <- ib_closer,
    proc <- ib_proc, loop <- ib_loop, stack <- ib_stack, inFlight <- ib_inFlight,
    handler <- ib_handler, sent <- ib_sent, got <- ib_got, stop <- ib_stop,
    single <- ib_single, slow <- ib_slow
\* The loop, the processors and the handlers are goroutines Go keeps running.
ibFair == /\ WF_ibVars(On("ib") /\ Ib!wakeReady)
          /\ WF_ibVars(On("ib") /\ Ib!inlineDone)
          /\ WF_ibVars(On("ib") /\ Ib!stopped)
          /\ \A p \in {0, 1} : WF_ibVars(On("ib") /\ Ib!fetch(p))
          /\ \A r \in Ib!Runners : WF_ibVars(On("ib") /\ Ib!deliver(r))
          /\ WF_ibVars(On("ib") /\ Ib!handle("f"))

\* A flow of IPv6, whose fragments go to either processor, with happy eyeballs.
VARIABLES il_q, il_ready, il_waker, il_closer, il_proc, il_loop, il_stack, il_inFlight,
          il_handler, il_sent, il_got, il_stop, il_single, il_slow
ilVars == <<il_q, il_ready, il_waker, il_closer, il_proc, il_loop, il_stack, il_inFlight,
            il_handler, il_sent, il_got, il_stop, il_single, il_slow>>
Il == INSTANCE Inbound WITH
    Procs <- {0, 1}, Flows <- {"f"},
    Hash <- [k \in {"f"} \X BOOLEAN |-> IF k[2] THEN {0, 1} ELSE {1}],
    HappyEyeballs <- TRUE, MaxSlow <- 0,
    MaxPkts <- [frag \in BOOLEAN |-> IF frag THEN 1 ELSE 2],
    q <- il_q, ready <- il_ready, waker <- il_waker, closer <- il_closer,
    proc <- il_proc, loop <- il_loop, stack <- il_stack, inFlight <- il_inFlight,
    handler <- il_handler, sent <- il_sent, got <- il_got, stop <- il_stop,
    single <- il_single, slow <- il_slow
\* The loop, the processors and the handlers are goroutines Go keeps running.
ilFair == /\ WF_ilVars(On("il") /\ Il!wakeReady)
          /\ WF_ilVars(On("il") /\ Il!inlineDone)
          /\ WF_ilVars(On("il") /\ Il!stopped)
          /\ \A p \in {0, 1} : WF_ilVars(On("il") /\ Il!fetch(p))
          /\ \A r \in Il!Runners : WF_ilVars(On("il") /\ Il!deliver(r))
          /\ WF_ilVars(On("il") /\ Il!handle("f"))

\* A ping with the forwarder; pings share nothing but the flags of their handler.
VARIABLES ic_open, ic_ended, ic_p
icVars == <<ic_open, ic_ended, ic_p>>
Ic == INSTANCE Icmp WITH
    Pings <- {1}, Forwarding <- TRUE,
    open <- ic_open, ended <- ic_ended, p <- ic_p

\* A ping without it.
VARIABLES ip_open, ip_ended, ip_p
ipVars == <<ip_open, ip_ended, ip_p>>
Ip == INSTANCE Icmp WITH
    Pings <- {1}, Forwarding <- FALSE,
    open <- ip_open, ended <- ip_ended, p <- ip_p

\* The link: three tun fds, read inline.
VARIABLES se_link, se_ep, se_open, se_efd, se_loop, se_op, se_w, se_ops
seVars == <<se_link, se_ep, se_open, se_efd, se_loop, se_op, se_w, se_ops>>
Se == INSTANCE Seamless WITH
    Eps <- {1, 2, 3}, Fds <- {1, 2, 3}, First <- 1, Inline <- TRUE, MaxOps <- 4,
    link <- se_link, ep <- se_ep, open <- se_open, efd <- se_efd, loop <- se_loop,
    op <- se_op, w <- se_w, ops <- se_ops
\* A read of a tun fd returns once the fd is closed; operations and loops that
\* can go on do.
seFair == /\ WF_seVars(On("se") /\ Se!opstep)
          /\ \A f \in {1, 2, 3} : /\ WF_seVars(On("se") /\ Se!loopstep(f))
                                  /\ WF_seVars(On("se") /\ f \notin se_open /\ Se!loopEnds(f))

\* The same, with a queue.
VARIABLES sq_link, sq_ep, sq_open, sq_efd, sq_loop, sq_op, sq_w, sq_ops
sqVars == <<sq_link, sq_ep, sq_open, sq_efd, sq_loop, sq_op, sq_w, sq_ops>>
Sq == INSTANCE Seamless WITH
    Eps <- {1, 2, 3}, Fds <- {1, 2, 3}, First <- 1, Inline <- FALSE, MaxOps <- 4,
    link <- sq_link, ep <- sq_ep, open <- sq_open, efd <- sq_efd, loop <- sq_loop,
    op <- sq_op, w <- sq_w, ops <- sq_ops
\* A read of a tun fd returns once the fd is closed; operations and loops that
\* can go on do.
sqFair == /\ WF_sqVars(On("sq") /\ Sq!opstep)
          /\ \A f \in {1, 2, 3} : /\ WF_sqVars(On("sq") /\ Sq!loopstep(f))
                                  /\ WF_sqVars(On("sq") /\ f \notin sq_open /\ Sq!loopEnds(f))

\* A tunnel restarted by two callers.
VARIABLES tu_rts, tu_held, tu_g, tu_c, tu_echo, tu_pxmtu, tu_refreshes, tu_n, tu_pcap
tuVars == <<tu_rts, tu_held, tu_g, tu_c, tu_echo, tu_pxmtu, tu_refreshes, tu_n, tu_pcap>>
Tu == INSTANCE Tunnel WITH
    Callers <- {1, 2}, Gs <- {1, 2, 3}, ConnectMtus <- {2}, Mtus <- {2}, TunMtu <- 2,
    MaxChecks <- 2, MaxRestarts <- 2, MaxSets <- 0, MaxPcaps <- 0, MaxFails <- 0,
    rts <- tu_rts, held <- tu_held, g <- tu_g, c <- tu_c, echo <- tu_echo,
    pxmtu <- tu_pxmtu, refreshes <- tu_refreshes, n <- tu_n, pcap <- tu_pcap
\* A Restart goes on, and so does the goroutine that waits for the endpoint.
tuFair == /\ \A a \in {1, 2} : WF_tuVars(On("tu") /\ Tu!restart(a))
          /\ \A x \in {1, 2, 3} : WF_tuVars(On("tu") /\ Tu!waiter(x))

\* A tunnel whose first Connect may fail, and whose link, routes and capture change.
VARIABLES tp_rts, tp_held, tp_g, tp_c, tp_echo, tp_pxmtu, tp_refreshes, tp_n, tp_pcap
tpVars == <<tp_rts, tp_held, tp_g, tp_c, tp_echo, tp_pxmtu, tp_refreshes, tp_n, tp_pcap>>
Tp == INSTANCE Tunnel WITH
    Callers <- {1, 2}, Gs <- {1, 2, 3}, ConnectMtus <- {0, 2}, Mtus <- {2},
    TunMtu <- 2, MaxChecks <- 2, MaxRestarts <- 0, MaxSets <- 2, MaxPcaps <- 2, MaxFails <- 1,
    rts <- tp_rts, held <- tp_held, g <- tp_g, c <- tp_c, echo <- tp_echo,
    pxmtu <- tp_pxmtu, refreshes <- tp_refreshes, n <- tp_n, pcap <- tp_pcap

\* Two tcp flows, forwarded or blocked.
VARIABLES fl_proto, fl_flow, fl_ctxDone, fl_ending, fl_resetting, fl_resets, fl_status,
          fl_smmch, fl_smmClosed, fl_tracked, fl_looptracker, fl_looping, fl_toggles,
          fl_posted, fl_crashed
flVars == <<fl_proto, fl_flow, fl_ctxDone, fl_ending, fl_resetting, fl_resets, fl_status,
            fl_smmch, fl_smmClosed, fl_tracked, fl_looptracker, fl_looping, fl_toggles,
            fl_posted, fl_crashed>>
Fl == INSTANCE FlowHandler WITH
    Flows <- {"f1", "f2"}, Protos <- {"tcp"}, Verdicts <- {"block", "allow"},
    Dsts <- {"d1"}, SmmchSize <- 1, MaxResets <- 0, MaxToggles <- 0,
    proto <- fl_proto, flow <- fl_flow, ctxDone <- fl_ctxDone, ending <- fl_ending,
    resetting <- fl_resetting, resets <- fl_resets, status <- fl_status,
    smmch <- fl_smmch, smmClosed <- fl_smmClosed, tracked <- fl_tracked,
    looptracker <- fl_looptracker, looping <- fl_looping, toggles <- fl_toggles,
    posted <- fl_posted, crashed <- fl_crashed
\* Dials, handshakes, the resolver and the listener are bounded by timeouts, and
\* copying between conns that are closed ends; open conns may stay for good.
flFair == \A f \in {"f1", "f2"} : /\ WF_flVars(On("fl") /\ Fl!FlowStep(f))
                                  /\ WF_flVars(On("fl") /\ fl_flow[f].remote = "closed" /\ Fl!Piped(f))

\* One flow is of any kind, the other competes with it for the summary channel.
flBound == fl_flow["f2"].kind \in {"none", "tcp"}

\* An expiring sieve: two keys of a first-level key, two threads.
VARIABLES sv_m, sv_d, sv_inner, sv_thr, sv_now, sv_ops
svVars == <<sv_m, sv_d, sv_inner, sv_thr, sv_now, sv_ops>>
Sv == INSTANCE Sieve WITH
    Threads <- {1, 2}, Keys <- {"a", "b"}, Inners <- {1, 2}, Life <- 1,
    ReapThreshold <- 1, MaxNow <- 2, MaxOps <- 3,
    m <- sv_m, d <- sv_d, inner <- sv_inner, thr <- sv_thr, now <- sv_now, ops <- sv_ops
\* Reapers, callers and the clock go on.
svFair == /\ \A i \in {1, 2} : WF_svVars(On("sv") /\ Sv!reaper(i))
          /\ \A t \in {1, 2} : WF_svVars(On("sv") /\ Sv!step(t))
          /\ WF_svVars(On("sv") /\ Sv!Tick)

\* The console: two writers, buffers of two slots.
VARIABLES mc_buf, mc_active, mc_draining, mc_drains, mc_reader, mc_closed, mc_mapped,
          mc_mu, mc_w, mc_ticking, mc_tick, mc_recent, mc_other, mc_count
mcVars == <<mc_buf, mc_active, mc_draining, mc_drains, mc_reader, mc_closed, mc_mapped,
            mc_mu, mc_w, mc_ticking, mc_tick, mc_recent, mc_other, mc_count>>
Mc == INSTANCE MemConsole WITH
    Writers <- {"x", "y"}, Slots <- 2, MaxMsg <- 2, MaxLines <- 6, Traces <- {"y"},
    buf <- mc_buf, active <- mc_active, draining <- mc_draining, drains <- mc_drains,
    reader <- mc_reader, closed <- mc_closed, mapped <- mc_mapped, mu <- mc_mu,
    w <- mc_w, ticking <- mc_ticking, tick <- mc_tick, recent <- mc_recent,
    other <- mc_other, count <- mc_count
\* Writers, drains and the flusher are goroutines; nobody need close the console.
mcFair == /\ \A x \in {"x", "y"} : WF_mcVars(On("mc") /\ Mc!write(x))
          /\ WF_mcVars(On("mc") /\ (\E d \in mc_drains : Mc!consume(d)))
          /\ WF_mcVars(On("mc") /\ Mc!periodicFlush)
          /\ WF_mcVars(On("mc") /\ Mc!tickerEnd)
          /\ WF_mcVars(On("mc") /\ Mc!closeWaited)
          /\ WF_mcVars(On("mc") /\ Mc!closeEnd)

\* The logger: two threads, a queue of two.
VARIABLES lg_l1, lg_l2, lg_skips, lg_th, lg_q, lg_disp, lg_console, lg_cskips, lg_slabs,
          lg_rb, lg_head, lg_tail, lg_inC, lg_pool
lgVars == <<lg_l1, lg_l2, lg_skips, lg_th, lg_q, lg_disp, lg_console, lg_cskips,
            lg_slabs, lg_rb, lg_head, lg_tail, lg_inC, lg_pool>>
Lg == INSTANCE Logger WITH
    Threads <- {"x", "y"}, Width <- 8, Shift <- 3, Norm <- TRUE, QCap <- 2, RCap <- 3,
    MaxErrs <- 0, MaxSkips <- 1,
    l1 <- lg_l1, l2 <- lg_l2, skips <- lg_skips, th <- lg_th, q <- lg_q, disp <- lg_disp,
    console <- lg_console, cskips <- lg_cskips, slabs <- lg_slabs, rb <- lg_rb,
    head <- lg_head, tail <- lg_tail, inC <- lg_inC, pool <- lg_pool

\* Its ring of recent errors, which wraps.
VARIABLES ring_l1, ring_l2, ring_skips, ring_th, ring_q, ring_disp, ring_console,
          ring_cskips, ring_slabs, ring_rb, ring_head, ring_tail, ring_inC, ring_pool
ringVars == <<ring_l1, ring_l2, ring_skips, ring_th, ring_q, ring_disp, ring_console,
              ring_cskips, ring_slabs, ring_rb, ring_head, ring_tail, ring_inC,
              ring_pool>>
Ring == INSTANCE Logger WITH
    Threads <- {}, Width <- 8, Shift <- 3, Norm <- FALSE, QCap <- 1, RCap <- 4,
    MaxErrs <- 6, MaxSkips <- 0,
    l1 <- ring_l1, l2 <- ring_l2, skips <- ring_skips, th <- ring_th, q <- ring_q,
    disp <- ring_disp, console <- ring_console, cskips <- ring_cskips,
    slabs <- ring_slabs, rb <- ring_rb, head <- ring_head, tail <- ring_tail,
    inC <- ring_inC, pool <- ring_pool

-----------------------------------------------------------------------------
\* The components that do not run stay in one initial state.
MCInit ==
    /\ part \in Parts
    /\ Init
    /\ Ib!Init /\ (part # "ib" => ~ib_single)
    /\ Il!Init /\ (part # "il" => ~il_single)
    /\ Ic!Init /\ (part # "ic" => ic_open /\ ~ic_ended /\ \A i \in DOMAIN ic_p : ic_p[i].echo /\ ~ic_p[i].multi /\ ic_p[i].routed)
    /\ Ip!Init /\ (part # "ip" => ip_open /\ ~ip_ended /\ \A i \in DOMAIN ip_p : ip_p[i].echo /\ ~ip_p[i].multi /\ ip_p[i].routed)
    /\ Se!Init /\ se_link.e = 1
    /\ Sq!Init /\ sq_link.e = 1
    /\ Tu!Init
    /\ Tp!Init
    /\ Fl!Init /\ ~fl_looping
    /\ Sv!Init
    /\ Mc!Init
    /\ Lg!Init /\ (part # "lg" => ~lg_console)
    /\ Ring!Init /\ (part # "ring" => ~ring_console)

MCNext ==
    /\ UNCHANGED part
    /\ IF part = "fwd" THEN Next ELSE UNCHANGED vars
    /\ IF part = "ib" THEN Ib!Next ELSE UNCHANGED ibVars
    /\ IF part = "il" THEN Il!Next ELSE UNCHANGED ilVars
    /\ IF part = "ic" THEN Ic!Next ELSE UNCHANGED icVars
    /\ IF part = "ip" THEN Ip!Next ELSE UNCHANGED ipVars
    /\ IF part = "se" THEN Se!Next ELSE UNCHANGED seVars
    /\ IF part = "sq" THEN Sq!Next ELSE UNCHANGED sqVars
    /\ IF part = "tu" THEN Tu!Next ELSE UNCHANGED tuVars
    /\ IF part = "tp" THEN Tp!Next ELSE UNCHANGED tpVars
    /\ IF part = "fl" THEN Fl!Next /\ flBound' ELSE UNCHANGED flVars
    /\ IF part = "sv" THEN Sv!Next ELSE UNCHANGED svVars
    /\ IF part = "mc" THEN Mc!Next ELSE UNCHANGED mcVars
    /\ IF part = "lg" THEN Lg!Next ELSE UNCHANGED lgVars
    /\ IF part = "ring" THEN Ring!Next ELSE UNCHANGED ringVars

allvars == <<part, vars, ibVars, ilVars, icVars, ipVars, seVars, sqVars, tuVars, tpVars,
             flVars, svVars, mcVars, lgVars, ringVars>>

MCSpec == MCInit /\ [][MCNext]_allvars

-----------------------------------------------------------------------------
\* The type invariant of every component.
TypesOK ==
    /\ On("fwd") => TypeOK
    /\ On("ib") => Ib!TypeOK
    /\ On("il") => Il!TypeOK
    /\ On("ic") => Ic!TypeOK
    /\ On("ip") => Ip!TypeOK
    /\ On("se") => Se!TypeOK
    /\ On("sq") => Sq!TypeOK
    /\ On("tu") => Tu!TypeOK
    /\ On("tp") => Tp!TypeOK
    /\ On("fl") => Fl!TypeOK
    /\ On("sv") => Sv!TypeOK
    /\ On("mc") => Mc!TypeOK
    /\ On("lg") => Lg!TypeOK
    /\ On("ring") => Ring!TypeOK

\* What is taken is given back, in whatever order the parties run.
\* - icmpecho.go: each ping returns the packets it holds, and is answered once unless
\*   the wait for its answer timed out;
\* - seamless.go: no tun fd stays open that the link does not read, no fd has two
\*   readers, and the attached endpoint is read;
\* - tunnel.go: a stack a Restart made and could not swap in is closed;
\* - expiringmap.go: a map that was reclaimed has no reaper left.
NothingLeaks ==
    /\ On("ic") => Ic!RefsAreReturned /\ Ic!AnsweredOnce
    /\ On("ip") => Ip!RefsAreReturned /\ Ip!AnsweredOnce
    /\ On("se") => Se!NoFdLeak /\ Se!OneReader /\ Se!AttachedIsRead
    /\ On("sq") => Sq!NoFdLeak /\ Sq!OneReader /\ Sq!AttachedIsRead
    /\ On("tu") => Tu!NoStackLeak
    /\ On("tp") => Tp!NoStackLeak
    /\ On("sv") => Sv!NoReaperLeak

\* log/: a buffer has one owner at a time. The console's reader has its buffer to
\* itself, lines come out in order and each is written, dropped and counted, or
\* still buffered (memconsole.go); each slab of the logger is in one place, and the
\* cells of its ring of recent errors have theirs to themselves (logger.go, ring.go).
BuffersHaveOneOwner ==
    /\ On("mc") => Mc!ReaderIsAlone /\ Mc!LinesInOrder /\ Mc!LinesAreAccounted
    /\ On("lg") => Lg!SlabsAreReturned
    /\ On("ring") => Ring!RingIsLive

\* forwarders.go, udp.go: packets of a flow are delivered in the order in which they
\* were read, the whole ones and the fragments of IPv4 each, unless Slowdown changes
\* who delivers them while some are on their way.
FlowOrder == Ib!FlowOrder /\ Il!FlowOrder

\* A slot of the forwarder is freed; a queued packet is taken and its flow's slot
\* freed; Swap and Close of the link return; a tunnel that is disconnected closes;
\* a flow whose remote is closed ends, and one that is allowed is served; reapers
\* end; writes to the console return, unless a drain panics in what Close unmapped.
WaitsEnd ==
    /\ (On("fwd") /\ fwdFair) => SlotIsFreed
    /\ (On("ib") /\ ibFair) => Ib!QueuedIsTaken /\ Ib!SlotIsFreed
    /\ (On("il") /\ ilFair) => Il!SlotIsFreed
    /\ (On("se") /\ seFair) => Se!OpsEnd
    /\ (On("sq") /\ sqFair) => Sq!OpsEnd
    /\ (On("tu") /\ tuFair) => Tu!DisconnectEnds
    /\ (On("fl") /\ flFair) => Fl!ClosedFlowsEnd /\ Fl!FlowsAreServed
    /\ (On("sv") /\ svFair) => Sv!ReapersEnd
    /\ (On("mc") /\ mcFair) => Mc!WritesReturn
=============================================================================
