------------------------------- MODULE UdpMux -------------------------------
(***************************************************************************)
(* The control plane of one muxer (intra/udpmux.go): the reader, the       *)
(* awaiter, the goroutine that watches each demuxed conn, the egress flows *)
(* that ask for a route, and stop.                                         *)
(*                                                                         *)
(* dxconns is unbuffered and both its ends select on doneCh too.  A select *)
(* locks all of its channels, and closing doneCh wakes whoever is parked   *)
(* on it, so no conn changes hands over dxconns once doneCh is closed.     *)
(***************************************************************************)
EXTENDS Integers, FiniteSets

CONSTANTS
    Addrs,      \* remote addresses
    Conns,      \* demuxed conns that a behaviour can make
    Egress,     \* flows that call route(..., egress)
    Reader,     \* the goroutine in readers()
    Nil,        \* no conn, no address, no holder of the mutex
    MaxTimeoutErrors

Routers == Egress \cup {Reader}

\* What the constants are, for the proofs.
UdpMuxConstants ==
    /\ IsFiniteSet(Conns)
    /\ IsFiniteSet(Egress)
    /\ Nil \notin Conns \cup Addrs \cup Routers
    /\ "select" \notin Conns /\ "done" \notin Conns
    /\ MaxTimeoutErrors \in Nat \ {0}

VARIABLES
    doneCh,     \* x.doneCh is closed
    mxopen,     \* x.mxconn is open
    rmu,        \* who holds x.rmu for writing between two steps
    routes,     \* x.routes
    conn,       \* conn -> "none", "made", "open" (in routes), "closed"
    key,        \* conn -> the remote address it was made for
    vend,       \* conn -> x.vnd is to be called for it
    watch,      \* conn -> the goroutine waiting for it to close
    wg,         \* the counter of x.dxconnWG
    router,     \* router -> where it is in route()
    timeouts,   \* timeouterrors of readers()
    awaiter,    \* "select", "done", or the conn received and not yet accepted
    stop        \* where x.once.Do is

vars == <<doneCh, mxopen, rmu, routes, conn, key, vend, watch, wg, router,
          timeouts, awaiter, stop>>

StopSteps == {"idle", "called", "drain", "close", "wait", "parked", "woken", "cb",
              "done", "panicked"}

RouterStates ==
    [pc : {"idle", "find", "lock", "select", "put", "end"}, to : Addrs \cup {Nil}, c : Conns \cup {Nil}]

AtRest == [pc |-> "idle", to |-> Nil, c |-> Nil]

TypeOK ==
    /\ doneCh \in BOOLEAN
    /\ mxopen \in BOOLEAN
    /\ rmu \in Routers \cup {Nil}
    /\ routes \in [Addrs -> Conns \cup {Nil}]
    /\ conn \in [Conns -> {"none", "made", "open", "closed"}]
    /\ key \in [Conns -> Addrs \cup {Nil}]
    /\ vend \in [Conns -> BOOLEAN]
    /\ watch \in [Conns -> {"none", "watching", "unrouted", "over"}]
    /\ wg \in Nat
    /\ router \in [Routers -> RouterStates]
    /\ timeouts \in 0..MaxTimeoutErrors
    /\ awaiter \in {"select", "done"} \cup Conns
    /\ stop \in StopSteps

Init ==
    /\ doneCh = FALSE
    /\ mxopen = TRUE
    /\ rmu = Nil
    /\ routes = [a \in Addrs |-> Nil]
    /\ conn = [c \in Conns |-> "none"]
    /\ key = [c \in Conns |-> Nil]
    /\ vend = [c \in Conns |-> FALSE]
    /\ watch = [c \in Conns |-> "none"]
    /\ wg = 0
    /\ router = [r \in Routers |-> AtRest]
    /\ timeouts = 0
    /\ awaiter = "select"
    /\ stop = "idle"

-----------------------------------------------------------------------------
(* route *)

\* The conns are bounded: a route is asked for only if one is left to make.
Spare ==
    Cardinality({c \in Conns : conn[c] = "none"})
      > Cardinality({r \in Routers : router[r].pc \in {"find", "lock"}})

\* associate has a muxer and calls route(cid, dst, egress).
Ask(r, a) ==
    /\ r # Reader
    /\ router[r].pc = "idle"
    /\ Spare
    /\ router' = [router EXCEPT ![r].pc = "find", ![r].to = a]
    /\ UNCHANGED <<doneCh, mxopen, rmu, routes, conn, key, vend, watch, wg, timeouts, awaiter, stop>>

\* ReadFrom returns a packet; readers() calls route(todoCid, who, ingress).
ReadPacket(a) ==
    /\ router[Reader].pc = "idle"
    /\ mxopen
    /\ Spare
    /\ timeouts' = 0
    /\ router' = [router EXCEPT ![Reader].pc = "find", ![Reader].to = a]
    /\ UNCHANGED <<doneCh, mxopen, rmu, routes, conn, key, vend, watch, wg, awaiter, stop>>

\* findRoute under the read lock: an existing conn is returned as it is.
findRoute(r) ==
    /\ router[r].pc = "find"
    /\ rmu = Nil
    /\ router' = IF routes[router[r].to] # Nil
                   THEN [router EXCEPT ![r] = AtRest]
                   ELSE [router EXCEPT ![r].pc = "lock"]
    /\ UNCHANGED <<doneCh, mxopen, rmu, routes, conn, key, vend, watch, wg, timeouts, awaiter, stop>>

\* A conn for the address that r wants a route to; r enters its select.
newLocked(r) ==
    LET c == CHOOSE d \in Conns : conn[d] = "none" IN
    /\ conn' = [conn EXCEPT ![c] = "made"]
    /\ key' = [key EXCEPT ![c] = router[r].to]
    /\ router' = [router EXCEPT ![r].pc = "select", ![r].c = c]

\* rmu.Lock and the second look; newLocked when there is still no route.
RouteLock(r) ==
    /\ router[r].pc = "lock"
    /\ rmu = Nil
    /\ \/ /\ routes[router[r].to] # Nil
          /\ router' = [router EXCEPT ![r] = AtRest]
          /\ UNCHANGED <<rmu, conn, key>>
       \/ /\ routes[router[r].to] = Nil
          /\ newLocked(r)
          /\ rmu' = r
    /\ UNCHANGED <<doneCh, mxopen, routes, vend, watch, wg, timeouts, awaiter, stop>>

\* case x.dxconns <- conn: the awaiter takes it; the mutex is still held.
RouteSend(r) ==
    /\ router[r].pc = "select"
    /\ awaiter = "select"
    /\ ~doneCh
    /\ awaiter' = router[r].c
    /\ router' = [router EXCEPT ![r].pc = "put"]
    /\ UNCHANGED <<doneCh, mxopen, rmu, routes, conn, key, vend, watch, wg, timeouts, stop>>

\* ... x.routes[to] = conn, the vend of an ingress conn, and rmu.Unlock.
RoutePut(r) ==
    LET c == router[r].c IN
    /\ router[r].pc = "put"
    /\ routes' = [routes EXCEPT ![router[r].to] = c]
    /\ conn' = [conn EXCEPT ![c] = "open"]
    /\ vend' = [vend EXCEPT ![c] = (r = Reader)]
    /\ rmu' = Nil
    /\ router' = [router EXCEPT ![r] = AtRest]
    /\ UNCHANGED <<doneCh, mxopen, key, watch, wg, timeouts, awaiter, stop>>

\* case <-x.doneCh: the new conn is closed and there is no route.
RouteDone(r) ==
    /\ router[r].pc = "select"
    /\ doneCh
    /\ conn' = [conn EXCEPT ![router[r].c] = "closed"]
    /\ rmu' = Nil
    /\ router' = [router EXCEPT ![r] = AtRest]
    /\ UNCHANGED <<doneCh, mxopen, routes, key, vend, watch, wg, timeouts, awaiter, stop>>

\* x.vnd returns; on an error the conn is closed.
Vend(c, ok) ==
    /\ vend[c]
    /\ vend' = [vend EXCEPT ![c] = FALSE]
    /\ conn' = IF ok THEN conn ELSE [conn EXCEPT ![c] = "closed"]
    /\ UNCHANGED <<doneCh, mxopen, rmu, routes, key, watch, wg, router, timeouts, awaiter, stop>>

\* The flow that owns the conn closes it (demuxconn.Close).
Close(c) ==
    /\ conn[c] = "open"
    /\ conn' = [conn EXCEPT ![c] = "closed"]
    /\ UNCHANGED <<doneCh, mxopen, rmu, routes, key, vend, watch, wg, router, timeouts, awaiter, stop>>

-----------------------------------------------------------------------------
(* readers *)

\* ReadFrom times out; the deadline is extended a few times in a row.
ReadTimeout ==
    /\ router[Reader].pc = "idle"
    /\ mxopen
    /\ timeouts' = timeouts + 1
    /\ IF timeouts + 1 < MaxTimeoutErrors
         THEN UNCHANGED <<router, stop>>
         ELSE /\ router' = [router EXCEPT ![Reader].pc = "end"]
              /\ stop' = IF stop = "idle" THEN "called" ELSE stop
    /\ UNCHANGED <<doneCh, mxopen, rmu, routes, conn, key, vend, watch, wg, awaiter>>

\* ReadFrom fails, as it must once mxconn is closed: the deferred stop runs.
ReadError ==
    /\ router[Reader].pc = "idle"
    /\ router' = [router EXCEPT ![Reader].pc = "end"]
    /\ stop' = IF stop = "idle" THEN "called" ELSE stop
    /\ UNCHANGED <<doneCh, mxopen, rmu, routes, conn, key, vend, watch, wg, timeouts, awaiter>>

-----------------------------------------------------------------------------
(* awaiters *)

\* x.dxconnWG.Add(1), and a goroutine that waits for the conn to close.
Accept ==
    /\ awaiter \in Conns
    /\ wg' = wg + 1
    /\ watch' = [watch EXCEPT ![awaiter] = "watching"]
    /\ awaiter' = "select"
    /\ UNCHANGED <<doneCh, mxopen, rmu, routes, conn, key, vend, router, timeouts, stop>>

AwaiterDone ==
    /\ awaiter = "select"
    /\ doneCh
    /\ awaiter' = "done"
    /\ UNCHANGED <<doneCh, mxopen, rmu, routes, conn, key, vend, watch, wg, router, timeouts, stop>>

\* The conn is closed: unroute deletes whatever the table has at its key.
unroute(c) ==
    /\ watch[c] = "watching"
    /\ conn[c] = "closed"
    /\ rmu = Nil
    /\ routes' = [routes EXCEPT ![key[c]] = Nil]
    /\ watch' = [watch EXCEPT ![c] = "unrouted"]
    /\ UNCHANGED <<doneCh, mxopen, rmu, conn, key, vend, wg, router, timeouts, awaiter, stop>>

\* x.dxconnWG.Done wakes the stopper when it brings the counter to zero.
Unaccept(c) ==
    /\ watch[c] = "unrouted"
    /\ watch' = [watch EXCEPT ![c] = "over"]
    /\ wg' = wg - 1
    /\ stop' = IF wg = 1 /\ stop = "parked" THEN "woken" ELSE stop
    /\ UNCHANGED <<doneCh, mxopen, rmu, routes, conn, key, vend, router, timeouts, awaiter>>

-----------------------------------------------------------------------------
(* stop *)

\* muxTable.reset stops the muxer too.
ResetStop ==
    /\ stop = "idle"
    /\ stop' = "called"
    /\ UNCHANGED <<doneCh, mxopen, rmu, routes, conn, key, vend, watch, wg, router, timeouts, awaiter>>

StopDone ==
    /\ stop = "called"
    /\ doneCh' = TRUE
    /\ stop' = "drain"
    /\ UNCHANGED <<mxopen, rmu, routes, conn, key, vend, watch, wg, router, timeouts, awaiter>>

\* Mutant: the routes are cleared before the conns in them are closed.
drainCleared ==
    /\ stop = "drain"
    /\ rmu = Nil
    /\ routes' = [a \in Addrs |-> Nil]
    /\ stop' = "close"
    /\ UNCHANGED <<doneCh, mxopen, rmu, conn, key, vend, watch, wg, router, timeouts, awaiter>>

\* drain closes every routed conn under rmu and clears the routes.
drain ==
    /\ stop = "drain"
    /\ rmu = Nil
    /\ conn' = [c \in Conns |-> IF \E a \in Addrs : routes[a] = c THEN "closed" ELSE conn[c]]
    /\ routes' = [a \in Addrs |-> Nil]
    /\ stop' = "close"
    /\ UNCHANGED <<doneCh, mxopen, rmu, key, vend, watch, wg, router, timeouts, awaiter>>

StopClose ==
    /\ stop = "close"
    /\ mxopen' = FALSE
    /\ stop' = "wait"
    /\ UNCHANGED <<doneCh, rmu, routes, conn, key, vend, watch, wg, router, timeouts, awaiter>>

\* x.dxconnWG.Wait returns at once on zero and parks otherwise.
StopWait ==
    /\ stop = "wait"
    /\ stop' = IF wg = 0 THEN "cb" ELSE "parked"
    /\ UNCHANGED <<doneCh, mxopen, rmu, routes, conn, key, vend, watch, wg, router, timeouts, awaiter>>

\* A woken Wait panics if the counter has been raised again in the meantime.
StopWake ==
    /\ stop = "woken"
    /\ stop' = IF wg = 0 THEN "cb" ELSE "panicked"
    /\ UNCHANGED <<doneCh, mxopen, rmu, routes, conn, key, vend, watch, wg, router, timeouts, awaiter>>

\* core.Go(x.cb): the table is told.
CallBack ==
    /\ stop = "cb"
    /\ stop' = "done"
    /\ UNCHANGED <<doneCh, mxopen, rmu, routes, conn, key, vend, watch, wg, router, timeouts, awaiter>>

-----------------------------------------------------------------------------

RouteStep(r) == findRoute(r) \/ RouteLock(r) \/ RouteSend(r) \/ RoutePut(r) \/ RouteDone(r)

StopStep == StopDone \/ drain \/ StopClose \/ StopWait \/ StopWake \/ CallBack

Next ==
    \/ \E r \in Routers :
         \/ \E a \in Addrs : Ask(r, a)
         \/ findRoute(r)
         \/ RouteLock(r)
         \/ RouteSend(r)
         \/ RoutePut(r)
         \/ RouteDone(r)
    \/ \E c \in Conns :
         \/ \E ok \in BOOLEAN : Vend(c, ok)
         \/ Close(c)
         \/ unroute(c)
         \/ Unaccept(c)
    \/ \E a \in Addrs : ReadPacket(a)
    \/ ReadTimeout
    \/ ReadError
    \/ Accept
    \/ AwaiterDone
    \/ ResetStop
    \/ StopDone
    \/ drain
    \/ StopClose
    \/ StopWait
    \/ StopWake
    \/ CallBack

Spec == Init /\ [][Next]_vars

-----------------------------------------------------------------------------

Drained == stop \notin {"idle", "called", "drain"}

(***************************************************************************)
(* stop's "closes conns in the backlog, stops accepting new conns": after  *)
(* drain no conn is open, although routers and the reader may have been    *)
(* half way through route() when doneCh was closed.                        *)
(***************************************************************************)
DrainClosesAll == Drained => \A c \in Conns : conn[c] # "open"

(***************************************************************************)
(* No two conns to one remote address are open together, however ingress   *)
(* and egress race for the route between findRoute and the second look.    *)
(***************************************************************************)
OneOpenPerAddr ==
    \A c, d \in Conns :
      (conn[c] = "open" /\ conn[d] = "open" /\ key[c] = key[d]) => c = d

(***************************************************************************)
(* unroute deletes by address and does not look whose route it deletes,    *)
(* yet no step ever takes the route of a conn that is open away from it.   *)
(***************************************************************************)
OpenStaysRouted ==
    [][\A a \in Addrs :
         (routes[a] # Nil /\ routes'[a] # routes[a]) => conn'[routes[a]] = "closed"]_vars

(***************************************************************************)
(* stop, once called, does not wait for ever: nobody holds rmu for good,   *)
(* and it depends on no flow closing its conn. It calls back, unless       *)
(* awaiters adds to the wait group (udpmux.go:154) between the wake-up of  *)
(* its Wait (179) and the return: then Wait panics and the callback at 180 *)
(* is never made.                                                          *)
(***************************************************************************)
StopCompletes == (stop = "called") ~> (stop \in {"done", "panicked"})

(***************************************************************************)
(* A closed conn does not stay in the routes, where it would swallow the   *)
(* packets and the flows of its remote address.                            *)
(***************************************************************************)
ClosedIsUnrouted ==
    \A c \in Conns : (conn[c] = "closed") ~> (\A a \in Addrs : routes[a] # c)

Phase ==
    CASE stop = "done" -> "gone"
      [] Drained /\ stop # "done" -> "drained"
      [] doneCh /\ ~Drained -> "stopping"
      [] ~doneCh /\ ~Drained -> "open"

Live == {<<c, key[c]>> : c \in {d \in Conns : conn[d] = "open"}}

\* The muxer as its flows and its table see it.
Promise == INSTANCE MuxerSpec WITH phase <- Phase, live <- Live

(***************************************************************************)
(* The muxer implements its abstract specification.                        *)
(***************************************************************************)
KeepsPromise == Promise!MSpec
=============================================================================
