------------------------------ MODULE DcMulti ------------------------------
(***************************************************************************)
(* The DNSCrypt servers and their anonymising relays (intra/dnscrypt:      *)
(* multiserver.go, servers.go).                                            *)
(*                                                                         *)
(* A server is registered with the DcMulti (reg) and, to be fetched, with  *)
(* its ServersInfo (sreg); fetching its certificate makes a new server     *)
(* object, which replaces and stops the old one (inner). Certificates are  *)
(* fetched when a server is added, by Refresh, and by a periodic cycle.    *)
(* Every fetch takes as long as the network does, with no lock held.       *)
(* refreshRoutes copies the relays into the server objects, in a goroutine *)
(* of its own. A server object is modelled by the relays it carries.       *)
(***************************************************************************)
EXTENDS Integers, FiniteSets

CONSTANTS Ids,          \* servers
          Relays,       \* relays, as the client names them
          Apis,         \* goroutines in calls of the client (numbers from 1)
          RouteJobs,    \* goroutines in refreshRoutes
          MaxTries,     \* tries of one cycle
          MaxStops,     \* bound: stops of one server under way
          MaxCalls,     \* bound: calls of the client (numbers from 1)
          MaxEnv,       \* bound: changes of a server's certificate
          Nil

Cycle   == 0            \* the goroutine of start
Threads == Apis \cup {Cycle}

VARIABLES reg,          \* proxy.registeredServers
          sreg,         \* serversInfo.registeredServers
          inner,        \* serversInfo.inner: the relays of each server object
          routes,       \* proxy.routes
          ignoreTs,     \* proxy.certIgnoreTimestamp
          live,         \* proxy.liveServers
          ended,        \* Stop was called
          cert,         \* external: what the server would present
          open,         \* server objects made and not yet stopped
          stops,        \* "go si.Stop()" under way
          thr, rj, calls, env

vars == <<reg, sreg, inner, routes, ignoreTs, live, ended, cert, open, stops,
          thr, rj, calls, env>>

Certs == {"good", "expired", "down"}
Idle  == [pc |-> "idle", kind |-> Nil, todo |-> {}, id |-> Nil, ok |-> {}, tries |-> 0]

Thread == [pc : {"idle", "list", "copy", "fetch", "store", "done", "remove", "unreg"},
           kind : {"add", "refresh", "cycle", "remove", Nil}, todo : SUBSET Ids,
           id : Ids \cup {Nil}, ok : SUBSET Ids, tries : 0..MaxTries]

TypeOK ==
  /\ reg \subseteq Ids /\ sreg \subseteq Ids /\ live \subseteq Ids
  /\ inner \in [Ids -> (SUBSET Relays) \cup {Nil}]
  /\ routes \subseteq Relays
  /\ ignoreTs \in BOOLEAN /\ ended \in BOOLEAN
  /\ cert \in [Ids -> Certs]
  /\ \A i \in Ids : open[i] \in Nat /\ stops[i] \in 0..(MaxStops + 1)
  /\ thr \in [Threads -> Thread]
  /\ rj \in [RouteJobs -> [pc : {"idle", "read", "set"}, got : SUBSET Relays]]
  /\ calls \in 0..MaxCalls /\ env \in 0..MaxEnv

Init ==
  /\ reg = {} /\ sreg = {} /\ inner = [i \in Ids |-> Nil]
  /\ routes = {} /\ ignoreTs = FALSE /\ live = {} /\ ended = FALSE
  /\ cert \in [Ids -> {"good", "down"}]
  /\ open = [i \in Ids |-> 0] /\ stops = [i \in Ids |-> 0]
  /\ thr = [t \in Threads |-> Idle]
  /\ rj = [j \in RouteJobs |-> [pc |-> "idle", got |-> {}]]
  /\ calls = 0 /\ env = 0

-----------------------------------------------------------------------------
(* Relays *)

\* A goroutine for refreshRoutes.
goRefreshRoutes == \E j \in RouteJobs :
  rj[j].pc = "idle" /\ rj' = [rj EXCEPT ![j].pc = "read"]

call == calls < MaxCalls /\ calls' = calls + 1

\* AddGateways and RemoveGateways start one when the routes change.
AddGateways(r) ==
  /\ call
  /\ routes' = routes \cup {r}
  /\ IF r \in routes THEN UNCHANGED rj ELSE goRefreshRoutes
  /\ UNCHANGED <<reg, sreg, inner, ignoreTs, live, ended, cert, open, stops, thr, env>>

RemoveGateways(r) ==
  /\ call
  /\ routes' = routes \ {r}
  /\ IF r \in routes THEN goRefreshRoutes ELSE UNCHANGED rj
  /\ UNCHANGED <<reg, sreg, inner, ignoreTs, live, ended, cert, open, stops, thr, env>>

\* It reads the routes under the lock and resolves them without it,
route(j) ==
  /\ rj[j].pc = "read"
  /\ rj' = [rj EXCEPT ![j] = [pc |-> "set", got |-> routes]]
  /\ UNCHANGED <<reg, sreg, inner, routes, ignoreTs, live, ended, cert, open, stops, thr,
                 calls, env>>

\* and gives what it read to the servers that are there by then.
refreshRoutes(j) ==
  /\ rj[j].pc = "set"
  /\ inner' = [i \in Ids |-> IF inner[i] = Nil THEN Nil ELSE rj[j].got]
  /\ rj' = [rj EXCEPT ![j] = [pc |-> "idle", got |-> {}]]
  /\ UNCHANGED <<reg, sreg, routes, ignoreTs, live, ended, cert, open, stops, thr, calls, env>>

-----------------------------------------------------------------------------
(* Certificates *)

\* AddAll only notes the servers; AddTransport goes on to fetch.
AddAll(i) ==
  /\ call
  /\ reg' = reg \cup {i}
  /\ UNCHANGED <<sreg, inner, routes, ignoreTs, live, ended, cert, open, stops, thr, rj, env>>

AddTransport(t, i) ==
  /\ thr[t].pc = "idle" /\ call
  /\ reg' = reg \cup {i}
  /\ thr' = [thr EXCEPT ![t] = [Idle EXCEPT !.pc = "fetch", !.kind = "add", !.id = i]]
  /\ UNCHANGED <<sreg, inner, routes, ignoreTs, live, ended, cert, open, stops, rj, env>>

Refresh(t) ==
  /\ thr[t].pc = "idle" /\ call
  /\ thr' = [thr EXCEPT ![t] = [Idle EXCEPT !.pc = "list", !.kind = "refresh"]]
  /\ UNCHANGED <<reg, sreg, inner, routes, ignoreTs, live, ended, cert, open, stops, rj, env>>

\* The periodic goroutine, until the context is done.
cycleStart ==
  /\ thr[Cycle].pc = "idle" /\ ~ended
  /\ thr' = [thr EXCEPT ![Cycle] = [Idle EXCEPT !.pc = "list", !.kind = "cycle"]]
  /\ UNCHANGED <<reg, sreg, inner, routes, ignoreTs, live, ended, cert, open, stops, rj,
                 calls, env>>

\* Both register all the servers again; a cycle ends when there are none, and
\* before any try once the context is done.
registerServers(t) ==
  /\ thr[t].pc = "list"
  /\ sreg' = IF t = Cycle /\ ended THEN sreg ELSE sreg \cup reg
  /\ thr' = [thr EXCEPT ![t] = IF t = Cycle /\ (ended \/ sreg \cup reg = {}) THEN Idle
                               ELSE [@ EXCEPT !.pc = "copy"]]
  /\ UNCHANGED <<reg, inner, routes, ignoreTs, live, ended, cert, open, stops, rj, calls, env>>

\* refresh walks a copy of the servers.
refresh(t) ==
  /\ thr[t].pc = "copy"
  /\ thr' = [thr EXCEPT ![t].todo = sreg, ![t].ok = {}, ![t].pc = "done"]
  /\ UNCHANGED <<reg, sreg, inner, routes, ignoreTs, live, ended, cert, open, stops, rj,
                 calls, env>>

refreshNext(t) ==
  /\ thr[t].pc = "done" /\ thr[t].todo # {}
  /\ \E i \in thr[t].todo :
       thr' = [thr EXCEPT ![t].todo = @ \ {i}, ![t].id = i, ![t].pc = "fetch"]
  /\ UNCHANGED <<reg, sreg, inner, routes, ignoreTs, live, ended, cert, open, stops, rj,
                 calls, env>>

\* A certificate is taken if it is valid now, or if dates are being ignored.
usable(i) == cert[i] = "good" \/ (cert[i] = "expired" /\ ignoreTs)

\* fetchServerInfo. A server that fails to be added is removed again; one that
\* fails to be refreshed is kept as it was.
fetchServerInfo(t) ==
  /\ thr[t].pc = "fetch"
  /\ LET i == thr[t].id IN
       IF usable(i)
       THEN /\ open' = [open EXCEPT ![i] = @ + 1]
            /\ thr' = [thr EXCEPT ![t].pc = "store"]
       ELSE /\ thr' = [thr EXCEPT ![t] = IF @.kind = "add" THEN [@ EXCEPT !.pc = "remove"]
                                         ELSE [@ EXCEPT !.pc = "done", !.id = Nil]]
            /\ UNCHANGED open
  /\ UNCHANGED <<reg, sreg, inner, routes, ignoreTs, live, ended, cert, stops, rj, calls, env>>

\* refreshServer puts the new server object in, without relays, and has the
\* one it replaces stopped.
refreshServer(t) ==
  /\ thr[t].pc = "store"
  /\ LET i == thr[t].id IN
       /\ stops[i] <= MaxStops
       /\ inner' = [inner EXCEPT ![i] = {}]
       /\ sreg' = sreg \cup {i}
       /\ stops' = [stops EXCEPT ![i] = @ + (IF inner[i] = Nil THEN 0 ELSE 1)]
       /\ IF thr[t].kind = "add"
          THEN thr' = [thr EXCEPT ![t] = Idle] /\ goRefreshRoutes
          ELSE /\ thr' = [thr EXCEPT ![t].pc = "done", ![t].ok = @ \cup {i}, ![t].id = Nil]
               /\ UNCHANGED rj
  /\ UNCHANGED <<reg, routes, ignoreTs, live, ended, cert, open, calls, env>>

\* The end of a Refresh: relays are set again if any server is live.
refreshDone(t) ==
  /\ thr[t].pc = "done" /\ thr[t].todo = {} /\ thr[t].kind = "refresh"
  /\ live' = thr[t].ok
  /\ IF thr[t].ok # {}
     THEN ignoreTs' = FALSE /\ goRefreshRoutes
     ELSE UNCHANGED <<ignoreTs, rj>>
  /\ thr' = [thr EXCEPT ![t] = Idle]
  /\ UNCHANGED <<reg, sreg, inner, routes, ended, cert, open, stops, calls, env>>

\* The end of a try of the cycle: with no live server, dates are ignored in
\* the next try, after a while.
cycleDone ==
  LET t == Cycle IN
  /\ thr[t].pc = "done" /\ thr[t].todo = {}
  /\ live' = thr[t].ok
  /\ ignoreTs' = (thr[t].ok = {})
  /\ thr' = [thr EXCEPT ![t] =
               IF thr[t].ok # {} \/ thr[t].tries + 1 >= MaxTries THEN Idle
               ELSE [thr[t] EXCEPT !.pc = "list", !.tries = thr[t].tries + 1, !.ok = {}]]
  /\ UNCHANGED <<reg, sreg, inner, routes, ended, cert, open, stops, rj, calls, env>>

\* removeOne, in two critical sections.
Remove(t, i) ==
  /\ thr[t].pc = "idle" /\ call
  /\ thr' = [thr EXCEPT ![t] = [Idle EXCEPT !.pc = "remove", !.kind = "remove", !.id = i]]
  /\ UNCHANGED <<reg, sreg, inner, routes, ignoreTs, live, ended, cert, open, stops, rj, env>>

removeOne(t) ==
  /\ thr[t].pc = "remove"
  /\ reg' = reg \ {thr[t].id}
  /\ thr' = [thr EXCEPT ![t].pc = "unreg"]
  /\ UNCHANGED <<sreg, inner, routes, ignoreTs, live, ended, cert, open, stops, rj, calls, env>>

unregisterServer(t) ==
  /\ thr[t].pc = "unreg"
  /\ LET i == thr[t].id IN
       /\ stops[i] <= MaxStops
       /\ sreg' = sreg \ {i}
       /\ inner' = [inner EXCEPT ![i] = Nil]
       /\ stops' = [stops EXCEPT ![i] = @ + (IF inner[i] = Nil THEN 0 ELSE 1)]
  /\ thr' = [thr EXCEPT ![t] = Idle]
  /\ UNCHANGED <<reg, routes, ignoreTs, live, ended, cert, open, rj, calls, env>>

\* The goroutine that stops a server object.
stopServer(i) ==
  /\ stops[i] > 0
  /\ stops' = [stops EXCEPT ![i] = @ - 1]
  /\ open' = [open EXCEPT ![i] = @ - 1]
  /\ UNCHANGED <<reg, sreg, inner, routes, ignoreTs, live, ended, cert, thr, rj, calls, env>>

Stop ==
  /\ ~ended /\ call
  /\ ended' = TRUE
  /\ UNCHANGED <<reg, sreg, inner, routes, ignoreTs, live, cert, open, stops, thr, rj, env>>

\* The certificate a server presents changes.
certChanges ==
  /\ env < MaxEnv /\ env' = env + 1
  /\ \E i \in Ids, c \in Certs : cert' = [cert EXCEPT ![i] = c]
  /\ UNCHANGED <<reg, sreg, inner, routes, ignoreTs, live, ended, open, stops, thr, rj, calls>>

-----------------------------------------------------------------------------

client ==
  \/ Stop
  \/ \E r \in Relays : AddGateways(r) \/ RemoveGateways(r)
  \/ \E i \in Ids : AddAll(i) \/ \E t \in Apis : AddTransport(t, i) \/ Remove(t, i)
  \/ \E t \in Apis : Refresh(t)

step(t) ==
  \/ registerServers(t) \/ refresh(t) \/ refreshNext(t) \/ fetchServerInfo(t)
  \/ refreshServer(t) \/ refreshDone(t) \/ removeOne(t) \/ unregisterServer(t)

cycleStep == cycleStart \/ step(Cycle) \/ cycleDone

Next ==
  \/ client \/ certChanges \/ cycleStep
  \/ \E t \in Apis : step(t)
  \/ \E j \in RouteJobs : route(j) \/ refreshRoutes(j)
  \/ \E i \in Ids : stopServer(i)

Spec == Init /\ [][Next]_vars

-----------------------------------------------------------------------------
(* Properties *)

\* servers.go:151, 207: of the server objects ever made, each is the one in
\* the map, or is being stopped, or is about to be put in the map; the others
\* are stopped, however adds, removals and refreshes of one server overlap.
NoServerLeak ==
  \A i \in Ids :
    open[i] = stops[i] + (IF inner[i] = Nil THEN 0 ELSE 1)
              + Cardinality({t \in Threads : thr[t].pc = "store" /\ thr[t].id = i})

\* multiserver.go:456-457 "re-sync registered servers before refreshing to
\* recover any that may have been removed": a server that is registered and
\* has a valid certificate is served sooner or later.
RegisteredComesAlive ==
  \A i \in Ids :
    (i \in reg /\ inner[i] = Nil)
      ~> (i \notin reg \/ inner[i] # Nil \/ cert[i] # "good" \/ ended)

-----------------------------------------------------------------------------
(* what the proofs need *)

\* What the constants are.
DcMultiConstants ==
  /\ IsFiniteSet(Apis) /\ \A S \in SUBSET Relays : S # Nil
  /\ MaxTries \in Nat /\ MaxStops \in Nat /\ MaxCalls \in Nat /\ MaxEnv \in Nat

\* The threads that made a server object for i and have yet to put it in the map.
Storing(i) == {t \in Threads : thr[t].pc = "store" /\ thr[t].id = i}

\* What is neither a count nor a thread.
BooksTyped ==
  /\ reg \subseteq Ids /\ sreg \subseteq Ids /\ live \subseteq Ids
  /\ inner \in [Ids -> (SUBSET Relays) \cup {Nil}] /\ routes \subseteq Relays
  /\ ignoreTs \in BOOLEAN /\ ended \in BOOLEAN /\ cert \in [Ids -> Certs]
  /\ rj \in [RouteJobs -> [pc : {"idle", "read", "set"}, got : SUBSET Relays]]
  /\ calls \in 0..MaxCalls /\ env \in 0..MaxEnv

\* The threads at work on a server know which.
Named(r) == r.pc \in {"fetch", "store", "remove", "unreg"} => r.id \in Ids

Inv ==
  /\ BooksTyped
  /\ open \in [Ids -> Nat] /\ stops \in [Ids -> 0..(MaxStops + 1)]
  /\ thr \in [Threads -> Thread] /\ \A t \in Threads : Named(thr[t])
  /\ NoServerLeak
=============================================================================
