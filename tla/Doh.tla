-------------------------------- MODULE Doh --------------------------------
(***************************************************************************)
(* The DNS-over-HTTPS transport (intra/doh/doh.go): which of two endpoints *)
(* a query is sent to (the named one, or an IP literal used while the name *)
(* has no encrypted client hello), the http clients kept per proxy, and    *)
(* what the outcome of a query does to both.                               *)
(*                                                                         *)
(* A query is a thread; the start-up goroutine that looks ech up and the   *)
(* goroutine that purges clients of replaced proxies run beside them. A    *)
(* proxy is known by its handle: the provider replaces the proxy of an id  *)
(* by another with a new handle, or removes it. An http client is modelled *)
(* by the handle of the proxy its transport dials with. The shared ech     *)
(* config is modelled by whether there is one. Time is in units of the     *)
(* purge threshold; RetryGap stands for the eight hours of the two retry   *)
(* periods.                                                                *)
(***************************************************************************)
EXTENDS Integers, FiniteSets

CONSTANTS Threads,      \* goroutines that run Query
          Pids,         \* ids of proxies
          Relay,        \* the relay this transport is pinned to, or Nil
          HasIp,        \* an IP endpoint was given
          RetryGap,     \* echRetryPeriod and urlipRetryPeriod
          MaxNow,       \* bound: clock
          MaxSwaps,     \* bound: proxies replaced or removed
          MaxQueries,   \* bound: queries
          MaxStops,     \* bound: calls of Stop
          Nil

VARIABLES px,           \* the provider: handle of each proxy, Nil if none
          clients,      \* t.pxclients
          ech,          \* t.echconfig is set
          echlast,      \* t.echlastattempt, 0 when never
          usingIp,      \* t.usingIpUrl
          iplast,       \* t.iplastattempt, 0 when never
          status,       \* t.status: ended or not
          lastpurge,    \* t.lastpurge, 0 when never
          boot,         \* where the start-up goroutine is
          purge,        \* where the purging goroutine is
          q,            \* the queries
          now, swaps, started, stops,
          won           \* when maybeRecheckIpUrl last turned the IP on (ghost)

vars == <<px, clients, ech, echlast, usingIp, iplast, status, lastpurge, boot, purge, q, now, swaps, started, stops, won>>

Handles == 0..MaxSwaps
Client  == Handles \cup {Nil}

\* proxytransport: a proxy and the plain and ech clients that dial by it.
Entry == [p : Handles, c : Handles, c3 : Client]

Idle == [pc |-> "idle", pid |-> Nil, prev |-> 0, at |-> 0, ip |-> FALSE, p |-> Nil,
         c |-> Nil, c3 |-> Nil, use3 |-> FALSE, try |-> 0, host |-> Nil, res |-> Nil]

\* What a query ends with: an answer (or one that is malformed or refused by
\* the server, which differ only in what is reported), a failure of the
\* server, a failure to send, or a transport that was stopped.
Results == {"answer", "transport", "sendfailed", "end"}

Query == [pc : {"idle", "cas", "on", "choose", "lookup", "prep", "ech", "fetch", "store",
                "send", "body", "settle", "off", "finish"},
          pid : Pids \cup {Nil}, prev : 0..MaxNow, at : 0..MaxNow, ip : BOOLEAN,
          p : Client, c : Client, c3 : Client, use3 : BOOLEAN, try : 0..1,
          host : {"name", "ip", "other", Nil}, res : Results \cup {Nil}]

TypeOK ==
  /\ px \in [Pids -> Client]
  /\ clients \in [Pids -> Entry \cup {Nil}]
  /\ ech \in BOOLEAN /\ usingIp \in BOOLEAN
  /\ {echlast, iplast, lastpurge, won} \subseteq 0..MaxNow
  /\ status \in {"up", "end"} /\ stops \in 0..MaxStops
  /\ boot \in {"ech", "fetch", "check", "on", "done"}
  /\ purge.pc \in {"idle", "asked", "for", "rm"}
  /\ q \in [Threads -> Query]
  /\ now \in 1..MaxNow /\ swaps \in 0..MaxSwaps /\ started \in 0..MaxQueries

Init ==
  /\ px = [i \in Pids |-> 0]
  /\ clients = [i \in Pids |-> Nil]
  /\ ech = FALSE /\ usingIp = FALSE
  /\ echlast = 0 /\ iplast = 0 /\ lastpurge = 0 /\ won = 0
  /\ status = "up" /\ stops = 0
  /\ boot = "ech"
  /\ purge = [pc |-> "idle", snap |-> clients, todo |-> {}, id |-> Nil]
  /\ q = [t \in Threads |-> Idle]
  /\ now = 1 /\ swaps = 0 /\ started = 0

-----------------------------------------------------------------------------
(* The endpoint *)

\* The IP endpoint may be used while there is no ech for the name.
useIpUrl == HasIp /\ ~ech /\ usingIp

\* No lookup of ech by a transport pinned to a (remote) relay, nor within
\* the retry period of an earlier one.
echIsDue == Relay = Nil /\ (echlast > 0 => now - echlast >= RetryGap)

\* The start-up goroutine looks ech up, and turns the IP endpoint on when
\* there is none.
bootEch ==
  /\ boot = "ech"
  /\ IF ~ech /\ echIsDue
     THEN boot' = "fetch" /\ echlast' = now
     ELSE boot' = "check" /\ UNCHANGED echlast
  /\ UNCHANGED <<px, clients, ech, usingIp, iplast, status,
                 lastpurge, purge, q, now, swaps, started, stops, won>>

bootFetch ==
  /\ boot = "fetch"
  /\ boot' = "check"
  /\ \E found \in BOOLEAN : ech' = (ech \/ found)
  /\ UNCHANGED <<px, clients, echlast, usingIp, iplast, status,
                 lastpurge, purge, q, now, swaps, started, stops, won>>

bootCheck ==
  /\ boot = "check"
  /\ IF HasIp /\ ~ech
     THEN boot' = "on" /\ iplast' = now
     ELSE boot' = "done" /\ UNCHANGED iplast
  /\ UNCHANGED <<px, clients, ech, echlast, usingIp, status,
                 lastpurge, purge, q, now, swaps, started, stops, won>>

bootOn ==
  /\ boot = "on"
  /\ boot' = "done"
  /\ usingIp' = TRUE
  /\ UNCHANGED <<px, clients, ech, echlast, iplast, status,
                 lastpurge, purge, q, now, swaps, started, stops, won>>

\* Query begins with maybeRecheckIpUrl, which turns the IP endpoint on again
\* when it has been off for the retry period and there is no ech.
recheckIsDue == HasIp /\ ~usingIp /\ ~ech /\ (iplast > 0 => now - iplast >= RetryGap)

maybeRecheckIpUrl(t) ==
  /\ q[t].pc = "idle" /\ started < MaxQueries
  /\ started' = started + 1
  /\ q' = [q EXCEPT ![t] = IF recheckIsDue
                            THEN [Idle EXCEPT !.pc = "cas", !.prev = iplast, !.at = now]
                            ELSE [Idle EXCEPT !.pc = "choose"]]
  /\ UNCHANGED <<px, clients, ech, echlast, usingIp, iplast, status, lastpurge, boot, purge, now, swaps, stops, won>>

\* Mutant: a store instead of a compare and swap.
recheckStore(t) ==
  /\ q[t].pc = "cas"
  /\ iplast' = q[t].at /\ won' = q[t].at
  /\ q' = [q EXCEPT ![t] = [Idle EXCEPT !.pc = "on"]]
  /\ UNCHANGED <<px, clients, ech, echlast, usingIp, status,
                 lastpurge, boot, purge, now, swaps, started, stops>>

recheckCas(t) ==
  /\ q[t].pc = "cas"
  /\ IF iplast = q[t].prev
     THEN /\ iplast' = q[t].at /\ won' = q[t].at
          /\ q' = [q EXCEPT ![t] = [Idle EXCEPT !.pc = "on"]]
     ELSE /\ q' = [q EXCEPT ![t] = [Idle EXCEPT !.pc = "choose"]]
          /\ UNCHANGED <<iplast, won>>
  /\ UNCHANGED <<px, clients, ech, echlast, usingIp, status,
                 lastpurge, boot, purge, now, swaps, started, stops>>

recheckOn(t) ==
  /\ q[t].pc = "on"
  /\ usingIp' = TRUE
  /\ q' = [q EXCEPT ![t].pc = "choose"]
  /\ UNCHANGED <<px, clients, ech, echlast, iplast, status,
                 lastpurge, boot, purge, now, swaps, started, stops, won>>

\* asDohRequest: the endpoint a request is made for.
asDohRequest == IF useIpUrl THEN "ip" ELSE "name"

\* The query picks a proxy (always the relay, when there is one), fails at
\* once when the transport has been stopped, and makes its request.
choose(t) ==
  /\ q[t].pc = "choose"
  /\ \E i \in Pids :
       /\ Relay # Nil => i = Relay
       /\ q' = [q EXCEPT ![t].pc = IF status = "end" THEN "finish" ELSE "lookup",
                         ![t].res = IF status = "end" THEN "end" ELSE Nil,
                         ![t].pid = i,
                         ![t].ip = useIpUrl,
                         ![t].host = asDohRequest]
  /\ UNCHANGED <<px, clients, ech, echlast, usingIp, iplast, status,
                 lastpurge, boot, purge, now, swaps, started, stops, won>>

-----------------------------------------------------------------------------
(* The http clients *)

\* Every call that gets its clients asks for a purge on the way out.
askPurge == purge' = IF purge.pc = "idle" THEN [purge EXCEPT !.pc = "asked"] ELSE purge

\* ProxyFor: the proxy of an id, or Nil: there is none, or the provider did not
\* answer in time (ErrGetProxyTimeout).
ProxyFor(i) == {px[i], Nil}

\* httpClientsFor: the clients of an entry that has an ech client are used as
\* they are; one without tries to make one; no entry means a new proxy.
lookup(t) ==
  /\ q[t].pc = "lookup"
  /\ LET e == clients[q[t].pid] IN
       IF e = Nil
       THEN /\ q' = [q EXCEPT ![t].pc = "prep"]
            /\ UNCHANGED purge
       ELSE /\ q' = [q EXCEPT ![t].pc = IF e.c3 = Nil THEN "ech" ELSE "send",
                              ![t].p = e.p, ![t].c = e.c, ![t].c3 = e.c3,
                              ![t].use3 = e.c3 # Nil]
            /\ IF e.c3 = Nil THEN UNCHANGED purge ELSE askPurge
  /\ UNCHANGED <<px, clients, ech, echlast, usingIp, iplast, status,
                 lastpurge, boot, now, swaps, started, stops, won>>

\* prepare asks the provider for the proxy; new clients dial with it.
prepare(t) ==
  /\ q[t].pc = "prep"
  /\ \E h \in ProxyFor(q[t].pid) :
       q' = IF h = Nil
            THEN [q EXCEPT ![t].pc = "settle", ![t].res = "sendfailed"]
            ELSE [q EXCEPT ![t].pc = "store", ![t].p = h, ![t].c = h,
                           ![t].c3 = IF ech THEN h ELSE Nil, ![t].use3 = ech]
  /\ UNCHANGED <<px, clients, ech, echlast, usingIp, iplast, status,
                 lastpurge, boot, purge, now, swaps, started, stops, won>>

\* getOrCreateEchConfigIfNeeded, for an entry without an ech client.
getOrCreateEch(t) ==
  /\ q[t].pc = "ech"
  /\ IF ech /\ Relay = Nil
     THEN /\ q' = [q EXCEPT ![t].pc = "store", ![t].c3 = q[t].p, ![t].use3 = TRUE]
          /\ UNCHANGED <<echlast, purge>>
     ELSE IF echIsDue
     THEN /\ q' = [q EXCEPT ![t].pc = "fetch"]
          /\ echlast' = now
          /\ UNCHANGED purge
     ELSE /\ q' = [q EXCEPT ![t].pc = "send"]
          /\ askPurge
          /\ UNCHANGED echlast
  /\ UNCHANGED <<px, clients, ech, usingIp, iplast, status,
                 lastpurge, boot, now, swaps, started, stops, won>>

fetchEch(t) ==
  /\ q[t].pc = "fetch"
  /\ \/ /\ ech' = TRUE
        /\ q' = [q EXCEPT ![t].pc = "store", ![t].c3 = q[t].p, ![t].use3 = TRUE]
        /\ UNCHANGED purge
     \/ /\ q' = [q EXCEPT ![t].pc = "send"]
        /\ askPurge
        /\ UNCHANGED ech
  /\ UNCHANGED <<px, clients, echlast, usingIp, iplast, status,
                 lastpurge, boot, now, swaps, started, stops, won>>

\* updateHttpClientsFor: an entry that is there keeps its proxy and gets the
\* clients that are not nil; a missing one is made, unless c is nil.
Updated(e, p, c, c3) ==
  IF e # Nil
  THEN [e EXCEPT !.c = IF c = Nil THEN @ ELSE c, !.c3 = IF c3 = Nil THEN @ ELSE c3]
  ELSE IF c = Nil THEN Nil ELSE [p |-> p, c |-> c, c3 |-> c3]

store(t) ==
  /\ q[t].pc = "store"
  /\ clients' = [clients EXCEPT ![q[t].pid] = Updated(@, q[t].p, q[t].c, q[t].c3)]
  /\ q' = [q EXCEPT ![t].pc = "send"]
  /\ askPurge
  /\ UNCHANGED <<px, ech, echlast, usingIp, iplast, status,
                 lastpurge, boot, now, swaps, started, stops, won>>

\* purgeProxyClients: at most once per threshold, by the winner of the swap,
\* over a copy of the map.
purgeStart ==
  /\ purge.pc = "asked"
  /\ IF lastpurge > 0 /\ now - lastpurge <= 1
     THEN purge' = [purge EXCEPT !.pc = "idle"] /\ UNCHANGED lastpurge
     ELSE /\ lastpurge' = now
          /\ purge' = [purge EXCEPT !.pc = "for", !.snap = clients,
                                    !.todo = {i \in Pids : clients[i] # Nil}]
  /\ UNCHANGED <<px, clients, ech, echlast, usingIp, iplast, status,
                 boot, q, now, swaps, started, stops, won>>

\* It asks the provider for the proxy of each id without the lock; whatever the
\* error, an id without a proxy is one whose entry is to go,
purgeFor ==
  /\ purge.pc = "for"
  /\ IF purge.todo = {}
     THEN purge' = [purge EXCEPT !.pc = "idle", !.snap = [i \in Pids |-> Nil], !.id = Nil]
     ELSE \E i \in purge.todo : \E orig \in ProxyFor(i) :
            purge' = [purge EXCEPT !.todo = @ \ {i}, !.id = i,
                                   !.pc = IF orig = purge.snap[i].p THEN "for" ELSE "rm"]
  /\ UNCHANGED <<px, clients, ech, echlast, usingIp, iplast, status,
                 lastpurge, boot, q, now, swaps, started, stops, won>>

\* and removes the entry if it is still one of the proxy that was copied.
rmclient ==
  /\ purge.pc = "rm"
  /\ LET i == purge.id IN
       clients' = IF clients[i] # Nil /\ clients[i].p = purge.snap[i].p
                  THEN [clients EXCEPT ![i] = Nil] ELSE clients
  /\ purge' = [purge EXCEPT !.pc = "for"]
  /\ UNCHANGED <<px, ech, echlast, usingIp, iplast, status,
                 lastpurge, boot, q, now, swaps, started, stops, won>>

-----------------------------------------------------------------------------
(* One request: multifetch, and what do defers *)

\* The ech client goes first, then the plain one; each has two tries.
Next3(r) == IF r.use3 THEN [r EXCEPT !.use3 = FALSE, !.try = 0]
            ELSE [r EXCEPT !.pc = "settle", !.res = "sendfailed"]
Again(r) == IF r.try = 0 THEN [r EXCEPT !.try = 1] ELSE Next3(r)

\* The header of a response came, within the client's ResponseHeaderTimeout.
sendAnswered(t) ==
  /\ q[t].pc = "send"
  /\ q' = [q EXCEPT ![t].pc = "body"]
  /\ UNCHANGED <<px, clients, ech, echlast, usingIp, iplast, status,
                 lastpurge, boot, purge, now, swaps, started, stops, won>>

\* ReadAll: its body was read, or broke off. Nothing bounds the time it takes.
\* The host of a response is the one the last redirect led to.
bodyRead(t) ==
  /\ q[t].pc = "body"
  /\ \/ \E res \in {"answer", "transport"}, moved \in BOOLEAN :
          q' = [q EXCEPT ![t].pc = "settle", ![t].res = res,
                         ![t].host = IF moved THEN "other" ELSE @]
     \/ q' = [q EXCEPT ![t].pc = "settle", ![t].res = "sendfailed"]
  /\ UNCHANGED <<px, clients, ech, echlast, usingIp, iplast, status,
                 lastpurge, boot, purge, now, swaps, started, stops, won>>

\* A connection that ends early is tried again; another error is not.
sendFailed(t) ==
  /\ q[t].pc = "send"
  /\ \E eof \in BOOLEAN :
       q' = [q EXCEPT ![t] = IF eof THEN Again(@) ELSE Next3(@)]
  /\ UNCHANGED <<px, clients, ech, echlast, usingIp, iplast, status,
                 lastpurge, boot, purge, now, swaps, started, stops, won>>

\* A rejection of ech that comes with, or leads to, a new config updates the
\* shared config and the ech client before the next try.
sendRejected(t) ==
  /\ q[t].pc = "send" /\ q[t].use3
  /\ \E list \in BOOLEAN :
       IF list /\ ech
       THEN /\ echlast' = now
            /\ clients' = [clients EXCEPT ![q[t].pid] = Updated(@, q[t].p, Nil, q[t].p)]
            /\ q' = [q EXCEPT ![t] = Again([@ EXCEPT !.c3 = q[t].p])]
       ELSE /\ q' = [q EXCEPT ![t] = Again(@)]
            /\ UNCHANGED <<echlast, clients>>
  /\ UNCHANGED <<px, ech, usingIp, iplast, status, lastpurge, boot,
                 purge, now, swaps, started, stops, won>>

\* Whether an IP was used is found from the response, once it has been read.
usedip(r) == r.res # "sendfailed" /\ r.host = "ip"

\* shouldUseHostname
shouldUseHostname(r) == r.res \in {"sendfailed", "transport"}

\* The deferred function of do: a request to the IP that failed turns the IP
\* endpoint off. (t.hostname, which it also sets, and t.preferGET, which an
\* answer may set, are reported or shape the request: nothing here reads them.)
settle(t) ==
  /\ q[t].pc = "settle"
  /\ LET r == q[t] IN
       IF usedip(r) /\ shouldUseHostname(r)
       THEN /\ iplast' = now
            /\ q' = [q EXCEPT ![t].pc = "off"]
       ELSE /\ q' = [q EXCEPT ![t].pc = "finish"]
            /\ UNCHANGED iplast
  /\ UNCHANGED <<px, clients, ech, echlast, usingIp, status, lastpurge, boot,
                 purge, now, swaps, started, stops, won>>

ipOff(t) ==
  /\ q[t].pc = "off"
  /\ usingIp' = FALSE
  /\ q' = [q EXCEPT ![t].pc = "finish"]
  /\ UNCHANGED <<px, clients, ech, echlast, iplast, status, lastpurge,
                 boot, purge, now, swaps, started, stops, won>>

\* Query stores the outcome as the status of the transport.
finish(t) ==
  /\ q[t].pc = "finish"
  /\ status' = IF q[t].res = "end" THEN "end" ELSE "up"
  /\ q' = [q EXCEPT ![t] = Idle]
  /\ UNCHANGED <<px, clients, ech, echlast, usingIp, iplast, lastpurge, boot, purge, now, swaps, started, stops, won>>

Stop ==
  /\ stops < MaxStops
  /\ stops' = stops + 1
  /\ status' = "end"
  /\ UNCHANGED <<px, clients, ech, echlast, usingIp, iplast, lastpurge, boot, purge, q, now, swaps, started, won>>

\* The provider (proxifier.add, RemoveProxy) replaces or removes a proxy.
swap ==
  /\ swaps < MaxSwaps
  /\ swaps' = swaps + 1
  /\ \E i \in Pids, h \in {swaps + 1, Nil} : px' = [px EXCEPT ![i] = h]
  /\ UNCHANGED <<clients, ech, echlast, usingIp, iplast, status,
                 lastpurge, boot, purge, q, now, started, stops, won>>

tick ==
  /\ now < MaxNow
  /\ now' = now + 1
  /\ UNCHANGED <<px, clients, ech, echlast, usingIp, iplast, status,
                 lastpurge, boot, purge, q, swaps, started, stops, won>>

bootNext  == bootEch \/ bootFetch \/ bootCheck \/ bootOn
purgeNext == purgeStart \/ purgeFor \/ rmclient

queryNext(t) ==
  \/ recheckCas(t) \/ recheckOn(t) \/ choose(t) \/ lookup(t) \/ prepare(t)
  \/ getOrCreateEch(t) \/ fetchEch(t) \/ store(t)
  \/ sendAnswered(t) \/ sendFailed(t) \/ sendRejected(t)
  \/ settle(t) \/ ipOff(t) \/ finish(t)

Next ==
  \/ bootNext \/ purgeNext \/ Stop \/ swap \/ tick
  \/ \E t \in Threads : maybeRecheckIpUrl(t) \/ queryNext(t) \/ bodyRead(t)

Spec == Init /\ [][Next]_vars

-----------------------------------------------------------------------------
(* Properties *)

\* doh.go:393 "re-enables the IP path at most once every [urlipRetryPeriod]":
\* of the queries that find the IP endpoint due for another chance at the
\* same time, only the one that wins the swap turns it on.
RecheckIsSpaced ==
  [][\A t \in Threads : (q[t].pc = "cas" /\ q'[t].pc = "on")
       => (won = 0 \/ q[t].at - won >= RetryGap)]_vars

\* The loop of multifetch is bounded whatever the two clients run into (early
\* ends, rejections, other errors), so every query ends, or stays with the body
\* of a response (doh.go:870): that read has no time limit and no context.
QueriesEnd == \A t \in Threads : q[t].pc # "idle" ~> q[t].pc \in {"idle", "body"}
=============================================================================
