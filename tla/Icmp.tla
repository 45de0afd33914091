-------------------------------- MODULE Icmp --------------------------------
(***************************************************************************)
(* Pings (intra/netstack/icmp.go and icmpecho.go, intra/icmp.go). The      *)
(* TUN dispatcher hands a packet to the responder (handle); with the       *)
(* forwarder in use, reply4 or reply6 runs in a goroutine of its own,      *)
(* which the dispatcher waits for at most five seconds, and pings in yet   *)
(* another goroutine; otherwise, or when the forwarder cannot answer, the  *)
(* responder pings and writes the answer to the TUN itself (process). With *)
(* the responder closed the packet goes to the network stack, which calls  *)
(* reply4 or reply6 on its own.                                            *)
(*                                                                         *)
(* The model keeps the references to the packet (counted), to the route,   *)
(* and to the parsed copy, which are handed from one goroutine to another. *)
(***************************************************************************)
EXTENDS Integers, FiniteSets

CONSTANTS Pings,       \* packets
          Forwarding   \* settings.ExperimentalWireGuard: use the forwarder

VARIABLES open,        \* the responder's open flag
          ended,       \* the handler has ended (HDLEND)
          p            \* each packet, with the goroutines that serve it

vars == <<open, ended, p>>

\* A packet: an echo request or something else; to a multicast address or not;
\* with a route to reply on or not.
New == [echo : BOOLEAN, multi : BOOLEAN, routed : BOOLEAN,
        d : {"in"},        \* the dispatcher: in, await, handled, passed
        f : {"none"},      \* reply4/6: spawn, rate, route, payload, ok, no, none
        g : {"none"},      \* its pinger: ping, reach, unreach, done, none
        r : {"none"},      \* the responder's process: start, ping, reach, unreach, done
        fwd : {FALSE},     \* icmpForward2 called reply4/6, rather than the stack
        refs : {1},        \* references to the packet (the clone's, or the stack's)
        route : {FALSE}, parsed : {FALSE}, freed : {FALSE},
        answers : {0}, smms : {0},
        late : {FALSE}]    \* history: the dispatcher's wait for reply4/6 timed out

TypeOK ==
  /\ open \in BOOLEAN /\ ended \in BOOLEAN
  /\ \A i \in Pings :
       /\ p[i].d \in {"in", "await", "handled", "passed"}
       /\ p[i].f \in {"none", "spawn", "rate", "route", "payload", "ok", "no"}
       /\ p[i].g \in {"none", "ping", "reach", "unreach", "done"}
       /\ p[i].r \in {"none", "start", "ping", "reach", "unreach", "done"}
       /\ p[i].refs \in 0..3 /\ p[i].answers \in 0..2 /\ p[i].smms \in 0..2

Init == open \in BOOLEAN /\ ended \in BOOLEAN /\ p \in [Pings -> New]

-----------------------------------------------------------------------------

is(i, r)  == p' = [p EXCEPT ![i] = r]
drop(r)   == [r EXCEPT !.refs = @ - 1]
\* A reference taken to a packet that is already freed.
take(r)   == [r EXCEPT !.refs = @ + 1, !.freed = @ \/ r.refs = 0]

\* handle: only echo requests are answered. A closed responder leaves the
\* packet to the stack, whose transport handler is reply4 or reply6.
handle(i) ==
  /\ p[i].d = "in"
  /\ is(i, IF ~p[i].echo THEN [drop(p[i]) EXCEPT !.d = "passed"]
           ELSE IF ~open THEN [p[i] EXCEPT !.d = "await", !.f = "rate"]
           ELSE IF Forwarding THEN [p[i] EXCEPT !.d = "await", !.f = "spawn", !.fwd = TRUE, !.parsed = TRUE]
           ELSE [drop(p[i]) EXCEPT !.d = "handled", !.r = "start", !.parsed = TRUE])
  /\ UNCHANGED <<open, ended>>

\* icmpForward2's goroutine takes a reference and calls reply4 or reply6.
forward(i) ==
  /\ p[i].f = "spawn"
  /\ is(i, [take(p[i]) EXCEPT !.f = "rate"])
  /\ UNCHANGED <<open, ended>>

\* A reply4 or reply6 that returns: icmpForward2's goroutine drops its
\* reference; called by the stack, there is none.
ret(r, res) == [(IF r.fwd THEN drop(r) ELSE r) EXCEPT !.f = res]

\* The stack-wide rate limiter: a packet over the limit is dropped, as handled.
rateLimit(i) ==
  /\ p[i].f = "rate"
  /\ is(i, [p[i] EXCEPT !.f = "route"]) \/ is(i, ret(p[i], "ok"))
  /\ UNCHANGED <<open, ended>>

findRoute(i) ==
  /\ p[i].f = "route"
  /\ is(i, IF p[i].routed THEN [p[i] EXCEPT !.f = "payload", !.route = TRUE]
           ELSE ret(p[i], "no"))
  /\ UNCHANGED <<open, ended>>

\* A packet without a payload gives its route back; else the pinger is started
\* with a reference of its own.
payload(i) ==
  /\ p[i].f = "payload"
  /\ \/ is(i, [ret(p[i], "no") EXCEPT !.route = FALSE])
     \/ is(i, [ret(take(p[i]), "ok") EXCEPT !.g = "ping"])
  /\ UNCHANGED <<open, ended>>

\* Ping: an ended handler, a firewalled flow, no proxy and a failed dial are
\* unreachable; a ping that was sent is reachable, answered or not. Every call
\* queues one summary.
Ping(r, pc, next) == [r EXCEPT !.smms = @ + 1, ![pc] = next]

pinged(i) ==
  /\ p[i].g = "ping"
  /\ \/ is(i, Ping(p[i], "g", "unreach"))
     \/ ~ended /\ is(i, Ping(p[i], "g", "reach"))
  /\ UNCHANGED <<open, ended>>

\* icmpErr4, icmpErr6: no error is sent for a packet to a multicast address.
suppressed(r) == r.multi

icmpErr(r) == IF suppressed(r) THEN r ELSE [r EXCEPT !.answers = @ + 1]

reply(i) ==
  /\ p[i].g \in {"reach", "unreach"}
  /\ is(i, [drop(IF p[i].g = "reach" THEN [p[i] EXCEPT !.answers = @ + 1] ELSE icmpErr(p[i]))
              EXCEPT !.g = "done", !.route = FALSE])
  /\ UNCHANGED <<open, ended>>

\* Await1 returns, or times out: handled packets are done, others are left to
\* process. The dispatcher drops its reference.
awaited(i) ==
  /\ p[i].d = "await" /\ p[i].fwd
  /\ is(i, IF p[i].f = "ok" THEN [drop(p[i]) EXCEPT !.d = "handled", !.parsed = FALSE]
           ELSE [drop(p[i]) EXCEPT !.d = "handled", !.r = "start", !.late = p[i].f # "no"])
  /\ UNCHANGED <<open, ended>>

\* The stack called reply4 or reply6 itself; what it does not handle, the stack does.
delivered(i) ==
  /\ p[i].d = "await" /\ ~p[i].fwd /\ p[i].f \in {"ok", "no"}
  /\ is(i, [drop(p[i]) EXCEPT !.d = IF p[i].f = "ok" THEN "handled" ELSE "passed"])
  /\ UNCHANGED <<open, ended>>

-----------------------------------------------------------------------------
\* process: a truncated packet and one over the rate limit are dropped.

process(i) ==
  /\ p[i].r = "start"
  /\ is(i, [p[i] EXCEPT !.r = "ping"]) \/ is(i, [p[i] EXCEPT !.r = "done", !.parsed = FALSE])
  /\ UNCHANGED <<open, ended>>

processPing(i) ==
  /\ p[i].r = "ping"
  /\ \/ is(i, Ping(p[i], "r", "unreach"))
     \/ ~ended /\ is(i, Ping(p[i], "r", "reach"))
  /\ UNCHANGED <<open, ended>>

\* echoReply and inject: written to the TUN unless the responder has stopped.
inject(i) ==
  /\ p[i].r \in {"reach", "unreach"}
  /\ is(i, [p[i] EXCEPT !.r = "done", !.parsed = FALSE, !.answers = IF open THEN @ + 1 ELSE @])
  /\ UNCHANGED <<open, ended>>

stop == open' = FALSE /\ UNCHANGED <<ended, p>>
End  == ended' = TRUE /\ UNCHANGED <<open, p>>

work(i) ==
  \/ handle(i) \/ forward(i) \/ rateLimit(i) \/ findRoute(i) \/ payload(i) \/ pinged(i)
  \/ reply(i) \/ awaited(i) \/ delivered(i) \/ process(i) \/ processPing(i) \/ inject(i)

Next == stop \/ End \/ \E i \in Pings : work(i)

Spec == Init /\ [][Next]_vars

-----------------------------------------------------------------------------
(* Properties *)

resting(i) ==
  /\ p[i].d \in {"handled", "passed"} /\ p[i].f \in {"none", "ok", "no"}
  /\ p[i].g \in {"none", "done"} /\ p[i].r \in {"none", "done"}

\* Once no goroutine serves a packet, every reference to it is dropped, its
\* route is released and its parsed copy is back in the pool, whichever of the
\* early returns of reply4, reply6, handle and process was taken.
RefsAreReturned ==
  \A i \in Pings : resting(i) => p[i].refs = 0 /\ ~p[i].route /\ ~p[i].parsed

\* No goroutine uses the packet after its last reference is dropped, and an
\* echo request is pinged and answered at most once, unless the dispatcher's
\* wait for the forwarder timed out: icmpForward2 takes its reference in the
\* goroutine that is no longer waited for, and both answer.
AnsweredOnce ==
  \A i \in Pings : ~p[i].late => p[i].answers <= 1 /\ p[i].smms <= 1 /\ ~p[i].freed
=============================================================================
