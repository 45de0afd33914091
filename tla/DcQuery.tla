------------------------------ MODULE DcQuery ------------------------------
(***************************************************************************)
(* A query to a DNSCrypt server (intra/dnscrypt: query, udpExchange,       *)
(* tcpExchange in multiserver.go, intercept.go, crypto.go): unqualified    *)
(* names are answered here; the rest are padded, sealed and sent over UDP  *)
(* twice and then over TCP, or over TCP at once, through a relay when the  *)
(* server has one; the answer is cut to what the client can take.          *)
(*                                                                         *)
(* The server keeps its UDP and its TCP relays in two atomics, which       *)
(* refreshRoutes sets one after the other while queries run. Sizes are in  *)
(* abstract units: a query or an answer is small or large, and large       *)
(* answers do not fit the client's UDP payload.                            *)
(***************************************************************************)
EXTENDS Integers, Sequences

CONSTANTS Queries,      \* queries
          MaxRoutes,    \* bound: changes of the relays
          MaxUdpTries   \* maxudptries

VARIABLES relUdp, relTcp,   \* the server has UDP, TCP relays
          setting,          \* what refreshRoutes is about to set, if anything
          routes,           \* changes so far
          status,           \* the server's status: up or ended
          q

vars == <<relUdp, relTcp, setting, routes, status, q>>

\* What the client asks with: over UDP or not, a bare name or not, and a query
\* that is too long to be padded for UDP or not.
New == [udp : BOOLEAN, bare : BOOLEAN, long : BOOLEAN, pc : {"new"}, left : {MaxUdpTries},
        rtcp : {FALSE}, rudp : {FALSE}, size : {"none"}, res : {"none"}]

TypeOK ==
  /\ relUdp \in BOOLEAN /\ relTcp \in BOOLEAN /\ status \in {"up", "end"}
  /\ setting \in {"none", "on", "off"} /\ routes \in 0..MaxRoutes
  /\ \A i \in Queries :
       /\ q[i].pc \in {"new", "rtcp", "rudp", "seal", "udp", "tcp", "open", "store", "done"}
       /\ q[i].left \in 0..MaxUdpTries
       /\ q[i].size \in {"none", "small", "large"}
       /\ q[i].res \in {"none", "synth", "whole", "truncated", "toolarge", "failed", "ended", "bad"}

Init ==
  /\ relUdp = FALSE /\ relTcp = FALSE /\ setting = "none" /\ routes = 0
  /\ status = "up"
  /\ q \in [Queries -> New]

-----------------------------------------------------------------------------

end(i, res) == q' = [q EXCEPT ![i].pc = "store", ![i].res = res]
go(i, pc)   == q' = [q EXCEPT ![i].pc = pc]

unchangedServer == UNCHANGED <<relUdp, relTcp, setting, routes, status>>

\* blockUnqualified: a bare name gets a synthesised NXDOMAIN.
blockUnqualified(r) == r.bare

\* A server that was stopped is not asked.
handleRequest(i) ==
  /\ q[i].pc = "new"
  /\ IF blockUnqualified(q[i]) THEN end(i, "synth")
     ELSE IF status = "end" THEN end(i, "ended") ELSE go(i, "rtcp")
  /\ unchangedServer

\* query loads the TCP relays, and then the UDP relays.
loadTcp(i) ==
  /\ q[i].pc = "rtcp"
  /\ q' = [q EXCEPT ![i].pc = "rudp", ![i].rtcp = relTcp]
  /\ unchangedServer

loadUdp(i) ==
  /\ q[i].pc = "rudp"
  /\ q' = [q EXCEPT ![i].pc = "seal", ![i].rudp = relUdp]
  /\ unchangedServer

\* encrypt: over UDP a query is padded to a fixed size, which a long one does
\* not fit; TCP takes it.
tooLarge(r) == r.udp /\ r.long

encrypt(i) ==
  /\ q[i].pc = "seal"
  /\ IF tooLarge(q[i]) THEN end(i, "toolarge")
     ELSE go(i, IF q[i].udp THEN "udp" ELSE "tcp")
  /\ unchangedServer

\* udpExchange: a read that fails is tried again on the same socket; a failed
\* dial or write, or the last read, makes query go over to TCP.
udpExchange(i) ==
  /\ q[i].pc = "udp"
  /\ LET r == [q[i] EXCEPT !.left = @ - 1] IN
       \/ \E s \in {"small", "large"} : q' = [q EXCEPT ![i] = [r EXCEPT !.pc = "open", !.size = s]]
       \/ q' = [q EXCEPT ![i] = IF r.left = 0 THEN [r EXCEPT !.pc = "tcp"] ELSE r]
       \/ q' = [q EXCEPT ![i] = [r EXCEPT !.pc = "tcp"]]
  /\ unchangedServer

tcpExchange(i) ==
  /\ q[i].pc = "tcp"
  /\ \/ \E s \in {"small", "large"} : q' = [q EXCEPT ![i].pc = "open", ![i].size = s]
     \/ q' = [q EXCEPT ![i].pc = "store", ![i].res = "failed"]
  /\ unchangedServer

\* handleResponse: an answer to a client that asked over UDP is cut to what
\* that client can take, even if it came over TCP; one that does not unpack is
\* bad.
truncate(r) == r.udp /\ r.size = "large"

handleResponse(i) ==
  /\ q[i].pc = "open"
  /\ \/ end(i, IF truncate(q[i]) THEN "truncated" ELSE "whole")
     \/ end(i, "bad")
  /\ unchangedServer

\* server.Query stores the outcome as its status.
storeStatus(i) ==
  /\ q[i].pc = "store"
  /\ status' = IF q[i].res = "ended" THEN "end" ELSE "up"
  /\ go(i, "done")
  /\ UNCHANGED <<relUdp, relTcp, setting, routes>>

\* refreshRoutes sets the UDP relays and then the TCP relays.
setUdpRelays ==
  /\ setting = "none" /\ routes < MaxRoutes
  /\ routes' = routes + 1
  /\ relUdp' = ~relUdp
  /\ setting' = IF relUdp THEN "off" ELSE "on"
  /\ UNCHANGED <<relTcp, status, q>>

setTcpRelays ==
  /\ setting \in {"on", "off"}
  /\ relTcp' = (setting = "on")
  /\ setting' = "none"
  /\ UNCHANGED <<relUdp, routes, status, q>>

Stop ==
  /\ status' = "end"
  /\ UNCHANGED <<relUdp, relTcp, setting, routes, q>>

step(i) ==
  \/ handleRequest(i) \/ loadTcp(i) \/ loadUdp(i) \/ encrypt(i) \/ udpExchange(i)
  \/ tcpExchange(i) \/ handleResponse(i) \/ storeStatus(i)

Next == setUdpRelays \/ setTcpRelays \/ Stop \/ \E i \in Queries : step(i)

Spec == Init /\ [][Next]_vars

-----------------------------------------------------------------------------
(* Properties *)

\* multiserver.go:294-296 "the response must be truncated to fit UDP size
\* limits even when the upstream query fell back to TCP".
AnswerFitsClient ==
  \A i \in Queries : (q[i].udp /\ q[i].res = "whole") => q[i].size = "small"

\* A query ends after at most two exchanges over UDP and one over TCP.
QueriesEnd == \A i \in Queries : <>(q[i].pc = "done")

-----------------------------------------------------------------------------
(* what the proofs need *)

DcQueryConstants == MaxRoutes \in Nat /\ MaxUdpTries \in Nat \ {0}

Results == {"none", "synth", "whole", "truncated", "toolarge", "failed", "ended", "bad"}

Asked == [udp : BOOLEAN, bare : BOOLEAN, long : BOOLEAN,
          pc : {"new", "rtcp", "rudp", "seal", "udp", "tcp", "open", "store", "done"},
          left : 0..MaxUdpTries, rtcp : BOOLEAN, rudp : BOOLEAN,
          size : {"none", "small", "large"}, res : Results]

\* A query that is under way has no result, and one that has been answered has
\* the size of the answer; over UDP there are tries left.
AskedSound(r) ==
  /\ r \in Asked
  /\ r.res # "none" => r.pc \in {"store", "done"}
  /\ r.pc = "open" => r.size # "none"
  /\ r.pc \in {"new", "rtcp", "rudp", "seal", "udp"} => r.left > 0
  /\ r.udp /\ r.res = "whole" => r.size = "small"

Inv ==
  /\ relUdp \in BOOLEAN /\ relTcp \in BOOLEAN /\ status \in {"up", "end"}
  /\ setting \in {"none", "on", "off"} /\ routes \in 0..MaxRoutes
  /\ q \in [Queries -> Asked]
  /\ \A i \in Queries : AskedSound(q[i])
=============================================================================
