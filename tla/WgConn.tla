------------------------------- MODULE WgConn -------------------------------
(***************************************************************************)
(* The connection of a WireGuard device (intra/ipn/wg/wgconn.go): a socket *)
(* per address family that the device opens and closes, the family in use, *)
(* the blackhole of a paused proxy, and the messages to the proxy's        *)
(* observer, whose answer ends the connection for good.                    *)
(*                                                                         *)
(* Sockets are counted per family, so one that nothing refers to shows.    *)
(* Open holds the lock from its first step to its last.                    *)
(***************************************************************************)
EXTENDS Naturals, FiniteSets, Sequences

CONSTANTS
    Senders,     \* device routines that send
    Peers,       \* peer -> subset of {4, 6}: families of its addresses
    MaxTries,    \* maxbindtries
    ObsCap,      \* capacity of obsCh
    Prefer6,     \* is 4to6 forced?
    MaxOps,      \* bound: opens and sends
    Nil

VARIABLES
    sock,        \* family -> does the bind refer to a socket?
    live,        \* family -> sockets open in the kernel
    mu,          \* Nil, or what the Open that holds the lock has opened
    tries,
    hole,        \* blackhole4 and blackhole6, always set together
    eps,         \* peers known to the bind
    use6, closed, ended, ctxDone,
    quits,       \* who has yet to close at the end of the context
    obsCh,       \* operations waiting for the observer
    sends,       \* sender -> Nil or a send in progress
    ops

vars == <<sock, live, mu, tries, hole, eps, use6, closed, ended, ctxDone, quits, obsCh, sends, ops>>

Families == {4, 6}
sockets == <<sock, live, mu, tries>>

clos(n, f) == [n EXCEPT ![f] = @ - 1]

(* sendObsMsg: when the channel is full, what waits is dropped for the new. *)
drainObsCh == <<>>
sendObsMsg(op) ==
    IF ctxDone THEN obsCh ELSE IF Len(obsCh) < ObsCap THEN Append(obsCh, op) ELSE Append(drainObsCh, op)

(* get: the peer's address for the family in use, if it has one. *)
get(p, six) == IF six /\ 6 \in Peers[p] THEN 6 ELSE IF 4 \in Peers[p] THEN 4 ELSE 6

---------------------------------------------------------------------------
Init ==
    /\ sock = [f \in Families |-> FALSE] /\ live = [f \in Families |-> 0]
    /\ mu = Nil /\ tries = 0
    /\ hole = FALSE /\ eps = {}
    /\ use6 = FALSE /\ closed = FALSE /\ ended = FALSE /\ ctxDone = FALSE /\ quits = {}
    /\ obsCh = <<>>
    /\ sends = [s \in Senders |-> Nil]
    /\ ops = 0

(* The device names a peer. *)
ParseEndpoint(p) ==
    /\ p \notin eps
    /\ eps' = eps \cup {p}
    /\ UNCHANGED <<sockets, hole, use6, closed, ended, ctxDone, quits, obsCh, sends, ops>>

(* Open takes the lock and listens on udp4: a socket, no support for the
   family, or an error that ends it. *)
Open ==
    /\ mu = Nil /\ ops < MaxOps
    /\ ctxDone => "device" \in quits
    /\ ~ended /\ ~sock[4] /\ ~sock[6]
    /\ closed' = FALSE
    /\ mu' = {} /\ tries' = 0
    /\ ops' = ops + 1
    /\ UNCHANGED <<sock, live, hole, eps, use6, ended, ctxDone, quits, obsCh, sends>>

AlreadyOpen ==
    /\ mu = Nil /\ ~ended /\ (ctxDone => "device" \in quits) /\ (sock[4] \/ sock[6])
    /\ closed' = FALSE
    /\ UNCHANGED <<sockets, hole, eps, use6, ended, ctxDone, quits, obsCh, sends, ops>>

(* listenNet fails by itself once ended. *)
listen4(res) ==
    /\ mu = {} /\ tries <= MaxTries
    /\ ended => res = "err"
    /\ CASE res = "ok" -> mu' = {4} /\ live' = [live EXCEPT ![4] = @ + 1]
         [] res = "no4" -> mu' = {0} /\ UNCHANGED live
         [] OTHER -> mu' = Nil /\ UNCHANGED live
    /\ UNCHANGED <<sock, tries, hole, eps, use6, closed, ended, ctxDone, quits, obsCh, sends, ops>>

(* Then on udp6, at the same port: a busy port is tried again from the start,
   another error gives up udp4 as well. *)
listen6(res) ==
    LET had4 == mu = {4}
        drop4 == IF had4 THEN clos(live, 4) ELSE live
    IN /\ mu \in {{4}, {0}}
       /\ ended => res = "err"
       /\ CASE res = "ok" -> /\ live' = [live EXCEPT ![6] = @ + 1]
                             /\ sock' = [sock EXCEPT ![4] = had4, ![6] = TRUE]
                             /\ mu' = {6} /\ UNCHANGED tries
            [] res = "no6" -> /\ sock' = [sock EXCEPT ![4] = had4]
                              /\ mu' = {4, 6}
                              /\ UNCHANGED <<live, tries>>
            [] res = "busy" /\ tries < MaxTries ->
                              live' = drop4 /\ tries' = tries + 1 /\ mu' = {} /\ UNCHANGED sock
            [] OTHER -> live' = drop4 /\ mu' = Nil /\ tries' = 0 /\ UNCHANGED sock
       /\ UNCHANGED <<hole, eps, use6, closed, ended, ctxDone, quits, obsCh, sends, ops>>

(* probe: the first peer reachable over an open socket, v4 before v6, decides
   the family; with none it is the setting. The lock is released. *)
probe(reach) ==
    LET can(p) == {f \in Peers[p] : sock[f] /\ f \in reach}
        first == {4 \notin can(p) : p \in {q \in eps : can(q) # {}}}
    IN /\ mu \in {{6}, {4, 6}}
       /\ use6' \in (IF first = {} THEN {Prefer6} ELSE first)
       /\ mu' = Nil /\ tries' = 0
       /\ UNCHANGED <<sock, live, hole, eps, closed, ended, ctxDone, quits, obsCh, sends, ops>>

Pause == mu = Nil /\ ~hole /\ hole' = TRUE
         /\ UNCHANGED <<sockets, eps, use6, closed, ended, ctxDone, quits, obsCh, sends, ops>>
Resume == mu = Nil /\ hole /\ hole' = FALSE
          /\ UNCHANGED <<sockets, eps, use6, closed, ended, ctxDone, quits, obsCh, sends, ops>>

(* Close, of the device or at the end of the proxy's context. The peers are
   forgotten whether or not it was open. *)
shut ==
    /\ mu = Nil
    /\ eps' = {}
    /\ IF closed THEN UNCHANGED <<sock, live, closed, hole, obsCh>>
       ELSE /\ closed' = TRUE /\ hole' = FALSE
            /\ live' = [f \in Families |-> IF sock[f] THEN live[f] - 1 ELSE live[f]]
            /\ sock' = [f \in Families |-> FALSE]
            /\ obsCh' = sendObsMsg("Clo")
    /\ UNCHANGED <<mu, tries, use6, ended, ctxDone, sends, ops>>

Close == shut /\ UNCHANGED quits

(* The proxy's context ends: nothing more is observed; quit closes once, and
   so does the device, which then opens no more (wgproxy.go:812). *)
quit ==
    /\ ~ctxDone
    /\ ctxDone' = TRUE /\ quits' = {"bind", "device"}
    /\ UNCHANGED <<sockets, hole, eps, use6, closed, ended, obsCh, sends, ops>>

quitClose ==
    \E q \in quits : quits' = quits \ {q} /\ shut

(* The observer hears of an operation and may say that the proxy has ended. *)
processObsMsg(end) ==
    /\ ~ctxDone /\ obsCh # <<>>
    /\ obsCh' = Tail(obsCh)
    /\ ended' = (ended \/ end)
    /\ UNCHANGED <<sockets, hole, eps, use6, closed, ctxDone, quits, sends, ops>>

(* A socket's receive routine reports each read. *)
receive(f) ==
    /\ sock[f] /\ obsCh = <<>> /\ ops < MaxOps
    /\ obsCh' = sendObsMsg("Rcv")
    /\ ops' = ops + 1
    /\ UNCHANGED <<sockets, hole, eps, use6, closed, ended, ctxDone, quits, sends>>

---------------------------------------------------------------------------
(* Send: the address in use, then getconn for its family, under the lock. *)
Send(s, p) ==
    /\ sends[s] = Nil /\ ops < MaxOps
    /\ sends' = [sends EXCEPT ![s] = [pc |-> "conn", peer |-> p, dst |-> get(p, use6)]]
    /\ ops' = ops + 1
    /\ UNCHANGED <<sockets, hole, eps, use6, closed, ended, ctxDone, quits, obsCh>>

Sent(s) == sends' = [sends EXCEPT ![s] = Nil] /\ obsCh' = sendObsMsg("Snd")

(* No socket for the family: getconn is called again for the other one if the
   peer has it, the lock having been let go in between; what is stored is the
   family without a socket. *)
getconn(s) ==
    LET k == sends[s]
        alt == 10 - k.dst
        go(pc, f) == sends' = [sends EXCEPT ![s].pc = pc, ![s].dst = f] /\ UNCHANGED obsCh
    IN /\ sends[s] # Nil /\ k.pc \in {"conn", "alt"} /\ mu = Nil
       /\ IF ~hole /\ sock[k.dst] THEN go("write", k.dst) /\ UNCHANGED use6
          ELSE IF ~hole /\ k.pc = "conn" /\ alt \in Peers[k.peer]
          THEN go("alt", alt) /\ use6' = (k.dst = 6)
          ELSE Sent(s) /\ UNCHANGED use6
       /\ UNCHANGED <<sockets, hole, eps, closed, ended, ctxDone, quits, ops>>

(* The write takes the peer's address anew, for the family in use by then. *)
write(s) ==
    LET k == sends[s] IN
    /\ sends[s] # Nil /\ k.pc = "write"
    /\ Sent(s)
    /\ UNCHANGED <<sockets, hole, eps, use6, closed, ended, ctxDone, quits, ops>>

---------------------------------------------------------------------------
opening ==
    \/ \E r \in {"ok", "no4", "err"} : listen4(r)
    \/ \E r \in {"ok", "no6", "busy", "err"} : listen6(r)
    \/ \E r \in SUBSET Families : probe(r)

Next ==
    \/ \E p \in DOMAIN Peers : ParseEndpoint(p)
    \/ Open \/ AlreadyOpen \/ opening
    \/ Pause \/ Resume \/ Close \/ quit \/ quitClose
    \/ \E e \in BOOLEAN : processObsMsg(e)
    \/ \E f \in Families : receive(f)
    \/ \E s \in Senders : getconn(s) \/ write(s) \/ \E p \in DOMAIN Peers : Send(s, p)

Spec == Init /\ [][Next]_vars

---------------------------------------------------------------------------
TypeOK ==
    /\ sock \in [Families -> BOOLEAN] /\ live \in [Families -> 0..2]
    /\ mu = Nil \/ mu \subseteq {0, 4, 6}
    /\ tries \in 0..MaxTries /\ eps \subseteq DOMAIN Peers
    /\ {hole, use6, closed, ended, ctxDone} \subseteq BOOLEAN
    /\ Len(obsCh) <= ObsCap

(* No socket is lost: whatever failed, was retried or raced, once Open has
   let go of the lock the sockets open are the ones the bind can close, and a
   closed bind has none (wgconn.go:367-408, 582-596). *)
NoSocketLeak ==
    mu = Nil =>
      /\ \A f \in Families : live[f] = (IF sock[f] THEN 1 ELSE 0)
      /\ closed => \A f \in Families : live[f] = 0

(* Once the proxy's context ends every socket is closed for good, though an Open may
   have been under way (wgconn.go:190, 612). *)
QuitCloses == ctxDone ~> [](\A f \in Families : live[f] = 0)
=============================================================================
