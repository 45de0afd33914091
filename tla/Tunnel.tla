------------------------------- MODULE Tunnel -------------------------------
(***************************************************************************)
(* The tunnel (intra/tunnel.go, tunnel/tunnel.go, intra/tun2socks.go):     *)
(* Connect makes an rtunnel, which owns the proxies and the handlers and   *)
(* points to its current gtunnel, a network stack over the TUN device.     *)
(* Restart replaces the gtunnel; several callers may restart at once, and  *)
(* the one whose compare-and-swap fails undoes its own. Every gtunnel has  *)
(* a goroutine that disconnects it when the context ends or when its       *)
(* endpoint stays away (waitForEndpoint). The link MTU reaches the proxies *)
(* through goroutines (RefreshProto). The packet capture (tunnel/sink.go)  *)
(* is a file that is swapped in while another goroutine writes packets.    *)
(*                                                                         *)
(* Time is abstract: the endpoint's uptime is long or short by choice.     *)
(***************************************************************************)
EXTENDS Integers, Sequences, FiniteSets

CONSTANTS Callers,        \* API callers, 1..n: the first that is idle makes a call
          Gs,             \* gtunnels, 1..n
          ConnectMtus,    \* link MTUs Connect is called with
          Mtus,           \* link MTUs of later calls
          TunMtu,         \* the TUN device's MTU
          MaxChecks,      \* maxchecks of waitForEndpoint
          MaxRestarts, MaxSets, MaxPcaps,    \* bounds: calls
          MaxFails,       \* and Connects that fail
          Nil

VARIABLES rts,       \* the rtunnels made so far, in order
          held,      \* rtunnels that Connect returned
          g,         \* each gtunnel
          c,         \* each caller's Restart
          echo,      \* the gtunnel whose stack hdlEcho has
          pxmtu,     \* the proxies' link MTU
          refreshes, \* goroutines about to call RefreshProto
          n,         \* calls so far
          pcap       \* the capture: the file attached, its content, queued packets

vars == <<rts, held, g, c, echo, pxmtu, refreshes, n, pcap>>

Idle  == [pc |-> "idle", old |-> Nil, new |-> Nil, mtu |-> 0]
NoG   == [st |-> "none", of |-> 0, ctx |-> FALSE, ep |-> FALSE, w |-> "none", long |-> FALSE, i |-> 0]
NoCap == [sink |-> 0, files |-> 0, out |-> <<>>, on |-> FALSE, queue |-> 0, pc |-> "idle"]

TypeOK ==
  /\ rts \in Seq([closed : BOOLEAN, ctx : BOOLEAN, t : Gs, linkmtu : Int]) /\ Len(rts) <= 2
  /\ held \subseteq 1..Len(rts)
  /\ g \in [Gs -> [st : {"none", "up", "closed", "stray"}, of : 0..2, ctx : BOOLEAN, ep : BOOLEAN,
                   w : {"none", "sleep", "wait", "loop", "quit", "done"},
                   long : BOOLEAN, i : 0..MaxChecks]]
  /\ \A a \in Callers : c[a].pc \in {"idle", "load", "disc", "new", "cas", "undo", "rev"}
  /\ echo \in Gs \cup {Nil} /\ pxmtu \in Int
  /\ \A x \in refreshes : x.mtu \in Int

Init ==
  /\ rts = <<>> /\ held = {} /\ g = [x \in Gs |-> NoG] /\ c = [a \in Callers |-> Idle]
  /\ echo = Nil /\ pxmtu = 0 /\ refreshes = {}
  /\ n = [restarts |-> 0, sets |-> 0, pcaps |-> 0, fails |-> 0] /\ pcap = NoCap

fresh(x)   == g[x].st = "none" /\ \A y \in Gs : y < x => g[y].st # "none"
up(x, of)  == [st |-> "up", of |-> of, ctx |-> rts[of].ctx, ep |-> TRUE, w |-> "sleep",
               long |-> FALSE, i |-> 0]
closed(r)  == IF r.st = "up" THEN [r EXCEPT !.st = "closed", !.ep = FALSE] ELSE r
\* What NewGTunnel leaves when it fails: nothing, or, when Up fails once the NIC is
\* made, a stack with its endpoint attached that nobody has (only its context ends).
failed     == {g} \cup {[g EXCEPT ![x] = [NoG EXCEPT !.st = "stray"]] : x \in {y \in Gs : fresh(y)}}
live(of)   == of \in 1..Len(rts) /\ ~rts[of].closed

-----------------------------------------------------------------------------
(* Connect *)

\* NewTunnel2: an rtunnel with its proxies and its first gtunnel.
newTunnel(x, mtu) ==
  /\ rts' = Append(rts, [closed |-> FALSE, ctx |-> TRUE, t |-> x, linkmtu |-> mtu])
  /\ g' = [g EXCEPT ![x] = [st |-> "up", of |-> Len(rts) + 1, ctx |-> TRUE, ep |-> TRUE,
                            w |-> "sleep", long |-> FALSE, i |-> 0]]
  /\ echo' = x /\ pxmtu' = mtu
  /\ UNCHANGED <<c, refreshes, n, pcap>>

\* Connect without a link MTU makes a tunnel with the TUN's, and goes on.
ConnectDefault ==
  /\ rts = <<>>
  /\ \E m \in ConnectMtus : m <= 0
  /\ \E x \in Gs : fresh(x) /\ newTunnel(x, TunMtu)
  /\ UNCHANGED held

Connect ==
  /\ \E m \in ConnectMtus :
       /\ Len(rts) = IF m <= 0 THEN 1 ELSE 0
       /\ held = {}
       /\ \E x \in Gs : fresh(x) /\ newTunnel(x, m)
  /\ held' = {Len(rts) + 1}

\* NewTunnel2 fails in its NewGTunnel; Connect throws, and may be called again.
ConnectFails ==
  /\ held = {} /\ n.fails < MaxFails
  /\ n' = [n EXCEPT !.fails = @ + 1]
  /\ g' \in failed
  /\ UNCHANGED <<rts, held, c, echo, pxmtu, refreshes, pcap>>

\* Disconnect ends the rtunnel's context, which the contexts of its gtunnels
\* come from.
endCtx(of) == g' = [x \in Gs |-> IF g[x].of = of THEN [g[x] EXCEPT !.ctx = FALSE] ELSE g[x]]

Disconnect(of) ==
  /\ of \in held /\ live(of)
  /\ rts' = [rts EXCEPT ![of].closed = TRUE, ![of].ctx = FALSE]
  /\ endCtx(of)
  /\ UNCHANGED <<held, c, echo, pxmtu, refreshes, n, pcap>>

-----------------------------------------------------------------------------
(* Restart, one caller's steps *)

of == Len(rts)          \* the rtunnel that callers hold

Restart(a) ==
  /\ c[a].pc = "idle" /\ of \in held /\ live(of)
  /\ \A b \in Callers : c[b].pc = "idle" => a <= b
  /\ n.restarts < MaxRestarts
  /\ n' = [n EXCEPT !.restarts = @ + 1]
  /\ \E m \in Mtus : c' = [c EXCEPT ![a] = [Idle EXCEPT !.pc = "load", !.mtu = m]]
  /\ UNCHANGED <<rts, held, g, echo, pxmtu, refreshes, pcap>>

\* The old gtunnel is loaded and then disconnected; the handlers are reset.
restartLoad(a) ==
  /\ c[a].pc = "load"
  /\ c' = [c EXCEPT ![a].pc = "disc", ![a].old = rts[of].t]
  /\ UNCHANGED <<rts, held, g, echo, pxmtu, refreshes, n, pcap>>

restartDisconnect(a) ==
  /\ c[a].pc = "disc"
  /\ g' = [g EXCEPT ![c[a].old] = closed(@)]
  /\ c' = [c EXCEPT ![a].pc = "new"]
  /\ UNCHANGED <<rts, held, echo, pxmtu, refreshes, n, pcap>>

\* NewGTunnel may fail; the new stack's forwarder is the echo handler from then on.
restartNew(a) ==
  /\ c[a].pc = "new"
  /\ \/ \E x \in Gs :
          /\ fresh(x)
          /\ g' = [g EXCEPT ![x] = up(x, of)]
          /\ c' = [c EXCEPT ![a].pc = "cas", ![a].new = x]
          /\ echo' = x
     \/ c' = [c EXCEPT ![a] = Idle] /\ g' \in failed /\ UNCHANGED echo
  /\ UNCHANGED <<rts, held, pxmtu, refreshes, n, pcap>>

restartCas(a) ==
  /\ c[a].pc = "cas"
  /\ IF rts[of].t = c[a].old
     THEN rts' = [rts EXCEPT ![of].t = c[a].new] /\ c' = [c EXCEPT ![a].pc = "rev"]
     ELSE rts' = rts /\ c' = [c EXCEPT ![a].pc = "undo"]
  /\ UNCHANGED <<held, g, echo, pxmtu, refreshes, n, pcap>>

restartUndo(a) ==
  /\ c[a].pc = "undo"
  /\ g' = [g EXCEPT ![c[a].new] = closed(@)]
  /\ c' = [c EXCEPT ![a] = Idle]
  /\ UNCHANGED <<rts, held, echo, pxmtu, refreshes, n, pcap>>

\* The proxies get the new reverser, and are refreshed in a goroutine.
restartRev(a) ==
  /\ c[a].pc = "rev"
  /\ refreshes' = refreshes \cup {[mtu |-> c[a].mtu, k |-> n.restarts + n.sets]}
  /\ c' = [c EXCEPT ![a] = Idle]
  /\ UNCHANGED <<rts, held, g, echo, pxmtu, n, pcap>>

\* A Restart that takes too long ends the rtunnel's context.
restartTimeout(a) ==
  /\ c[a].pc \notin {"idle", "load"}
  /\ rts[of].ctx
  /\ rts' = [rts EXCEPT ![of].ctx = FALSE]
  /\ endCtx(of)
  /\ UNCHANGED <<held, c, echo, pxmtu, refreshes, n, pcap>>

-----------------------------------------------------------------------------
(* The link *)

\* SetLinkMtu: the proxies are refreshed if the link MTU changes.
SetLinkMtu ==
  /\ of \in held /\ n.sets < MaxSets
  /\ n' = [n EXCEPT !.sets = @ + 1]
  /\ \E m \in Mtus :
       /\ rts' = [rts EXCEPT ![of].linkmtu = m]
       /\ refreshes' = IF rts[of].linkmtu = m THEN refreshes
                       ELSE refreshes \cup {[mtu |-> m, k |-> n.restarts + n.sets]}
  /\ UNCHANGED <<held, g, c, echo, pxmtu, pcap>>

\* SetLinkAndRoutes2 with the same MTU: the endpoint is swapped (it is attached
\* again), unless the stack is gone.
SetLinkAndRoutes ==
  /\ of \in held /\ live(of) /\ n.sets < MaxSets
  /\ n' = [n EXCEPT !.sets = @ + 1]
  /\ g' = [g EXCEPT ![rts[of].t].ep = g[rts[of].t].st = "up"]
  /\ UNCHANGED <<rts, held, c, echo, pxmtu, refreshes, pcap>>

\* Unlink, or an endpoint that closes by itself.
Unlink ==
  /\ of \in held /\ n.sets < MaxSets
  /\ n' = [n EXCEPT !.sets = @ + 1]
  /\ g' = [g EXCEPT ![rts[of].t].ep = FALSE]
  /\ UNCHANGED <<rts, held, c, echo, pxmtu, refreshes, pcap>>

RefreshProto(r) ==
  /\ pxmtu' = r.mtu
  /\ refreshes' = refreshes \ {r}
  /\ UNCHANGED <<rts, held, g, c, echo, n, pcap>>

\* waitForEndpoint: sleeps, then waits until the endpoint closes or the context
\* ends. An endpoint that was up for long resets the count; one that was not
\* there, or not for long, adds to it.
waiter(x) ==
  /\ g[x].w \in {"sleep", "wait", "loop", "quit"}
  /\ \/ /\ g[x].w = "sleep"
        /\ g' = [g EXCEPT ![x].w = "wait", ![x].long = g[x].ep]
     \/ /\ g[x].w = "wait" /\ ~g[x].ctx
        /\ g' = [g EXCEPT ![x] = [closed(g[x]) EXCEPT !.w = "done", !.long = FALSE, !.i = 0]]
     \/ /\ g[x].w = "wait" /\ ~g[x].ep
        /\ \E k \in IF g[x].long THEN {0, g[x].i + 1} ELSE {g[x].i + 1} :
             g' = [g EXCEPT ![x].w = "loop", ![x].long = FALSE, ![x].i = k]
     \/ /\ g[x].w = "loop"
        /\ g' = [g EXCEPT ![x].w = IF g[x].i < MaxChecks /\ g[x].st = "up" THEN "sleep" ELSE "quit"]
     \/ /\ g[x].w = "quit"
        /\ g' = [g EXCEPT ![x] = [closed(g[x]) EXCEPT !.w = "done", !.ctx = FALSE, !.i = 0]]
  /\ UNCHANGED <<rts, held, c, echo, pxmtu, refreshes, n, pcap>>

-----------------------------------------------------------------------------
(* The packet capture: SetPcap detaches the file, opens another and attaches  *)
(* it; the sniffer queues packets while the capture is on; another goroutine  *)
(* writes them to the file that is attached.                                  *)

SetPcap ==
  /\ of \in held /\ pcap.pc = "idle" /\ n.pcaps < MaxPcaps
  /\ n' = [n EXCEPT !.pcaps = @ + 1]
  /\ pcap' = [pcap EXCEPT !.pc = "file", !.sink = 0, !.on = FALSE, !.files = @ + 1, !.out = <<>>]
  /\ UNCHANGED <<rts, held, g, c, echo, pxmtu, refreshes>>

\* file: the new file is swapped in, and then its header is written.
file ==
  /\ pcap.pc \in {"file", "header"}
  /\ pcap' = IF pcap.pc = "file" THEN [pcap EXCEPT !.pc = "header", !.sink = pcap.files]
             ELSE [pcap EXCEPT !.pc = "idle", !.out = Append(@, "header"), !.on = TRUE]
  /\ UNCHANGED <<rts, held, g, c, echo, pxmtu, refreshes, n>>

sniff ==
  /\ pcap.on /\ pcap.queue < 1
  /\ pcap' = [pcap EXCEPT !.queue = @ + 1]
  /\ UNCHANGED <<rts, held, g, c, echo, pxmtu, refreshes, n>>

writeAsync ==
  /\ pcap.queue > 0
  /\ pcap' = [pcap EXCEPT !.queue = @ - 1,
                          !.out = IF pcap.sink # 0 /\ Len(@) < 2 THEN Append(@, "packet") ELSE @]
  /\ UNCHANGED <<rts, held, g, c, echo, pxmtu, refreshes, n>>

-----------------------------------------------------------------------------

restart(a) ==
  \/ restartLoad(a) \/ restartDisconnect(a) \/ restartNew(a)
  \/ restartCas(a) \/ restartUndo(a) \/ restartRev(a)

Next ==
  \/ ConnectDefault \/ Connect \/ ConnectFails \/ \E o \in 1..2 : Disconnect(o)
  \/ \E a \in Callers : Restart(a) \/ restart(a) \/ restartTimeout(a)
  \/ SetLinkMtu \/ SetLinkAndRoutes \/ Unlink
  \/ \E r \in refreshes : RefreshProto(r)
  \/ \E x \in Gs : waiter(x)
  \/ SetPcap \/ file \/ sniff \/ writeAsync

Spec == Init /\ [][Next]_vars

-----------------------------------------------------------------------------
(* Properties *)

\* A network stack that is up is the current one of its rtunnel, or in the
\* hands of a Restart that has yet to swap it in or to undo it: restarts that
\* race leave no stack reading the TUN device beside the current one. (One whose
\* NewGTunnel failed in Up may: it is a stray, and nothing ends it.)
NoStackLeak ==
  \A x \in Gs : g[x].st = "up" =>
    \/ \E o \in 1..Len(rts) : rts[o].t = x
    \/ \E a \in Callers : c[a].new = x

\* Once the tunnel is disconnected, every stack of it ends, those that a
\* Restart was making included.
DisconnectEnds ==
  \A x \in Gs : (g[x].st = "up" /\ rts[g[x].of].closed) ~> g[x].st = "closed"
=============================================================================
