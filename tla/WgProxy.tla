------------------------------ MODULE WgProxy ------------------------------
(***************************************************************************)
(* A WireGuard proxy (intra/ipn/wgproxy.go): its status, moved by          *)
(* compare-and-swap from the connection's observer, Pause, Resume and      *)
(* Close; pings and refreshes rationed by time; the events that take the   *)
(* wireguard device down and up; the hop it dials over; its mtu; and the   *)
(* channel that carries packets from the netstack to the device.           *)
(*                                                                         *)
(* Every call runs as a thread of its own, one step per atomic operation.  *)
(* Time is a small counter; time stamps that only choose between TOK, TKO, *)
(* TZZ and TNT are drawn freely (Stamps).                                  *)
(***************************************************************************)
EXTENDS Integers, FiniteSets, Sequences

CONSTANTS
    Threads,     \* calls that may run at once
    Kinds,       \* calls that are made
    Reports,     \* <<operation, error>> pairs the connection reports
    NetMtus, DesiredMtus, ViaMtu, MinMtu, \* mtus: of the network, asked for, of the via, least
    AgeThreshold, MinRefresh, PingThreshold, \* wgproxy.go:72,84; proxies.go:152
    TNTAfter,    \* markTNTAfterMillis
    MaxNow, MaxCalls, EventCap, \* bounds: the clock, calls; capacity of events
    Nil

VARIABLES
    status,
    via, viaUp, \* is a via set, and is it in use?
    hole,       \* is the connection blackholed (wgep paused)?
    dev,        \* the device: "new", "up", "down", "failed" (down, as its last Up failed), "closed"
    events,     \* tun events waiting for the device
    ingress,    \* "open" or "closed"
    panicked,   \* a send found ingress closed
    netmtu, desiredmtu, mtu,
    mtuVia,     \* history: was the mtu set last for a via?
    now, latestOpen, latestRefresh, latestPing,
    threads, calls

vars == <<status, via, viaUp, hole, dev, events, ingress, panicked, netmtu, desiredmtu, mtu,
          mtuVia, now, latestOpen, latestRefresh, latestPing, threads, calls>>

clocks == <<now, latestOpen, latestRefresh, latestPing>>
link == <<via, viaUp, netmtu, desiredmtu, mtu, mtuVia>>
wire == <<ingress, panicked>>

Statuses == {"TUP", "TOK", "TKO", "TZZ", "TNT", "TPU", "END"}
Ops == {"Rcv", "Snd", "Crc", "Csn", "Con", "Opn", "Clo", "Drp"}

NOMTU == 0
Overhead == 80

max(a, b) == IF a > b THEN a ELSE b
min(a, b) == IF a < b THEN a ELSE b
Abs(a) == IF a < 0 THEN -a ELSE a

Read(op) == op \in {"Rcv", "Crc"}

candial2(s) == s \notin {"END", "TPU"}
tooyoung == now - latestOpen < AgeThreshold

(* Last read, last write, and the last of each that succeeded. *)
Stamps == [rx : {0, 1}, tx : {0, 1}, goodRead : {0, 1, TNTAfter + 2}, goodWrite : {0, 1, TNTAfter + 2}]

---------------------------------------------------------------------------
(* The mtu of the tunnel within that of the network or the hop. *)
calcTunMtu2(net, least) == max(least - Overhead, net - Overhead)
calcTunMtu(net) == calcTunMtu2(net, NOMTU)

\* Mutant: no room for the header.
reconcileMtuBare(underlay, overlay, least) ==
    IF underlay < overlay THEN max(underlay, NOMTU) ELSE max(overlay, least)

reconcileMtu(underlay, overlay, least) ==
    IF underlay < overlay THEN max(underlay - Overhead, NOMTU) ELSE calcTunMtu2(overlay, least)

(* maybeResetMtu: what is available to us, and the mtu that results (NOMTU
   when it is refused). *)
mtuAvailable(hopping) == IF hopping THEN calcTunMtu(ViaMtu) ELSE netmtu

maybeResetMtu(hopping, desired) ==
    LET avail == mtuAvailable(hopping) IN
    IF avail < MinMtu THEN NOMTU ELSE reconcileMtu(avail, min(desired, avail), MinMtu)

---------------------------------------------------------------------------
(* listener: the status that an operation of the connection leads to. *)
afterErr(op, err) ==
    IF op = "Opn" THEN "TNT"
    ELSE IF Read(op) /\ err = "timeout" THEN "TZZ"
    ELSE IF err = "unreachable" THEN "TNT" ELSE "TKO"

verdict(op, err, age, t) ==
    LET s == IF err # "none" THEN afterErr(op, err) ELSE "TOK"
        newReads == t.rx > 0
        newWrites == t.tx > 0
        apart == (newReads \/ newWrites) /\ Abs(t.goodWrite - t.goodRead) > 2 * TNTAfter
        readThres == newReads /\ t.rx - t.goodRead > TNTAfter
        writeThres == newWrites /\ t.tx - t.goodWrite > TNTAfter
    IN IF op = "Clo" THEN "TNT"
       ELSE IF age > AgeThreshold /\ s \in {"TOK", "TKO"}
       THEN IF ~newReads /\ ~newWrites THEN "TZZ"
            ELSE IF readThres \/ writeThres \/ apart THEN "TNT" ELSE s
       ELSE s

---------------------------------------------------------------------------

(* makeWgTun, newdevice: the device's first event is queued. *)
Init ==
    /\ status = "TUP"
    /\ via = FALSE /\ viaUp = FALSE
    /\ hole = FALSE
    /\ dev = "new" /\ events = <<"Up">>
    /\ ingress = "open" /\ panicked = FALSE
    /\ netmtu \in NetMtus /\ desiredmtu \in DesiredMtus
    /\ mtu = reconcileMtu(netmtu, desiredmtu, MinMtu) /\ mtu > NOMTU
    /\ mtuVia = FALSE
    /\ now = 1 /\ latestOpen = 0 /\ latestRefresh = 1 /\ latestPing = 0
    /\ threads = [t \in Threads |-> Nil]
    /\ calls = 0

New(kind, report) == [kind |-> kind, pc |-> 1, report |-> report, via |-> FALSE,
                      cur |-> IF kind \in {"listen", "pause", "refresh"} THEN status ELSE Nil,
                      then |-> IF kind = "ping" THEN latestPing ELSE 0]

(* Threads are alike: the first that is free takes the next call. *)
free(t) == threads[t] = Nil /\ \A u \in Threads : threads[u] = Nil => t <= u

(* A call begins as a thread that has made its first load. *)
Fork(t, kind, report) ==
    /\ kind \in Kinds /\ free(t) /\ calls < MaxCalls
    /\ threads' = [threads EXCEPT ![t] = New(kind, report)]
    /\ calls' = calls + 1

In(t, kind, pc) == threads[t] # Nil /\ threads[t].kind = kind /\ threads[t].pc = pc
Goto(t, pc) == threads' = [threads EXCEPT ![t].pc = pc]
Done(t) == threads' = [threads EXCEPT ![t] = Nil]

---------------------------------------------------------------------------
(* The connection or a dial reports an operation; paused and stopped proxies
   do not listen, and one that has not opened ignores dials and drops. *)
ignored(r) == \/ status \in {"END", "TPU"}
              \/ status = "TUP" /\ r[1] \in {"Con", "Drp"}

listener(t, r) ==
    /\ ~ignored(r)
    /\ Fork(t, "listen", r)
    /\ UNCHANGED <<status, hole, dev, events, wire, link, clocks>>

(* The deferred compare-and-swap: it fails if anyone moved the status since. *)
listenerSwap(t) ==
    LET k == threads[t]
        op == k.report[1]
        opened == IF op = "Opn" THEN now ELSE latestOpen
    IN /\ In(t, "listen", 1)
       /\ \E s \in {verdict(op, k.report[2], now - opened, x) : x \in Stamps} :
            status' = IF status = k.cur THEN s ELSE status
       /\ latestOpen' = opened
       /\ Done(t)
       /\ UNCHANGED <<hole, dev, events, wire, link, now, latestRefresh, latestPing, calls>>

Pause(t) ==
    /\ status # "END"
    /\ Fork(t, "pause", Nil)
    /\ UNCHANGED <<status, hole, dev, events, wire, link, clocks>>

pauseSwap(t) ==
    /\ In(t, "pause", 1)
    /\ IF status = threads[t].cur THEN status' = "TPU" /\ Goto(t, 2)
       ELSE UNCHANGED status /\ Done(t)
    /\ UNCHANGED <<hole, dev, events, wire, link, clocks, calls>>

pauseHole(t) ==
    /\ In(t, "pause", 2)
    /\ hole' = TRUE
    /\ Done(t)
    /\ UNCHANGED <<status, dev, events, wire, link, clocks, calls>>

Resume(t) ==
    /\ status = "TPU"
    /\ Fork(t, "resume", Nil)
    /\ UNCHANGED <<status, hole, dev, events, wire, link, clocks>>

thenRefresh(t) == threads' = [threads EXCEPT ![t] = New("refresh", Nil)]

resumeSwap(t) ==
    /\ In(t, "resume", 1)
    /\ IF status = "TPU" THEN status' = "TUP" /\ Goto(t, 2)
       ELSE UNCHANGED status /\ thenRefresh(t)
    /\ UNCHANGED <<hole, dev, events, wire, link, clocks, calls>>

(* ... then a refresh, in any case. *)
resumeHole(t) ==
    /\ In(t, "resume", 2)
    /\ hole' = FALSE
    /\ thenRefresh(t)
    /\ UNCHANGED <<status, dev, events, wire, link, clocks, calls>>

---------------------------------------------------------------------------
Refresh(t) ==
    /\ Fork(t, "refresh", Nil)
    /\ UNCHANGED <<status, hole, dev, events, wire, link, clocks>>

(* Not when stopped or paused, too young, or done a moment ago: latestRefresh
   is loaded here, and stored in a step of its own. *)
refreshGate(t) ==
    /\ In(t, "refresh", 1)
    /\ IF candial2(threads[t].cur) /\ ~tooyoung /\ now - latestRefresh >= MinRefresh
       THEN threads' = [threads EXCEPT ![t].pc = 2, ![t].cur = Nil, ![t].then = now]
       ELSE Done(t)
    /\ UNCHANGED <<status, hole, dev, events, wire, link, clocks, calls>>

refreshStore(t) ==
    /\ In(t, "refresh", 2)
    /\ latestRefresh' = threads[t].then /\ latestPing' = 0
    /\ threads' = [threads EXCEPT ![t].pc = 3, ![t].then = 0]
    /\ UNCHANGED <<status, hole, dev, events, wire, link, now, latestOpen, calls>>

(* The via is loaded; it is told, and may be waited for ... *)
refreshVia(t) ==
    /\ In(t, "refresh", 3)
    /\ threads' = [threads EXCEPT ![t].pc = 4, ![t].via = via]
    /\ UNCHANGED <<status, hole, dev, events, wire, link, clocks, calls>>

(* maybeResetMtu, for the via given: the mtu and its event, or neither. *)
resetMtu(hopping) ==
    LET m == maybeResetMtu(hopping, desiredmtu) IN
    /\ Len(events) < EventCap
    /\ IF m = NOMTU THEN UNCHANGED <<mtu, mtuVia, events>>
       ELSE mtu' = m /\ mtuVia' = hopping /\ events' = Append(events, "MTU")

canReset(hopping) == maybeResetMtu(hopping, desiredmtu) # NOMTU

(* ... before resetMtu for that via, though another may be set by now; if it
   cannot, the refresh ends here. *)
refreshMtu(t) ==
    /\ In(t, "refresh", 4)
    /\ resetMtu(threads[t].via)
    /\ IF canReset(threads[t].via) THEN Goto(t, 5) ELSE Done(t)
    /\ UNCHANGED <<status, hole, dev, wire, via, viaUp, netmtu, desiredmtu, clocks, calls>>

(* EventDown, then EventUp: two sends, so refreshes may interleave theirs. *)
refreshDown(t) ==
    /\ In(t, "refresh", 5) /\ Len(events) < EventCap
    /\ events' = Append(events, "Down")
    /\ Goto(t, 6)
    /\ UNCHANGED <<status, hole, dev, wire, link, clocks, calls>>

refreshUp(t) ==
    /\ In(t, "refresh", 6) /\ Len(events) < EventCap
    /\ events' = Append(events, "Up")
    /\ Done(t)
    /\ UNCHANGED <<status, hole, dev, wire, link, clocks, calls>>

(* OnProtoChange: the mtu of the network changes, then a refresh. *)
OnProtoChange(t, m) ==
    /\ m # netmtu
    /\ netmtu' = m
    /\ Fork(t, "refresh", Nil)
    /\ UNCHANGED <<status, hole, dev, events, wire, via, viaUp, desiredmtu, mtu, mtuVia, clocks>>

(* Hop: the mtu is reset for a via, if it suffices, before the via is set ... *)
Hop(t, on) ==
    /\ status # "END" /\ via # on
    /\ Fork(t, IF on THEN "hop" ELSE "unhop", Nil)
    /\ UNCHANGED <<status, hole, dev, events, wire, link, clocks>>

hopMtu(t) ==
    /\ In(t, "hop", 1)
    /\ resetMtu(TRUE)
    /\ IF canReset(TRUE) THEN Goto(t, 2) ELSE Done(t)
    /\ UNCHANGED <<status, hole, dev, wire, via, viaUp, netmtu, desiredmtu, clocks, calls>>

(* ... and a refresh follows, unless the via is the same by now. *)
hopSwap(t) ==
    LET on == threads[t].kind = "hop" IN
    /\ In(t, "hop", 2) \/ In(t, "unhop", 1)
    /\ via' = on
    /\ IF ~on THEN Goto(t, 2) ELSE IF via THEN Done(t) ELSE thenRefresh(t)
    /\ UNCHANGED <<status, hole, dev, events, wire, viaUp, netmtu, desiredmtu, mtu, mtuVia, clocks, calls>>

(* A via is removed before the mtu is reset; that it cannot be is ignored. *)
unhopMtu(t) ==
    /\ In(t, "unhop", 2)
    /\ resetMtu(FALSE)
    /\ thenRefresh(t)
    /\ UNCHANGED <<status, hole, dev, wire, via, viaUp, netmtu, desiredmtu, clocks, calls>>

(* update: a new configuration is taken in place, unless the connection is
   closed or its routes are refused (~ok); the caller then replaces the proxy. *)
update(t, d) ==
    /\ status \notin {"END", "TNT"} /\ d # desiredmtu
    /\ dev \in {"new", "up"}
    /\ Fork(t, "update", d)
    /\ UNCHANGED <<status, hole, dev, events, wire, link, clocks>>

updateStore(t, ok) ==
    /\ In(t, "update", 1)
    /\ IF ok THEN desiredmtu' = threads[t].report /\ Goto(t, 2)
       ELSE UNCHANGED desiredmtu /\ Done(t)
    /\ UNCHANGED <<status, hole, dev, events, wire, via, viaUp, netmtu, mtu, mtuVia, clocks, calls>>

updateMtu(t) ==
    /\ In(t, "update", 2)
    /\ resetMtu(via)
    /\ Goto(t, 3)
    /\ UNCHANGED <<status, hole, dev, wire, via, viaUp, netmtu, desiredmtu, clocks, calls>>

(* If the device refuses it (~ok) the proxy is replaced too, its mtu changed. *)
updateUp(t, ok) ==
    /\ In(t, "update", 3) /\ Len(events) < EventCap
    /\ events' = IF ok THEN Append(events, "Up") ELSE events
    /\ Done(t)
    /\ UNCHANGED <<status, hole, dev, wire, link, clocks, calls>>

---------------------------------------------------------------------------
Ping(t) ==
    /\ candial2(status)
    /\ Fork(t, "ping", Nil)
    /\ UNCHANGED <<status, hole, dev, events, wire, link, clocks>>

(* latestPing was loaded; it is compared and swapped. The test is the code's:
   "recent" holds when the last ping is more than the threshold ago. *)
pingSend(t) ==
    LET then == threads[t].then
        neversent == then = 0
        recent == then + PingThreshold < now
    IN /\ In(t, "ping", 1)
       /\ IF (neversent \/ ~recent) /\ latestPing = then
          THEN latestPing' = now
          ELSE UNCHANGED latestPing
       /\ Done(t)
       /\ UNCHANGED <<status, hole, dev, events, wire, link, now, latestOpen, latestRefresh, calls>>

---------------------------------------------------------------------------
(* Close, once: END, then the packet channel is closed and the via dropped. *)
Close(t) ==
    /\ status # "END"
    /\ status' = "END" /\ dev' = "closed"
    /\ Fork(t, "close", Nil)
    /\ UNCHANGED <<hole, events, wire, link, clocks>>

closeIngress(t) ==
    /\ In(t, "close", 1)
    /\ ingress' = "closed"
    /\ via' = FALSE /\ viaUp' = FALSE
    /\ Done(t)
    /\ UNCHANGED <<status, hole, dev, events, panicked, netmtu, desiredmtu, mtu, mtuVia, clocks, calls>>

(* WriteNotify: the netstack hands a packet over (pc 1: it has read one). It
   looks at "finalize" first, and nothing ever closes that. The stack delivers
   no packet once it is destroyed. *)
WriteNotify(t) ==
    /\ ingress = "open"
    /\ Fork(t, "notify", Nil)
    /\ UNCHANGED <<status, hole, dev, events, wire, link, clocks>>

notifySend(t) ==
    /\ In(t, "notify", 1)
    /\ panicked' = (panicked \/ ingress = "closed")
    /\ Done(t)
    /\ UNCHANGED <<status, hole, dev, events, ingress, link, clocks, calls>>

(* serve, as the device opens its connection (the bind): over the via if one
   is set and resolves, directly if none is; a stopped proxy does not serve. The
   result reaches the listener. *)
serve(t, ok) ==
    LET r == <<"Opn", IF ok THEN "none" ELSE "other">> IN
    /\ IF ok THEN viaUp' = via ELSE viaUp' \in {FALSE, via}
    /\ free(t)
    /\ threads' = IF ignored(r) THEN threads ELSE [threads EXCEPT ![t] = New("listen", r)]

(* The device takes an event (wireguard's event reader, outside this code). An
   Up opens the connection, and one that fails takes the device back down. A
   connection that is closed is no longer blackholed. *)
deviceEvent(t, ok) ==
    LET e == Head(events)
        up == e = "Up" /\ dev # "up"
        closes == (up /\ (dev = "new" \/ ~ok)) \/ (e = "Down" /\ dev = "up")
    IN /\ events # <<>> /\ dev # "closed"
       /\ events' = Tail(events)
       /\ dev' = IF up THEN (IF ok THEN "up" ELSE "failed")
                 ELSE IF e = "Down" THEN "down" ELSE dev
       /\ IF up THEN serve(t, ok) ELSE UNCHANGED <<viaUp, threads>>
       /\ hole' = (hole /\ ~closes)
       /\ UNCHANGED <<status, wire, via, netmtu, desiredmtu, mtu, mtuVia, clocks, calls>>

Tick ==
    /\ now < MaxNow
    /\ now' = now + 1
    /\ UNCHANGED <<status, hole, dev, events, wire, link, latestOpen, latestRefresh, latestPing,
                   threads, calls>>

step(t) ==
    \/ listenerSwap(t) \/ pauseSwap(t) \/ pauseHole(t) \/ resumeSwap(t) \/ resumeHole(t)
    \/ refreshGate(t) \/ refreshStore(t) \/ refreshVia(t) \/ refreshMtu(t)
    \/ refreshDown(t) \/ refreshUp(t)
    \/ hopMtu(t) \/ hopSwap(t) \/ unhopMtu(t)
    \/ (\E ok \in BOOLEAN : updateStore(t, ok) \/ updateUp(t, ok)) \/ updateMtu(t)
    \/ pingSend(t) \/ closeIngress(t) \/ notifySend(t)

start(t) ==
    \/ \E r \in Reports : listener(t, r)
    \/ Pause(t) \/ Resume(t) \/ Refresh(t) \/ Ping(t) \/ Close(t) \/ WriteNotify(t)
    \/ \E m \in NetMtus : OnProtoChange(t, m)
    \/ \E on \in BOOLEAN : Hop(t, on)
    \/ \E d \in DesiredMtus : update(t, d)

Next ==
    \/ \E t \in Threads : step(t) \/ start(t)
    \/ \E t \in Threads, ok \in BOOLEAN : deviceEvent(t, ok)
    \/ Tick

Spec == Init /\ [][Next]_vars

---------------------------------------------------------------------------
TypeOK ==
    /\ status \in Statuses
    /\ {via, viaUp, hole, panicked} \subseteq BOOLEAN
    /\ dev \in {"new", "up", "down", "failed", "closed"} /\ ingress \in {"open", "closed"}
    /\ Len(events) <= EventCap
    /\ {now, latestOpen, latestRefresh, latestPing} \subseteq 0..MaxNow
    /\ \A t \in Threads : threads[t] # Nil => threads[t].pc \in 1..6

(* A stopped proxy stays stopped, and a paused one stays paused until it is
   resumed or stopped: a verdict reached before the change is not swapped in
   after it (wgproxy.go:1750-1762, 1542, 1561). *)
EndAndPauseHold ==
    [][/\ status = "END" => status' = "END"
       /\ status = "TPU" => status' \in {"TPU", "TUP", "END"}]_vars

(* Once its events are taken and no refresh is between its two, the device is
   down only if its connection could not be opened: whatever refreshes and
   updates interleave, the last event is never a Down (wgproxy.go:423-430). *)
DeviceIsUp ==
    events = <<>> /\ (\A t \in Threads : ~In(t, "refresh", 6)) => dev \notin {"new", "down"}

(* Whenever it is set, the mtu leaves room for the WireGuard header in what
   the network, or the via that it is set for, can carry (wgproxy.go:1907-1988).
   That via is the one the call looked at: a refresh that waits while another
   is set resets the mtu for the old one (wgproxy.go:400, 410). *)
MtuFits ==
    [][mtu' # mtu => mtu' + Overhead <= mtuAvailable(mtuVia')]_vars
=============================================================================
