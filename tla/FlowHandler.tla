---------------------------- MODULE FlowHandler -----------------------------
(***************************************************************************)
(* The flows of one protocol handler (intra/common.go, tcp.go, udp.go and  *)
(* icmp.go): what becomes of a flow from netstack, the conns it owns, the  *)
(* summary it owes to the listener, and what it shares with other flows:   *)
(* the conn tracker, the summary channel and the loop tracker, while the   *)
(* handler is reset (a tunnel restart) or ended (a disconnect).            *)
(***************************************************************************)
EXTENDS Integers, Sequences, FiniteSets, TLC

CONSTANTS
    Flows,
    Protos,     \* the protocols that the handler may be for
    Verdicts,   \* the listener's: "block", "dns", "allow"
    Dsts,       \* keys of the loop tracker: proto and target
    SmmchSize,  \* capacity of smmch
    MaxResets,  \* bound on restarts
    MaxToggles  \* bound on changes of settings.Loopingback

\* The ways in which flows come: Proxy, ReverseProxy and Error of tcp and of
\* udp, and Ping.
Kinds == [tcp |-> {"tcp", "tcpin", "error"}, udp |-> {"udp", "udpin", "error"}, icmp |-> {"icmp"}]

AllKinds == UNION {Kinds[p] : p \in DOMAIN Kinds}

ASSUME FlowHandlerAssumption ==
    /\ IsFiniteSet(Flows)
    /\ Protos \subseteq DOMAIN Kinds
    /\ Verdicts \subseteq {"block", "dns", "allow"}
    /\ SmmchSize \in Nat \ {0}
    /\ MaxResets \in Nat
    /\ MaxToggles \in Nat

VARIABLES
    proto,      \* the handler's protocol
    flow,       \* flow -> where it is and what it owns
    ctxDone,    \* h.ctx is cancelled
    ending,     \* where End is
    resetting,  \* where Reset is
    resets,
    status,     \* h.status: HDLOK or HDLEND
    smmch,      \* h.smmch: the flows whose summaries are queued
    smmClosed,
    tracked,    \* h.conntracker
    looptracker,
    looping,    \* settings.Loopingback
    toggles,
    posted,     \* flow -> summaries the listener has got
    crashed     \* a panic that nobody recovers

vars == <<proto, flow, ctxDone, ending, resetting, resets, status, smmch, smmClosed, tracked,
          looptracker, looping, toggles, posted, crashed>>

hvars == <<proto, ctxDone, ending, resetting, resets, status, smmClosed, looping, toggles>>

Steps == {"idle", "onflow", "establish", "synack", "dns", "dial", "handshake",
          "assoc", "probe", "track", "pipe", "untrack", "unassoc", "close", "outer",
          "inner", "over"}

FlowStates ==
    [pc : Steps,
     then : Steps,                      \* where queueSummary returns to
     bg : BOOLEAN,                      \* in a goroutine that recovers panics
     stall : {"none", "outer", "inner", "close", "over"},
     kind : AllKinds \cup {"none"},
     verdict : {"none", "block", "dns", "allow"},
     gconn : {"none", "open", "closed"},    \* the conn to the tun device
     remote : {"none", "open", "closed"},   \* the other one
     dst : Dsts,
     exit : BOOLEAN]                    \* its proxy is ipn.Exit

TypeOK ==
    /\ proto \in Protos
    /\ flow \in [Flows -> FlowStates]
    /\ ctxDone \in BOOLEAN
    /\ ending \in {"idle", "clear", "status", "close", "over"}
    /\ resetting \in {"idle", "loops", "status"}
    /\ resets \in 0..MaxResets
    /\ status \in {"HDLOK", "HDLEND"}
    /\ smmch \in Seq(Flows) /\ Len(smmch) <= SmmchSize
    /\ smmClosed \in BOOLEAN
    /\ tracked \subseteq Flows
    /\ looptracker \in [Dsts -> Nat]
    /\ looping \in BOOLEAN
    /\ toggles \in 0..MaxToggles
    /\ posted \in [Flows -> Nat]
    /\ crashed \in BOOLEAN

Init ==
    /\ proto \in Protos
    /\ flow \in [Flows -> [pc : {"idle"}, then : {"over"}, bg : {FALSE}, stall : {"none"},
                           kind : {"none"}, verdict : {"none"}, gconn : {"none"},
                           remote : {"none"}, dst : Dsts, exit : {FALSE}]]
    /\ ctxDone = FALSE
    /\ ending = "idle"
    /\ resetting = "idle"
    /\ resets = 0
    /\ status = "HDLOK"
    /\ smmch = << >>
    /\ smmClosed = FALSE
    /\ tracked = {}
    /\ looptracker = [d \in Dsts |-> 0]
    /\ looping \in BOOLEAN
    /\ toggles = 0
    /\ posted = [f \in Flows |-> 0]
    /\ crashed = FALSE

-----------------------------------------------------------------------------

Inbound(f) == flow[f].kind \in {"tcpin", "udpin"}

Closed(conn) == IF conn = "open" THEN "closed" ELSE conn

\* A flow with both its conns closed.
WithConnsClosed(r) == [r EXCEPT !.gconn = Closed(@), !.remote = Closed(@)]

\* A flow about to queue its summary, and then to go on at t.
Summarise(r, t) == [r EXCEPT !.pc = "outer", !.then = t]

\* Nothing happens once the process has crashed.
Alive == ~crashed /\ crashed' = FALSE

\* Only the flow itself moves.
Moves(f, r) ==
    /\ flow' = [flow EXCEPT ![f] = r]
    /\ UNCHANGED <<hvars, smmch, tracked, looptracker, posted>>
    /\ Alive

-----------------------------------------------------------------------------
(* a flow begins *)

\* netstack has a conn for the handler; what comes in brings its own.
Begin(f, k) ==
    /\ flow[f].pc = "idle"
    /\ Moves(f, [flow[f] EXCEPT
                   !.pc = "onflow", !.kind = k,
                   !.bg = k \in {"icmp", "udpin"},
                   !.gconn = IF k \in {"icmp", "error"} THEN "none" ELSE "open",
                   !.remote = IF k \in {"tcpin", "udpin"} THEN "open" ELSE "none"])

\* What each of the entry points makes of the status and of the verdict: a flow
\* after its first steps.  A blocked flow is stalled by a goroutine of its own.
TcpJudged(r) ==
    CASE status = "HDLEND" -> Summarise(WithConnsClosed(r), "over")
      [] status # "HDLEND" /\ r.verdict = "block" -> [r EXCEPT !.pc = "over", !.stall = "outer"]
      [] OTHER -> [r EXCEPT !.pc = IF r.verdict = "dns" THEN "synack" ELSE "dial"]

\* proxy queues a summary for a blocked flow, as the goroutine does.
UdpJudged(r) ==
    CASE status = "HDLEND" -> Summarise(WithConnsClosed(r), "over")
      [] status # "HDLEND" /\ r.verdict = "block" ->
           [Summarise(r, "over") EXCEPT !.stall = "outer"]
      [] OTHER -> [r EXCEPT !.pc = "establish"]

IcmpJudged(r) ==
    IF status = "HDLEND" \/ r.verdict = "block"
    THEN Summarise(r, "over")
    ELSE [r EXCEPT !.pc = "dial"]

TcpInJudged(r) ==
    IF r.verdict = "block" THEN Summarise(WithConnsClosed(r), "over")
                           ELSE [r EXCEPT !.pc = "establish"]

UdpInJudged(r) ==
    IF r.verdict = "block" THEN Summarise(WithConnsClosed(r), "over")
                           ELSE [r EXCEPT !.pc = "establish"]

ErrorJudged(r) ==
    IF r.verdict = "block" THEN [r EXCEPT !.pc = "over", !.stall = "outer"]
                           ELSE Summarise(r, "over")

\* The listener answers onFlow or onInflow with a verdict and with a proxy, or
\* fails to in time, which blocks; the flow goes on from the status it then finds.
OnFlow(f, v, exit) ==
    LET r == [flow[f] EXCEPT !.verdict = v, !.exit = exit /\ v = "allow"] IN
    /\ flow[f].pc = "onflow"
    /\ v \in Verdicts \cup {"block"}
    /\ Moves(f, CASE r.kind = "tcp" -> TcpJudged(r)
                  [] r.kind = "udp" -> UdpJudged(r)
                  [] r.kind = "icmp" -> IcmpJudged(r)
                  [] r.kind = "tcpin" -> TcpInJudged(r)
                  [] r.kind = "udpin" -> UdpInJudged(r)
                  [] r.kind = "error" -> ErrorJudged(r))

\* gconn.Establish of udp and of inbound flows; a failed inbound tcp flow closes
\* neither of its conns.
Establish(f, ok) ==
    LET r == flow[f] IN
    /\ r.pc = "establish"
    /\ Moves(f, CASE ok -> [r EXCEPT !.pc = CASE Inbound(f) -> "track"
                                              [] ~Inbound(f) /\ r.verdict = "dns" -> "dns"
                                              [] OTHER -> "dial",
                                     !.bg = Inbound(f)]
                  [] ~ok /\ r.kind = "tcpin" -> Summarise(r, "over")
                  [] OTHER -> Summarise(WithConnsClosed(r), "over"))

\* The handshake before a dns query over tcp.
Synack(f, ok) ==
    LET r == flow[f] IN
    /\ r.pc = "synack"
    /\ Moves(f, IF ok THEN [r EXCEPT !.pc = "dns"]
                      ELSE Summarise(WithConnsClosed(r), "over"))

\* Mutant: Connect hands its summary on, and proxy queues it.
DnsQueued(f) ==
    /\ flow[f].pc = "dns"
    /\ flow' = [flow EXCEPT ![f] = Summarise(WithConnsClosed(@), "over")]
    /\ posted' = [posted EXCEPT ![f] = @ + 1]
    /\ UNCHANGED <<hvars, smmch, tracked, looptracker>>
    /\ Alive

\* dnsOverride: the resolver serves and closes the conn; the summary does not
\* go through smmch.
Dns(f) ==
    /\ flow[f].pc = "dns"
    /\ flow' = [flow EXCEPT ![f] = [WithConnsClosed(@) EXCEPT !.pc = "over"]]
    /\ posted' = [posted EXCEPT ![f] = @ + 1]
    /\ UNCHANGED <<hvars, smmch, tracked, looptracker>>
    /\ Alive

-----------------------------------------------------------------------------
(* dialing *)

\* ProxyTo and loopDetected: what is known to loop goes through Exit.
Routed(r) == [r EXCEPT !.exit = @ \/ looptracker[r.dst] >= 1]

\* The dials to the targets of a flow, one after the other until one is through.
TcpDialed(r, ok) ==
    IF ok THEN [Routed(r) EXCEPT !.remote = "open", !.pc = "handshake"]
          ELSE Summarise(r, "close")

UdpDialed(r, ok) ==
    IF ok THEN [Routed(r) EXCEPT !.remote = "open", !.pc = "assoc"]
          ELSE Summarise(WithConnsClosed(r), "over")

\* icmp has its proxy, and dials in Probe.
IcmpDialed(r, ok) ==
    IF ok THEN [Routed(r) EXCEPT !.pc = "assoc"]
          ELSE Summarise(r, "over")

Dial(f, ok) ==
    LET r == flow[f] IN
    /\ r.pc = "dial"
    /\ Moves(f, CASE r.kind = "tcp" -> TcpDialed(r, ok)
                  [] r.kind = "udp" -> UdpDialed(r, ok)
                  [] r.kind = "icmp" -> IcmpDialed(r, ok))

Probe(f, ok) ==
    /\ flow[f].pc = "probe"
    /\ Moves(f, IF ok THEN [flow[f] EXCEPT !.remote = "open", !.pc = "track"]
                      ELSE [flow[f] EXCEPT !.pc = "unassoc"])

\* Mutant: handle leaves the conn it has dialed open.
HandshakeLeaks(f, ok) ==
    LET r == flow[f] IN
    /\ r.pc = "handshake"
    /\ Moves(f, IF ok THEN [r EXCEPT !.pc = "assoc"] ELSE Summarise(r, "close"))

\* tcp's handshake once it has dialed.
Handshake(f, ok) ==
    LET r == flow[f] IN
    /\ r.pc = "handshake"
    /\ Moves(f, IF ok THEN [r EXCEPT !.pc = "assoc"]
                      ELSE Summarise([r EXCEPT !.remote = "closed"], "close"))

\* Proxy closes gconn after it has queued the summary.
CloseGconn(f) ==
    /\ flow[f].pc = "close"
    /\ Moves(f, [flow[f] EXCEPT !.gconn = "closed", !.pc = "over"])

-----------------------------------------------------------------------------
(* the loop tracker *)

\* Mutant: what goes through Exit is counted, and never uncounted.
loopAssocExit(f) ==
    LET r == flow[f] IN
    /\ r.pc = "assoc"
    /\ looptracker' = IF looping THEN [d \in Dsts |-> 0]
                                 ELSE [looptracker EXCEPT ![r.dst] = @ + 1]
    /\ flow' = [flow EXCEPT ![f].pc = IF r.kind = "icmp" THEN "probe" ELSE "track", ![f].bg = TRUE]
    /\ UNCHANGED <<hvars, smmch, tracked, posted>>
    /\ Alive

\* The flows here are Rethink's own (SELF_UID), the only ones tracked.
loopAssoc(f) ==
    LET r == flow[f] IN
    /\ r.pc = "assoc"
    /\ looptracker' = CASE r.exit -> looptracker
                        [] ~r.exit /\ looping -> [d \in Dsts |-> 0]
                        [] OTHER -> [looptracker EXCEPT ![r.dst] = @ + 1]
    /\ flow' = [flow EXCEPT ![f].pc = IF r.kind = "icmp" THEN "probe" ELSE "track", ![f].bg = TRUE]
    /\ UNCHANGED <<hvars, smmch, tracked, posted>>
    /\ Alive

\* When not looping back, all that is tracked is dropped.
loopUnassoc(f) ==
    LET r == flow[f] IN
    /\ r.pc = "unassoc"
    /\ looptracker' = CASE r.exit -> looptracker
                        [] ~r.exit /\ ~looping -> [d \in Dsts |-> 0]
                        [] OTHER -> [looptracker EXCEPT ![r.dst] = IF @ = 0 THEN 0 ELSE @ - 1]
    /\ flow' = [flow EXCEPT ![f] =
                  IF r.kind = "icmp" THEN Summarise(@, "over") ELSE [@ EXCEPT !.pc = "over"]]
    /\ UNCHANGED <<hvars, smmch, tracked, posted>>
    /\ Alive

-----------------------------------------------------------------------------
(* forward *)

Track(f) ==
    /\ flow[f].pc = "track"
    /\ tracked' = tracked \cup {f}
    /\ flow' = [flow EXCEPT ![f].pc = "pipe"]
    /\ UNCHANGED <<hvars, smmch, looptracker, posted>>
    /\ Alive

\* upload and download are through and have closed both conns between them;
\* an icmp echo is answered or times out.
Piped(f) ==
    LET r == flow[f] IN
    /\ r.pc = "pipe"
    /\ Moves(f, IF r.kind = "icmp" THEN [r EXCEPT !.pc = "untrack"]
                                   ELSE Summarise(WithConnsClosed(r), "untrack"))

AfterForward(f) == IF Inbound(f) THEN "over" ELSE "unassoc"

\* Mutant: the flow stays in the tracker.
UntrackNone(f) ==
    /\ flow[f].pc = "untrack"
    /\ flow' = [flow EXCEPT ![f].pc = AfterForward(f)]
    /\ UNCHANGED <<hvars, tracked, smmch, looptracker, posted>>
    /\ Alive

Untrack(f) ==
    /\ flow[f].pc = "untrack"
    /\ tracked' = tracked \ {f}
    /\ flow' = [flow EXCEPT ![f] = [WithConnsClosed(@) EXCEPT
                  !.pc = AfterForward(f)]]
    /\ UNCHANGED <<hvars, smmch, looptracker, posted>>
    /\ Alive

-----------------------------------------------------------------------------
(* summaries *)

\* The outer select of queueSummary.
SummaryOuter(f) ==
    LET r == flow[f] IN
    /\ r.pc = "outer"
    /\ Moves(f, [r EXCEPT !.pc = IF ctxDone THEN r.then ELSE "inner"])

\* The inner select: any case that is ready, and sending on a channel that is
\* closed is ready and panics.  A full channel drops the summary.
InnerSelect(f) ==
    \/ ctxDone /\ UNCHANGED smmch
    \/ ~smmClosed /\ Len(smmch) < SmmchSize /\ smmch' = Append(smmch, f)
    \/ ~smmClosed /\ ~ctxDone /\ Len(smmch) = SmmchSize /\ UNCHANGED smmch

SummaryInner(f) ==
    LET r == flow[f] IN
    /\ ~crashed
    /\ r.pc = "inner"
    /\ \/ /\ InnerSelect(f)
          /\ flow' = [flow EXCEPT ![f].pc = r.then]
          /\ crashed' = FALSE
       \/ /\ smmClosed
          /\ flow' = [flow EXCEPT ![f].pc = r.then]
          /\ crashed' = ~r.bg
          /\ UNCHANGED smmch
    /\ UNCHANGED <<hvars, tracked, looptracker, posted>>

\* The goroutine that stalls a blocked flow, and then queues its summary.
Stall(f) ==
    LET r == flow[f] IN
    /\ r.stall \in {"outer", "close"}
    /\ Moves(f, CASE r.stall = "outer" -> [r EXCEPT !.stall = IF ctxDone THEN "close" ELSE "inner"]
                  [] r.stall = "close" -> [r EXCEPT !.stall = "over", !.gconn = "closed"])

StallInner(f) ==
    /\ flow[f].stall = "inner"
    /\ InnerSelect(f) \/ (smmClosed /\ UNCHANGED smmch)
    /\ flow' = [flow EXCEPT ![f].stall = "close"]
    /\ UNCHANGED <<hvars, tracked, looptracker, posted>>
    /\ Alive

\* processSummaries hands a summary to the listener.
Postflow ==
    /\ smmch # << >>
    /\ posted' = [posted EXCEPT ![Head(smmch)] = @ + 1]
    /\ smmch' = Tail(smmch)
    /\ UNCHANGED <<flow, hvars, tracked, looptracker>>
    /\ Alive

-----------------------------------------------------------------------------
(* closing, ending, resetting *)

\* The conns of these flows are closed and they are no longer tracked.
Cleared(fs) ==
    /\ tracked' = tracked \ fs
    /\ flow' = [f \in Flows |-> IF f \in tracked \cap fs THEN WithConnsClosed(flow[f]) ELSE flow[f]]

\* CloseConns of a flow, on the client's behalf.
CloseConns(f) ==
    /\ f \in tracked
    /\ Cleared({f})
    /\ UNCHANGED <<hvars, smmch, looptracker, posted>>
    /\ Alive

\* The tunnel is disconnected, or its restart has timed out.
Cancel ==
    /\ ~ctxDone
    /\ ctxDone' = TRUE
    /\ ending' = "clear"
    /\ UNCHANGED <<proto, flow, resetting, resets, status, smmch, smmClosed, tracked, looptracker,
                   looping, toggles, posted>>
    /\ Alive

EndClear ==
    /\ ending = "clear"
    /\ ending' = "status"
    /\ Cleared(Flows)
    /\ UNCHANGED <<proto, ctxDone, resetting, resets, status, smmch, smmClosed, looptracker,
                   looping, toggles, posted>>
    /\ Alive

EndStatus ==
    /\ ending = "status"
    /\ ending' = "close"
    /\ status' = "HDLEND"
    /\ UNCHANGED <<proto, flow, ctxDone, resetting, resets, smmch, smmClosed, tracked, looptracker,
                   looping, toggles, posted>>
    /\ Alive

EndClose ==
    /\ ending = "close"
    /\ ending' = "over"
    /\ smmClosed' = TRUE
    /\ UNCHANGED <<proto, flow, ctxDone, resetting, resets, status, smmch, tracked, looptracker,
                   looping, toggles, posted>>
    /\ Alive

\* Reset: the conns ...
ResetClear ==
    /\ resetting = "idle"
    /\ resets < MaxResets
    /\ resets' = resets + 1
    /\ resetting' = "loops"
    /\ Cleared(Flows)
    /\ UNCHANGED <<proto, ctxDone, ending, status, smmch, smmClosed, looptracker,
                   looping, toggles, posted>>
    /\ Alive

\* ... the loop tracker ...
ResetLoops ==
    /\ resetting = "loops"
    /\ resetting' = "status"
    /\ looptracker' = [d \in Dsts |-> 0]
    /\ UNCHANGED <<proto, flow, ctxDone, ending, resets, status, smmch, smmClosed, tracked,
                   looping, toggles, posted>>
    /\ Alive

\* ... and the status.
ResetStatus ==
    /\ resetting = "status"
    /\ resetting' = "idle"
    /\ status' = "HDLOK"
    /\ UNCHANGED <<proto, flow, ctxDone, ending, resets, smmch, smmClosed, tracked, looptracker,
                   looping, toggles, posted>>
    /\ Alive

\* The client turns settings.Loopingback on or off.
Toggle ==
    /\ toggles < MaxToggles
    /\ toggles' = toggles + 1
    /\ looping' = ~looping
    /\ UNCHANGED <<proto, flow, ctxDone, ending, resetting, resets, status, smmch, smmClosed, tracked,
                   looptracker, posted>>
    /\ Alive

-----------------------------------------------------------------------------

FlowStep(f) ==
    \/ \E ok \in BOOLEAN :
         \/ Establish(f, ok)
         \/ Synack(f, ok)
         \/ Dial(f, ok)
         \/ Handshake(f, ok)
         \/ Probe(f, ok)
    \/ \E v \in {"block", "dns", "allow"}, exit \in BOOLEAN : OnFlow(f, v, exit)
    \/ Dns(f)
    \/ CloseGconn(f)
    \/ loopAssoc(f)
    \/ loopUnassoc(f)
    \/ Track(f)
    \/ Untrack(f)
    \/ SummaryOuter(f)
    \/ SummaryInner(f)
    \/ Stall(f)
    \/ StallInner(f)

Next ==
    \/ \E f \in Flows :
         \/ \E k \in Kinds[proto] : Begin(f, k)
         \/ FlowStep(f)
         \/ Piped(f)
         \/ CloseConns(f)
    \/ Postflow
    \/ Cancel
    \/ EndClear
    \/ EndStatus
    \/ EndClose
    \/ ResetClear
    \/ ResetLoops
    \/ ResetStatus
    \/ Toggle

Spec == Init /\ [][Next]_vars

-----------------------------------------------------------------------------

\* Flows, and destinations, are interchangeable.
Symmetry == Permutations(Flows) \cup Permutations(Dsts)

Over(f) == flow[f].pc = "over" /\ flow[f].stall \in {"none", "over"}

(***************************************************************************)
(* Whatever way a flow goes, by whichever error, and with CloseConns, End  *)
(* or Reset in between, its conns are closed when it is over.  Inbound tcp *)
(* flows whose handshake fails are the exception: ReverseProxy returns and *)
(* leaves them open.                                                       *)
(***************************************************************************)
ConnsClosed ==
    \A f \in Flows : Over(f) =>
        \/ flow[f].gconn # "open" /\ flow[f].remote # "open"
        \/ flow[f].kind = "tcpin" /\ flow[f].verdict # "block" /\ ~flow[f].bg

(***************************************************************************)
(* The tracker never holds on to a flow that is over.                      *)
(***************************************************************************)
TrackedAreLive == \A f \in tracked : ~Over(f)

Queued(f) == Cardinality({i \in DOMAIN smmch : smmch[i] = f})

(***************************************************************************)
(* The listener is told of the end of a flow no more than once.  Blocked   *)
(* udp flows are the exception: proxy and the stalled goroutine both tell. *)
(***************************************************************************)
OneSummary ==
    \A f \in Flows :
        (flow[f].kind = "udp" /\ flow[f].verdict = "block") \/ posted[f] + Queued(f) <= 1

(***************************************************************************)
(* When no flow is left, nothing is left in the loop tracker, whatever the *)
(* setting was when flows came and went: a count that stays behind would   *)
(* send all later flows to that destination around their proxy.            *)
(***************************************************************************)
NoLoopsLeft ==
    (\A f \in Flows : flow[f].pc \in {"idle", "over"}) => \A d \in Dsts : looptracker[d] = 0

(***************************************************************************)
(* A flow whose conns are closed on it, by CloseConns, End or Reset, comes *)
(* to its end: it waits neither for the listener nor for room in smmch.    *)
(***************************************************************************)
ClosedFlowsEnd ==
    \A f \in Flows :
        (flow[f].pc = "pipe" /\ flow[f].remote = "closed") ~> (Over(f) \/ crashed)

(***************************************************************************)
(* A flow that has begun is forwarded or over in the end.                  *)
(***************************************************************************)
FlowsAreServed ==
    \A f \in Flows : (flow[f].pc = "onflow") ~> (flow[f].pc = "pipe" \/ Over(f) \/ crashed)

(***************************************************************************)
(* queueSummary's comment: "we still see panic from the select statement   *)
(* writing to ch; and hence the need to have this nested select".          *)
(***************************************************************************)
NoSendOnClosed == ~crashed
=============================================================================
