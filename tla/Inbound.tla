------------------------------- MODULE Inbound ------------------------------
(* A packet's way from the tun to a udp flow: the dispatch loop queues it on   *)
(* the processor its addresses and ports hash to (netstack/forwarders.go),     *)
(* the processor injects it, and the stack either finds the flow's endpoint    *)
(* or calls the udp forwarder, which admits one handler per flow               *)
(* (netstack/udp.go).  A fragment of IPv4 hashes without ports, so a flow's    *)
(* reassembled packets and its whole ones may meet on two processors; one of   *)
(* IPv6 hashes what stands where the ports would be, so those of one flow may  *)
(* go anywhere.  settings.SingleThreaded makes the loop deliver by itself; it  *)
(* is read twice for each packet, and a client may change it at any time.      *)
EXTENDS Integers, Sequences, FiniteSets

CONSTANTS Procs,        \* processors; 0 is the one used when single threaded
          Flows, Hash,  \* Hash[flow, fragment?]: the processors it may hash to
          HappyEyeballs,
          MaxPkts,      \* bounds: packets, fragments or not, and changes of
          MaxSlow,      \* settings.SingleThreaded
          Nil

VARIABLES q, ready, waker, closer,  \* per processor
          proc,                     \* what each processor, or the loop, delivers
          loop,                     \* the dispatch loop
          stack,                    \* flows the stack has an endpoint for
          inFlight, handler,        \* the forwarder's dedupe, its goroutines
          sent, got,                \* packets queued, and delivered, per class
          stop,
          single,                   \* settings.SingleThreaded, and its changes:
          slow                      \* how many, and any with packets on their way

vars == <<q, ready, waker, closer, proc, loop, stack, inFlight, handler, sent,
          got, stop, single, slow>>

Classes == Flows \X BOOLEAN
Inline == -1                      \* the dispatch loop, delivering by itself
Runners == Procs \cup {Inline}
Queue(r) == IF r = Inline THEN CHOOSE p \in Procs : ready[p] ELSE r
Asleep == [pc |-> "asleep", pkt |-> Nil]
None == [pc |-> "none", pkt |-> Nil]

Init ==
    /\ q = [p \in Procs |-> <<>>]
    /\ ready = [p \in Procs |-> FALSE] /\ waker = ready /\ closer = ready
    /\ proc = [r \in Runners |-> Asleep]
    /\ loop = "top"
    /\ stack = {} /\ inFlight = {} /\ handler = [f \in Flows |-> None]
    /\ sent = [c \in Classes |-> 0] /\ got = sent
    /\ stop = "no"
    /\ single \in BOOLEAN /\ slow = [n |-> 0, busy |-> FALSE]

-----------------------------------------------------------------------------
(* io returns once the dispatcher is closed; else it reads a packet.           *)
io ==
    /\ loop = "top"
    /\ loop' = IF stop = "no" THEN "read" ELSE "done"
    /\ UNCHANGED <<q, ready, waker, closer, proc, stack, inFlight, handler, sent,
                   got, stop, single, slow>>

(* queuePacket: processor 0 when single threaded, else the hash's; then        *)
(* wakeReady.                                                                  *)
queuePacket(f, frag) == \E p \in IF single THEN {0} ELSE Hash[f, frag] :
    /\ loop = "read"
    /\ sent[f, frag] < MaxPkts[frag]
    /\ sent' = [sent EXCEPT ![f, frag] = @ + 1]
    /\ q' = [q EXCEPT ![p] = Append(@, [f |-> f, frag |-> frag, n |-> sent'[f, frag]])]
    /\ ready' = [ready EXCEPT ![p] = TRUE]
    /\ loop' = "wake"
    /\ UNCHANGED <<waker, closer, proc, stack, inFlight, handler, got, stop,
                   single, slow>>

(* wakeReady asserts the waker of the processor that is ready; single threaded *)
(* (the setting is read again) the loop runs its deliverPackets itself, perhaps*)
(* beside the processor's goroutine.                                           *)
wakeReady ==
    /\ loop = "wake"
    /\ IF single
       THEN /\ proc' = [proc EXCEPT ![Inline].pc = "pop"]
            /\ loop' = "inline" /\ UNCHANGED <<waker, ready>>
       ELSE /\ waker' = [p \in Procs |-> waker[p] \/ ready[p]]
            /\ ready' = [p \in Procs |-> FALSE]
            /\ loop' = "top" /\ UNCHANGED proc
    /\ UNCHANGED <<q, closer, stack, inFlight, handler, sent, got, stop, single,
                   slow>>

inlineDone ==
    /\ loop = "inline" /\ proc[Inline].pc = "asleep"
    /\ loop' = "top" /\ ready' = [p \in Procs |-> FALSE]
    /\ UNCHANGED <<q, waker, closer, proc, stack, inFlight, handler, sent, got,
                   stop, single, slow>>

(* processor.start: fetch an asserted waker: packets to deliver, or the end.   *)
fetchPackets(p) ==
    /\ proc[p].pc = "asleep" /\ waker[p]
    /\ waker' = [waker EXCEPT ![p] = FALSE]
    /\ proc' = [proc EXCEPT ![p].pc = "pop"]
    /\ UNCHANGED <<q, ready, closer, loop, stack, inFlight, handler, sent, got,
                   stop, single, slow>>

fetchClose(p) ==
    /\ proc[p].pc = "asleep" /\ closer[p]
    /\ closer' = [closer EXCEPT ![p] = FALSE]
    /\ q' = [q EXCEPT ![p] = <<>>]
    /\ proc' = [proc EXCEPT ![p].pc = "ended"]
    /\ UNCHANGED <<ready, waker, loop, stack, inFlight, handler, sent, got, stop,
                   single, slow>>

\* Mutant: the latest packet goes first.
popLast(p) ==
    /\ proc[p].pc = "pop"
    /\ IF q[Queue(p)] = <<>>
       THEN /\ proc' = [proc EXCEPT ![p] = Asleep] /\ UNCHANGED q
       ELSE /\ proc' = [proc EXCEPT ![p] = [pc |-> "inject", pkt |-> q[Queue(p)][Len(q[Queue(p)])]]]
            /\ q' = [q EXCEPT ![Queue(p)] = SubSeq(@, 1, Len(@) - 1)]
    /\ UNCHANGED <<ready, waker, closer, loop, stack, inFlight, handler, sent,
                   got, stop, single, slow>>

(* deliverPackets: pop under the lock, inject without it.  The stack looks the *)
(* flow's endpoint up, and queues the packet on it ...                         *)
pop(p) ==
    /\ proc[p].pc = "pop"
    /\ IF q[Queue(p)] = <<>>
       THEN /\ proc' = [proc EXCEPT ![p] = Asleep] /\ UNCHANGED q
       ELSE /\ proc' = [proc EXCEPT ![p] = [pc |-> "inject", pkt |-> Head(q[Queue(p)])]]
            /\ q' = [q EXCEPT ![Queue(p)] = Tail(@)]
    /\ UNCHANGED <<ready, waker, closer, loop, stack, inFlight, handler, sent,
                   got, stop, single, slow>>

Delivered(pkt) == got' = [got EXCEPT ![pkt.f, pkt.frag] = pkt.n]

injected(p) ==
    LET k == proc[p].pkt IN
    /\ proc[p].pc = "inject"
    /\ IF k.f \in stack
       THEN /\ Delivered(k)
            /\ proc' = [proc EXCEPT ![p] = [Asleep EXCEPT !.pc = "pop"]]
       ELSE /\ proc' = [proc EXCEPT ![p].pc = "forward"] /\ UNCHANGED got
    /\ UNCHANGED <<q, ready, waker, closer, loop, stack, inFlight, handler, sent,
                   stop, single, slow>>

(* ... or calls the forwarder's handler: a flow that is in flight drops the    *)
(* packet; happy eyeballs leaves the rest to a goroutine ...                   *)
forward(p) ==
    LET k == proc[p].pkt IN
    /\ proc[p].pc = "forward"
    /\ IF k.f \in inFlight
       THEN /\ proc' = [proc EXCEPT ![p] = [Asleep EXCEPT !.pc = "pop"]]
            /\ UNCHANGED <<inFlight, handler>>
       ELSE /\ inFlight' = inFlight \cup {k.f}
            /\ IF HappyEyeballs
               THEN /\ handler' = [handler EXCEPT ![k.f] = [pc |-> "establish", pkt |-> k]]
                    /\ proc' = [proc EXCEPT ![p] = [Asleep EXCEPT !.pc = "pop"]]
               ELSE /\ proc' = [proc EXCEPT ![p].pc = "establish"]
                    /\ UNCHANGED handler
    /\ UNCHANGED <<q, ready, waker, closer, loop, stack, sent, got, stop, single,
                   slow>>

(* ... else it creates the endpoint here (which fails where the flow has one   *)
(* already) ...                                                                *)
Establish(p) ==
    LET k == proc[p].pkt IN
    /\ proc[p].pc = "establish"
    /\ IF k.f \in stack
       THEN /\ proc' = [proc EXCEPT ![p].pc = "landed"]
            /\ UNCHANGED <<stack, got>>
       ELSE /\ stack' = stack \cup {k.f}
            /\ Delivered(k)
            /\ proc' = [proc EXCEPT ![p].pc = "landed"]
    /\ UNCHANGED <<q, ready, waker, closer, loop, inFlight, handler, sent, stop,
                   single, slow>>

(* ... and frees the flow's slot as the handler returns.                       *)
landed(p) ==
    /\ proc[p].pc = "landed"
    /\ inFlight' = inFlight \ {proc[p].pkt.f}
    /\ proc' = [proc EXCEPT ![p] = [Asleep EXCEPT !.pc = "pop"]]
    /\ UNCHANGED <<q, ready, waker, closer, loop, stack, handler, sent, got,
                   stop, single, slow>>

(* The happy eyeballs goroutine: its handler establishes the flow, with the    *)
(* packet it was called for, or not (a refused flow never is), and its return  *)
(* frees the slot.                                                             *)
handle(f) ==
    /\ \/ /\ handler[f].pc = "establish"
          /\ \/ f \notin stack /\ stack' = stack \cup {f} /\ Delivered(handler[f].pkt)
             \/ UNCHANGED <<stack, got>>
          /\ handler' = [handler EXCEPT ![f] = [pc |-> "land", pkt |-> Nil]]
          /\ UNCHANGED inFlight
       \/ /\ handler[f].pc = "land"
          /\ handler' = [handler EXCEPT ![f] = None]
          /\ inFlight' = inFlight \ {f}
          /\ UNCHANGED <<stack, got>>
    /\ UNCHANGED <<q, ready, waker, closer, proc, loop, sent, stop, single, slow>>

(* A flow's endpoint is closed as its proxying ends, in its own time.          *)
Close(f) ==
    /\ f \in stack
    /\ stack' = stack \ {f}
    /\ UNCHANGED <<q, ready, waker, closer, proc, loop, inFlight, handler, sent,
                   got, stop, single, slow>>

(* supervisor.stop: assert every close waker, wait for the processors.         *)
Stop ==
    /\ stop = "no" /\ stop' = "wait"
    /\ closer' = [p \in Procs |-> TRUE]
    /\ UNCHANGED <<q, ready, waker, proc, loop, stack, inFlight, handler, sent,
                   got, single, slow>>

stopped ==
    /\ stop = "wait" /\ \A p \in Procs : proc[p].pc = "ended"
    /\ stop' = "over"
    /\ UNCHANGED <<q, ready, waker, closer, proc, loop, stack, inFlight, handler,
                   sent, got, single, slow>>

(* Slowdown changes the setting.                                               *)
Quiet == /\ \A p \in Procs : q[p] = <<>> /\ ~waker[p]
         /\ \A r \in Runners : proc[r].pc \in {"asleep", "ended"}
         /\ \A f \in Flows : handler[f].pkt = Nil

Slowdown ==
    /\ slow.n < MaxSlow
    /\ single' = ~single
    /\ slow' = [n |-> slow.n + 1, busy |-> slow.busy \/ ~Quiet]
    /\ UNCHANGED <<q, ready, waker, closer, proc, loop, stack, inFlight, handler,
                   sent, got, stop>>

fetch(p) == fetchPackets(p) \/ fetchClose(p)
deliver(r) == pop(r) \/ injected(r) \/ forward(r) \/ Establish(r) \/ landed(r)

Next == \/ \E f \in Flows, frag \in BOOLEAN : queuePacket(f, frag)
        \/ io \/ wakeReady \/ inlineDone
        \/ \E p \in Procs : fetch(p)
        \/ \E r \in Runners : deliver(r)
        \/ \E f \in Flows : handle(f) \/ Close(f)
        \/ Stop \/ stopped \/ Slowdown

Spec == Init /\ [][Next]_vars

-----------------------------------------------------------------------------
TypeOK == /\ stack \subseteq Flows /\ inFlight \subseteq Flows
          /\ \A r \in Runners : proc[r].pc \in {"asleep", "pop", "inject", "forward",
                                  "establish", "landed", "ended"}

(* The packets of a flow reach it in the order they left the tun, whole ones   *)
(* and fragments of IPv4 each, though processors drop their lock to inject     *)
(* (netstack/forwarders.go:164-188, 280-319).  Not so what hashes to several   *)
(* processors, fragments of IPv6; nor once Slowdown changed the setting with a *)
(* packet on its way; and with happy eyeballs the packet a new endpoint starts *)
(* with may be older than the last one its predecessor had.                    *)
FlowOrder ==
    [][\A c \in Classes : (Cardinality(Hash[c]) = 1 /\ ~slow.busy) =>
         (got'[c] >= got[c] \/ (HappyEyeballs /\ c[1] \notin stack))]_vars

(* No wake-up is lost: a queued packet is taken, unless its processor was      *)
(* stopped (netstack/forwarders.go:146-161, 341-354).                          *)
QueuedIsTaken ==
    \A p \in Procs : (q[p] # <<>>) ~> (q[p] = <<>> \/ proc[p].pc = "ended")

(* A flow's slot is freed: no flow is deaf for ever (netstack/udp.go:166-182). *)
SlotIsFreed == \A f \in Flows : (f \in inFlight) ~> (f \notin inFlight)
=============================================================================
