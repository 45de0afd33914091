------------------------------ MODULE Seamless ------------------------------
(* The tun device under the network stack: magiclink, the stable link endpoint *)
(* netstack is attached to (netstack/seamless.go), the raw fd-based endpoint   *)
(* behind it (netstack/fdbased.go), its fds (netstack/fds.go), its inbound     *)
(* dispatcher and the loop that reads packets (netstack/dispatchers.go).       *)
(* Swap, Dispose, Attach and Close are serialised by magiclink.mu, so one      *)
(* lifecycle operation runs at a time, against the loops and one writer.       *)
EXTENDS Integers, FiniteSets

CONSTANTS Eps,       \* raw endpoints
          Fds,       \* tun fds handed to Swap, each once
          First,     \* the fd the link starts with
          Inline,    \* packets are delivered inline (settings.SingleThreaded)
          MaxOps, Nil

VARIABLES link,      \* magiclink.state: the raw endpoint and "nic attached?"
          ep,        \* raw endpoints
          open,      \* fds that are open
          efd,       \* event fds that are open
          loop,      \* the dispatch loop of each fd
          op,        \* the operation in progress
          w,         \* the writer: the fds it loaded
          ops

vars == <<link, ep, open, efd, loop, op, w, ops>>

Unmade == [made |-> FALSE, fd |-> Nil, att |-> FALSE, rx |-> FALSE]
NoLoop == [pc |-> "none", e |-> Nil]
NoOp == [k |-> "idle", pc |-> "none", fd |-> Nil, old |-> Nil]

(* NewEndpoint: the raw endpoint has the fd and a dispatcher, no nic yet.      *)
Init ==
    /\ \E e \in Eps :
         /\ link = [e |-> e, d |-> FALSE]
         /\ ep = [i \in Eps |-> IF i # e THEN Unmade ELSE
                    [made |-> TRUE, fd |-> First, att |-> FALSE, rx |-> TRUE]]
    /\ open = {First} /\ efd = {First}
    /\ loop = [f \in Fds |-> NoLoop]
    /\ op = NoOp /\ w = Nil /\ ops = 0

Ok(f) == f # Nil /\ f \in open
Running(e) == {f \in Fds : loop[f].pc # "none" /\ loop[f].e = e}
(* The raw endpoint's mutex, held through its timed wait for its loops.        *)
Locked(e) == op.pc = "wait" /\ op.old = e

start(f, e) == [loop EXCEPT ![f] = [pc |-> "top", e |-> e]]

-----------------------------------------------------------------------------
(* magiclink.Swap -> endpoint.swap: an endpoint whose fd is dead needs a new   *)
(* endpoint; else the new fd is stored, the old one stopped (its event fd is   *)
(* written to, its tun fd closed), and the old loop waited for.                *)
Swap(f) ==
    LET e == link.e prev == ep[e].fd IN
    /\ op.k = "idle" /\ ops < MaxOps /\ f \notin efd /\ loop[f] = NoLoop
    /\ ops' = ops + 1
    /\ IF ~Ok(prev)
       THEN /\ op' = [k |-> "swap", pc |-> "new", fd |-> f, old |-> e]
            /\ open' = open \cup {f} /\ UNCHANGED <<ep, efd>>
       ELSE /\ ep' = [ep EXCEPT ![e].fd = f]
            /\ open' = (open \ {prev}) \cup {f} /\ efd' = efd \cup {f}
            /\ op' = [k |-> "swap", pc |-> "wait", fd |-> f, old |-> e]
    /\ UNCHANGED <<link, loop, w>>

(* newTun fails (SetNonblock, Eventfd): the fd is closed, nothing changes.     *)
SwapFails(f) ==
    /\ op.k = "idle" /\ ops < MaxOps /\ f \notin efd
    /\ ops' = ops + 1
    /\ UNCHANGED <<link, ep, open, efd, loop, op, w>>

(* wait(waitttl): the loops are done, or the time is up: a second is enough    *)
(* for a loop that is not itself behind this endpoint's mutex.                 *)
Waited(e) == \A f \in Running(e) : loop[f].pc = "deliver" /\ Inline

(* The loop restarts on the new fd if the raw endpoint is attached; if it is   *)
(* not, though a nic is, magiclink attaches it.                                *)
swapStart ==
    LET e == op.old IN
    /\ op.k = "swap" /\ op.pc = "wait" /\ Waited(e)
    /\ IF ep[e].att \/ link.d
       THEN /\ loop' = IF op.fd \in open THEN start(op.fd, e) ELSE loop
            /\ ep' = [ep EXCEPT ![e].att = TRUE]
       ELSE UNCHANGED <<loop, ep>>
    /\ op' = NoOp
    /\ UNCHANGED <<link, open, efd, w, ops>>

(* Swap with a new raw endpoint: publish it, then close the old one ...        *)
swapNew ==
    /\ op.k = "swap" /\ op.pc = "new"
    /\ \E i \in {j \in Eps : ~ep[j].made} :
         /\ ep' = [ep EXCEPT ![i] = [made |-> TRUE, fd |-> op.fd,
                                     att |-> FALSE, rx |-> TRUE]]
         /\ link' = [link EXCEPT !.e = i]
    /\ efd' = efd \cup {op.fd}
    /\ op' = [op EXCEPT !.pc = IF ep[op.old].att THEN "wait" ELSE "settle",
                        !.k = IF ep[op.old].att THEN "retire" ELSE "swap"]
    /\ open' = IF ep[op.old].att THEN open \ {ep[op.old].fd} ELSE open
    /\ UNCHANGED <<loop, w, ops>>

(* ... wait for its loop without a limit, and attach the new one.              *)
swapSettle ==
    LET e == link.e f == ep[link.e].fd IN
    /\ op.k = "swap" /\ op.pc = "settle" /\ Running(op.old) = {}
    /\ IF link.d
       THEN /\ ep' = [ep EXCEPT ![e].att = TRUE]
            /\ loop' = IF Ok(f) THEN start(f, e) ELSE loop
       ELSE UNCHANGED <<ep, loop>>
    /\ op' = NoOp
    /\ UNCHANGED <<link, open, efd, w, ops>>

(* Dispose: the endpoint keeps its dispatcher and loses its fd.                *)
Dispose ==
    LET e == link.e IN
    /\ op.k = "idle" /\ ops < MaxOps /\ ops' = ops + 1
    /\ open' = open \ {ep[e].fd}
    /\ ep' = [ep EXCEPT ![e].fd = Nil]
    /\ op' = IF ep[e].rx THEN [k |-> "dispose", pc |-> "wait", fd |-> Nil, old |-> e]
             ELSE NoOp
    /\ UNCHANGED <<link, efd, loop, w>>

disposed ==
    /\ op.k = "dispose" /\ Waited(op.old)
    /\ op' = NoOp
    /\ UNCHANGED <<link, ep, open, efd, loop, w, ops>>

(* Attach(nic): the raw endpoint is attached and, if its fd is good, read.     *)
Attach ==
    LET e == link.e f == ep[link.e].fd IN
    /\ op.k = "idle" /\ ops < MaxOps /\ ops' = ops + 1
    /\ link' = [link EXCEPT !.d = TRUE]
    /\ IF ep[e].att THEN UNCHANGED <<ep, loop>>
       ELSE /\ ep' = [ep EXCEPT ![e].att = TRUE, ![e].rx = @ \/ Ok(f)]
            /\ loop' = IF Ok(f) THEN start(f, e) ELSE loop
    /\ UNCHANGED <<open, efd, op, w>>

(* Attach(nil) and Close: the dispatcher is stopped, the fd closed and the     *)
(* loops waited for.  Only Attach(nil) forgets the nic.                        *)
detach(k) ==
    LET e == link.e IN
    /\ op.k = "idle" /\ ops < MaxOps /\ ops' = ops + 1
    /\ link' = IF k = "detach" THEN [link EXCEPT !.d = FALSE] ELSE link
    /\ IF ep[e].att
       THEN /\ open' = IF ep[e].rx THEN open \ {ep[e].fd} ELSE open
            /\ op' = [k |-> k, pc |-> "wait", fd |-> Nil, old |-> e]
       ELSE UNCHANGED <<open, op>>
    /\ UNCHANGED <<ep, efd, loop, w>>

detached ==
    LET e == op.old IN
    /\ op.k \in {"detach", "close", "retire"} /\ Waited(e)
    /\ ep' = [ep EXCEPT ![e].att = FALSE, ![e].rx = FALSE, ![e].fd = Nil]
    /\ op' = IF op.k = "retire" THEN [op EXCEPT !.k = "swap", !.pc = "settle"] ELSE NoOp
    /\ UNCHANGED <<link, open, efd, loop, w, ops>>

-----------------------------------------------------------------------------
(* dispatchLoop: io gives up on a stopped dispatcher or a closed fd ...        *)
top(f) ==
    /\ loop[f].pc = "top" /\ f \in open
    /\ loop' = [loop EXCEPT ![f].pc = "read"]
    /\ UNCHANGED <<link, ep, open, efd, op, w, ops>>

(* ... reads a packet, hands it over ...                                       *)
read(f) ==
    /\ loop[f].pc = "read" /\ f \in open
    /\ loop' = [loop EXCEPT ![f].pc = "deliver"]
    /\ UNCHANGED <<link, ep, open, efd, op, w, ops>>

(* ... (delivered inline, InjectInbound takes the endpoint's mutex) ...        *)
deliver(f) ==
    /\ loop[f].pc = "deliver"
    /\ Inline => ~Locked(loop[f].e)
    /\ loop' = [loop EXCEPT ![f].pc = "top"]
    /\ UNCHANGED <<link, ep, open, efd, op, w, ops>>

(* ... and on an error, or once it is stopped, ends and stops its fd.          *)
loopEnds(f) ==
    /\ \/ loop[f].pc = "read"
       \/ loop[f].pc = "top" /\ f \notin open
    /\ loop' = [loop EXCEPT ![f] = NoLoop]
    /\ open' = open \ {f}
    /\ UNCHANGED <<link, ep, efd, op, w, ops>>

(* WritePackets: load the fds; fds.tun() gives the number of an fd that was    *)
(* ever valid, closed or not.                                                  *)
WriteLoad ==
    /\ w = Nil /\ ep[link.e].fd # Nil
    /\ w' = [fd |-> ep[link.e].fd, open |-> ep[link.e].fd \in open]
    /\ UNCHANGED <<link, ep, open, efd, loop, op, ops>>

WriteDone ==
    /\ w # Nil /\ w' = Nil
    /\ UNCHANGED <<link, ep, open, efd, loop, op, ops>>

opstep == \/ swapStart \/ swapNew \/ swapSettle \/ disposed \/ detached
loopstep(f) == \/ top(f) \/ read(f) \/ deliver(f) \/ loopEnds(f)

Next == \/ \E f \in Fds : Swap(f) \/ SwapFails(f) \/ loopstep(f)
        \/ Dispose \/ Attach \/ detach("detach") \/ detach("close")
        \/ opstep
        \/ WriteLoad \/ WriteDone

Spec == Init /\ [][Next]_vars

-----------------------------------------------------------------------------
TypeOK == /\ link.e \in Eps /\ link.d \in BOOLEAN
          /\ open \subseteq Fds /\ efd \subseteq Fds
          /\ \A f \in Fds : loop[f].pc \in {"none", "top", "read", "deliver"}
          /\ \A i \in Eps : ep[i].fd \in Fds \cup {Nil}

(* Between operations, a link with a nic and an open tun is being read: no     *)
(* order of Swap, Dispose, Attach, Close and read errors leaves packets at the *)
(* tun fd (the split state of netstack/seamless.go:226-246).                   *)
AttachedIsRead ==
    op = NoOp /\ link.d /\ Ok(ep[link.e].fd) =>
        loop[ep[link.e].fd].pc # "none" /\ loop[ep[link.e].fd].e = link.e

(* Between operations the only open tun fds are the link's own and those of    *)
(* loops about to end (netstack/fdbased.go:214-300).                           *)
NoFdLeak ==
    op = NoOp => \A f \in open : f = ep[link.e].fd

(* The dispatcher's buffer is not thread safe: never two loops of one          *)
(* dispatcher about to read (netstack/dispatchers.go:46, 257).                 *)
OneReader ==
    \A e \in Eps : Cardinality({f \in Running(e) :
                      loop[f].pc = "read" /\ f \in open}) <= 1

(* Every lifecycle operation returns, magiclink.Swap's unbounded wait for the  *)
(* old endpoint's loops included.                                              *)
OpsEnd == (op # NoOp) ~> (op = NoOp)
=============================================================================
