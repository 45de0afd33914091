---------------------------- MODULE TcpForwarder ----------------------------
(***************************************************************************)
(* netstack's tcp conns (intra/netstack/tcp.go): a SYN from the tun device *)
(* takes one of the forwarder's slots until its request is completed, by   *)
(* the handler that accepts or refuses the conn, or by a watchdog.  Conns  *)
(* into the tun device have no request and no watchdog.                    *)
(***************************************************************************)
EXTENDS Integers, FiniteSets, FiniteSetTheorems, TLAPS

CONSTANTS
    Conns,          \* GTCPConns
    MaxInFlight     \* slots of the forwarder

ASSUME TcpForwarderAssumption ==
    /\ IsFiniteSet(Conns)
    /\ MaxInFlight \in Nat \ {0}

VARIABLES
    dir,        \* conn -> "out" of the tun device, or "in"
    req,        \* conn -> its ForwarderRequest
    completes,  \* conn -> calls of req.Complete
    once,       \* conn -> g.once is spent
    c,          \* conn -> g.c
    h,          \* conn -> where its handler is
    early,      \* conn -> the handler is in tryConnect, not in Establish
    w           \* conn -> the watchdog

vars == <<dir, req, completes, once, c, h, early, w>>

InFlight == {g \in Conns : req[g] = "inflight"}

\* No more requests are in flight than there are slots.
TypeOK ==
    /\ dir \in [Conns -> {"none", "out", "in"}]
    /\ req \in [Conns -> {"none", "inflight", "accepted", "reset"}]
    /\ completes \in [Conns -> Nat]
    /\ once \in [Conns -> BOOLEAN]
    /\ c \in [Conns -> {"nil", "open", "closed"}]
    /\ h \in [Conns -> {"idle", "synack", "create", "store", "rst", "fin", "opened", "error",
                        "proxy", "serve", "abort", "close", "over"}]
    /\ early \in [Conns -> BOOLEAN]
    /\ w \in [Conns -> {"off", "armed", "fired", "close", "over"}]
    /\ Cardinality(InFlight) <= MaxInFlight

Init ==
    /\ dir = [g \in Conns |-> "none"]
    /\ req = [g \in Conns |-> "none"]
    /\ completes = [g \in Conns |-> 0]
    /\ once = [g \in Conns |-> FALSE]
    /\ c = [g \in Conns |-> "nil"]
    /\ h = [g \in Conns |-> "idle"]
    /\ early = [g \in Conns |-> FALSE]
    /\ w = [g \in Conns |-> "off"]

-----------------------------------------------------------------------------

\* Mutant: no watchdog over conns that are connected right away.
ForwardUnwatched(g, happyeyeballs) ==
    /\ dir[g] = "none"
    /\ Cardinality(InFlight) < MaxInFlight
    /\ dir' = [dir EXCEPT ![g] = "out"]
    /\ req' = [req EXCEPT ![g] = "inflight"]
    /\ early' = [early EXCEPT ![g] = ~happyeyeballs]
    /\ h' = [h EXCEPT ![g] = IF happyeyeballs THEN "proxy" ELSE "synack"]
    /\ w' = [w EXCEPT ![g] = IF happyeyeballs THEN "armed" ELSE "off"]
    /\ UNCHANGED <<completes, once, c>>

\* A SYN that finds a slot: the watchdog is armed, and the handler called, unless
\* the conn is to be connected first.
Forward(g, happyeyeballs) ==
    /\ dir[g] = "none"
    /\ Cardinality(InFlight) < MaxInFlight
    /\ dir' = [dir EXCEPT ![g] = "out"]
    /\ req' = [req EXCEPT ![g] = "inflight"]
    /\ early' = [early EXCEPT ![g] = ~happyeyeballs]
    /\ h' = [h EXCEPT ![g] = IF happyeyeballs THEN "proxy" ELSE "synack"]
    /\ w' = [w EXCEPT ![g] = "armed"]
    /\ UNCHANGED <<completes, once, c>>

InboundTCP(g, happyeyeballs) ==
    /\ dir[g] = "none"
    /\ dir' = [dir EXCEPT ![g] = "in"]
    /\ early' = [early EXCEPT ![g] = ~happyeyeballs]
    /\ h' = [h EXCEPT ![g] = IF happyeyeballs THEN "proxy" ELSE "synack"]
    /\ UNCHANGED <<req, completes, once, c, w>>

-----------------------------------------------------------------------------
(* complete *)

\* Mutant: whoever comes completes the request.
completeAgain(g, rst) ==
    /\ once' = [once EXCEPT ![g] = TRUE]
    /\ IF dir[g] = "in" THEN UNCHANGED <<req, completes>>
       ELSE /\ req' = [req EXCEPT ![g] = IF rst THEN "reset" ELSE "accepted"]
            /\ completes' = [completes EXCEPT ![g] = @ + 1]

\* Under g.once.  It stops the watchdog, see Stopped.
complete(g, rst) ==
    /\ once' = [once EXCEPT ![g] = TRUE]
    /\ IF once[g] \/ dir[g] = "in" THEN UNCHANGED <<req, completes>>
       ELSE /\ req' = [req EXCEPT ![g] = IF rst THEN "reset" ELSE "accepted"]
            /\ completes' = [completes EXCEPT ![g] = @ + 1]

Stopped(g) == IF w[g] = "armed" /\ ~once[g] THEN "off" ELSE w[g]

-----------------------------------------------------------------------------
(* synack, of tryConnect and of Establish *)

\* A conn that is set up already is left alone.
SynackOk(g) ==
    /\ h[g] = "synack"
    /\ h' = [h EXCEPT ![g] = IF c[g] = "nil" THEN "create"
                             ELSE IF early[g] THEN "opened" ELSE "serve"]
    /\ UNCHANGED <<dir, req, completes, once, c, early, w>>

\* CreateEndpoint, of a request that is not completed, or DialTCPWithBind.
CreateEndpoint(g, ok) ==
    /\ h[g] = "create"
    /\ ok => req[g] = "inflight" \/ dir[g] = "in"
    /\ h' = [h EXCEPT ![g] = IF ok THEN "store" ELSE "rst"]
    /\ UNCHANGED <<dir, req, completes, once, c, early, w>>

Store(g) ==
    /\ h[g] = "store"
    /\ c' = [c EXCEPT ![g] = "open"]
    /\ h' = [h EXCEPT ![g] = IF early[g] THEN "opened" ELSE "fin"]
    /\ UNCHANGED <<dir, req, completes, once, early, w>>

\* Deferred, on an error; the handler is told.
SynackRst(g) ==
    /\ h[g] = "rst"
    /\ complete(g, TRUE)
    /\ w' = [w EXCEPT ![g] = Stopped(g)]
    /\ h' = [h EXCEPT ![g] = IF early[g] THEN "error" ELSE "abort"]
    /\ UNCHANGED <<dir, c, early>>

\* Deferred, when Establish has opened the conn.
SynackFin(g) ==
    /\ h[g] = "fin"
    /\ complete(g, FALSE)
    /\ w' = [w EXCEPT ![g] = Stopped(g)]
    /\ h' = [h EXCEPT ![g] = "serve"]
    /\ UNCHANGED <<dir, c, early>>

\* Mutant: the request is left for the handler to complete.
OpenedHeld(g) ==
    /\ h[g] = "opened"
    /\ early' = [early EXCEPT ![g] = FALSE]
    /\ h' = [h EXCEPT ![g] = "proxy"]
    /\ UNCHANGED <<dir, req, completes, once, c, w>>

\* tryConnect has opened the conn: the slot is freed before the handler is called.
Opened(g) ==
    /\ h[g] = "opened"
    /\ IF dir[g] = "out" THEN complete(g, FALSE) ELSE UNCHANGED <<req, completes, once>>
    /\ w' = [w EXCEPT ![g] = Stopped(g)]
    /\ early' = [early EXCEPT ![g] = FALSE]
    /\ h' = [h EXCEPT ![g] = "proxy"]
    /\ UNCHANGED <<dir, c>>

-----------------------------------------------------------------------------
(* the handler *)

\* Proxy, or ReverseProxy, refuses the conn, or goes on to Establish.
Proxy(g, allow) ==
    /\ h[g] = "proxy"
    /\ h' = [h EXCEPT ![g] = IF allow THEN "synack" ELSE "abort"]
    /\ UNCHANGED <<dir, req, completes, once, c, early, w>>

\* Error: closes the conn if its flow is blocked, and leaves it alone otherwise.
Error(g, block) ==
    /\ h[g] = "error"
    /\ h' = [h EXCEPT ![g] = IF block THEN "abort" ELSE "over"]
    /\ UNCHANGED <<dir, req, completes, once, c, early, w>>

\* The flow is over.
Served(g) ==
    /\ h[g] = "serve"
    /\ h' = [h EXCEPT ![g] = "abort"]
    /\ UNCHANGED <<dir, req, completes, once, c, early, w>>

\* Close and Abort: complete the request if need be ...
Abort(g) ==
    /\ h[g] = "abort"
    /\ complete(g, TRUE)
    /\ w' = [w EXCEPT ![g] = Stopped(g)]
    /\ h' = [h EXCEPT ![g] = "close"]
    /\ UNCHANGED <<dir, c, early>>

\* ... and close the conn there is.
AbortClose(g) ==
    /\ h[g] = "close"
    /\ c' = [c EXCEPT ![g] = IF @ = "open" THEN "closed" ELSE @]
    /\ h' = [h EXCEPT ![g] = "over"]
    /\ UNCHANGED <<dir, req, completes, once, early, w>>

-----------------------------------------------------------------------------
(* the watchdog *)

WatchdogFires(g) ==
    /\ w[g] = "armed"
    /\ w' = [w EXCEPT ![g] = "fired"]
    /\ UNCHANGED <<dir, req, completes, once, c, h, early>>

WatchdogAborts(g) ==
    /\ w[g] = "fired"
    /\ complete(g, TRUE)
    /\ w' = [w EXCEPT ![g] = "close"]
    /\ UNCHANGED <<dir, c, h, early>>

WatchdogCloses(g) ==
    /\ w[g] = "close"
    /\ w' = [w EXCEPT ![g] = "over"]
    /\ c' = [c EXCEPT ![g] = IF @ = "open" THEN "closed" ELSE @]
    /\ UNCHANGED <<dir, req, completes, once, h, early>>

-----------------------------------------------------------------------------

Watchdog(g) == WatchdogFires(g) \/ WatchdogAborts(g) \/ WatchdogCloses(g)

Next ==
    \E g \in Conns :
        \/ \E yes \in BOOLEAN :
             \/ Forward(g, yes)
             \/ InboundTCP(g, yes)
             \/ CreateEndpoint(g, yes)
             \/ Proxy(g, yes)
             \/ Error(g, yes)
        \/ SynackOk(g)
        \/ Store(g)
        \/ SynackRst(g)
        \/ SynackFin(g)
        \/ Opened(g)
        \/ Served(g)
        \/ Abort(g)
        \/ AbortClose(g)
        \/ WatchdogFires(g)
        \/ WatchdogAborts(g)
        \/ WatchdogCloses(g)

Spec == Init /\ [][Next]_vars

-----------------------------------------------------------------------------

(***************************************************************************)
(* The handler, the watchdog and closers complete a request once between   *)
(* them: completing it again panics.                                       *)
(***************************************************************************)
CompletedOnce == \A g \in Conns : completes[g] <= 1

(***************************************************************************)
(* No conn that is served, however long, holds a slot.                     *)
(***************************************************************************)
ServedHoldsNoSlot == \A g \in Conns : h[g] = "serve" => req[g] # "inflight"

(***************************************************************************)
(* A slot that is taken is free again in the end, even if the handler is   *)
(* stuck in the listener or in a dial: SYNs are not dropped for good.      *)
(***************************************************************************)
SlotIsFreed == \A g \in Conns : (req[g] = "inflight") ~> (req[g] # "inflight")

(***************************************************************************)
(* tcpForwarder's comment: after Abort "a late Establish/complete by the   *)
(* handler is a no-op".                                                    *)
(***************************************************************************)
LateEstablishIsNoOp ==
    [][\A g \in Conns : w[g] = "over" => ~(c[g] # "open" /\ c'[g] = "open")]_vars

-----------------------------------------------------------------------------
(* The proofs: a tcp request is completed once, and a conn that is served  *)
(* holds no slot, for every number of conns and of slots.                  *)

\* A request is in flight until it is completed, once, under g.once.
Accounted ==
    \A g \in Conns :
        /\ completes[g] = IF dir[g] = "out" /\ once[g] THEN 1 ELSE 0
        /\ req[g] = "inflight" <=> dir[g] = "out" /\ ~once[g]

\* A conn that is set up is completed, or its handler is just about to do so.
SetUp ==
    \A g \in Conns :
        /\ h[g] = "opened" => early[g]
        /\ h[g] \in {"fin", "proxy", "serve"} => ~early[g]
        /\ h[g] = "idle" => c[g] = "nil" /\ ~once[g]
        /\ w[g] # "off" => dir[g] = "out"
        /\ h[g] = "idle" <=> dir[g] = "none"
        /\ c[g] # "nil" /\ dir[g] = "out" => once[g] \/ h[g] \in {"opened", "fin"}
        /\ h[g] = "serve" /\ dir[g] = "out" => once[g]

Inv == TypeOK /\ Accounted /\ SetUp

Types ==
    /\ dir \in [Conns -> {"none", "out", "in"}]
    /\ req \in [Conns -> {"none", "inflight", "accepted", "reset"}]
    /\ completes \in [Conns -> Nat]
    /\ once \in [Conns -> BOOLEAN]
    /\ c \in [Conns -> {"nil", "open", "closed"}]
    /\ h \in [Conns -> {"idle", "synack", "create", "store", "rst", "fin", "opened", "error",
                        "proxy", "serve", "abort", "close", "over"}]
    /\ early \in [Conns -> BOOLEAN]
    /\ w \in [Conns -> {"off", "armed", "fired", "close", "over"}]

\* The slots in use are a finite set, and counted.
LEMMA SlotsAreCounted ==
    ASSUME Types
    PROVE  IsFiniteSet(InFlight) /\ Cardinality(InFlight) \in Nat
<1>1. InFlight \subseteq Conns
  BY DEF InFlight
<1> QED
  BY <1>1, FS_Subset, FS_CardinalityType, TcpForwarderAssumption

\* No more slots are in use once a request is completed, or nothing is done to one.
LEMMA FewerSlots ==
    ASSUME TypeOK, InFlight' \subseteq InFlight
    PROVE  Cardinality(InFlight') <= MaxInFlight
<1>1. IsFiniteSet(InFlight) /\ Cardinality(InFlight) \in Nat
  BY SlotsAreCounted DEF TypeOK, Types
<1>2. Cardinality(InFlight') <= Cardinality(InFlight) /\ IsFiniteSet(InFlight')
  BY <1>1, FS_Subset
<1>3. Cardinality(InFlight') \in Nat
  BY <1>2, FS_CardinalityType
<1> QED
  BY <1>1, <1>2, <1>3, TcpForwarderAssumption DEF TypeOK

\* What complete does to the request and to the count.
LEMMA CompleteEffect ==
    ASSUME Inv, NEW g \in Conns, NEW rst \in BOOLEAN, complete(g, rst)
    PROVE  /\ once' \in [Conns -> BOOLEAN]
           /\ req' \in [Conns -> {"none", "inflight", "accepted", "reset"}]
           /\ completes' \in [Conns -> Nat]
           /\ InFlight' \subseteq InFlight
           /\ once'[g] = TRUE
           /\ \A k \in Conns \ {g} : once'[k] = once[k] /\ req'[k] = req[k]
                                     /\ completes'[k] = completes[k]
           /\ dir[g] # "none" => /\ req'[g] # "inflight"
                                 /\ completes'[g] = IF dir[g] = "out" THEN 1 ELSE 0
<1> USE DEF Inv, TypeOK
<1>1. once' \in [Conns -> BOOLEAN] /\ once'[g] = TRUE
  BY DEF complete
<1>2. CASE once[g] \/ dir[g] = "in"
  BY <1>1, <1>2 DEF complete, InFlight, Accounted
<1>3. CASE ~(once[g] \/ dir[g] = "in")
  <2>1. /\ req' = [req EXCEPT ![g] = IF rst THEN "reset" ELSE "accepted"]
        /\ completes' = [completes EXCEPT ![g] = completes[g] + 1]
    BY <1>3 DEF complete
  <2>2. completes' \in [Conns -> Nat]
    BY <2>1
  <2>3. req' \in [Conns -> {"none", "inflight", "accepted", "reset"}]
    BY <2>1
  <2>4. InFlight' \subseteq InFlight
    BY <2>1 DEF InFlight
  <2>5. \A k \in Conns \ {g} : once'[k] = once[k] /\ req'[k] = req[k]
                               /\ completes'[k] = completes[k]
    BY <2>1 DEF complete
  <2>6. dir[g] # "none" => /\ req'[g] # "inflight"
                           /\ completes'[g] = IF dir[g] = "out" THEN 1 ELSE 0
    BY <2>1, <1>3 DEF Accounted
  <2> QED
    BY <1>1, <2>2, <2>3, <2>4, <2>5, <2>6
<1> QED
  BY <1>2, <1>3, Zenon

\* The steps that leave requests alone.
LEMMA QuietStep ==
    ASSUME Inv, Types', UNCHANGED <<dir, req, completes, once>>, SetUp'
    PROVE  Inv'
<1>1. InFlight' \subseteq InFlight
  BY DEF InFlight
<1>2. TypeOK'
  BY <1>1, FewerSlots DEF Inv, TypeOK, Types
<1>3. Accounted'
  BY DEF Inv, Accounted
<1> QED
  BY <1>2, <1>3 DEF Inv

\* The steps that complete a request.
LEMMA CompletingStep ==
    ASSUME Inv, NEW g \in Conns, NEW rst \in BOOLEAN, complete(g, rst),
           dir[g] # "none", dir' = dir, c' \in [Conns -> {"nil", "open", "closed"}],
           h' \in [Conns -> {"idle", "synack", "create", "store", "rst", "fin", "opened", "error",
                        "proxy", "serve", "abort", "close", "over"}],
           early' \in [Conns -> BOOLEAN],
           w' \in [Conns -> {"off", "armed", "fired", "close", "over"}]
    PROVE  TypeOK' /\ Accounted'
<1>0. /\ once'[g] = TRUE
      /\ req'[g] # "inflight"
      /\ completes'[g] = IF dir[g] = "out" THEN 1 ELSE 0
      /\ \A k \in Conns \ {g} : once'[k] = once[k] /\ req'[k] = req[k]
                                /\ completes'[k] = completes[k]
  BY CompleteEffect, Zenon
<1>1. TypeOK'
  <2>1. /\ once' \in [Conns -> BOOLEAN]
        /\ req' \in [Conns -> {"none", "inflight", "accepted", "reset"}]
        /\ completes' \in [Conns -> Nat]
        /\ InFlight' \subseteq InFlight
    BY CompleteEffect, Zenon
  <2>2. Cardinality(InFlight') <= MaxInFlight
    BY <2>1, FewerSlots DEF Inv
  <2>3. dir' \in [Conns -> {"none", "out", "in"}]
    BY DEF Inv, TypeOK
  <2> QED
    BY <2>1, <2>2, <2>3 DEF TypeOK
<1>2. ASSUME NEW k \in Conns
      PROVE  /\ completes'[k] = IF dir'[k] = "out" /\ once'[k] THEN 1 ELSE 0
             /\ req'[k] = "inflight" <=> dir'[k] = "out" /\ ~once'[k]
  <2>1. CASE k = g
    BY <1>0, <2>1
  <2>2. CASE k # g
    BY <1>0, <2>2 DEF Inv, Accounted
  <2> QED
    BY <2>1, <2>2
<1> QED
  BY <1>1, <1>2 DEF Accounted

\* A SYN takes a free slot.
LEMMA ForwardStep ==
    ASSUME Inv, NEW g \in Conns, NEW yes \in BOOLEAN, Forward(g, yes)
    PROVE  Inv'
<1> USE DEF Inv, Forward
<1>1. Types'
  <2>1. /\ dir' \in [Conns -> {"none", "out", "in"}]
        /\ req' \in [Conns -> {"none", "inflight", "accepted", "reset"}]
        /\ w' \in [Conns -> {"off", "armed", "fired", "close", "over"}]
    BY DEF TypeOK
  <2>2. early' \in [Conns -> BOOLEAN]
    BY DEF TypeOK
  <2>3. h' \in [Conns -> {"idle", "synack", "create", "store", "rst", "fin", "opened", "error",
                        "proxy", "serve", "abort", "close", "over"}]
    BY DEF TypeOK
  <2> QED
    BY <2>1, <2>2, <2>3 DEF TypeOK, Types
<1>2. InFlight' = InFlight \cup {g}
  BY DEF TypeOK, InFlight
<1>3. IsFiniteSet(InFlight) /\ Cardinality(InFlight) \in Nat
  BY SlotsAreCounted DEF TypeOK, Types
<1>4. Cardinality(InFlight') <= Cardinality(InFlight) + 1
  <2>1. Cardinality(InFlight \cup {g}) \in {Cardinality(InFlight), Cardinality(InFlight) + 1}
    BY <1>3, FS_AddElement, Zenon
  <2> QED
    BY <1>2, <1>3, <2>1
<1>5. Cardinality(InFlight') <= MaxInFlight
  <2>1. IsFiniteSet(InFlight')
    BY <1>2, <1>3, FS_AddElement
  <2>2. Cardinality(InFlight') \in Nat
    BY <2>1, FS_CardinalityType
  <2> QED
    BY <1>3, <1>4, <2>2, TcpForwarderAssumption
<1>7. once[g] = FALSE
  BY DEF SetUp, TypeOK
<1>8. Accounted'
  BY <1>7 DEF Accounted, TypeOK
<1>9. SetUp'
  BY DEF SetUp, TypeOK
<1> QED
  BY <1>1, <1>5, <1>8, <1>9 DEF TypeOK, Types

\* Every other step keeps the invariant too.
LEMMA InvStep ==
    ASSUME Inv, [Next]_vars
    PROVE  Inv'
<1>1. ASSUME NEW g \in Conns, NEW yes \in BOOLEAN, Forward(g, yes)
      PROVE  Inv'
  BY <1>1, ForwardStep
<1>2. ASSUME NEW g \in Conns, NEW yes \in BOOLEAN, InboundTCP(g, yes)
      PROVE  Inv'
  <2> USE <1>2 DEF InboundTCP, Inv
  <2>1. InFlight' \subseteq InFlight
    BY DEF InFlight
  <2>2. Types'
    <3>1. dir' \in [Conns -> {"none", "out", "in"}] /\ early' \in [Conns -> BOOLEAN]
      BY DEF TypeOK
    <3>2. h' \in [Conns -> {"idle", "synack", "create", "store", "rst", "fin", "opened", "error",
                        "proxy", "serve", "abort", "close", "over"}]
      BY DEF TypeOK
    <3> QED
      BY <3>1, <3>2 DEF TypeOK, Types
  <2>3. TypeOK'
    BY <2>1, <2>2, FewerSlots DEF TypeOK, Types
  <2>4. Accounted'
    BY DEF Accounted, SetUp, TypeOK
  <2>5. SetUp'
    BY DEF SetUp, TypeOK
  <2> QED
    BY <2>3, <2>4, <2>5
<1>3. ASSUME NEW g \in Conns, SynackOk(g)
      PROVE  Inv'
  <2>1. Types'
    BY <1>3 DEF SynackOk, Inv, TypeOK, Types
  <2>2. SetUp'
    BY <1>3 DEF SynackOk, Inv, TypeOK, SetUp
  <2> QED
    BY <1>3, <2>1, <2>2, QuietStep DEF SynackOk
<1>4. ASSUME NEW g \in Conns, NEW yes \in BOOLEAN, CreateEndpoint(g, yes)
      PROVE  Inv'
  <2>1. Types'
    BY <1>4 DEF CreateEndpoint, Inv, TypeOK, Types
  <2>2. SetUp'
    BY <1>4 DEF CreateEndpoint, Inv, TypeOK, SetUp
  <2> QED
    BY <1>4, <2>1, <2>2, QuietStep DEF CreateEndpoint
<1>5. ASSUME NEW g \in Conns, Store(g)
      PROVE  Inv'
  <2>1. Types'
    BY <1>5 DEF Store, Inv, TypeOK, Types
  <2>2. SetUp'
    BY <1>5 DEF Store, Inv, TypeOK, SetUp
  <2> QED
    BY <1>5, <2>1, <2>2, QuietStep DEF Store
<1>6. ASSUME NEW g \in Conns, NEW yes \in BOOLEAN, Proxy(g, yes)
      PROVE  Inv'
  <2>1. Types'
    BY <1>6 DEF Proxy, Inv, TypeOK, Types
  <2>2. SetUp'
    BY <1>6 DEF Proxy, Inv, TypeOK, SetUp
  <2> QED
    BY <1>6, <2>1, <2>2, QuietStep DEF Proxy
<1>7. ASSUME NEW g \in Conns, NEW yes \in BOOLEAN, Error(g, yes)
      PROVE  Inv'
  <2>1. Types'
    BY <1>7 DEF Error, Inv, TypeOK, Types
  <2>2. SetUp'
    BY <1>7 DEF Error, Inv, TypeOK, SetUp
  <2> QED
    BY <1>7, <2>1, <2>2, QuietStep DEF Error
<1>8. ASSUME NEW g \in Conns, Served(g)
      PROVE  Inv'
  <2>1. Types'
    BY <1>8 DEF Served, Inv, TypeOK, Types
  <2>2. SetUp'
    BY <1>8 DEF Served, Inv, TypeOK, SetUp
  <2> QED
    BY <1>8, <2>1, <2>2, QuietStep DEF Served
<1>9. ASSUME NEW g \in Conns, AbortClose(g)
      PROVE  Inv'
  <2>1. Types'
    BY <1>9 DEF AbortClose, Inv, TypeOK, Types
  <2>2. SetUp'
    BY <1>9 DEF AbortClose, Inv, TypeOK, SetUp
  <2> QED
    BY <1>9, <2>1, <2>2, QuietStep DEF AbortClose
<1>10. ASSUME NEW g \in Conns, WatchdogFires(g)
       PROVE  Inv'
  <2>1. Types'
    BY <1>10 DEF WatchdogFires, Inv, TypeOK, Types
  <2>2. SetUp'
    BY <1>10 DEF WatchdogFires, Inv, TypeOK, SetUp
  <2> QED
    BY <1>10, <2>1, <2>2, QuietStep DEF WatchdogFires
<1>11. ASSUME NEW g \in Conns, WatchdogCloses(g)
       PROVE  Inv'
  <2>1. Types'
    BY <1>11 DEF WatchdogCloses, Inv, TypeOK, Types
  <2>2. SetUp'
    BY <1>11 DEF WatchdogCloses, Inv, TypeOK, SetUp
  <2> QED
    BY <1>11, <2>1, <2>2, QuietStep DEF WatchdogCloses
<1>12. ASSUME NEW g \in Conns, SynackRst(g)
       PROVE  Inv'
  <2>1. complete(g, TRUE) /\ dir' = dir /\ c' = c /\ dir[g] # "none"
    BY <1>12, Zenon DEF SynackRst, Inv, SetUp
  <2>2. /\ once'[g] = TRUE
        /\ \A k \in Conns \ {g} : once'[k] = once[k]
    BY <2>1, CompleteEffect, Zenon
  <2>3. Types'
    <3>1. h' \in [Conns -> {"idle", "synack", "create", "store", "rst", "fin", "opened", "error",
                        "proxy", "serve", "abort", "close", "over"}]
      BY <1>12 DEF SynackRst, Inv, TypeOK
    <3>2. w' \in [Conns -> {"off", "armed", "fired", "close", "over"}]
      BY <1>12 DEF SynackRst, Inv, TypeOK, Stopped
    <3>3. early' \in [Conns -> BOOLEAN]
      BY <1>12 DEF SynackRst, Inv, TypeOK
    <3> QED
      BY <2>1, <3>1, <3>2, <3>3, CompleteEffect, Zenon DEF Inv, TypeOK, Types
  <2>4. TypeOK' /\ Accounted'
    BY <2>1, <2>3, CompletingStep, Zenon DEF Types
  <2>5. SetUp'
    BY <1>12, <2>1, <2>2 DEF SynackRst, Inv, TypeOK, SetUp, Stopped
  <2> QED
    BY <2>4, <2>5 DEF Inv
<1>13. ASSUME NEW g \in Conns, SynackFin(g)
       PROVE  Inv'
  <2>1. complete(g, FALSE) /\ dir' = dir /\ c' = c /\ dir[g] # "none"
    BY <1>13, Zenon DEF SynackFin, Inv, SetUp
  <2>2. /\ once'[g] = TRUE
        /\ \A k \in Conns \ {g} : once'[k] = once[k]
    BY <2>1, CompleteEffect, Zenon
  <2>3. Types'
    <3>1. h' \in [Conns -> {"idle", "synack", "create", "store", "rst", "fin", "opened", "error",
                        "proxy", "serve", "abort", "close", "over"}]
      BY <1>13 DEF SynackFin, Inv, TypeOK
    <3>2. w' \in [Conns -> {"off", "armed", "fired", "close", "over"}]
      BY <1>13 DEF SynackFin, Inv, TypeOK, Stopped
    <3>3. early' \in [Conns -> BOOLEAN]
      BY <1>13 DEF SynackFin, Inv, TypeOK
    <3> QED
      BY <2>1, <3>1, <3>2, <3>3, CompleteEffect, Zenon DEF Inv, TypeOK, Types
  <2>4. TypeOK' /\ Accounted'
    BY <2>1, <2>3, CompletingStep, Zenon DEF Types
  <2>5. SetUp'
    BY <1>13, <2>1, <2>2 DEF SynackFin, Inv, TypeOK, SetUp, Stopped
  <2> QED
    BY <2>4, <2>5 DEF Inv
<1>14. ASSUME NEW g \in Conns, Abort(g)
       PROVE  Inv'
  <2>1. complete(g, TRUE) /\ dir' = dir /\ c' = c /\ dir[g] # "none"
    BY <1>14, Zenon DEF Abort, Inv, SetUp
  <2>2. /\ once'[g] = TRUE
        /\ \A k \in Conns \ {g} : once'[k] = once[k]
    BY <2>1, CompleteEffect, Zenon
  <2>3. Types'
    <3>1. h' \in [Conns -> {"idle", "synack", "create", "store", "rst", "fin", "opened", "error",
                        "proxy", "serve", "abort", "close", "over"}]
      BY <1>14 DEF Abort, Inv, TypeOK
    <3>2. w' \in [Conns -> {"off", "armed", "fired", "close", "over"}]
      BY <1>14 DEF Abort, Inv, TypeOK, Stopped
    <3>3. early' \in [Conns -> BOOLEAN]
      BY <1>14 DEF Abort, Inv, TypeOK
    <3> QED
      BY <2>1, <3>1, <3>2, <3>3, CompleteEffect, Zenon DEF Inv, TypeOK, Types
  <2>4. TypeOK' /\ Accounted'
    BY <2>1, <2>3, CompletingStep, Zenon DEF Types
  <2>5. SetUp'
    BY <1>14, <2>1, <2>2 DEF Abort, Inv, TypeOK, SetUp, Stopped
  <2> QED
    BY <2>4, <2>5 DEF Inv
<1>15. ASSUME NEW g \in Conns, WatchdogAborts(g)
       PROVE  Inv'
  <2>1. complete(g, TRUE) /\ dir' = dir /\ c' = c /\ dir[g] # "none"
    BY <1>15, Zenon DEF WatchdogAborts, Inv, SetUp
  <2>2. /\ once'[g] = TRUE
        /\ \A k \in Conns \ {g} : once'[k] = once[k]
    BY <2>1, CompleteEffect, Zenon
  <2>3. Types'
    <3>1. h' \in [Conns -> {"idle", "synack", "create", "store", "rst", "fin", "opened", "error",
                        "proxy", "serve", "abort", "close", "over"}]
      BY <1>15 DEF WatchdogAborts, Inv, TypeOK
    <3>2. w' \in [Conns -> {"off", "armed", "fired", "close", "over"}]
      BY <1>15 DEF WatchdogAborts, Inv, TypeOK, Stopped
    <3>3. early' \in [Conns -> BOOLEAN]
      BY <1>15 DEF WatchdogAborts, Inv, TypeOK
    <3> QED
      BY <2>1, <3>1, <3>2, <3>3, CompleteEffect, Zenon DEF Inv, TypeOK, Types
  <2>4. TypeOK' /\ Accounted'
    BY <2>1, <2>3, CompletingStep, Zenon DEF Types
  <2>5. SetUp'
    BY <1>15, <2>1, <2>2 DEF WatchdogAborts, Inv, TypeOK, SetUp, Stopped
  <2> QED
    BY <2>4, <2>5 DEF Inv
<1>16. ASSUME NEW g \in Conns, Opened(g)
       PROVE  Inv'
  <2>0. CASE dir[g] = "out"
    <3>1. complete(g, FALSE) /\ dir' = dir /\ c' = c /\ dir[g] # "none"
      BY <1>16, <2>0, Zenon DEF Opened, Inv, SetUp
    <3>2. /\ once'[g] = TRUE
          /\ \A k \in Conns \ {g} : once'[k] = once[k]
      BY <3>1, CompleteEffect, Zenon
    <3>3. Types'
      <4>1. h' \in [Conns -> {"idle", "synack", "create", "store", "rst", "fin", "opened", "error",
                          "proxy", "serve", "abort", "close", "over"}]
        BY <1>16 DEF Opened, Inv, TypeOK
      <4>2. w' \in [Conns -> {"off", "armed", "fired", "close", "over"}]
        BY <1>16 DEF Opened, Inv, TypeOK, Stopped
      <4>3. early' \in [Conns -> BOOLEAN]
        BY <1>16 DEF Opened, Inv, TypeOK
      <4> QED
        BY <3>1, <4>1, <4>2, <4>3, CompleteEffect, Zenon DEF Inv, TypeOK, Types
    <3>4. TypeOK' /\ Accounted'
      BY <3>1, <3>3, CompletingStep, Zenon DEF Types
    <3>5. SetUp'
      BY <1>16, <3>1, <3>2 DEF Opened, Inv, TypeOK, SetUp, Stopped
    <3> QED
      BY <3>4, <3>5 DEF Inv
  <2>6. CASE dir[g] # "out"
    <3>1. UNCHANGED <<dir, req, completes, once>>
      BY <1>16, <2>6 DEF Opened
    <3>2. Types'
      BY <1>16, <3>1 DEF Opened, Inv, TypeOK, Types, Stopped
    <3>3. SetUp'
      BY <1>16, <2>6, <3>1 DEF Opened, Inv, TypeOK, SetUp, Stopped
    <3> QED
      BY <3>1, <3>2, <3>3, QuietStep
  <2> QED
    BY <2>0, <2>6
<1>17. ASSUME UNCHANGED vars
       PROVE  Inv'
  <2>1. Types' /\ SetUp'
    BY <1>17 DEF vars, Inv, TypeOK, Types, SetUp
  <2> QED
    BY <1>17, <2>1, QuietStep DEF vars
<1> QED
  BY <1>1, <1>2, <1>3, <1>4, <1>5, <1>6, <1>7, <1>8, <1>9, <1>10, <1>11, <1>12, <1>13,
     <1>14, <1>15, <1>16, <1>17 DEF Next

\* The invariant holds at first.
LEMMA InvInit ==
    Init => Inv
<1> SUFFICES ASSUME Init PROVE Inv
  OBVIOUS
<1>1. InFlight = {}
  BY DEF Init, InFlight
<1>2. Cardinality(InFlight) = 0
  BY <1>1, FS_EmptySet
<1> QED
  BY <1>2, TcpForwarderAssumption DEF Init, Inv, TypeOK, Accounted, SetUp

(***************************************************************************)
(* Every state of tcpForwarder and of its conns is well typed, uses no     *)
(* more slots than there are, and accounts for every request.              *)
(***************************************************************************)
THEOREM TcpForwarderInvariant == Spec => []Inv
<1>1. Inv /\ [Next]_vars => Inv'
  BY InvStep
<1> QED
  BY InvInit, <1>1, PTL DEF Spec

(***************************************************************************)
(* The handler and the watchdog complete a request once between them.      *)
(***************************************************************************)
THEOREM RequestsAreCompletedOnce == Spec => []CompletedOnce
<1>1. Inv => CompletedOnce
  BY DEF Inv, Accounted, CompletedOnce
<1> QED
  BY TcpForwarderInvariant, <1>1, PTL

(***************************************************************************)
(* No conn that is served holds a slot of the forwarder.                   *)
(***************************************************************************)
THEOREM ServedConnsHoldNoSlot == Spec => []ServedHoldsNoSlot
<1>1. Inv => ServedHoldsNoSlot
  BY DEF Inv, Accounted, SetUp, ServedHoldsNoSlot
<1> QED
  BY TcpForwarderInvariant, <1>1, PTL
=============================================================================
