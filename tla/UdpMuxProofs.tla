---------------------------- MODULE UdpMuxProofs ----------------------------
(***************************************************************************)
(* The muxer of a socket: for every number of remotes, flows and conns, a  *)
(* stop leaves no conn open, no two conns are open to one remote, every    *)
(* open conn stays routed, and the muxer keeps the promise of MuxerSpec.   *)
(***************************************************************************)
EXTENDS UdpMux, FiniteSetTheorems, TLAPS

Fresh == {c \in Conns : conn[c] = "none"}

\* Routers that may still need a conn.
Wanting == {r \in Routers : router[r].pc \in {"find", "lock"}}

\* newLocked finds a conn to make.
EnoughConns == Cardinality(Wanting) <= Cardinality(Fresh)

\* A router in its select or past it holds rmu; its conn is for an address that
\* has no route, and nobody else knows of it before it is sent.
RoutersSound ==
    /\ router[Reader].pc # "end" => timeouts < MaxTimeoutErrors
    /\ \A r \in Routers :
        /\ router[r].pc \in {"find", "lock", "select", "put"} => router[r].to \in Addrs
        /\ rmu = r <=> router[r].pc \in {"select", "put"}
        /\ rmu = r => /\ router[r].c \in Conns
                      /\ conn[router[r].c] = "made"
                      /\ key[router[r].c] = router[r].to
                      /\ routes[router[r].to] = Nil
        /\ router[r].pc = "select" => watch[router[r].c] = "none" /\ awaiter # router[r].c

\* A route leads to a conn made for its address, open or to be unrouted.
RoutesSound ==
    \A a \in Addrs : routes[a] # Nil =>
        key[routes[a]] = a /\ conn[routes[a]] \in {"open", "closed"}

\* An open conn has its route, and one that is awaited keeps it until it is
\* unrouted or all routes are drained.
ConnsSound ==
    \A c \in Conns :
        /\ conn[c] = "none" => watch[c] = "none" /\ awaiter # c
        /\ conn[c] \in {"none", "made"} => ~vend[c]
        /\ conn[c] # "none" => key[c] \in Addrs
        /\ conn[c] = "open" => routes[key[c]] = c
        /\ awaiter = c => watch[c] = "none"
        /\ awaiter = c \/ watch[c] = "watching" =>
             conn[c] = "made" \/ routes[key[c]] = c \/ Drained

\* Once drained there are no routes, and nobody is about to add one.
StopSound ==
    /\ doneCh <=> stop \notin {"idle", "called"}
    /\ Drained => (\A a \in Addrs : routes[a] = Nil) /\ (\A r \in Routers : router[r].pc # "put")

Watched == {c \in Conns : watch[c] \in {"watching", "unrouted"}}

Inv ==
    /\ TypeOK
    /\ EnoughConns
    /\ RoutersSound
    /\ RoutesSound
    /\ ConnsSound
    /\ StopSound
    /\ wg = Cardinality(Watched)

-----------------------------------------------------------------------------

\* What follows from the constants alone.
LEMMA ConstantFacts ==
    ASSUME UdpMuxConstants
    PROVE  /\ Reader \in Routers
           /\ Nil \notin Conns /\ Nil \notin Addrs /\ Nil \notin Routers
           /\ "select" \notin Conns /\ "done" \notin Conns
           /\ MaxTimeoutErrors \in Nat /\ 0 < MaxTimeoutErrors /\ 0 \in 0..MaxTimeoutErrors
  BY DEF UdpMuxConstants, Routers

\* The sets that are counted are finite.
LEMMA CountsAreNats ==
    ASSUME UdpMuxConstants
    PROVE  /\ IsFiniteSet(Fresh) /\ Cardinality(Fresh) \in Nat
           /\ IsFiniteSet(Wanting) /\ Cardinality(Wanting) \in Nat
           /\ IsFiniteSet(Watched) /\ Cardinality(Watched) \in Nat
<1>1. Fresh \subseteq Conns /\ Wanting \subseteq Routers /\ Watched \subseteq Conns
  BY DEF Fresh, Wanting, Watched
<1>2. IsFiniteSet(Conns) /\ IsFiniteSet(Routers)
  BY FS_AddElement DEF UdpMuxConstants, Routers
<1> QED
  BY <1>1, <1>2, FS_Subset, FS_CardinalityType

\* A step that makes no conn and asks for none leaves enough of them.
LEMMA StillEnough ==
    ASSUME UdpMuxConstants, EnoughConns, Fresh' = Fresh, Wanting' \subseteq Wanting
    PROVE  EnoughConns'
<1>1. IsFiniteSet(Wanting) /\ Cardinality(Wanting) \in Nat /\ Cardinality(Fresh) \in Nat
  BY CountsAreNats
<1>2. Cardinality(Wanting') <= Cardinality(Wanting) /\ Cardinality(Wanting') \in Nat
  BY <1>1, FS_Subset, FS_CardinalityType
<1> QED
  BY <1>1, <1>2 DEF EnoughConns

\* A router that asks for a route while a conn is to spare may want it.
LEMMA OneMoreWants ==
    ASSUME UdpMuxConstants, Spare, Fresh' = Fresh, NEW r, Wanting' = Wanting \cup {r}
    PROVE  EnoughConns'
<1>1. Cardinality(Wanting) < Cardinality(Fresh)
  BY CountsAreNats DEF Spare, Wanting, Fresh
<1>2. IsFiniteSet(Wanting) /\ Cardinality(Wanting) \in Nat /\ Cardinality(Fresh) \in Nat
  BY CountsAreNats
<1>3. Cardinality(Wanting') \in {Cardinality(Wanting), Cardinality(Wanting) + 1}
  BY <1>2, FS_AddElement
<1> QED
  BY <1>1, <1>2, <1>3 DEF EnoughConns

\* There is a conn to make for a router that wants one.
LEMMA OneIsFresh ==
    ASSUME UdpMuxConstants, EnoughConns, NEW r \in Wanting
    PROVE  (CHOOSE d \in Conns : conn[d] = "none") \in Fresh
<1>1. Cardinality(Wanting) # 0
  BY CountsAreNats, FS_EmptySet
<1>2. Cardinality(Fresh) # 0
  BY <1>1, CountsAreNats DEF EnoughConns
<1>3. Fresh # {}
  BY <1>2, FS_EmptySet
<1> QED
  BY <1>3 DEF Fresh

\* Making it takes one conn and one router away.
LEMMA OneLessWants ==
    ASSUME UdpMuxConstants, EnoughConns, NEW r \in Wanting, NEW c \in Fresh,
           Fresh' = Fresh \ {c}, Wanting' = Wanting \ {r}
    PROVE  EnoughConns'
<1>1. Cardinality(Fresh') = Cardinality(Fresh) - 1
  BY CountsAreNats, FS_RemoveElement, Zenon
<1>2. Cardinality(Wanting') = Cardinality(Wanting) - 1
  BY CountsAreNats, FS_RemoveElement, Zenon
<1> QED
  BY <1>1, <1>2, CountsAreNats DEF EnoughConns

-----------------------------------------------------------------------------

\* The invariant holds of a muxer that has no conns.
LEMMA InitInv == ASSUME UdpMuxConstants, Init PROVE Inv
<1>1. TypeOK
  BY ConstantFacts, Zenon DEF Init, TypeOK, RouterStates, AtRest, StopSteps
<1>2. Wanting = {} /\ Watched = {}
  BY DEF Init, Wanting, Watched, AtRest
<1>3. EnoughConns
  BY <1>2, FS_EmptySet, CountsAreNats DEF EnoughConns
<1>4. RoutersSound
  BY ConstantFacts DEF Init, RoutersSound, AtRest
<1>5. RoutesSound /\ ConnsSound /\ StopSound
  BY ConstantFacts DEF Init, RoutesSound, ConnsSound, StopSound, Drained
<1>6. wg = Cardinality(Watched)
  BY <1>2, FS_EmptySet DEF Init
<1> QED
  BY <1>1, <1>3, <1>4, <1>5, <1>6 DEF Inv

-----------------------------------------------------------------------------
(* route *)

\* A flow or a packet asks for a route.
LEMMA AskInv ==
    ASSUME UdpMuxConstants, Inv, NEW r \in Routers, NEW a \in Addrs,
           Ask(r, a) \/ (r = Reader /\ ReadPacket(a))
    PROVE  Inv'
<1>1. /\ router[r].pc = "idle"
      /\ router' = [router EXCEPT ![r].pc = "find", ![r].to = a]
      /\ Spare
      /\ timeouts' \in {0, timeouts}
      /\ UNCHANGED <<doneCh, mxopen, rmu, routes, conn, key, vend, watch, wg, awaiter, stop>>
  BY DEF Ask, ReadPacket
<1>2. TypeOK'
  <2>1. router' \in [Routers -> RouterStates]
    BY <1>1, ZenonT(60) DEF Inv, TypeOK, RouterStates
  <2>2. timeouts' \in 0..MaxTimeoutErrors
    BY <1>1, ConstantFacts DEF Inv, TypeOK
  <2>3. QED
    BY <1>1, <2>1, <2>2 DEF Inv, TypeOK
<1>3. Fresh' = Fresh /\ Watched' = Watched
  BY <1>1 DEF Fresh, Watched
<1>4. Wanting' = Wanting \cup {r}
  BY <1>1 DEF Wanting, Inv, TypeOK, RouterStates
<1>5. EnoughConns'
  BY <1>1, <1>3, <1>4, OneMoreWants
<1>6. RoutersSound'
  BY <1>1, ConstantFacts DEF Inv, TypeOK, RouterStates, RoutersSound
<1>7. RoutesSound' /\ ConnsSound'
  BY <1>1 DEF Inv, RoutesSound, ConnsSound, Drained
<1>8. StopSound'
  BY <1>1 DEF Inv, TypeOK, RouterStates, StopSound, Drained
<1> QED
  BY <1>1, <1>2, <1>3, <1>5, <1>6, <1>7, <1>8 DEF Inv

\* A look under the read lock finds a route, or goes on to make one.
LEMMA findRouteInv ==
    ASSUME UdpMuxConstants, Inv, NEW r \in Routers, findRoute(r)
    PROVE  Inv'
<1>1. /\ router[r].pc = "find"
      /\ \/ router' = [router EXCEPT ![r] = AtRest]
         \/ router' = [router EXCEPT ![r].pc = "lock"]
      /\ UNCHANGED <<doneCh, mxopen, rmu, routes, conn, key, vend, watch, wg, timeouts, awaiter, stop>>
  BY DEF findRoute
<1>2. TypeOK'
  BY <1>1 DEF Inv, TypeOK, RouterStates, AtRest
<1>3. Fresh' = Fresh /\ Watched' = Watched
  BY <1>1 DEF Fresh, Watched
<1>4. Wanting' \subseteq Wanting
  BY <1>1 DEF Wanting, Inv, TypeOK, RouterStates, AtRest
<1>5. EnoughConns'
  BY <1>3, <1>4, StillEnough DEF Inv
<1>6. RoutersSound'
  BY <1>1, ConstantFacts DEF Inv, TypeOK, RouterStates, RoutersSound, AtRest
<1>7. RoutesSound' /\ ConnsSound'
  BY <1>1 DEF Inv, RoutesSound, ConnsSound, Drained
<1>8. StopSound'
  BY <1>1 DEF Inv, TypeOK, RouterStates, StopSound, Drained, AtRest
<1> QED
  BY <1>1, <1>2, <1>3, <1>5, <1>6, <1>7, <1>8 DEF Inv

\* The second look, and newLocked.
LEMMA RouteLockInv ==
    ASSUME UdpMuxConstants, Inv, NEW r \in Routers, RouteLock(r)
    PROVE  Inv'
<1> DEFINE c == CHOOSE d \in Conns : conn[d] = "none"
<1>1. r \in Wanting
  BY DEF RouteLock, Wanting
<1>2. CASE routes[router[r].to] # Nil
  <2>1. /\ router' = [router EXCEPT ![r] = AtRest]
        /\ UNCHANGED <<doneCh, mxopen, rmu, routes, conn, key, vend, watch, wg, timeouts, awaiter, stop>>
    BY <1>2 DEF RouteLock
  <2>2. TypeOK'
    BY <2>1 DEF Inv, TypeOK, RouterStates, AtRest
  <2>3. Fresh' = Fresh /\ Watched' = Watched
    BY <2>1 DEF Fresh, Watched
  <2>4. Wanting' \subseteq Wanting
    BY <2>1 DEF Wanting, Inv, TypeOK, RouterStates, AtRest
  <2>5. EnoughConns'
    BY <2>3, <2>4, StillEnough DEF Inv
  <2>6. RoutersSound'
    BY <2>1, ConstantFacts DEF RouteLock, Inv, TypeOK, RouterStates, RoutersSound, AtRest
  <2>7. RoutesSound' /\ ConnsSound'
    BY <2>1 DEF Inv, RoutesSound, ConnsSound, Drained
  <2>8. StopSound'
    BY <2>1 DEF Inv, TypeOK, RouterStates, StopSound, Drained, AtRest
  <2> QED
    BY <2>1, <2>2, <2>3, <2>5, <2>6, <2>7, <2>8 DEF Inv
<1>3. CASE routes[router[r].to] = Nil
  <2>1. /\ router[r].pc = "lock"
        /\ rmu = Nil /\ rmu' = r
        /\ conn' = [conn EXCEPT ![c] = "made"]
        /\ key' = [key EXCEPT ![c] = router[r].to]
        /\ router' = [router EXCEPT ![r].pc = "select", ![r].c = c]
        /\ UNCHANGED <<doneCh, mxopen, routes, vend, watch, wg, timeouts, awaiter, stop>>
    BY <1>3 DEF RouteLock, newLocked
  <2>2. c \in Fresh
    BY <1>1, OneIsFresh DEF Inv
  <2>3. c \in Conns /\ conn[c] = "none"
    BY <2>2 DEF Fresh
  <2> HIDE DEF c
  <2>4. TypeOK'
    BY <2>1, <2>3, ZenonT(60) DEF Inv, TypeOK, RouterStates
  <2>5. Fresh' = Fresh \ {c} /\ Wanting' = Wanting \ {r} /\ Watched' = Watched
    BY <2>1, <2>3 DEF Fresh, Wanting, Watched, Inv, TypeOK, RouterStates
  <2>6. EnoughConns'
    BY <1>1, <2>2, <2>5, OneLessWants DEF Inv
  <2>8. RoutersSound'
    BY <1>3, <2>1, <2>3, ConstantFacts DEF Inv, TypeOK, RouterStates, RoutersSound, ConnsSound
  <2>9. RoutesSound'
    BY <2>1, <2>3 DEF Inv, TypeOK, RoutesSound
  <2>10. ConnsSound'
    BY <2>1, <2>3 DEF Inv, TypeOK, RoutersSound, ConnsSound, Drained
  <2>11. StopSound'
    BY <2>1 DEF Inv, TypeOK, RouterStates, StopSound, Drained
  <2> QED
    BY <2>1, <2>4, <2>5, <2>6, <2>8, <2>9, <2>10, <2>11 DEF Inv
<1> QED
  BY <1>2, <1>3

\* Sending to the awaiter: doneCh is not closed, so nothing has been drained.
LEMMA RouteSendInv ==
    ASSUME UdpMuxConstants, Inv, NEW r \in Routers, RouteSend(r)
    PROVE  Inv'
<1>1. /\ router[r].pc = "select" /\ awaiter = "select" /\ ~doneCh
      /\ awaiter' = router[r].c
      /\ router' = [router EXCEPT ![r].pc = "put"]
      /\ UNCHANGED <<doneCh, mxopen, rmu, routes, conn, key, vend, watch, wg, timeouts, stop>>
  BY DEF RouteSend
<1>2. rmu = r /\ router[r].c \in Conns /\ conn[router[r].c] = "made" /\ watch[router[r].c] = "none"
  BY <1>1 DEF Inv, RoutersSound
<1>3. TypeOK'
  BY <1>1, <1>2 DEF Inv, TypeOK, RouterStates
<1>4. Fresh' = Fresh /\ Watched' = Watched
  BY <1>1 DEF Fresh, Watched
<1>5. Wanting' \subseteq Wanting
  BY <1>1 DEF Wanting, Inv, TypeOK, RouterStates
<1>6. EnoughConns'
  BY <1>4, <1>5, StillEnough DEF Inv
<1>7. RoutersSound'
  BY <1>1, <1>2, ConstantFacts DEF Inv, TypeOK, RouterStates, RoutersSound
<1>8. RoutesSound'
  BY <1>1 DEF Inv, RoutesSound
<1>9. ConnsSound'
  BY <1>1, <1>2, ConstantFacts DEF Inv, ConnsSound, Drained
<1>10. StopSound'
  BY <1>1 DEF Inv, StopSound, Drained
<1> QED
  BY <1>1, <1>3, <1>4, <1>6, <1>7, <1>8, <1>9, <1>10 DEF Inv

\* The route is put where there was none, and makes the conn an open one.
LEMMA RoutePutInv ==
    ASSUME UdpMuxConstants, Inv, NEW r \in Routers, RoutePut(r)
    PROVE  Inv'
<1> DEFINE c == router[r].c
           a == router[r].to
<1>1. /\ router[r].pc = "put"
      /\ routes' = [routes EXCEPT ![a] = c]
      /\ conn' = [conn EXCEPT ![c] = "open"]
      /\ vend' = [vend EXCEPT ![c] = (r = Reader)]
      /\ rmu' = Nil
      /\ router' = [router EXCEPT ![r] = AtRest]
      /\ UNCHANGED <<doneCh, mxopen, key, watch, wg, timeouts, awaiter, stop>>
  BY DEF RoutePut
<1>2. /\ rmu = r /\ a \in Addrs /\ c \in Conns
      /\ conn[c] = "made" /\ key[c] = a /\ routes[a] = Nil
  BY <1>1 DEF Inv, RoutersSound
<1>3. ~Drained
  BY <1>1 DEF Inv, StopSound
<1> HIDE DEF a, c
<1>4. TypeOK'
  BY <1>1, <1>2 DEF Inv, TypeOK, RouterStates, AtRest
<1>5. Fresh' = Fresh /\ Watched' = Watched
  BY <1>1, <1>2 DEF Fresh, Watched, Inv, TypeOK
<1>6. Wanting' \subseteq Wanting
  BY <1>1, SMTT(60) DEF Wanting, Inv, TypeOK, RouterStates, AtRest
<1>7. EnoughConns'
  BY <1>5, <1>6, StillEnough DEF Inv
<1>8. RoutersSound'
  BY <1>1, <1>2, ConstantFacts DEF Inv, TypeOK, RouterStates, RoutersSound, AtRest
<1>9. RoutesSound'
  BY <1>1, <1>2 DEF Inv, TypeOK, RoutesSound
<1>10. ConnsSound'
  BY <1>1, <1>2, ConstantFacts DEF Inv, TypeOK, ConnsSound, Drained
<1>11. StopSound'
  BY <1>1, <1>3 DEF Inv, StopSound, Drained
<1> QED
  BY <1>1, <1>4, <1>5, <1>7, <1>8, <1>9, <1>10, <1>11 DEF Inv

\* The conn that doneCh kept from being sent is nobody else's.
LEMMA RouteDoneInv ==
    ASSUME UdpMuxConstants, Inv, NEW r \in Routers, RouteDone(r)
    PROVE  Inv'
<1> DEFINE c == router[r].c
<1>1. /\ router[r].pc = "select"
      /\ conn' = [conn EXCEPT ![c] = "closed"]
      /\ rmu' = Nil
      /\ router' = [router EXCEPT ![r] = AtRest]
      /\ UNCHANGED <<doneCh, mxopen, routes, key, vend, watch, wg, timeouts, awaiter, stop>>
  BY DEF RouteDone
<1>2. /\ rmu = r /\ c \in Conns /\ conn[c] = "made"
      /\ watch[c] = "none" /\ awaiter # c
  BY <1>1 DEF Inv, RoutersSound
<1> HIDE DEF c
<1>3. TypeOK'
  BY <1>1, <1>2 DEF Inv, TypeOK, RouterStates, AtRest
<1>4. Fresh' = Fresh /\ Watched' = Watched
  BY <1>1, <1>2 DEF Fresh, Watched, Inv, TypeOK
<1>5. Wanting' \subseteq Wanting
  BY <1>1 DEF Wanting, Inv, TypeOK, RouterStates, AtRest
<1>6. EnoughConns'
  BY <1>4, <1>5, StillEnough DEF Inv
<1>7. RoutersSound'
  BY <1>1, <1>2, ConstantFacts DEF Inv, TypeOK, RouterStates, RoutersSound, AtRest
<1>8. RoutesSound'
  BY <1>1, <1>2 DEF Inv, TypeOK, RoutesSound
<1>9. ConnsSound'
  BY <1>1, <1>2 DEF Inv, TypeOK, ConnsSound, Drained
<1>10. StopSound'
  BY <1>1 DEF Inv, TypeOK, RouterStates, StopSound, Drained, AtRest
<1> QED
  BY <1>1, <1>3, <1>4, <1>6, <1>7, <1>8, <1>9, <1>10 DEF Inv

\* A conn that was handed out closes, or is vended.
LEMMA CloseInv ==
    ASSUME UdpMuxConstants, Inv, NEW c \in Conns,
           Close(c) \/ \E ok \in BOOLEAN : Vend(c, ok)
    PROVE  Inv'
<1>1. /\ conn[c] \in {"open", "closed"}
      /\ conn' \in {conn, [conn EXCEPT ![c] = "closed"]}
      /\ vend' \in {vend, [vend EXCEPT ![c] = FALSE]}
      /\ UNCHANGED <<doneCh, mxopen, rmu, routes, key, watch, wg, router, timeouts, awaiter, stop>>
  BY DEF Close, Vend, Inv, TypeOK, ConnsSound
<1>2. TypeOK'
  BY <1>1, Zenon DEF Inv, TypeOK
<1>3. Fresh' = Fresh /\ Watched' = Watched /\ Wanting' \subseteq Wanting
  BY <1>1 DEF Fresh, Watched, Wanting, Inv, TypeOK
<1>4. EnoughConns'
  BY <1>3, StillEnough DEF Inv
<1>5. RoutersSound'
  BY <1>1 DEF Inv, TypeOK, RoutersSound
<1>6. RoutesSound'
  BY <1>1 DEF Inv, TypeOK, RoutesSound
<1>7. ConnsSound'
  BY <1>1 DEF Inv, TypeOK, ConnsSound, Drained
<1>8. StopSound'
  BY <1>1 DEF Inv, StopSound, Drained
<1> QED
  BY <1>1, <1>2, <1>3, <1>4, <1>5, <1>6, <1>7, <1>8 DEF Inv

-----------------------------------------------------------------------------
(* readers and awaiters *)

\* The reader waits on, or ends and calls stop.
LEMMA ReaderInv ==
    ASSUME UdpMuxConstants, Inv, ReadTimeout \/ ReadError
    PROVE  Inv'
<1>1. /\ router[Reader].pc = "idle"
      /\ \/ router' = router /\ stop' = stop /\ timeouts' = timeouts + 1 /\ timeouts + 1 < MaxTimeoutErrors
         \/ /\ router' = [router EXCEPT ![Reader].pc = "end"]
            /\ stop' = IF stop = "idle" THEN "called" ELSE stop
            /\ timeouts' \in {timeouts, timeouts + 1}
      /\ UNCHANGED <<doneCh, mxopen, rmu, routes, conn, key, vend, watch, wg, awaiter>>
  BY DEF ReadTimeout, ReadError
<1>2. timeouts \in Nat /\ timeouts < MaxTimeoutErrors
  BY <1>1, ConstantFacts DEF Inv, TypeOK, RoutersSound
<1>3. TypeOK'
  BY <1>1, <1>2, ConstantFacts, SMTT(60) DEF Inv, TypeOK, RouterStates, StopSteps
<1>4. Fresh' = Fresh /\ Watched' = Watched
  BY <1>1 DEF Fresh, Watched
<1>5. Wanting' \subseteq Wanting
  BY <1>1, ConstantFacts DEF Wanting, Inv, TypeOK, RouterStates
<1>6. EnoughConns'
  BY <1>4, <1>5, StillEnough DEF Inv
<1>7. RoutersSound'
  BY <1>1, <1>2, ConstantFacts DEF Inv, TypeOK, RouterStates, RoutersSound
<1>8. Drained' = Drained
  BY <1>1 DEF Drained
<1>9. RoutesSound' /\ ConnsSound'
  BY <1>1, <1>8 DEF Inv, RoutesSound, ConnsSound
<1>10. StopSound'
  BY <1>1, <1>8, ConstantFacts DEF Inv, TypeOK, RouterStates, StopSound
<1> QED
  BY <1>1, <1>3, <1>4, <1>6, <1>7, <1>9, <1>10 DEF Inv

\* awaiter() starts to watch the conn it was sent ...
LEMMA AcceptInv ==
    ASSUME UdpMuxConstants, Inv, Accept
    PROVE  Inv'
<1>1. /\ awaiter \in Conns /\ awaiter' = "select"
      /\ wg' = wg + 1
      /\ watch' = [watch EXCEPT ![awaiter] = "watching"]
      /\ UNCHANGED <<doneCh, mxopen, rmu, routes, conn, key, vend, router, timeouts, stop>>
  BY DEF Accept
<1>2. watch[awaiter] = "none" /\ conn[awaiter] # "none"
  BY <1>1 DEF Inv, ConnsSound
<1>3. TypeOK'
  BY <1>1 DEF Inv, TypeOK
<1>4. Fresh' = Fresh /\ Wanting' \subseteq Wanting
  BY <1>1 DEF Fresh, Wanting
<1>5. EnoughConns'
  BY <1>4, StillEnough DEF Inv
<1>6. RoutersSound'
  BY <1>1, ConstantFacts DEF Inv, TypeOK, RoutersSound
<1>7. RoutesSound'
  BY <1>1 DEF Inv, RoutesSound
<1>8. ConnsSound'
  BY <1>1, <1>2, ConstantFacts DEF Inv, TypeOK, ConnsSound, Drained
<1>9. StopSound'
  BY <1>1 DEF Inv, StopSound, Drained
<1>10. Watched' = Watched \cup {awaiter} /\ awaiter \notin Watched
  BY <1>1, <1>2 DEF Watched, Inv, TypeOK
<1>11. wg' = Cardinality(Watched')
  <2>1. IsFiniteSet(Watched)
    BY CountsAreNats
  <2> QED
    BY <1>1, <1>10, <2>1, FS_AddElement DEF Inv
<1> QED
  BY <1>3, <1>5, <1>6, <1>7, <1>8, <1>9, <1>11 DEF Inv

\* ... or ends when the muxer is done.
LEMMA AwaiterDoneInv ==
    ASSUME UdpMuxConstants, Inv, AwaiterDone
    PROVE  Inv'
<1>1. /\ awaiter' = "done"
      /\ UNCHANGED <<doneCh, mxopen, rmu, routes, conn, key, vend, watch, wg, router, timeouts, stop>>
  BY DEF AwaiterDone
<1>2. TypeOK'
  BY <1>1 DEF Inv, TypeOK
<1>3. Fresh' = Fresh /\ Watched' = Watched /\ Wanting' \subseteq Wanting
  BY <1>1 DEF Fresh, Watched, Wanting
<1>4. EnoughConns'
  BY <1>3, StillEnough DEF Inv
<1>5. RoutersSound' /\ RoutesSound'
  BY <1>1, ConstantFacts DEF Inv, RoutersSound, RoutesSound
<1>6. ConnsSound' /\ StopSound'
  BY <1>1, ConstantFacts DEF Inv, ConnsSound, StopSound, Drained
<1> QED
  BY <1>1, <1>2, <1>3, <1>4, <1>5, <1>6 DEF Inv

\* The route that unroute deletes is that of the conn it was called for, unless
\* drain has deleted all.
LEMMA unrouteIsOwn ==
    ASSUME UdpMuxConstants, Inv, NEW c \in Conns, unroute(c)
    PROVE  /\ key[c] \in Addrs
           /\ routes[key[c]] \in {c, Nil}
           /\ rmu = Nil
<1>1. watch[c] = "watching" /\ conn[c] = "closed" /\ rmu = Nil
  BY DEF unroute
<1>2. key[c] \in Addrs
  BY <1>1 DEF Inv, ConnsSound
<1>3. routes[key[c]] = c \/ Drained
  BY <1>1 DEF Inv, ConnsSound
<1> QED
  BY <1>1, <1>2, <1>3 DEF Inv, StopSound

\* The conn that closed loses its route.
LEMMA unrouteInv ==
    ASSUME UdpMuxConstants, Inv, NEW c \in Conns, unroute(c)
    PROVE  Inv'
<1>1. /\ watch[c] = "watching" /\ conn[c] = "closed"
      /\ routes' = [routes EXCEPT ![key[c]] = Nil]
      /\ watch' = [watch EXCEPT ![c] = "unrouted"]
      /\ UNCHANGED <<doneCh, mxopen, rmu, conn, key, vend, wg, router, timeouts, awaiter, stop>>
  BY DEF unroute
<1>2. key[c] \in Addrs /\ routes[key[c]] \in {c, Nil} /\ rmu = Nil
  BY unrouteIsOwn
<1>3. TypeOK'
  BY <1>1, <1>2 DEF Inv, TypeOK
<1>4. Fresh' = Fresh /\ Watched' = Watched /\ Wanting' \subseteq Wanting
  BY <1>1 DEF Fresh, Watched, Wanting, Inv, TypeOK
<1>5. EnoughConns'
  BY <1>4, StillEnough DEF Inv
<1>6. RoutersSound'
  BY <1>1, <1>2, ConstantFacts DEF Inv, TypeOK, RoutersSound
<1>7. RoutesSound'
  BY <1>1, <1>2 DEF Inv, TypeOK, RoutesSound
<1>8. ConnsSound'
  BY <1>1, <1>2, ConstantFacts DEF Inv, TypeOK, ConnsSound, Drained
<1>9. StopSound'
  BY <1>1, <1>2 DEF Inv, TypeOK, StopSound, Drained
<1> QED
  BY <1>1, <1>3, <1>4, <1>5, <1>6, <1>7, <1>8, <1>9 DEF Inv

\* Its watcher ends.
LEMMA UnacceptInv ==
    ASSUME UdpMuxConstants, Inv, NEW c \in Conns, Unaccept(c)
    PROVE  Inv'
<1>1. /\ watch[c] = "unrouted"
      /\ watch' = [watch EXCEPT ![c] = "over"]
      /\ wg' = wg - 1
      /\ stop' = IF wg = 1 /\ stop = "parked" THEN "woken" ELSE stop
      /\ UNCHANGED <<doneCh, mxopen, rmu, routes, conn, key, vend, router, timeouts, awaiter>>
  BY DEF Unaccept
<1>2. Watched' = Watched \ {c} /\ c \in Watched
  BY <1>1 DEF Watched, Inv, TypeOK
<1>3. wg' = Cardinality(Watched') /\ wg' \in Nat
  <2>1. IsFiniteSet(Watched) /\ IsFiniteSet(Watched')
    BY <1>2, CountsAreNats, FS_Subset
  <2>2. Cardinality(Watched') = Cardinality(Watched) - 1
    BY <1>2, <2>1, FS_RemoveElement
  <2> QED
    BY <1>1, <2>1, <2>2, FS_CardinalityType DEF Inv
<1>4. TypeOK'
  BY <1>1, <1>3 DEF Inv, TypeOK, StopSteps
<1>5. Fresh' = Fresh /\ Wanting' \subseteq Wanting
  BY <1>1 DEF Fresh, Wanting
<1>6. EnoughConns'
  BY <1>5, StillEnough DEF Inv
<1>7. Drained' = Drained
  BY <1>1 DEF Drained
<1>8. RoutersSound' /\ RoutesSound'
  BY <1>1, ConstantFacts DEF Inv, TypeOK, RoutersSound, RoutesSound
<1>9. ConnsSound'
  BY <1>1, <1>7, SMTT(60) DEF Inv, TypeOK, ConnsSound
<1>10. StopSound'
  BY <1>1, <1>7 DEF Inv, StopSound
<1> QED
  BY <1>3, <1>4, <1>6, <1>8, <1>9, <1>10 DEF Inv

-----------------------------------------------------------------------------
(* stop *)

\* The steps of stop other than drain touch no conn and no route.
LEMMA StopInv ==
    ASSUME UdpMuxConstants, Inv,
           ResetStop \/ StopDone \/ StopClose \/ StopWait \/ StopWake \/ CallBack
    PROVE  Inv'
<1>1. UNCHANGED <<rmu, routes, conn, key, vend, watch, wg, router, timeouts, awaiter>>
  BY DEF ResetStop, StopDone, StopClose, StopWait, StopWake, CallBack
<1>2. TypeOK'
  BY Zenon DEF Inv, TypeOK, StopSteps, ResetStop, StopDone, StopClose, StopWait, StopWake, CallBack
<1>3. Fresh' = Fresh /\ Watched' = Watched /\ Wanting' \subseteq Wanting
  BY <1>1 DEF Fresh, Watched, Wanting
<1>4. EnoughConns'
  BY <1>3, StillEnough, SMTT(60) DEF Inv
<1>5. RoutersSound' /\ RoutesSound'
  BY <1>1 DEF Inv, RoutersSound, RoutesSound
<1>6. Drained' = Drained
  BY SMTT(60) DEF Drained, ResetStop, StopDone, StopClose, StopWait, StopWake, CallBack
<1>7. ConnsSound'
  BY <1>1, <1>6 DEF Inv, ConnsSound
<1>8. doneCh' <=> stop' \notin {"idle", "called"}
  BY DEF Inv, StopSound, ResetStop, StopDone, StopClose, StopWait, StopWake, CallBack
<1>9. StopSound'
  BY <1>1, <1>6, <1>8 DEF Inv, StopSound
<1> QED
  BY <1>1, <1>2, <1>3, <1>4, <1>5, <1>7, <1>9 DEF Inv

\* drain has rmu, so no router is between its send and its route.
LEMMA drainInv ==
    ASSUME UdpMuxConstants, Inv, drain
    PROVE  Inv'
<1>1. /\ stop = "drain" /\ stop' = "close" /\ rmu = Nil
      /\ conn' = [c \in Conns |-> IF \E a \in Addrs : routes[a] = c THEN "closed" ELSE conn[c]]
      /\ routes' = [a \in Addrs |-> Nil]
      /\ UNCHANGED <<doneCh, mxopen, rmu, key, vend, watch, wg, router, timeouts, awaiter>>
  BY SMTT(60) DEF drain
<1>2. Drained'
  BY <1>1 DEF Drained
<1>3. \A c \in Conns : (\E a \in Addrs : routes[a] = c) => conn[c] \in {"open", "closed"}
  BY ConstantFacts DEF Inv, RoutesSound
<1>4. \A c \in Conns : /\ conn'[c] = "none" <=> conn[c] = "none"
                       /\ conn'[c] = "made" <=> conn[c] = "made"
                       /\ conn'[c] # "open"
  BY <1>1, <1>3 DEF Inv, TypeOK, ConnsSound
<1>5. TypeOK'
  BY <1>1 DEF Inv, TypeOK, StopSteps
<1>6. Fresh' = Fresh /\ Watched' = Watched /\ Wanting' \subseteq Wanting
  BY <1>1, <1>4, SMTT(60) DEF Fresh, Watched, Wanting
<1>7. EnoughConns'
  BY <1>6, StillEnough DEF Inv
<1>8. \A r \in Routers : router[r].pc \notin {"select", "put"}
  BY <1>1, ConstantFacts, SMTT(60) DEF Inv, RoutersSound
<1>9. RoutersSound'
  BY <1>1, <1>8, ConstantFacts, SMTT(60) DEF Inv, RoutersSound
<1>10. RoutesSound'
  BY <1>1, SMTT(60) DEF RoutesSound
<1>11. ConnsSound'
  BY <1>1, <1>2, <1>4, SMTT(60) DEF Inv, ConnsSound
<1>12. StopSound'
  BY <1>1, <1>8 DEF Inv, StopSound
<1> QED
  BY <1>1, <1>5, <1>6, <1>7, <1>9, <1>10, <1>11, <1>12, SMTT(60) DEF Inv

-----------------------------------------------------------------------------

\* Every step preserves the invariant.
LEMMA NextInv ==
    ASSUME UdpMuxConstants, Inv, [Next]_vars
    PROVE  Inv'
<1>1. CASE UNCHANGED vars
  <2>1. Fresh' = Fresh /\ Wanting' = Wanting /\ Watched' = Watched
    BY <1>1, SMTT(60) DEF vars, Fresh, Wanting, Watched
  <2> QED
    BY <1>1, <2>1, SMTT(60) DEF vars, Inv, TypeOK, EnoughConns, RoutersSound, RoutesSound, ConnsSound,
       StopSound, Drained
<1>2. CASE Next
  <2>1. ASSUME NEW r \in Routers, NEW a \in Addrs, Ask(r, a) PROVE Inv'
    BY <2>1, AskInv
  <2>2. ASSUME NEW r \in Routers, findRoute(r) PROVE Inv'
    BY <2>2, findRouteInv
  <2>3. ASSUME NEW r \in Routers, RouteLock(r) PROVE Inv'
    BY <2>3, RouteLockInv
  <2>4. ASSUME NEW r \in Routers, RouteSend(r) PROVE Inv'
    BY <2>4, RouteSendInv
  <2>5. ASSUME NEW r \in Routers, RoutePut(r) PROVE Inv'
    BY <2>5, RoutePutInv
  <2>6. ASSUME NEW r \in Routers, RouteDone(r) PROVE Inv'
    BY <2>6, RouteDoneInv
  <2>7. ASSUME NEW c \in Conns, Close(c) \/ \E ok \in BOOLEAN : Vend(c, ok) PROVE Inv'
    BY <2>7, CloseInv
  <2>8. ASSUME NEW c \in Conns, unroute(c) PROVE Inv'
    BY <2>8, unrouteInv
  <2>9. ASSUME NEW c \in Conns, Unaccept(c) PROVE Inv'
    BY <2>9, UnacceptInv
  <2>10. ASSUME NEW a \in Addrs, ReadPacket(a) PROVE Inv'
    BY <2>10, AskInv, ConstantFacts
  <2>11. CASE ReadTimeout \/ ReadError
    BY <2>11, ReaderInv
  <2>12. CASE Accept
    BY <2>12, AcceptInv
  <2>13. CASE AwaiterDone
    BY <2>13, AwaiterDoneInv
  <2>14. CASE ResetStop \/ StopDone \/ StopClose \/ StopWait \/ StopWake \/ CallBack
    BY <2>14, StopInv
  <2>15. CASE drain
    BY <2>15, drainInv
  <2> QED
    BY SMTT(60), <1>2, <2>1, <2>2, <2>3, <2>4, <2>5, <2>6, <2>7, <2>8, <2>9, <2>10, <2>11, <2>12, <2>13,
       <2>14, <2>15 DEF Next
<1> QED
  BY <1>1, <1>2, SMTT(60)

(***************************************************************************)
(* The invariant of the muxer holds for any number of remote addresses,    *)
(* conns and flows: whoever is between the lookup and the put of route has *)
(* rmu, routes lead to conns of their address, and every open conn has its *)
(* route.                                                                  *)
(***************************************************************************)
THEOREM MuxerInvariant == ASSUME UdpMuxConstants PROVE Spec => []Inv
<1>1. Init => Inv
  BY InitInv
<1>2. Inv /\ [Next]_vars => Inv'
  BY NextInv
<1> QED
  BY <1>1, <1>2, PTL DEF Spec

(***************************************************************************)
(* After drain no conn of the muxer is open, whatever route() was doing    *)
(* when doneCh was closed.                                                 *)
(***************************************************************************)
THEOREM StopLeavesNoneOpen == ASSUME UdpMuxConstants PROVE Spec => []DrainClosesAll
<1>1. Inv => DrainClosesAll
  BY ConstantFacts DEF Inv, DrainClosesAll, ConnsSound, StopSound
<1> QED
  BY <1>1, MuxerInvariant, PTL

(***************************************************************************)
(* Ingress and egress that race for a route never leave two open conns to  *)
(* one remote address.                                                     *)
(***************************************************************************)
THEOREM RemotesHaveOneConn == ASSUME UdpMuxConstants PROVE Spec => []OneOpenPerAddr
<1>1. Inv => OneOpenPerAddr
  BY DEF Inv, OneOpenPerAddr, ConnsSound
<1> QED
  BY <1>1, MuxerInvariant, PTL

-----------------------------------------------------------------------------

\* Only drain, unroute and RoutePut change routes.
LEMMA NextKeepsRoutes ==
    ASSUME UdpMuxConstants, Inv, [Next]_vars, NEW a \in Addrs,
           routes[a] # Nil, routes'[a] # routes[a]
    PROVE  conn'[routes[a]] = "closed"
<1>1. CASE drain
  BY <1>1 DEF drain, Inv, TypeOK
<1>2. ASSUME NEW c \in Conns, unroute(c) PROVE conn'[routes[a]] = "closed"
  <2>1. routes[key[c]] \in {c, Nil}
    BY <1>2, unrouteIsOwn, SMTT(60)
  <2> QED
    BY <1>2, <2>1 DEF unroute, Inv, TypeOK
<1>3. ASSUME NEW r \in Routers, RoutePut(r) PROVE conn'[routes[a]] = "closed"
  <2>1. routes[router[r].to] = Nil
    BY <1>3 DEF RoutePut, Inv, RoutersSound
  <2> QED
    BY <1>3, <2>1, SMTT(60) DEF RoutePut, Inv, TypeOK
<1>4. CASE UNCHANGED routes
  BY <1>4
<1> QED
  BY <1>1, <1>2, <1>3, <1>4, Zenon DEF Next, vars, Ask, findRoute, RouteLock, RouteSend, RouteDone, Vend,
     Close, Unaccept, ReadPacket, ReadTimeout, ReadError, Accept, AwaiterDone, ResetStop,
     StopDone, StopClose, StopWait, StopWake, CallBack

(***************************************************************************)
(* No step takes the route of an open conn away from it, although unroute  *)
(* deletes by address.                                                     *)
(***************************************************************************)
THEOREM OpenConnsStayRouted == ASSUME UdpMuxConstants PROVE Spec => OpenStaysRouted
<1>1. Inv /\ [Next]_vars =>
        [\A a \in Addrs : (routes[a] # Nil /\ routes'[a] # routes[a])
                             => conn'[routes[a]] = "closed"]_vars
  BY NextKeepsRoutes
<1> QED
  BY <1>1, MuxerInvariant, PTL DEF Spec, OpenStaysRouted

-----------------------------------------------------------------------------
(* Refinement of MuxerSpec *)

\* What is handed out changes with the conns that are open.
LEMMA LiveOf ==
    ASSUME NEW l PROVE l \in Live <=> \E c \in Conns : conn[c] = "open" /\ l = <<c, key[c]>>
  BY DEF Live

\* A conn that is put in the routes is handed out.
LEMMA RoutePutHandsOut ==
    ASSUME UdpMuxConstants, Inv, NEW r \in Routers, RoutePut(r)
    PROVE  Promise!HandOut(router[r].c, router[r].to)
<1> DEFINE c == router[r].c
           a == router[r].to
<1>1. /\ router[r].pc = "put" /\ rmu = r
      /\ a \in Addrs /\ c \in Conns
      /\ conn[c] = "made" /\ key[c] = a /\ routes[a] = Nil
  BY DEF RoutePut, Inv, RoutersSound
<1>2. conn' = [conn EXCEPT ![c] = "open"] /\ UNCHANGED <<key, doneCh, stop>>
  BY DEF RoutePut
<1>3. ~Drained
  BY <1>1 DEF Inv, StopSound
<1> HIDE DEF a, c
<1>4. Phase \in {"open", "stopping"} /\ Phase' = Phase
  BY <1>2, <1>3, SMTT(60) DEF Phase, Drained
<1>5. \A d \in Conns : conn[d] = "open" => d # c /\ key[d] # a
  BY <1>1, ConstantFacts DEF Inv, ConnsSound
<1>6. \A l \in Live : l[1] # c /\ l[2] # a
  BY <1>5 DEF Live
<1>7. Live' = Live \cup {<<c, a>>}
  BY <1>1, <1>2 DEF Live, Inv, TypeOK
<1> QED
  BY <1>4, <1>6, <1>7, SMTT(60) DEF Promise!HandOut, a, c

\* A conn that closes is no longer handed out.
LEMMA CloseCloses ==
    ASSUME UdpMuxConstants, Inv, NEW c \in Conns,
           Close(c) \/ \E ok \in BOOLEAN : Vend(c, ok)
    PROVE  (\E l \in Live : Promise!Close(l)) \/ UNCHANGED <<Phase, Live>>
<1>1. /\ conn' \in {conn, [conn EXCEPT ![c] = "closed"]}
      /\ UNCHANGED <<key, doneCh, stop>>
  BY DEF Close, Vend
<1>2. Phase' = Phase
  BY <1>1 DEF Phase, Drained
<1>3. CASE conn[c] = "open" /\ conn' = [conn EXCEPT ![c] = "closed"]
  <2>1. <<c, key[c]>> \in Live
    BY <1>3 DEF Live
  <2>2. Live' = Live \ {<<c, key[c]>>}
    BY <1>1, <1>3 DEF Live, Inv, TypeOK
  <2> QED
    BY <1>2, <2>1, <2>2 DEF Promise!Close
<1>4. CASE conn[c] # "open" \/ conn' = conn
  <2>1. \A d \in Conns : conn'[d] = "open" <=> conn[d] = "open"
    BY <1>1, <1>4 DEF Inv, TypeOK
  <2>2. Live' = Live
    BY <1>1, <2>1 DEF Live
  <2> QED
    BY <1>2, <2>2
<1> QED
  BY <1>1, <1>3, <1>4

\* drain closes all that was handed out, at once.
LEMMA drainDrains ==
    ASSUME UdpMuxConstants, Inv, drain
    PROVE  Promise!Drain
<1>1. Phase = "stopping" /\ Phase' = "drained"
  BY DEF drain, Phase, Drained, Inv, StopSound
<1>2. \A c \in Conns : conn'[c] # "open"
  BY DEF drain, Inv, TypeOK, ConnsSound
<1>3. Live' = {}
  BY <1>2 DEF Live
<1> QED
  BY <1>1, <1>3 DEF Promise!Drain

\* Making a conn for an address hands nothing out.
LEMMA RouteLockStutters ==
    ASSUME UdpMuxConstants, Inv, NEW r \in Routers, RouteLock(r)
    PROVE  UNCHANGED <<Phase, Live>>
<1> DEFINE c == CHOOSE d \in Conns : conn[d] = "none"
<1>1. Phase' = Phase
  BY DEF RouteLock, Phase, Drained
<1>2. c \in Conns /\ conn[c] = "none"
  BY OneIsFresh DEF RouteLock, Wanting, Inv, Fresh
<1>3. \/ UNCHANGED <<conn, key>>
      \/ /\ conn' = [conn EXCEPT ![c] = "made"]
         /\ key' = [key EXCEPT ![c] = router[r].to]
  BY DEF RouteLock, newLocked
<1> HIDE DEF c
<1>4. Live' = Live
  BY <1>2, <1>3 DEF Live, Inv, TypeOK
<1> QED
  BY <1>1, <1>4

\* A conn that was made and not sent was never handed out.
LEMMA RouteDoneStutters ==
    ASSUME UdpMuxConstants, Inv, NEW r \in Routers, RouteDone(r)
    PROVE  UNCHANGED <<Phase, Live>>
<1>1. Phase' = Phase
  BY DEF RouteDone, Phase, Drained
<1>2. router[r].c \in Conns /\ conn[router[r].c] = "made"
  BY DEF RouteDone, Inv, RoutersSound
<1>3. conn' = [conn EXCEPT ![router[r].c] = "closed"] /\ key' = key
  BY DEF RouteDone
<1>4. \A d \in Conns : conn'[d] = "open" <=> conn[d] = "open"
  BY <1>2, <1>3 DEF Inv, TypeOK
<1>5. Live' = Live
  BY <1>3, <1>4 DEF Live
<1> QED
  BY <1>1, <1>5

\* Every step of the muxer is one of MuxerSpec, or changes nothing of it.
LEMMA NextRefines ==
    ASSUME UdpMuxConstants, Inv, [Next]_vars
    PROVE  [Promise!SNext]_(Promise!svars)
<1> SUFFICES Promise!SNext \/ UNCHANGED <<Phase, Live>>
  BY DEF Promise!svars
<1> DEFINE Same == /\ conn' = conn /\ key' = key /\ doneCh' = doneCh
                   /\ stop' = stop \/ ((Drained <=> Drained') /\ stop' # "done" /\ stop # "done")
<1>1. Same => UNCHANGED <<Phase, Live>>
  <2>1. Same => Live' = Live
    BY DEF Live
  <2>2. Same => Phase' = Phase
    BY DEF Phase, Drained
  <2> QED
    BY <2>1, <2>2
<1>2. ASSUME NEW r \in Routers, RoutePut(r) PROVE Promise!SNext
  <2>1. router[r].c \in Conns /\ router[r].to \in Addrs
    BY <1>2 DEF RoutePut, Inv, RoutersSound
  <2> QED
    BY <1>2, <2>1, RoutePutHandsOut, SMTT(60) DEF Promise!SNext
<1>3. ASSUME NEW c \in Conns, Close(c) \/ \E ok \in BOOLEAN : Vend(c, ok)
      PROVE  Promise!SNext \/ UNCHANGED <<Phase, Live>>
  BY <1>3, CloseCloses DEF Promise!SNext
<1>4. CASE drain
  BY <1>4, drainDrains DEF Promise!SNext
<1>5. CASE StopDone
  <2>1. Live' = Live
    BY <1>5 DEF StopDone, Live
  <2>2. Phase = "open" /\ Phase' = "stopping"
    BY <1>5 DEF StopDone, Phase, Drained, Inv, StopSound
  <2> QED
    BY <2>1, <2>2, SMTT(60) DEF Promise!SNext, Promise!Stop
<1>6. CASE CallBack
  <2>1. Live' = Live
    BY <1>6 DEF CallBack, Live
  <2>2. Phase = "drained" /\ Phase' = "gone"
    BY <1>6 DEF CallBack, Phase, Drained
  <2> QED
    BY <2>1, <2>2 DEF Promise!SNext, Promise!CallBack
<1>7. ASSUME NEW r \in Routers, RouteLock(r) \/ RouteDone(r) PROVE UNCHANGED <<Phase, Live>>
  BY <1>7, RouteLockStutters, RouteDoneStutters
<1>8. CASE ReadTimeout \/ ReadError \/ ResetStop \/ StopClose \/ StopWait \/ StopWake
  <2>1. Same
    BY <1>8 DEF ReadTimeout, ReadError, ResetStop, StopClose, StopWait, StopWake, Drained
  <2> QED
    BY <1>1, <2>1
<1>9. ASSUME NEW r \in Routers, findRoute(r) \/ RouteSend(r) \/ \E a \in Addrs : Ask(r, a)
      PROVE  UNCHANGED <<Phase, Live>>
  <2>1. Same
    BY <1>9 DEF findRoute, RouteSend, Ask
  <2> QED
    BY <1>1, <2>1
<1>10. ASSUME NEW c \in Conns, unroute(c) \/ Unaccept(c) PROVE UNCHANGED <<Phase, Live>>
  <2>1. Same
    BY <1>10 DEF unroute, Unaccept, Drained
  <2> QED
    BY <1>1, <2>1
<1>11. CASE Accept \/ AwaiterDone \/ (\E a \in Addrs : ReadPacket(a)) \/ UNCHANGED vars
  <2>1. Same
    BY <1>11 DEF Accept, AwaiterDone, ReadPacket, vars
  <2> QED
    BY <1>1, <2>1
<1> QED
  BY <1>2, <1>3, <1>4, <1>5, <1>6, <1>7, <1>8, <1>9, <1>10, <1>11 DEF Next

(***************************************************************************)
(* The muxer implements MuxerSpec: what it hands out, closes and calls     *)
(* back about is what its flows and its table are promised.                *)
(***************************************************************************)
THEOREM MuxerKeepsPromise == ASSUME UdpMuxConstants PROVE Spec => KeepsPromise
<1>1. Init => Promise!SInit
  BY DEF Init, Promise!SInit, Phase, Drained, Live
<1>2. Inv /\ [Next]_vars => [Promise!SNext]_(Promise!svars)
  BY NextRefines
<1> QED
  BY <1>1, <1>2, MuxerInvariant, PTL DEF Spec, KeepsPromise, Promise!MSpec
=============================================================================
