---------------------------- MODULE MCTransports ----------------------------
(***************************************************************************)
(* The transports below the resolver: DNS over TLS, HTTPS and oblivious    *)
(* HTTPS and DNSCrypt, with the hosts that are dialled (intra/dns53,       *)
(* intra/doh, intra/dnscrypt, intra/core, intra/ipn/multihost), as a       *)
(* disjoint union of components.  part says which one runs; the others     *)
(* stay where they are.  Fairness is stated per component, as the premise  *)
(* of what it promises to end.  The proofs come with the components that   *)
(* they are about, and end with what they say of the whole.                *)
(***************************************************************************)
EXTENDS Integers, Sequences, FiniteSetTheorems, TLAPS

CONSTANTS
    Parts, Nil,
    OdThreads, OdMaxKey, OdMaxNow, OdTtl,                           \* of Odoh
    DcAttempts, DcRtts, DcSerials, DcMaxCerts,                      \* of DcCert
    DqQueries, DqMaxRoutes, DqMaxUdpTries,                          \* of DcQuery
    DmIds, DmRelays, DmApis, DmRouteJobs, DmMaxTries, DmMaxStops,
    DmMaxCalls, DmMaxEnv,                                           \* of DcMulti
    MhHosts, MhNamed, MhRefreshers, MhBuilders, MhMaxVer, MhMaxCalls \* of MultiHost

VARIABLE part          \* the component that runs

On(p) == part = p

-----------------------------------------------------------------------------
(* DNSCrypt: servers that calls add, remove and refresh *)

VARIABLES dm_reg, dm_sreg, dm_inner, dm_routes, dm_ignoreTs, dm_live, dm_ended, dm_cert,
          dm_open, dm_stops, dm_thr, dm_rj, dm_calls, dm_env
dmVars == <<dm_reg, dm_sreg, dm_inner, dm_routes, dm_ignoreTs, dm_live, dm_ended,
            dm_cert, dm_open, dm_stops, dm_thr, dm_rj, dm_calls, dm_env>>
Dm == INSTANCE DcMulti WITH
    Ids <- DmIds, Relays <- DmRelays, Apis <- DmApis, RouteJobs <- DmRouteJobs,
    MaxTries <- DmMaxTries, MaxStops <- DmMaxStops, MaxCalls <- DmMaxCalls,
    MaxEnv <- DmMaxEnv,
    reg <- dm_reg, sreg <- dm_sreg, inner <- dm_inner, routes <- dm_routes,
    ignoreTs <- dm_ignoreTs, live <- dm_live, ended <- dm_ended, cert <- dm_cert,
    open <- dm_open, stops <- dm_stops, thr <- dm_thr, rj <- dm_rj, calls <- dm_calls,
    env <- dm_env

\* Sets and their sizes are counted alike inside the component and out.
LEMMA DmCounts ==
    \A S : (Dm!IsFiniteSet(S) <=> IsFiniteSet(S)) /\ Dm!Cardinality(S) = Cardinality(S)
  BY Zenon DEF Dm!IsFiniteSet, IsFiniteSet, Dm!Cardinality, Cardinality

\* Threads are counted.
LEMMA DmStoringIsCounted ==
    ASSUME Dm!DcMultiConstants, NEW S \in SUBSET Dm!Threads
    PROVE  Dm!IsFiniteSet(S) /\ Dm!Cardinality(S) \in Nat
<1>1. Dm!IsFiniteSet(Dm!Threads)
  BY FS_Singleton, FS_Union, DmCounts DEF Dm!DcMultiConstants, Dm!Threads
<1> QED
  BY <1>1, FS_Subset, FS_CardinalityType, DmCounts

\* A thread that has nothing to do.
LEMMA DmIdleTyped == ASSUME Dm!DcMultiConstants PROVE Dm!Idle \in Dm!Thread /\ Dm!Named(Dm!Idle) /\ Dm!Idle.pc # "store"
BY DEF Dm!Idle, Dm!Thread, Dm!Named, Dm!DcMultiConstants

\* Of a server object that is put in the map or taken out: the count of those that
\* are open is as the map, the stops under way and the threads say.
LEMMA DmMoves ==
    ASSUME Dm!Inv, NEW t \in Dm!Threads, NEW r \in Dm!Thread, dm_thr' = [dm_thr EXCEPT ![t] = r], Dm!Named(r)
    PROVE  /\ dm_thr' \in [Dm!Threads -> Dm!Thread] /\ \A u \in Dm!Threads : Dm!Named(dm_thr'[u])
           /\ \A i \in DmIds :
                Dm!Storing(i)' = (Dm!Storing(i) \ {t})
                              \cup (IF r.pc = "store" /\ r.id = i THEN {t} ELSE {})
<1>1. dm_thr \in [Dm!Threads -> Dm!Thread]
  BY Zenon DEF Dm!Inv
<1>2. dm_thr' \in [Dm!Threads -> Dm!Thread] /\ \A u \in Dm!Threads : dm_thr'[u] = IF u = t THEN r ELSE dm_thr[u]
  BY <1>1, Zenon
<1>3. \A u \in Dm!Threads : Dm!Named(dm_thr'[u])
  BY <1>2, Zenon DEF Dm!Inv
<1>4. \A i \in DmIds : Dm!Storing(i)' = (Dm!Storing(i) \ {t})
                                   \cup (IF r.pc = "store" /\ r.id = i THEN {t} ELSE {})
  BY <1>2 DEF Dm!Storing
<1> QED
  BY <1>2, <1>3, <1>4

\* A step that makes, stores and stops no server object.
LEMMA DmQuiet ==
    ASSUME Dm!Inv, Dm!BooksTyped', UNCHANGED <<dm_open, dm_stops>>,
           \A i \in DmIds : dm_inner'[i] = Nil <=> dm_inner[i] = Nil,
           \/ dm_thr' = dm_thr
           \/ \E t \in Dm!Threads, r \in Dm!Thread :
                /\ dm_thr' = [dm_thr EXCEPT ![t] = r] /\ Dm!Named(r)
                /\ dm_thr[t].pc # "store" /\ r.pc # "store"
    PROVE  Dm!Inv'
<1>1. /\ dm_thr' \in [Dm!Threads -> Dm!Thread] /\ \A u \in Dm!Threads : Dm!Named(dm_thr'[u])
      /\ \A i \in DmIds : Dm!Storing(i)' = Dm!Storing(i)
  <2>1. CASE dm_thr' = dm_thr
    BY <2>1, Zenon DEF Dm!Inv, Dm!Storing
  <2>2. ASSUME NEW t \in Dm!Threads, NEW r \in Dm!Thread, dm_thr' = [dm_thr EXCEPT ![t] = r], Dm!Named(r),
               dm_thr[t].pc # "store", r.pc # "store"
        PROVE  /\ dm_thr' \in [Dm!Threads -> Dm!Thread] /\ \A u \in Dm!Threads : Dm!Named(dm_thr'[u])
               /\ \A i \in DmIds : Dm!Storing(i)' = Dm!Storing(i)
    <3>1. \A i \in DmIds : t \notin Dm!Storing(i)
      BY <2>2, Zenon DEF Dm!Storing
    <3>2. \A i \in DmIds : Dm!Storing(i)' = (Dm!Storing(i) \ {t})
                                       \cup (IF r.pc = "store" /\ r.id = i THEN {t} ELSE {})
      BY <2>2, DmMoves, Zenon
    <3>3. \A i \in DmIds : Dm!Storing(i)' = Dm!Storing(i)
      BY <2>2, <3>1, <3>2
    <3> QED
      BY <2>2, <3>3, DmMoves, Zenon
  <2> QED
    BY <2>1, <2>2, Zenon
<1>2. \A i \in DmIds : dm_open[i] = dm_stops[i] + (IF dm_inner[i] = Nil THEN 0 ELSE 1) + Dm!Cardinality(Dm!Storing(i))
  BY Zenon DEF Dm!Inv, Dm!NoServerLeak, Dm!Storing
<1>3. \A i \in DmIds : dm_open'[i] = dm_stops'[i] + (IF dm_inner'[i] = Nil THEN 0 ELSE 1) + Dm!Cardinality(Dm!Storing(i)')
  BY <1>1, <1>2, Zenon
<1>4. Dm!NoServerLeak'
  BY <1>3, Zenon DEF Dm!NoServerLeak, Dm!Storing
<1> QED
  BY <1>1, <1>4, Zenon DEF Dm!Inv

\* A route job starts.
LEMMA DmJobsTyped ==
    ASSUME Dm!BooksTyped, Dm!goRefreshRoutes \/ dm_rj' = dm_rj
    PROVE  dm_rj' \in [DmRouteJobs -> [pc : {"idle", "read", "set"}, got : SUBSET DmRelays]]
<1>1. dm_rj \in [DmRouteJobs -> [pc : {"idle", "read", "set"}, got : SUBSET DmRelays]]
  BY Zenon DEF Dm!BooksTyped
<1>2. CASE Dm!goRefreshRoutes
  <2>1. PICK j \in DmRouteJobs : dm_rj' = [dm_rj EXCEPT ![j].pc = "read"]
    BY <1>2, Zenon DEF Dm!goRefreshRoutes
  <2> QED
    BY <1>1, <2>1
<1> QED
  BY <1>1, <1>2

\* What the client asks for, the relays, and what the world does.
LEMMA DmClientInv ==
    ASSUME Dm!DcMultiConstants, Dm!Inv,
           Dm!client \/ Dm!certChanges \/ \E j \in DmRouteJobs : Dm!route(j) \/ Dm!refreshRoutes(j)
    PROVE  Dm!Inv'
<1>1. Dm!BooksTyped
  BY Zenon DEF Dm!Inv
<1>2. ASSUME Dm!call PROVE dm_calls' \in 0..DmMaxCalls
  BY <1>1, <1>2 DEF Dm!call, Dm!BooksTyped, Dm!DcMultiConstants
<1>3. CASE Dm!Stop
  <2>1. Dm!BooksTyped'
    BY <1>1, <1>2, <1>3, Zenon DEF Dm!Stop, Dm!BooksTyped
  <2> QED
    BY <1>3, <2>1, DmQuiet, Zenon DEF Dm!Stop
<1>4. ASSUME NEW r \in DmRelays, Dm!AddGateways(r) \/ Dm!RemoveGateways(r)
      PROVE  Dm!Inv'
  <2>1. Dm!call /\ (Dm!goRefreshRoutes \/ dm_rj' = dm_rj)
        /\ UNCHANGED <<dm_reg, dm_sreg, dm_inner, dm_ignoreTs, dm_live, dm_ended, dm_cert, dm_open, dm_stops, dm_thr, dm_env>>
    BY <1>4, Zenon DEF Dm!AddGateways, Dm!RemoveGateways
  <2>2. dm_routes' \subseteq DmRelays
    BY <1>1, <1>4 DEF Dm!AddGateways, Dm!RemoveGateways, Dm!BooksTyped
  <2>3. Dm!BooksTyped'
    BY <1>1, <1>2, <2>1, <2>2, DmJobsTyped, Zenon DEF Dm!BooksTyped
  <2> QED
    BY <2>1, <2>3, DmQuiet, Zenon
<1>5. ASSUME NEW i \in DmIds, Dm!AddAll(i)
      PROVE  Dm!Inv'
  <2>1. dm_reg' \subseteq DmIds
    BY <1>1, <1>5 DEF Dm!AddAll, Dm!BooksTyped
  <2>2. Dm!BooksTyped'
    BY <1>1, <1>2, <1>5, <2>1, Zenon DEF Dm!AddAll, Dm!BooksTyped
  <2> QED
    BY <1>5, <2>2, DmQuiet, Zenon DEF Dm!AddAll
<1>6. ASSUME NEW t \in DmApis, NEW i \in DmIds, Dm!AddTransport(t, i) \/ Dm!Remove(t, i)
      PROVE  Dm!Inv'
  <2>1. dm_reg' \subseteq DmIds
    BY <1>1, <1>6 DEF Dm!AddTransport, Dm!Remove, Dm!BooksTyped
  <2>2. Dm!BooksTyped'
    BY <1>1, <1>2, <1>6, <2>1, Zenon DEF Dm!AddTransport, Dm!Remove, Dm!BooksTyped
  <2>3. \E r \in Dm!Thread : dm_thr' = [dm_thr EXCEPT ![t] = r] /\ Dm!Named(r) /\ dm_thr[t].pc # "store" /\ r.pc # "store"
    <3> DEFINE a == [Dm!Idle EXCEPT !.pc = "fetch", !.kind = "add", !.id = i]
               b == [Dm!Idle EXCEPT !.pc = "remove", !.kind = "remove", !.id = i]
    <3>1. a \in Dm!Thread /\ Dm!Named(a) /\ a.pc # "store"
      BY DmIdleTyped DEF Dm!Thread, Dm!Named
    <3>3. b \in Dm!Thread /\ Dm!Named(b) /\ b.pc # "store"
      BY DmIdleTyped DEF Dm!Thread, Dm!Named
    <3>2. dm_thr[t].pc # "store"
      BY <1>6 DEF Dm!AddTransport, Dm!Remove
    <3> QED
      BY <1>6, <3>1, <3>2, <3>3, Zenon DEF Dm!AddTransport, Dm!Remove
  <2>4. t \in Dm!Threads
    BY DEF Dm!Threads
  <2>5. UNCHANGED <<dm_open, dm_stops, dm_inner>>
    BY <1>6, Zenon DEF Dm!AddTransport, Dm!Remove
  <2> QED
    BY <2>2, <2>3, <2>4, <2>5, DmQuiet, Zenon
<1>7. ASSUME NEW t \in DmApis, Dm!Refresh(t)
      PROVE  Dm!Inv'
  <2>1. Dm!BooksTyped'
    BY <1>1, <1>2, <1>7, Zenon DEF Dm!Refresh, Dm!BooksTyped
  <2> DEFINE a == [Dm!Idle EXCEPT !.pc = "list", !.kind = "refresh"]
  <2>2. a \in Dm!Thread /\ Dm!Named(a) /\ a.pc # "store"
    BY DmIdleTyped DEF Dm!Thread, Dm!Named
  <2>3. t \in Dm!Threads /\ dm_thr[t].pc # "store"
    BY <1>7 DEF Dm!Threads, Dm!Refresh
  <2>4. dm_thr' = [dm_thr EXCEPT ![t] = a] /\ UNCHANGED <<dm_open, dm_stops, dm_inner>>
    BY <1>7, Zenon DEF Dm!Refresh
  <2> QED
    BY <2>1, <2>2, <2>3, <2>4, DmQuiet, Zenon
<1>8. CASE Dm!certChanges
  <2>1. dm_env' \in 0..DmMaxEnv
    BY <1>1, <1>8 DEF Dm!certChanges, Dm!BooksTyped, Dm!DcMultiConstants
  <2>2. dm_cert' \in [DmIds -> Dm!Certs]
    BY <1>1, <1>8, Zenon DEF Dm!certChanges, Dm!BooksTyped
  <2>3. Dm!BooksTyped'
    BY <1>1, <1>8, <2>1, <2>2, Zenon DEF Dm!certChanges, Dm!BooksTyped
  <2> QED
    BY <1>8, <2>3, DmQuiet, Zenon DEF Dm!certChanges
<1>9. ASSUME NEW j \in DmRouteJobs, Dm!route(j)
      PROVE  Dm!Inv'
  <2>1. dm_rj' \in [DmRouteJobs -> [pc : {"idle", "read", "set"}, got : SUBSET DmRelays]]
    BY <1>1, <1>9 DEF Dm!route, Dm!BooksTyped
  <2>2. Dm!BooksTyped'
    BY <1>1, <1>9, <2>1, Zenon DEF Dm!route, Dm!BooksTyped
  <2> QED
    BY <1>9, <2>2, DmQuiet, Zenon DEF Dm!route
<1>10. ASSUME NEW j \in DmRouteJobs, Dm!refreshRoutes(j)
       PROVE  Dm!Inv'
  <2>1. dm_rj' \in [DmRouteJobs -> [pc : {"idle", "read", "set"}, got : SUBSET DmRelays]]
    BY <1>1, <1>10 DEF Dm!refreshRoutes, Dm!BooksTyped
  <2>2. dm_rj[j].got \in SUBSET DmRelays
    BY <1>1 DEF Dm!BooksTyped
  <2>3. dm_inner' = [i \in DmIds |-> IF dm_inner[i] = Nil THEN Nil ELSE dm_rj[j].got]
    BY <1>10, Zenon DEF Dm!refreshRoutes
  <2>4. dm_inner' \in [DmIds -> (SUBSET DmRelays) \cup {Nil}]
    BY <2>2, <2>3
  <2>5. \A i \in DmIds : dm_inner'[i] = Nil <=> dm_inner[i] = Nil
    BY <2>2, <2>3, Zenon DEF Dm!DcMultiConstants
  <2>6. Dm!BooksTyped'
    BY <1>1, <1>10, <2>1, <2>4, Zenon DEF Dm!refreshRoutes, Dm!BooksTyped
  <2> QED
    BY <1>10, <2>5, <2>6, DmQuiet, Zenon DEF Dm!refreshRoutes
<1> QED
  BY <1>3, <1>4, <1>5, <1>6, <1>7, <1>8, <1>9, <1>10, Zenon DEF Dm!client

\* A thread lists servers, walks them and ends.
LEMMA DmWalksInv ==
    ASSUME Dm!DcMultiConstants, Dm!Inv, NEW t \in Dm!Threads,
           Dm!registerServers(t) \/ Dm!refresh(t) \/ Dm!refreshNext(t) \/ Dm!refreshDone(t) \/ Dm!removeOne(t)
    PROVE  Dm!Inv'
<1>1. Dm!BooksTyped /\ dm_thr[t] \in Dm!Thread /\ Dm!Named(dm_thr[t])
  BY Zenon DEF Dm!Inv
<1>2. UNCHANGED <<dm_open, dm_stops, dm_inner>>
  BY Zenon DEF Dm!registerServers, Dm!refresh, Dm!refreshNext, Dm!refreshDone, Dm!removeOne
<1>4. ASSUME NEW r \in Dm!Thread, dm_thr' = [dm_thr EXCEPT ![t] = r], Dm!Named(r), r.pc # "store",
             dm_thr[t].pc # "store", Dm!BooksTyped'
      PROVE  Dm!Inv'
  BY <1>2, <1>4, DmQuiet, Zenon
<1>5. CASE Dm!registerServers(t)
  <2>1. dm_sreg' \subseteq DmIds
    BY <1>1, <1>5 DEF Dm!registerServers, Dm!BooksTyped
  <2>2. Dm!BooksTyped'
    BY <1>1, <1>5, <2>1, Zenon DEF Dm!registerServers, Dm!BooksTyped
  <2> DEFINE r == [dm_thr[t] EXCEPT !.pc = "copy"]
  <2>3. r \in Dm!Thread /\ Dm!Named(r) /\ r.pc # "store" /\ dm_thr[t].pc # "store"
    BY <1>1, <1>5 DEF Dm!Thread, Dm!Named, Dm!registerServers
  <2>4. dm_thr' = [dm_thr EXCEPT ![t] = Dm!Idle] \/ dm_thr' = [dm_thr EXCEPT ![t] = r]
    BY <1>5, Zenon DEF Dm!registerServers
  <2> QED
    BY DmIdleTyped, <1>4, <2>2, <2>3, <2>4, Zenon
<1>6. CASE Dm!refresh(t)
  <2>1. Dm!BooksTyped'
    BY <1>1, <1>6, Zenon DEF Dm!refresh, Dm!BooksTyped
  <2> DEFINE r == [dm_thr[t] EXCEPT !.todo = dm_sreg, !.ok = {}, !.pc = "done"]
  <2>2. r \in Dm!Thread /\ Dm!Named(r) /\ r.pc # "store" /\ dm_thr[t].pc # "store"
    BY <1>1, <1>6 DEF Dm!Thread, Dm!Named, Dm!refresh, Dm!BooksTyped
  <2>3. dm_thr' = [dm_thr EXCEPT ![t] = r]
    BY <1>6, Zenon DEF Dm!refresh
  <2> QED
    BY <1>4, <2>1, <2>2, <2>3, Zenon
<1>7. CASE Dm!refreshNext(t)
  <2>1. Dm!BooksTyped'
    BY <1>1, <1>7, Zenon DEF Dm!refreshNext, Dm!BooksTyped
  <2>2. PICK i \in dm_thr[t].todo : dm_thr' = [dm_thr EXCEPT ![t].todo = @ \ {i}, ![t].id = i, ![t].pc = "fetch"]
    BY <1>7, Zenon DEF Dm!refreshNext
  <2> DEFINE r == [dm_thr[t] EXCEPT !.todo = @ \ {i}, !.id = i, !.pc = "fetch"]
  <2>3. r \in Dm!Thread /\ Dm!Named(r) /\ r.pc # "store" /\ dm_thr[t].pc # "store"
    BY <1>1, <1>7 DEF Dm!Thread, Dm!Named, Dm!refreshNext
  <2>4. dm_thr' = [dm_thr EXCEPT ![t] = r]
    BY <2>2, Zenon
  <2> QED
    BY <1>4, <2>1, <2>3, <2>4, Zenon
<1>8. CASE Dm!refreshDone(t)
  <2>1. dm_live' \subseteq DmIds
    BY <1>1, <1>8 DEF Dm!refreshDone, Dm!Thread
  <2>2. dm_ignoreTs' \in BOOLEAN /\ (Dm!goRefreshRoutes \/ dm_rj' = dm_rj)
    BY <1>1, <1>8, Zenon DEF Dm!refreshDone, Dm!BooksTyped
  <2>3. Dm!BooksTyped'
    BY <1>1, <1>8, <2>1, <2>2, DmJobsTyped, Zenon DEF Dm!refreshDone, Dm!BooksTyped
  <2>4. dm_thr' = [dm_thr EXCEPT ![t] = Dm!Idle] /\ dm_thr[t].pc # "store"
    BY <1>8 DEF Dm!refreshDone
  <2> QED
    BY DmIdleTyped, <1>4, <2>3, <2>4, Zenon
<1>9. CASE Dm!removeOne(t)
  <2>1. dm_reg' \subseteq DmIds
    BY <1>1, <1>9 DEF Dm!removeOne, Dm!BooksTyped
  <2>2. Dm!BooksTyped'
    BY <1>1, <1>9, <2>1, Zenon DEF Dm!removeOne, Dm!BooksTyped
  <2> DEFINE r == [dm_thr[t] EXCEPT !.pc = "unreg"]
  <2>3. r \in Dm!Thread /\ Dm!Named(r) /\ r.pc # "store" /\ dm_thr[t].pc # "store"
    BY <1>1, <1>9 DEF Dm!Thread, Dm!Named, Dm!removeOne
  <2>4. dm_thr' = [dm_thr EXCEPT ![t] = r]
    BY <1>9, Zenon DEF Dm!removeOne
  <2> QED
    BY <1>4, <2>2, <2>3, <2>4, Zenon
<1> QED
  BY <1>5, <1>6, <1>7, <1>8, <1>9

\* The cycle starts, and ends or tries again.
LEMMA DmCycleInv ==
    ASSUME Dm!DcMultiConstants, Dm!Inv, Dm!cycleStart \/ Dm!cycleDone
    PROVE  Dm!Inv'
<1>1. Dm!BooksTyped /\ Dm!Cycle \in Dm!Threads /\ dm_thr[Dm!Cycle] \in Dm!Thread
  BY Zenon DEF Dm!Inv, Dm!Threads
<1>2. UNCHANGED <<dm_open, dm_stops, dm_inner>>
  BY Zenon DEF Dm!cycleStart, Dm!cycleDone
<1>4. CASE Dm!cycleStart
  <2>1. Dm!BooksTyped'
    BY <1>1, <1>4, Zenon DEF Dm!cycleStart, Dm!BooksTyped
  <2> DEFINE r == [Dm!Idle EXCEPT !.pc = "list", !.kind = "cycle"]
  <2>2. r \in Dm!Thread /\ Dm!Named(r) /\ r.pc # "store"
    BY DmIdleTyped DEF Dm!Thread, Dm!Named
  <2>3. dm_thr' = [dm_thr EXCEPT ![Dm!Cycle] = r] /\ dm_thr[Dm!Cycle].pc # "store"
    BY <1>4 DEF Dm!cycleStart
  <2> QED
    BY <1>1, <1>2, <2>1, <2>2, <2>3, DmQuiet, Zenon
<1>5. CASE Dm!cycleDone
  <2>1. dm_live' \subseteq DmIds /\ dm_ignoreTs' \in BOOLEAN
    BY <1>1, <1>5 DEF Dm!cycleDone, Dm!Thread
  <2>2. Dm!BooksTyped'
    BY <1>1, <1>5, <2>1, Zenon DEF Dm!cycleDone, Dm!BooksTyped
  <2>3. dm_thr[Dm!Cycle].tries \in 0..DmMaxTries /\ dm_thr[Dm!Cycle].pc # "store"
    BY <1>1, <1>5 DEF Dm!Thread, Dm!cycleDone
  <2>4. CASE dm_thr[Dm!Cycle].ok # {} \/ dm_thr[Dm!Cycle].tries + 1 >= DmMaxTries
    <3>1. dm_thr' = [dm_thr EXCEPT ![Dm!Cycle] = Dm!Idle]
      BY <1>5, <2>4, Zenon DEF Dm!cycleDone
    <3> QED
      BY <1>1, <1>2, <2>2, <2>3, <3>1, DmIdleTyped, DmQuiet, Zenon
  <2>5. CASE ~(dm_thr[Dm!Cycle].ok # {} \/ dm_thr[Dm!Cycle].tries + 1 >= DmMaxTries)
    <3> DEFINE n == dm_thr[Dm!Cycle].tries + 1
               s == [dm_thr[Dm!Cycle] EXCEPT !.pc = "list", !.tries = n, !.ok = {}]
    <3>1. dm_thr' = [dm_thr EXCEPT ![Dm!Cycle] = s]
      BY <1>5, <2>5, Zenon DEF Dm!cycleDone
    <3>2. dm_thr[Dm!Cycle].tries + 1 \in 0..DmMaxTries
      BY <2>3, <2>5 DEF Dm!DcMultiConstants
    <3> HIDE DEF n
    <3>3. s \in Dm!Thread /\ Dm!Named(s) /\ s.pc # "store"
      BY <1>1, <3>2 DEF Dm!Thread, Dm!Named, n
    <3> QED
      BY <1>1, <1>2, <2>2, <2>3, <3>1, <3>3, DmQuiet, Zenon
  <2> QED
    BY <2>4, <2>5
<1> QED
  BY <1>4, <1>5

\* A server object is made, put in the map in place of another, taken out, stopped.
LEMMA DmFetchInv ==
    ASSUME Dm!DcMultiConstants, Dm!Inv, NEW t \in Dm!Threads, Dm!fetchServerInfo(t)
    PROVE  Dm!Inv'
<1>1. /\ Dm!BooksTyped /\ dm_thr[t] \in Dm!Thread /\ Dm!Named(dm_thr[t]) /\ dm_thr[t].pc = "fetch"
      /\ dm_open \in [DmIds -> Nat] /\ dm_stops \in [DmIds -> 0..(DmMaxStops + 1)]
      /\ UNCHANGED <<dm_reg, dm_sreg, dm_inner, dm_routes, dm_ignoreTs, dm_live, dm_ended, dm_cert, dm_stops, dm_rj, dm_calls, dm_env>>
  BY Zenon DEF Dm!fetchServerInfo, Dm!Inv
<1>2. PICK i \in DmIds : i = dm_thr[t].id
  BY <1>1 DEF Dm!Named
<1>3. Dm!BooksTyped'
  BY <1>1, Zenon DEF Dm!BooksTyped
<1>4. CASE Dm!usable(i)
  <2> DEFINE r == [dm_thr[t] EXCEPT !.pc = "store"]
  <2>1. dm_thr' = [dm_thr EXCEPT ![t] = r] /\ dm_open' = [dm_open EXCEPT ![i] = @ + 1]
    BY <1>2, <1>4, Zenon DEF Dm!fetchServerInfo
  <2>2. r \in Dm!Thread /\ Dm!Named(r) /\ r.pc = "store" /\ r.id = i
    BY <1>1, <1>2 DEF Dm!Thread, Dm!Named
  <2> HIDE DEF r
  <2>3. /\ dm_thr' \in [Dm!Threads -> Dm!Thread] /\ \A u \in Dm!Threads : Dm!Named(dm_thr'[u])
        /\ \A j \in DmIds : Dm!Storing(j)' = (Dm!Storing(j) \ {t})
                                        \cup (IF r.pc = "store" /\ r.id = j THEN {t} ELSE {})
    BY <2>1, <2>2, DmMoves, Zenon
  <2>4. \A j \in DmIds : t \notin Dm!Storing(j)
    BY <1>1 DEF Dm!Storing
  <2>5. Dm!Storing(i)' = Dm!Storing(i) \cup {t} /\ \A j \in DmIds : j # i => Dm!Storing(j)' = Dm!Storing(j)
    <3>1. \A j \in DmIds : Dm!Storing(j) \ {t} = Dm!Storing(j)
      BY <2>4
    <3>2. Dm!Storing(i)' = (Dm!Storing(i) \ {t}) \cup {t}
      BY <1>2, <2>2, <2>3, Zenon
    <3>3. \A j \in DmIds : j # i => Dm!Storing(j)' = (Dm!Storing(j) \ {t}) \cup {}
      BY <2>2, <2>3, Zenon
    <3>4. \A j \in DmIds : (Dm!Storing(j) \ {t}) \cup {} = Dm!Storing(j) \ {t}
      OBVIOUS
    <3> QED
      BY <1>2, <3>1, <3>2, <3>3, <3>4, Zenon
  <2>6. Dm!Storing(i) \in SUBSET Dm!Threads
    BY DEF Dm!Storing
  <2>7. Dm!Cardinality(Dm!Storing(i)') = Dm!Cardinality(Dm!Storing(i)) + 1 /\ Dm!Cardinality(Dm!Storing(i)) \in Nat
    <3>1. Dm!IsFiniteSet(Dm!Storing(i)) /\ Dm!Cardinality(Dm!Storing(i)) \in Nat
      BY <2>6, DmStoringIsCounted
    <3>2. Dm!Cardinality(Dm!Storing(i) \cup {t}) = Dm!Cardinality(Dm!Storing(i)) + 1
      BY <1>2, <2>4, <3>1, FS_AddElement, DmCounts
    <3> QED
      BY <2>5, <3>1, <3>2
  <2>8. dm_open' \in [DmIds -> Nat] /\ dm_open'[i] = dm_open[i] + 1 /\ \A j \in DmIds : j # i => dm_open'[j] = dm_open[j]
    BY <1>1, <1>2, <2>1
  <2>9. Dm!NoServerLeak'
    <3> SUFFICES ASSUME NEW j \in DmIds
                 PROVE  dm_open'[j] = dm_stops'[j] + (IF dm_inner'[j] = Nil THEN 0 ELSE 1) + Dm!Cardinality(Dm!Storing(j)')
      BY Zenon DEF Dm!NoServerLeak, Dm!Storing
    <3>1. dm_open[j] = dm_stops[j] + (IF dm_inner[j] = Nil THEN 0 ELSE 1) + Dm!Cardinality(Dm!Storing(j))
      BY Zenon DEF Dm!Inv, Dm!NoServerLeak, Dm!Storing
    <3>2. dm_stops' = dm_stops /\ dm_inner' = dm_inner /\ dm_stops[j] \in Nat
      <4>1. dm_stops[j] \in 0..(DmMaxStops + 1) /\ DmMaxStops \in Nat
        BY <1>1, Zenon DEF Dm!DcMultiConstants
      <4> QED
        BY <1>1, <4>1
    <3>3. CASE j = i
      BY <2>7, <2>8, <3>1, <3>2, <3>3
    <3>4. CASE j # i
      BY <2>5, <2>8, <3>1, <3>2, <3>4, Zenon
    <3> QED
      BY <3>3, <3>4
  <2> QED
    BY <1>1, <1>3, <2>3, <2>8, <2>9, Zenon DEF Dm!Inv
<1>5. CASE ~Dm!usable(i)
  <2> DEFINE r == [dm_thr[t] EXCEPT !.pc = "remove"]
             s == [dm_thr[t] EXCEPT !.pc = "done", !.id = Nil]
  <2>1. r \in Dm!Thread /\ Dm!Named(r) /\ r.pc # "store"
    BY <1>1, <1>2 DEF Dm!Thread, Dm!Named
  <2>2. s \in Dm!Thread /\ Dm!Named(s) /\ s.pc # "store" /\ dm_thr[t].pc # "store"
    BY <1>1 DEF Dm!Thread, Dm!Named
  <2>3. (dm_thr' = [dm_thr EXCEPT ![t] = r] \/ dm_thr' = [dm_thr EXCEPT ![t] = s]) /\ dm_open' = dm_open
    BY <1>2, <1>5, Zenon DEF Dm!fetchServerInfo
  <2> QED
    BY <1>1, <1>3, <2>1, <2>2, <2>3, DmQuiet, Zenon
<1> QED
  BY <1>4, <1>5

LEMMA DmStoreInv ==
    ASSUME Dm!DcMultiConstants, Dm!Inv, NEW t \in Dm!Threads, Dm!refreshServer(t)
    PROVE  Dm!Inv'
<1>1. dm_thr[t] \in Dm!Thread /\ Dm!Named(dm_thr[t]) /\ dm_thr[t].pc = "store"
  BY Zenon DEF Dm!refreshServer, Dm!Inv
<1>2. PICK i \in DmIds : i = dm_thr[t].id
  BY <1>1 DEF Dm!Named
<1> DEFINE was == IF dm_inner[i] = Nil THEN 0 ELSE 1
           s == [dm_thr[t] EXCEPT !.pc = "done", !.ok = @ \cup {i}, !.id = Nil]
<1>3. /\ Dm!BooksTyped
      /\ dm_open \in [DmIds -> Nat] /\ dm_stops \in [DmIds -> 0..(DmMaxStops + 1)]
      /\ UNCHANGED <<dm_reg, dm_routes, dm_ignoreTs, dm_live, dm_ended, dm_cert, dm_open, dm_calls, dm_env>>
      /\ dm_stops[i] <= DmMaxStops /\ dm_inner' = [dm_inner EXCEPT ![i] = {}] /\ dm_sreg' = dm_sreg \cup {i}
      /\ dm_stops' = [dm_stops EXCEPT ![i] = @ + was]
      /\ dm_thr' = [dm_thr EXCEPT ![t] = Dm!Idle] \/ dm_thr' = [dm_thr EXCEPT ![t] = s]
      /\ Dm!goRefreshRoutes \/ dm_rj' = dm_rj
  BY <1>2, Zenon DEF Dm!refreshServer, Dm!Inv
<1>13. s \in Dm!Thread /\ Dm!Named(s) /\ s.pc # "store"
  BY <1>1, <1>2 DEF Dm!Thread, Dm!Named
<1> HIDE DEF s
<1>4. dm_inner' \in [DmIds -> (SUBSET DmRelays) \cup {Nil}] /\ dm_sreg' \subseteq DmIds
  BY <1>1, <1>3, <1>2 DEF Dm!BooksTyped
<1>5. Dm!BooksTyped'
  BY <1>1, <1>3, <1>4, DmJobsTyped, Zenon DEF Dm!BooksTyped
<1>6. /\ dm_thr' \in [Dm!Threads -> Dm!Thread] /\ \A u \in Dm!Threads : Dm!Named(dm_thr'[u])
      /\ \A j \in DmIds : Dm!Storing(j)' = Dm!Storing(j) \ {t}
  <2>1. PICK r \in Dm!Thread : dm_thr' = [dm_thr EXCEPT ![t] = r] /\ Dm!Named(r) /\ r.pc # "store"
    BY <1>1, <1>13, <1>3, DmIdleTyped, Zenon
  <2>2. /\ dm_thr' \in [Dm!Threads -> Dm!Thread] /\ \A u \in Dm!Threads : Dm!Named(dm_thr'[u])
        /\ \A j \in DmIds : Dm!Storing(j)' = (Dm!Storing(j) \ {t})
                                        \cup (IF r.pc = "store" /\ r.id = j THEN {t} ELSE {})
    BY <2>1, DmMoves, Zenon
  <2>3. \A j \in DmIds : Dm!Storing(j)' = Dm!Storing(j) \ {t}
    BY <2>1, <2>2
  <2> QED
    BY <2>2, <2>3
<1>7. t \in Dm!Storing(i) /\ \A j \in DmIds : j # i => t \notin Dm!Storing(j)
  BY <1>1, <1>3, <1>2 DEF Dm!Storing
<1>8. \A j \in DmIds : j # i => Dm!Storing(j)' = Dm!Storing(j)
  BY <1>6, <1>7
<1>9. Dm!Cardinality(Dm!Storing(i)') = Dm!Cardinality(Dm!Storing(i)) - 1 /\ Dm!Cardinality(Dm!Storing(i)) \in Nat
  <2>1. Dm!Storing(i) \in SUBSET Dm!Threads
    BY DEF Dm!Storing
  <2>2. Dm!IsFiniteSet(Dm!Storing(i)) /\ Dm!Cardinality(Dm!Storing(i)) \in Nat
    BY <2>1, DmStoringIsCounted
  <2>3. Dm!Cardinality(Dm!Storing(i) \ {t}) = Dm!Cardinality(Dm!Storing(i)) - 1
    BY <1>7, <2>2, FS_RemoveElement, DmCounts
  <2> QED
    BY <1>2, <1>6, <2>2, <2>3
<1>10. /\ dm_stops' \in [DmIds -> 0..(DmMaxStops + 1)] /\ dm_stops'[i] = dm_stops[i] + was /\ was \in 0..1
       /\ \A j \in DmIds : j # i => dm_stops'[j] = dm_stops[j]
  BY <1>1, <1>3, <1>2 DEF Dm!DcMultiConstants
<1>11. dm_inner'[i] = {} /\ {} # Nil /\ \A j \in DmIds : j # i => dm_inner'[j] = dm_inner[j]
  BY <1>1, <1>3, <1>2 DEF Dm!BooksTyped, Dm!DcMultiConstants
<1>12. Dm!NoServerLeak'
  <2> SUFFICES ASSUME NEW j \in DmIds
               PROVE  dm_open'[j] = dm_stops'[j] + (IF dm_inner'[j] = Nil THEN 0 ELSE 1) + Dm!Cardinality(Dm!Storing(j)')
    BY Zenon DEF Dm!NoServerLeak, Dm!Storing
  <2>1. dm_open[j] = dm_stops[j] + (IF dm_inner[j] = Nil THEN 0 ELSE 1) + Dm!Cardinality(Dm!Storing(j))
    BY Zenon DEF Dm!Inv, Dm!NoServerLeak, Dm!Storing
  <2>2. dm_open' = dm_open /\ dm_stops[j] \in Nat /\ dm_open[j] \in Nat
    BY <1>1, <1>3 DEF Dm!DcMultiConstants
  <2>3. CASE j = i
    <3>1. dm_open[i] = dm_stops[i] + was + Dm!Cardinality(Dm!Storing(i))
      BY <2>1, <2>3
    <3>2. dm_open'[i] = dm_stops'[i] + 1 + Dm!Cardinality(Dm!Storing(i)')
      BY <1>9, <1>10, <2>2, <2>3, <3>1
    <3> QED
      BY <1>11, <2>3, <3>2
  <2>4. CASE j # i
    BY <1>8, <1>10, <1>11, <2>1, <2>2, <2>4, Zenon
  <2> QED
    BY <2>3, <2>4
<1> QED
  BY <1>1, <1>3, <1>5, <1>6, <1>10, <1>12, Zenon DEF Dm!Inv

LEMMA DmUnregInv ==
    ASSUME Dm!DcMultiConstants, Dm!Inv, NEW t \in Dm!Threads, Dm!unregisterServer(t)
    PROVE  Dm!Inv'
<1>1. dm_thr[t] \in Dm!Thread /\ Dm!Named(dm_thr[t]) /\ dm_thr[t].pc = "unreg"
  BY Zenon DEF Dm!unregisterServer, Dm!Inv
<1>2. PICK i \in DmIds : i = dm_thr[t].id
  BY <1>1 DEF Dm!Named
<1> DEFINE was == IF dm_inner[i] = Nil THEN 0 ELSE 1
<1>9. /\ Dm!BooksTyped
      /\ dm_open \in [DmIds -> Nat] /\ dm_stops \in [DmIds -> 0..(DmMaxStops + 1)]
      /\ UNCHANGED <<dm_reg, dm_routes, dm_ignoreTs, dm_live, dm_ended, dm_cert, dm_open, dm_rj, dm_calls, dm_env>>
      /\ dm_stops[i] <= DmMaxStops /\ dm_inner' = [dm_inner EXCEPT ![i] = Nil] /\ dm_sreg' = dm_sreg \ {i}
      /\ dm_stops' = [dm_stops EXCEPT ![i] = @ + was]
      /\ dm_thr' = [dm_thr EXCEPT ![t] = Dm!Idle]
  BY <1>2, Zenon DEF Dm!unregisterServer, Dm!Inv
<1>3. dm_inner' \in [DmIds -> (SUBSET DmRelays) \cup {Nil}] /\ dm_sreg' \subseteq DmIds
  BY <1>1, <1>9, <1>2 DEF Dm!BooksTyped
<1>4. Dm!BooksTyped'
  BY <1>1, <1>9, <1>3, Zenon DEF Dm!BooksTyped
<1>5. /\ dm_thr' \in [Dm!Threads -> Dm!Thread] /\ \A u \in Dm!Threads : Dm!Named(dm_thr'[u])
      /\ \A j \in DmIds : Dm!Storing(j)' = Dm!Storing(j)
  <2>1. \A j \in DmIds : t \notin Dm!Storing(j)
    BY <1>1, <1>9 DEF Dm!Storing
  <2>2. /\ dm_thr' \in [Dm!Threads -> Dm!Thread] /\ \A u \in Dm!Threads : Dm!Named(dm_thr'[u])
        /\ \A j \in DmIds : Dm!Storing(j)' = (Dm!Storing(j) \ {t})
                                        \cup (IF Dm!Idle.pc = "store" /\ Dm!Idle.id = j THEN {t} ELSE {})
    BY <1>1, <1>9, DmIdleTyped, DmMoves, Zenon
  <2>3. \A j \in DmIds : Dm!Storing(j)' = Dm!Storing(j)
    BY <2>1, <2>2, DmIdleTyped
  <2> QED
    BY <2>2, <2>3
<1>6. /\ dm_stops' \in [DmIds -> 0..(DmMaxStops + 1)] /\ dm_stops'[i] = dm_stops[i] + was /\ was \in 0..1
      /\ \A j \in DmIds : j # i => dm_stops'[j] = dm_stops[j]
  BY <1>1, <1>9, <1>2 DEF Dm!DcMultiConstants
<1>7. dm_inner'[i] = Nil /\ \A j \in DmIds : j # i => dm_inner'[j] = dm_inner[j]
  BY <1>1, <1>9, <1>2 DEF Dm!BooksTyped
<1>8. Dm!NoServerLeak'
  <2> SUFFICES ASSUME NEW j \in DmIds
               PROVE  dm_open'[j] = dm_stops'[j] + (IF dm_inner'[j] = Nil THEN 0 ELSE 1) + Dm!Cardinality(Dm!Storing(j)')
    BY Zenon DEF Dm!NoServerLeak, Dm!Storing
  <2>1. dm_open[j] = dm_stops[j] + (IF dm_inner[j] = Nil THEN 0 ELSE 1) + Dm!Cardinality(Dm!Storing(j))
    BY Zenon DEF Dm!Inv, Dm!NoServerLeak, Dm!Storing
  <2>2. dm_open' = dm_open /\ dm_stops[j] \in Nat /\ dm_open[j] \in Nat
    BY <1>1, <1>9 DEF Dm!DcMultiConstants
  <2>3. CASE j = i
    <3>1. dm_open[i] = dm_stops[i] + was + Dm!Cardinality(Dm!Storing(i))
      BY <2>1, <2>3
    <3>2. Dm!Storing(i) \in SUBSET Dm!Threads
      BY DEF Dm!Storing
    <3>3. Dm!Cardinality(Dm!Storing(i)) \in Nat
      BY <3>2, DmStoringIsCounted
    <3>4. dm_open'[i] = dm_stops'[i] + 0 + Dm!Cardinality(Dm!Storing(i)')
      BY <1>5, <1>6, <2>2, <2>3, <3>1, <3>3
    <3> QED
      BY <1>7, <2>3, <3>4
  <2>4. CASE j # i
    BY <1>5, <1>6, <1>7, <2>1, <2>2, <2>4, Zenon
  <2> QED
    BY <2>3, <2>4
<1> QED
  BY <1>1, <1>9, <1>4, <1>5, <1>6, <1>8, Zenon DEF Dm!Inv

LEMMA DmStopInv ==
    ASSUME Dm!DcMultiConstants, Dm!Inv, NEW i \in DmIds, Dm!stopServer(i)
    PROVE  Dm!Inv'
<1>1. /\ dm_open \in [DmIds -> Nat] /\ dm_stops \in [DmIds -> 0..(DmMaxStops + 1)] /\ dm_stops[i] > 0
      /\ dm_stops' = [dm_stops EXCEPT ![i] = @ - 1] /\ dm_open' = [dm_open EXCEPT ![i] = @ - 1]
      /\ UNCHANGED <<dm_reg, dm_sreg, dm_inner, dm_routes, dm_ignoreTs, dm_live, dm_ended, dm_cert, dm_thr, dm_rj, dm_calls, dm_env>>
  BY Zenon DEF Dm!stopServer, Dm!Inv
<1>2. ASSUME NEW j \in DmIds
      PROVE  Dm!Storing(j)' = Dm!Storing(j) /\ Dm!Cardinality(Dm!Storing(j)) \in Nat
  <2>1. Dm!Storing(j) \in SUBSET Dm!Threads
    BY DEF Dm!Storing
  <2> QED
    BY <1>1, <2>1, DmStoringIsCounted DEF Dm!Storing
<1>3. \A j \in DmIds : dm_open[j] = dm_stops[j] + (IF dm_inner[j] = Nil THEN 0 ELSE 1) + Dm!Cardinality(Dm!Storing(j))
  BY Zenon DEF Dm!Inv, Dm!NoServerLeak, Dm!Storing
<1>4. dm_open[i] > 0 /\ dm_open[i] \in Nat /\ dm_stops[i] \in 0..(DmMaxStops + 1)
  BY <1>1, <1>2, <1>3
<1>5. /\ dm_open' \in [DmIds -> Nat] /\ dm_stops' \in [DmIds -> 0..(DmMaxStops + 1)]
      /\ dm_open'[i] = dm_open[i] - 1 /\ dm_stops'[i] = dm_stops[i] - 1
      /\ \A j \in DmIds : j # i => dm_open'[j] = dm_open[j] /\ dm_stops'[j] = dm_stops[j]
  BY <1>1, <1>4 DEF Dm!DcMultiConstants
<1>6. Dm!NoServerLeak'
  <2> SUFFICES ASSUME NEW j \in DmIds
               PROVE  dm_open'[j] = dm_stops'[j] + (IF dm_inner'[j] = Nil THEN 0 ELSE 1) + Dm!Cardinality(Dm!Storing(j)')
    BY Zenon DEF Dm!NoServerLeak, Dm!Storing
  <2>1. CASE j = i
    BY <1>1, <1>2, <1>3, <1>4, <1>5, <2>1
  <2>2. CASE j # i
    BY <1>1, <1>2, <1>3, <1>5, <2>2, Zenon
  <2> QED
    BY <2>1, <2>2
<1> QED
  BY <1>1, <1>5, <1>6, Zenon DEF Dm!Inv, Dm!BooksTyped

\* dnscrypt/servers.go, multiserver.go: each server object that was made is the one
\* in the map, or is being stopped, or is with a goroutine about to put it in the map,
\* however adds, removals, refreshes and the cycle overlap.
THEOREM DmServersAreKept == ASSUME Dm!DcMultiConstants PROVE Dm!Spec => []Dm!Inv
<1>1. Dm!Init => Dm!Inv
  <2> SUFFICES ASSUME Dm!Init PROVE Dm!Inv
    OBVIOUS
  <2>1. 0 \in 0..DmMaxCalls /\ 0 \in 0..DmMaxEnv /\ 0 \in 0..(DmMaxStops + 1) /\ 0 \in Nat
    BY DEF Dm!DcMultiConstants
  <2>2. Dm!BooksTyped
    <3>1. dm_cert \in [DmIds -> Dm!Certs] /\ dm_inner \in [DmIds -> (SUBSET DmRelays) \cup {Nil}]
      BY DEF Dm!Init, Dm!Certs
    <3>2. dm_rj \in [DmRouteJobs -> [pc : {"idle", "read", "set"}, got : SUBSET DmRelays]]
      BY DEF Dm!Init
    <3>3. dm_reg \subseteq DmIds /\ dm_sreg \subseteq DmIds /\ dm_live \subseteq DmIds /\ dm_routes \subseteq DmRelays
      BY DEF Dm!Init
    <3> QED
      BY <2>1, <3>1, <3>2, <3>3, Zenon DEF Dm!Init, Dm!BooksTyped
  <2>3. dm_open \in [DmIds -> Nat] /\ dm_stops \in [DmIds -> 0..(DmMaxStops + 1)]
    BY <2>1, Zenon DEF Dm!Init
  <2>4. dm_thr \in [Dm!Threads -> Dm!Thread] /\ \A t \in Dm!Threads : dm_thr[t] = Dm!Idle
    BY DmIdleTyped, Zenon DEF Dm!Init
  <2>5. Dm!NoServerLeak
    <3> SUFFICES ASSUME NEW i \in DmIds
                 PROVE  dm_open[i] = dm_stops[i] + (IF dm_inner[i] = Nil THEN 0 ELSE 1) + Dm!Cardinality(Dm!Storing(i))
      BY Zenon DEF Dm!NoServerLeak, Dm!Storing
    <3>1. Dm!Storing(i) = {}
      BY <2>4, DmIdleTyped DEF Dm!Storing
    <3>2. Dm!Cardinality(Dm!Storing(i)) = 0
      BY <3>1, FS_EmptySet, DmCounts
    <3>3. dm_open[i] = 0 /\ dm_stops[i] = 0 /\ dm_inner[i] = Nil
      BY DEF Dm!Init
    <3> QED
      BY <3>2, <3>3
  <2> QED
    BY <2>2, <2>3, <2>4, <2>5, DmIdleTyped, Zenon DEF Dm!Inv
<1>2. Dm!Inv /\ [Dm!Next]_(Dm!vars) => Dm!Inv'
  <2> SUFFICES ASSUME Dm!Inv, [Dm!Next]_(Dm!vars) PROVE Dm!Inv'
    OBVIOUS
  <2>1. ASSUME NEW t \in Dm!Threads, Dm!step(t) PROVE Dm!Inv'
    BY <2>1, DmWalksInv, DmFetchInv, DmStoreInv, DmUnregInv, Zenon DEF Dm!step
  <2>2. CASE UNCHANGED (Dm!vars)
    BY <2>2, Zenon DEF Dm!vars, Dm!Inv, Dm!BooksTyped, Dm!NoServerLeak
  <2>3. Dm!Cycle \in Dm!Threads /\ \A t \in DmApis : t \in Dm!Threads
    BY DEF Dm!Threads
  <2> QED
    BY <2>1, <2>2, <2>3, DmClientInv, DmCycleInv, DmStopInv, Zenon DEF Dm!Next, Dm!cycleStep
<1> QED
  BY <1>1, <1>2, PTL DEF Dm!Spec

-----------------------------------------------------------------------------
(* the peers of a tunnel, and their refreshes *)

HostIps == [a |-> <<1, 2>>, b |-> <<3, 4>>]
VARIABLES mh_ver, mh_addrs, mh_old, mh_resolvMu, mh_uniq, mh_byIpp, mh_byHostport,
          mh_byAddr, mh_thr, mh_calls, mh_floor
mhVars == <<mh_ver, mh_addrs, mh_old, mh_resolvMu, mh_uniq, mh_byIpp, mh_byHostport,
            mh_byAddr, mh_thr, mh_calls, mh_floor>>
Mh == INSTANCE MultiHost WITH
    Hosts <- MhHosts, Named <- MhNamed, IpOf <- HostIps, Refreshers <- MhRefreshers,
    Builders <- MhBuilders, MaxVer <- MhMaxVer, MaxCalls <- MhMaxCalls,
    ver <- mh_ver, addrs <- mh_addrs, old <- mh_old, resolvMu <- mh_resolvMu,
    uniq <- mh_uniq, byIpp <- mh_byIpp, byHostport <- mh_byHostport, byAddr <- mh_byAddr,
    thr <- mh_thr, calls <- mh_calls, floor <- mh_floor

\* Sets and their sizes are counted alike inside the component and out.
LEMMA MhCounts ==
    \A S : (Mh!IsFiniteSet(S) <=> IsFiniteSet(S)) /\ Mh!Cardinality(S) = Cardinality(S)
  BY Zenon DEF Mh!IsFiniteSet, IsFiniteSet, Mh!Cardinality, Cardinality

\* The map stays typed as hosts are put in and taken out.
LEMMA MhPutTyped ==
    ASSUME Mh!MultiHostConstants, Mh!TypeOK, NEW h \in MhHosts, Mh!Put(h)
    PROVE  /\ mh_uniq' = mh_uniq \cup {h} /\ mh_uniq' \subseteq MhHosts
           /\ mh_byIpp' \in [Mh!Ips -> MhHosts \cup {Nil}] /\ mh_byHostport' \in [MhNamed -> BOOLEAN]
           /\ \A ip \in Mh!Ips : mh_byAddr'[ip] \in Nat
<1>1. CASE h \in mh_uniq
  BY <1>1 DEF Mh!Put, Mh!TypeOK
<1>2. CASE h \notin mh_uniq
  <2>1. mh_uniq' = mh_uniq \cup {h} /\ mh_uniq' \subseteq MhHosts
    BY <1>2 DEF Mh!Put, Mh!TypeOK
  <2>2. mh_byIpp' \in [Mh!Ips -> MhHosts \cup {Nil}]
    BY <1>2 DEF Mh!Put, Mh!TypeOK
  <2>3. mh_byHostport' \in [MhNamed -> BOOLEAN]
    BY <1>2 DEF Mh!Put, Mh!TypeOK
  <2>4. \A ip \in Mh!Ips : mh_byAddr'[ip] \in Nat
    BY <1>2 DEF Mh!Put, Mh!TypeOK
  <2> QED
    BY <2>1, <2>2, <2>3, <2>4
<1> QED
  BY <1>1, <1>2

LEMMA MhDelTyped ==
    ASSUME Mh!MultiHostConstants, Mh!TypeOK, NEW h \in MhHosts, Mh!Del(h)
    PROVE  /\ mh_uniq' = mh_uniq \ {h} /\ mh_uniq' \subseteq MhHosts
           /\ mh_byIpp' \in [Mh!Ips -> MhHosts \cup {Nil}] /\ mh_byHostport' \in [MhNamed -> BOOLEAN]
           /\ \A ip \in Mh!Ips : mh_byAddr'[ip] \in Nat
<1> DEFINE ips == {ip \in Mh!IpsOf(h, mh_addrs[h]) : mh_byIpp[ip] = h}
<1>1. /\ mh_uniq' = mh_uniq \ {h}
      /\ mh_byIpp' = [ip \in Mh!Ips |-> IF ip \in ips THEN Nil ELSE mh_byIpp[ip]]
      /\ mh_byAddr' = [ip \in Mh!Ips |-> IF ip \in ips /\ mh_byAddr[ip] > 0 THEN mh_byAddr[ip] - 1
                                   ELSE mh_byAddr[ip]]
      /\ mh_byHostport' = [n \in MhNamed |-> n # h /\ mh_byHostport[n]]
  BY Zenon DEF Mh!Del
<1> HIDE DEF ips
<1>2. mh_uniq' \subseteq MhHosts /\ mh_byIpp' \in [Mh!Ips -> MhHosts \cup {Nil}]
  BY <1>1 DEF Mh!TypeOK
<1>3. mh_byHostport' \in [MhNamed -> BOOLEAN]
  BY <1>1 DEF Mh!TypeOK
<1>4. \A ip \in Mh!Ips : mh_byAddr'[ip] \in Nat
  BY <1>1 DEF Mh!TypeOK
<1> QED
  BY <1>1, <1>2, <1>3, <1>4

\* A thread that goes on keeps the host that it has in hand, or puts it back.
LEMMA MhHandsKeep ==
    ASSUME Mh!Inv, NEW t \in Mh!Threads, NEW r \in Mh!Thread, mh_thr' = [mh_thr EXCEPT ![t] = r],
           \A h \in MhHosts \ mh_uniq' :
             \/ t \in MhRefreshers /\ h = r.h /\ r.pc \in Mh!InHand
             \/ h \notin mh_uniq /\ ~(t \in MhRefreshers /\ h = mh_thr[t].h /\ mh_thr[t].pc \in Mh!InHand)
    PROVE  /\ mh_thr' \in [Mh!Threads -> Mh!Thread]
           /\ \A u \in Mh!Threads : mh_thr'[u] = IF u = t THEN r ELSE mh_thr[u]
           /\ \A h \in MhHosts \ mh_uniq' : \E u \in MhRefreshers : mh_thr'[u].h = h /\ mh_thr'[u].pc \in Mh!InHand
<1>1. mh_thr \in [Mh!Threads -> Mh!Thread]
  BY Zenon DEF Mh!Inv, Mh!TypeOK
<1>2. mh_thr' \in [Mh!Threads -> Mh!Thread] /\ \A u \in Mh!Threads : mh_thr'[u] = IF u = t THEN r ELSE mh_thr[u]
  BY <1>1, Zenon
<1>3. ASSUME NEW h \in MhHosts \ mh_uniq'
      PROVE  \E u \in MhRefreshers : mh_thr'[u].h = h /\ mh_thr'[u].pc \in Mh!InHand
  <2>1. CASE t \in MhRefreshers /\ h = r.h /\ r.pc \in Mh!InHand
    BY <1>2, <2>1, Zenon
  <2>2. CASE h \notin mh_uniq /\ ~(t \in MhRefreshers /\ h = mh_thr[t].h /\ mh_thr[t].pc \in Mh!InHand)
    <3>1. PICK u \in MhRefreshers : mh_thr[u].h = h /\ mh_thr[u].pc \in Mh!InHand
      BY <1>3, <2>2, Zenon DEF Mh!Inv
    <3>2. u # t /\ u \in Mh!Threads
      BY <2>2, <3>1, Zenon DEF Mh!Threads
    <3> QED
      BY <1>2, <3>1, <3>2, Zenon
  <2> QED
    BY <1>3, <2>1, <2>2, Zenon
<1> QED
  BY <1>2, <1>3

\* One thread goes on and changes at most the map.
LEMMA MhOneThread ==
    ASSUME Mh!MultiHostConstants, Mh!Inv, NEW t \in Mh!Threads, NEW r \in Mh!Thread,
           mh_thr' = [mh_thr EXCEPT ![t] = r],
           UNCHANGED <<mh_ver, mh_addrs, mh_old, mh_resolvMu, mh_floor>>, mh_calls' \in 0..MhMaxCalls,
           t \notin MhRefreshers => r.pc \notin {"next", "put"},
           r.pc \in Mh!InHand => r.h \in MhHosts,
           r.pc \in {"resolve", "store"} => mh_resolvMu[r.h] = t,
           r.pc = "store" => \/ r.got = {}
                             \/ \E v \in Mh!Vers : r.got = {v} /\ v >= mh_floor[r.h] /\ v <= mh_ver,
           mh_uniq' \subseteq MhHosts,
           mh_byIpp' \in [Mh!Ips -> MhHosts \cup {Nil}], mh_byHostport' \in [MhNamed -> BOOLEAN],
           \A ip \in Mh!Ips : mh_byAddr'[ip] \in Nat,
           \A h \in MhHosts \ mh_uniq' :
             \/ t \in MhRefreshers /\ h = r.h /\ r.pc \in Mh!InHand
             \/ h \notin mh_uniq /\ ~(t \in MhRefreshers /\ h = mh_thr[t].h /\ mh_thr[t].pc \in Mh!InHand)
    PROVE  Mh!Inv'
<1>1. /\ mh_thr' \in [Mh!Threads -> Mh!Thread]
      /\ \A u \in Mh!Threads : mh_thr'[u] = IF u = t THEN r ELSE mh_thr[u]
      /\ \A h \in MhHosts \ mh_uniq' : \E u \in MhRefreshers : mh_thr'[u].h = h /\ mh_thr'[u].pc \in Mh!InHand
  BY MhHandsKeep, Zenon
<1>2. Mh!TypeOK'
  BY <1>1, Zenon DEF Mh!Inv, Mh!TypeOK
<1>3. \A u \in Mh!Threads : Mh!ThreadSound(u)'
  <2> TAKE u \in Mh!Threads
  <2>1. CASE u = t
    BY <1>1, <2>1, Zenon DEF Mh!ThreadSound
  <2>2. CASE u # t
    BY <1>1, <2>2, Zenon DEF Mh!ThreadSound, Mh!Inv
  <2> QED
    BY <2>1, <2>2
<1> QED
  BY <1>1, <1>2, <1>3, Zenon DEF Mh!Inv, Mh!NoStaleAppend

\* The map is as it was.
LEMMA MhMapTyped ==
    ASSUME Mh!Inv, Mh!unchangedMap
    PROVE  /\ mh_uniq' = mh_uniq /\ mh_uniq' \subseteq MhHosts
           /\ mh_byIpp' \in [Mh!Ips -> MhHosts \cup {Nil}] /\ mh_byHostport' \in [MhNamed -> BOOLEAN]
           /\ \A ip \in Mh!Ips : mh_byAddr'[ip] \in Nat
BY Zenon DEF Mh!unchangedMap, Mh!Inv, Mh!TypeOK

\* A call starts, and the map does not change.
LEMMA MhCallInv ==
    ASSUME Mh!MultiHostConstants, Mh!Inv, NEW t \in Mh!Threads,
           (t \in MhRefreshers /\ (Mh!Refresh(t) \/ Mh!MaybeRefresh(t))) \/ Mh!Build(t)
    PROVE  Mh!Inv'
<1>1. mh_thr[t] \in Mh!Thread /\ mh_thr[t].pc = "idle" /\ Mh!unchangedMap /\ mh_calls' = mh_calls + 1 /\ mh_calls < MhMaxCalls
      /\ UNCHANGED <<mh_ver, mh_addrs, mh_old, mh_resolvMu, mh_floor>>
  BY Zenon DEF Mh!Refresh, Mh!MaybeRefresh, Mh!Build, Mh!Inv, Mh!TypeOK
<1>2. mh_calls' \in 0..MhMaxCalls
  BY <1>1 DEF Mh!Inv, Mh!TypeOK, Mh!MultiHostConstants
<1>3. PICK r \in Mh!Thread : /\ mh_thr' = [mh_thr EXCEPT ![t] = r]
                             /\ \/ r.pc = "next" /\ t \in MhRefreshers
                                \/ r.pc = "lock" /\ r.h \in MhHosts
  <2>1. CASE Mh!Build(t)
    <3>1. PICK h \in MhNamed : mh_thr' = [mh_thr EXCEPT ![t].pc = "lock", ![t].h = h]
      BY <2>1, Zenon DEF Mh!Build
    <3> DEFINE r == [mh_thr[t] EXCEPT !.pc = "lock", !.h = h]
    <3>2. r \in Mh!Thread /\ r.pc = "lock" /\ r.h \in MhHosts
      BY <1>1 DEF Mh!Thread, Mh!MultiHostConstants
    <3>3. mh_thr' = [mh_thr EXCEPT ![t] = r]
      BY <3>1, Zenon
    <3> QED
      BY <3>2, <3>3, Zenon
  <2>2. CASE t \in MhRefreshers /\ (Mh!Refresh(t) \/ Mh!MaybeRefresh(t))
    <3>1. PICK S \in SUBSET MhHosts : mh_thr' = [mh_thr EXCEPT ![t].pc = "next", ![t].todo = S]
      <4>1. mh_uniq \in SUBSET MhHosts /\ {h \in mh_uniq : mh_old[h]} \in SUBSET MhHosts
        BY DEF Mh!Inv, Mh!TypeOK
      <4> QED
        BY <2>2, <4>1, Zenon DEF Mh!Refresh, Mh!MaybeRefresh
    <3> DEFINE r == [mh_thr[t] EXCEPT !.pc = "next", !.todo = S]
    <3>2. r \in Mh!Thread /\ r.pc = "next" /\ t \in MhRefreshers
      BY <2>2, <1>1 DEF Mh!Thread
    <3>3. mh_thr' = [mh_thr EXCEPT ![t] = r]
      BY <3>1, Zenon
    <3> QED
      BY <3>2, <3>3, Zenon
  <2> QED
    BY <2>1, <2>2
<1>4. /\ r.pc \in Mh!InHand => r.h \in MhHosts
      /\ r.pc \notin {"resolve", "store"} /\ r.pc # "store"
      /\ mh_thr[t].pc \notin Mh!InHand
      /\ t \notin MhRefreshers => r.pc \notin {"next", "put"}
  BY <1>1, <1>3 DEF Mh!InHand
<1> QED
  BY <1>1, <1>2, <1>3, <1>4, MhMapTyped, MhOneThread, Zenon

\* A host is taken out, or put back.
LEMMA MhRefreshInv ==
    ASSUME Mh!MultiHostConstants, Mh!Inv, NEW t \in Mh!Threads, Mh!refreshNext(t)
    PROVE  Mh!Inv'
<1>1. /\ mh_thr[t] \in Mh!Thread /\ mh_thr[t].pc = "next" /\ mh_calls' \in 0..MhMaxCalls
      /\ UNCHANGED <<mh_ver, mh_addrs, mh_old, mh_resolvMu, mh_floor>> /\ Mh!TypeOK /\ Mh!ThreadSound(t)
  BY Zenon DEF Mh!refreshNext, Mh!Inv, Mh!TypeOK
<1>2. mh_thr[t].pc \notin Mh!InHand /\ t \in MhRefreshers
  BY <1>1 DEF Mh!InHand, Mh!ThreadSound
<1>3. CASE mh_thr[t].todo = {}
  <2>1. mh_thr' = [mh_thr EXCEPT ![t] = Mh!Idle] /\ Mh!unchangedMap
    BY <1>3, Zenon DEF Mh!refreshNext
  <2>2. Mh!Idle \in Mh!Thread /\ Mh!Idle.pc = "idle" /\ "idle" \notin Mh!InHand
    BY DEF Mh!Idle, Mh!Thread, Mh!InHand
  <2>3. Mh!Idle.pc # "store" /\ Mh!Idle.pc \notin {"resolve", "store"}
    BY <2>2
  <2> QED
    BY <1>1, <1>2, <2>1, <2>2, <2>3, MhMapTyped, MhOneThread, Zenon
<1>4. CASE mh_thr[t].todo # {}
  <2>1. PICK h \in mh_thr[t].todo :
          /\ Mh!Del(h)
          /\ mh_thr' = [mh_thr EXCEPT ![t].todo = @ \ {h}, ![t].h = h,
                                ![t].pc = IF h \in MhNamed THEN "lock" ELSE "put"]
    BY <1>4, Zenon DEF Mh!refreshNext
  <2> DEFINE r == [mh_thr[t] EXCEPT !.todo = @ \ {h}, !.h = h,
                                 !.pc = IF h \in MhNamed THEN "lock" ELSE "put"]
  <2>2. h \in MhHosts
    BY <1>1 DEF Mh!Thread
  <2>3. /\ r \in Mh!Thread /\ r.pc \in Mh!InHand /\ r.h = h
        /\ r.pc # "store" /\ r.pc \notin {"resolve", "store"}
    BY <1>1, <2>2 DEF Mh!Thread, Mh!InHand
  <2>4. mh_thr' = [mh_thr EXCEPT ![t] = r]
    BY <2>1, Zenon
  <2> HIDE DEF r
  <2>5. /\ mh_uniq' = mh_uniq \ {h} /\ mh_uniq' \subseteq MhHosts
        /\ mh_byIpp' \in [Mh!Ips -> MhHosts \cup {Nil}] /\ mh_byHostport' \in [MhNamed -> BOOLEAN]
        /\ \A ip \in Mh!Ips : mh_byAddr'[ip] \in Nat
    BY <1>1, <2>1, <2>2, MhDelTyped, Zenon
  <2>6. \A g \in MhHosts \ mh_uniq' : g = r.h \/ g \notin mh_uniq
    BY <2>3, <2>5, Zenon
  <2> QED
    BY <1>1, <1>2, <2>2, <2>3, <2>4, <2>5, <2>6, MhOneThread, Zenon
<1> QED
  BY <1>3, <1>4

LEMMA MhPutInv ==
    ASSUME Mh!MultiHostConstants, Mh!Inv, NEW t \in Mh!Threads, Mh!refreshPut(t)
    PROVE  Mh!Inv'
<1>1. /\ mh_thr[t] \in Mh!Thread /\ mh_thr[t].pc = "put" /\ mh_calls' \in 0..MhMaxCalls
      /\ UNCHANGED <<mh_ver, mh_addrs, mh_old, mh_resolvMu, mh_floor>> /\ Mh!TypeOK /\ Mh!Put(mh_thr[t].h)
      /\ Mh!ThreadSound(t)
  BY Zenon DEF Mh!refreshPut, Mh!Inv, Mh!TypeOK
<1>2. mh_thr[t].h \in MhHosts /\ t \in MhRefreshers
  BY <1>1 DEF Mh!ThreadSound, Mh!InHand
<1> DEFINE r == [mh_thr[t] EXCEPT !.pc = "next", !.h = Nil]
<1>3. r \in Mh!Thread /\ r.pc = "next" /\ "next" \notin Mh!InHand
  BY <1>1 DEF Mh!Thread, Mh!InHand
<1>4. mh_thr' = [mh_thr EXCEPT ![t] = r]
  BY Zenon DEF Mh!refreshPut
<1> HIDE DEF r
<1>5. r.pc # "store" /\ r.pc \notin {"resolve", "store"}
  BY <1>3
<1>6. /\ mh_uniq' = mh_uniq \cup {mh_thr[t].h} /\ mh_uniq' \subseteq MhHosts
      /\ mh_byIpp' \in [Mh!Ips -> MhHosts \cup {Nil}] /\ mh_byHostport' \in [MhNamed -> BOOLEAN]
      /\ \A ip \in Mh!Ips : mh_byAddr'[ip] \in Nat
  BY <1>1, <1>2, MhPutTyped, Zenon
<1>7. \A h \in MhHosts \ mh_uniq' : h \notin mh_uniq /\ h # mh_thr[t].h
  BY <1>6, Zenon
<1> QED
  BY <1>1, <1>2, <1>3, <1>4, <1>5, <1>6, <1>7, MhOneThread, Zenon

\* DNS is asked under the lock of the host.
LEMMA MhAskInv ==
    ASSUME Mh!MultiHostConstants, Mh!Inv, NEW t \in Mh!Threads, Mh!resolvNames(t)
    PROVE  Mh!Inv'
<1>1. /\ mh_thr[t] \in Mh!Thread /\ mh_thr[t].pc = "resolve" /\ mh_calls' \in 0..MhMaxCalls
      /\ UNCHANGED <<mh_ver, mh_addrs, mh_old, mh_resolvMu, mh_floor>> /\ Mh!ThreadSound(t) /\ Mh!unchangedMap
      /\ mh_ver \in Mh!Vers
  BY Zenon DEF Mh!resolvNames, Mh!Inv, Mh!TypeOK
<1>2. mh_thr[t].h \in MhHosts /\ mh_resolvMu[mh_thr[t].h] = t
  BY <1>1 DEF Mh!ThreadSound, Mh!InHand
<1>3. PICK got \in {{}, {mh_ver}} : mh_thr' = [mh_thr EXCEPT ![t].pc = "store", ![t].got = got]
  BY Zenon DEF Mh!resolvNames
<1> DEFINE r == [mh_thr[t] EXCEPT !.pc = "store", !.got = got]
<1>4. r \in Mh!Thread /\ r.pc = "store" /\ r.got = got /\ r.h = mh_thr[t].h
  BY <1>1, <1>3 DEF Mh!Thread
<1>5. mh_thr' = [mh_thr EXCEPT ![t] = r]
  BY <1>3, Zenon
<1> HIDE DEF r
<1>6. mh_ver >= mh_floor[r.h] /\ mh_ver <= mh_ver
  <2>1. mh_floor[r.h] \in 0..MhMaxVer /\ mh_floor[r.h] <= mh_ver /\ mh_ver \in 1..MhMaxVer
    BY <1>1, <1>2, <1>4, Zenon DEF Mh!Inv, Mh!TypeOK, Mh!Vers
  <2> QED
    BY <2>1
<1>7. r.got = {} \/ \E v \in Mh!Vers : r.got = {v} /\ v >= mh_floor[r.h] /\ v <= mh_ver
  BY <1>1, <1>3, <1>4, <1>6, Zenon
<1>8. r.pc \in Mh!InHand /\ mh_thr[t].pc \in Mh!InHand /\ r.pc \notin {"next", "put"}
  BY <1>1, <1>4 DEF Mh!InHand
<1>9. \A h \in MhHosts \ mh_uniq :
        \/ t \in MhRefreshers /\ h = r.h /\ r.pc \in Mh!InHand
        \/ h \notin mh_uniq /\ ~(t \in MhRefreshers /\ h = mh_thr[t].h /\ mh_thr[t].pc \in Mh!InHand)
  BY <1>4, <1>8, Zenon
<1> QED
  BY <1>1, <1>2, <1>4, <1>5, <1>7, <1>8, <1>9, MhMapTyped, MhOneThread, Zenon

\* The lock of a host is taken when it is free: nobody else is past it.
LEMMA MhLockInv ==
    ASSUME Mh!MultiHostConstants, Mh!Inv, NEW t \in Mh!Threads, Mh!lockResolv(t)
    PROVE  Mh!Inv'
<1> DEFINE h == mh_thr[t].h
           r == [mh_thr[t] EXCEPT !.pc = "resolve"]
<1>1. /\ mh_thr[t] \in Mh!Thread /\ mh_thr[t].pc = "lock" /\ mh_resolvMu[h] = Nil
      /\ mh_resolvMu' = [mh_resolvMu EXCEPT ![h] = t] /\ mh_thr' = [mh_thr EXCEPT ![t] = r]
      /\ UNCHANGED <<mh_ver, mh_addrs, mh_old, mh_floor, mh_calls>> /\ Mh!ThreadSound(t) /\ Mh!unchangedMap
  BY Zenon DEF Mh!lockResolv, Mh!Inv, Mh!TypeOK
<1>2. h \in MhHosts
  BY <1>1 DEF Mh!ThreadSound, Mh!InHand
<1>3. /\ r \in Mh!Thread /\ r.pc = "resolve" /\ r.h = h
      /\ r.pc \in Mh!InHand /\ r.pc \notin {"next", "put"} /\ r.pc # "store"
  BY <1>1 DEF Mh!Thread, Mh!InHand
<1> HIDE DEF r, h
<1>4. /\ mh_thr' \in [Mh!Threads -> Mh!Thread]
      /\ \A u \in Mh!Threads : mh_thr'[u] = IF u = t THEN r ELSE mh_thr[u]
      /\ \A g \in MhHosts \ mh_uniq' : \E u \in MhRefreshers : mh_thr'[u].h = g /\ mh_thr'[u].pc \in Mh!InHand
  <2>1. \A g \in MhHosts \ mh_uniq' :
          \/ t \in MhRefreshers /\ g = r.h /\ r.pc \in Mh!InHand
          \/ g \notin mh_uniq /\ ~(t \in MhRefreshers /\ g = mh_thr[t].h /\ mh_thr[t].pc \in Mh!InHand)
    BY <1>1, <1>3, MhMapTyped, Zenon DEF h
  <2> QED
    BY <1>1, <1>3, <2>1, MhHandsKeep, Zenon
<1>5. mh_resolvMu \in [MhHosts -> Mh!Threads \cup {Nil}] /\ Nil \notin Mh!Threads
  BY Zenon DEF Mh!Inv, Mh!TypeOK, Mh!MultiHostConstants
<1>6. /\ mh_resolvMu' \in [MhHosts -> Mh!Threads \cup {Nil}]
      /\ \A g \in MhHosts : mh_resolvMu'[g] = IF g = h THEN t ELSE mh_resolvMu[g]
  BY <1>1, <1>2, <1>5, Zenon
<1>7. Mh!TypeOK'
  BY <1>1, <1>4, <1>6, MhMapTyped, Zenon DEF Mh!Inv, Mh!TypeOK
<1>8. \A u \in Mh!Threads : Mh!ThreadSound(u)'
  <2> TAKE u \in Mh!Threads
  <2>1. CASE u = t
    BY <1>2, <1>3, <1>4, <1>6, <2>1, Zenon DEF Mh!ThreadSound
  <2>2. CASE u # t
    <3>1. Mh!ThreadSound(u) /\ mh_thr'[u] = mh_thr[u]
      BY <1>4, <2>2, Zenon DEF Mh!Inv
    <3>2. mh_thr[u].pc \in {"resolve", "store"} => mh_thr[u].h # h /\ mh_thr[u].h \in MhHosts
      BY <1>1, <1>5, <3>1 DEF Mh!ThreadSound, Mh!InHand
    <3> QED
      BY <1>1, <1>6, <3>1, <3>2, Zenon DEF Mh!ThreadSound
  <2> QED
    BY <2>1, <2>2
<1> QED
  BY <1>1, <1>4, <1>7, <1>8, Zenon DEF Mh!Inv, Mh!NoStaleAppend

\* The answer is stored by the holder of the lock, and raises the floor at most
\* to itself.
LEMMA MhStoreInv ==
    ASSUME Mh!MultiHostConstants, Mh!Inv, NEW t \in Mh!Threads, Mh!storeAddrs(t)
    PROVE  Mh!Inv'
<1> DEFINE h == mh_thr[t].h
           got == mh_thr[t].got
           r == IF t \in MhRefreshers THEN [mh_thr[t] EXCEPT !.pc = "put", !.got = {}] ELSE Mh!Idle
<1>1. /\ mh_thr[t] \in Mh!Thread /\ mh_thr[t].pc = "store" /\ Mh!unchangedMap
      /\ mh_addrs' = [mh_addrs EXCEPT ![h] = Mh!Stored(t, @)]
      /\ mh_old' = [mh_old EXCEPT ![h] = FALSE]
      /\ mh_resolvMu' = [mh_resolvMu EXCEPT ![h] = IF @ = t THEN Nil ELSE @]
      /\ mh_floor' = IF t \in MhRefreshers /\ got # {}
                  THEN [mh_floor EXCEPT ![h] = CHOOSE v \in got : TRUE] ELSE mh_floor
      /\ mh_thr' = [mh_thr EXCEPT ![t] = r]
      /\ UNCHANGED <<mh_ver, mh_calls>> /\ Mh!ThreadSound(t)
  BY Zenon DEF Mh!storeAddrs, Mh!Inv, Mh!TypeOK
<1>2. h \in MhHosts /\ mh_resolvMu[h] = t /\ got \subseteq Mh!Vers
  BY <1>1 DEF Mh!ThreadSound, Mh!InHand, Mh!Thread
<1>3. got = {} \/ \E v \in Mh!Vers : got = {v} /\ v >= mh_floor[h] /\ v <= mh_ver
  BY <1>1, Zenon DEF Mh!ThreadSound
<1>4. r \in Mh!Thread /\ (t \in MhRefreshers => r.pc = "put" /\ r.h = h) /\ (t \notin MhRefreshers => r.pc = "idle")
  BY <1>1 DEF Mh!Thread, Mh!Idle
<1> HIDE DEF r, h, got
<1>5. /\ mh_thr' \in [Mh!Threads -> Mh!Thread]
      /\ \A u \in Mh!Threads : mh_thr'[u] = IF u = t THEN r ELSE mh_thr[u]
      /\ \A g \in MhHosts \ mh_uniq' : \E u \in MhRefreshers : mh_thr'[u].h = g /\ mh_thr'[u].pc \in Mh!InHand
  <2>1. t \in MhRefreshers => r.pc \in Mh!InHand
    BY <1>4 DEF Mh!InHand
  <2>2. \A g \in MhHosts \ mh_uniq' :
          \/ t \in MhRefreshers /\ g = r.h /\ r.pc \in Mh!InHand
          \/ g \notin mh_uniq /\ ~(t \in MhRefreshers /\ g = mh_thr[t].h /\ mh_thr[t].pc \in Mh!InHand)
    BY <1>1, <1>4, <2>1, MhMapTyped, Zenon DEF h
  <2> QED
    BY <1>1, <1>4, <2>2, MhHandsKeep, Zenon
<1>6. /\ mh_resolvMu \in [MhHosts -> Mh!Threads \cup {Nil}] /\ mh_addrs \in [MhHosts -> SUBSET Mh!Vers]
      /\ mh_old \in [MhHosts -> BOOLEAN] /\ mh_floor \in [MhHosts -> 0..MhMaxVer] /\ mh_ver \in Mh!Vers
  BY Zenon DEF Mh!Inv, Mh!TypeOK
<1>7. /\ mh_resolvMu' \in [MhHosts -> Mh!Threads \cup {Nil}] /\ mh_old' \in [MhHosts -> BOOLEAN]
      /\ \A g \in MhHosts : g # h => mh_resolvMu'[g] = mh_resolvMu[g]
  BY <1>1, <1>2, <1>6, Zenon
<1>8. CASE got = {} \/ t \notin MhRefreshers
  <2>1. mh_floor' = mh_floor
    BY <1>1, <1>8, Zenon
  <2>2. mh_addrs' \in [MhHosts -> SUBSET Mh!Vers] /\ \A g \in MhHosts : \A v \in mh_addrs'[g] : v \in mh_addrs[g] \/ (g = h /\ v \in got)
    <3>1. Mh!Stored(t, mh_addrs[h]) \subseteq mh_addrs[h] \cup got
      BY <1>8 DEF Mh!Stored, got
    <3>2. Mh!Stored(t, mh_addrs[h]) \subseteq Mh!Vers
      BY <1>2, <1>6, <3>1
    <3>3. mh_addrs' = [mh_addrs EXCEPT ![h] = Mh!Stored(t, mh_addrs[h])]
      BY <1>1, Zenon
    <3> HIDE DEF Mh!Stored
    <3> QED
      BY <1>2, <1>6, <3>1, <3>2, <3>3
  <2>3. Mh!NoStaleAppend'
    BY <1>3, <2>1, <2>2, Zenon DEF Mh!Inv, Mh!NoStaleAppend
  <2>4. Mh!TypeOK'
    BY <1>1, <1>5, <1>7, <2>1, <2>2, MhMapTyped, Zenon DEF Mh!Inv, Mh!TypeOK
  <2>5. \A u \in Mh!Threads : Mh!ThreadSound(u)'
    <3> TAKE u \in Mh!Threads
    <3>1. CASE u = t
      <4>1. /\ r.pc \in Mh!InHand => r.h \in MhHosts
            /\ r.pc \notin {"resolve", "store"} /\ r.pc # "store"
            /\ t \notin MhRefreshers => r.pc \notin {"next", "put"}
        BY <1>2, <1>4 DEF Mh!InHand
      <4> QED
        BY <1>5, <3>1, <4>1, Zenon DEF Mh!ThreadSound
    <3>2. CASE u # t
      <4>1. Mh!ThreadSound(u) /\ mh_thr'[u] = mh_thr[u]
        BY <1>5, <3>2, Zenon DEF Mh!Inv
      <4>2. mh_thr[u].pc \in {"resolve", "store"} => mh_thr[u].h # h /\ mh_thr[u].h \in MhHosts
        BY <1>2, <3>2, <4>1 DEF Mh!ThreadSound, Mh!InHand
      <4> QED
        BY <1>1, <1>7, <2>1, <4>1, <4>2, Zenon DEF Mh!ThreadSound
    <3> QED
      BY <3>1, <3>2
  <2> QED
    BY <1>1, <1>5, <2>1, <2>3, <2>4, <2>5, Zenon DEF Mh!Inv
<1>9. CASE got # {} /\ t \in MhRefreshers
  <2>1. PICK w \in Mh!Vers : got = {w} /\ w >= mh_floor[h] /\ w <= mh_ver
    BY <1>3, <1>9, Zenon
  <2>2. mh_floor' = [mh_floor EXCEPT ![h] = w]
    <3>1. (CHOOSE v \in {w} : TRUE) = w
      OBVIOUS
    <3> QED
      BY <1>1, <1>9, <2>1, <3>1, Zenon
  <2>3. mh_addrs' = [mh_addrs EXCEPT ![h] = {w}]
    BY <1>1, <1>9, <2>1, Zenon DEF Mh!Stored, got
  <2>4. /\ mh_floor' \in [MhHosts -> 0..MhMaxVer] /\ mh_addrs' \in [MhHosts -> SUBSET Mh!Vers]
        /\ \A g \in MhHosts : g # h => mh_floor'[g] = mh_floor[g] /\ mh_addrs'[g] = mh_addrs[g]
        /\ mh_floor'[h] = w /\ mh_addrs'[h] = {w}
    BY <1>2, <1>6, <2>1, <2>2, <2>3 DEF Mh!Vers
  <2>5. \A g \in MhHosts : mh_floor'[g] <= mh_ver'
    BY <1>1, <2>1, <2>4, Zenon DEF Mh!Inv
  <2>6. Mh!NoStaleAppend'
    <3>1. w >= w
      BY <2>1 DEF Mh!Vers
    <3> QED
      BY <2>4, <3>1, Zenon DEF Mh!Inv, Mh!NoStaleAppend
  <2>7. Mh!TypeOK'
    BY <1>1, <1>5, <1>7, <2>4, MhMapTyped, Zenon DEF Mh!Inv, Mh!TypeOK
  <2>8. \A u \in Mh!Threads : Mh!ThreadSound(u)'
    <3> TAKE u \in Mh!Threads
    <3>1. CASE u = t
      <4>1. /\ r.pc \in Mh!InHand => r.h \in MhHosts
            /\ r.pc \notin {"resolve", "store"} /\ r.pc # "store"
        BY <1>2, <1>4, <1>9 DEF Mh!InHand
      <4> QED
        BY <1>5, <1>9, <3>1, <4>1, Zenon DEF Mh!ThreadSound
    <3>2. CASE u # t
      <4>1. Mh!ThreadSound(u) /\ mh_thr'[u] = mh_thr[u]
        BY <1>5, <3>2, Zenon DEF Mh!Inv
      <4>2. mh_thr[u].pc \in {"resolve", "store"} => mh_thr[u].h # h /\ mh_thr[u].h \in MhHosts
        BY <1>2, <3>2, <4>1 DEF Mh!ThreadSound, Mh!InHand
      <4>3. mh_thr[u].pc = "store" => mh_thr[u].pc \in {"resolve", "store"}
        OBVIOUS
      <4> QED
        BY <1>1, <1>7, <2>4, <4>1, <4>2, <4>3, Zenon DEF Mh!ThreadSound
    <3> QED
      BY <3>1, <3>2
  <2> QED
    BY <1>1, <1>5, <2>5, <2>6, <2>7, <2>8, Zenon DEF Mh!Inv
<1> QED
  BY <1>8, <1>9

\* ipn/multihost: a host that is out of the map is in the hand of a refresh, and an
\* answer in hand is no older than the last reset, as the lock of the host is held
\* from before DNS is asked until the answer is stored.
THEOREM MhHostsAreKept == ASSUME Mh!MultiHostConstants PROVE Mh!Spec => []Mh!Inv
<1>1. Mh!Init => Mh!Inv
  <2> SUFFICES ASSUME Mh!Init PROVE Mh!Inv
    OBVIOUS
  <2>1. 1 \in Mh!Vers /\ mh_ver = 1 /\ 0 \in 0..MhMaxVer /\ 0 \in 0..MhMaxCalls /\ 0 <= 1
    BY DEF Mh!Init, Mh!Vers, Mh!MultiHostConstants
  <2>2. Mh!Idle \in Mh!Thread /\ Mh!Idle.pc = "idle"
    BY DEF Mh!Idle, Mh!Thread
  <2>3. \A ip \in Mh!Ips : mh_byAddr[ip] \in Nat
    <3> SUFFICES ASSUME NEW ip \in Mh!Ips PROVE Mh!Cardinality({h \in MhHosts \ MhNamed : HostIps[h][1] = ip}) \in Nat
      BY DEF Mh!Init
    <3>1. {h \in MhHosts \ MhNamed : HostIps[h][1] = ip} \subseteq MhHosts
      OBVIOUS
    <3> QED
      BY <3>1, FS_Subset, FS_CardinalityType, MhCounts DEF Mh!MultiHostConstants
  <2>4. Mh!TypeOK
    <3>1. mh_addrs \in [MhHosts -> SUBSET Mh!Vers] /\ mh_old \in [MhHosts -> BOOLEAN]
      BY <2>1 DEF Mh!Init
    <3>2. mh_resolvMu \in [MhHosts -> Mh!Threads \cup {Nil}] /\ mh_thr \in [Mh!Threads -> Mh!Thread]
      BY <2>2, Zenon DEF Mh!Init
    <3>3. mh_floor \in [MhHosts -> 0..MhMaxVer] /\ mh_byHostport \in [MhNamed -> BOOLEAN]
      BY <2>1, Zenon DEF Mh!Init
    <3> QED
      BY <2>1, <2>3, <3>1, <3>2, <3>3, Zenon DEF Mh!Init, Mh!TypeOK
  <2>5. \A t \in Mh!Threads : Mh!ThreadSound(t)
    BY <2>2 DEF Mh!Init, Mh!ThreadSound, Mh!InHand
  <2>6. Mh!NoStaleAppend /\ \A h \in MhHosts : mh_floor[h] <= mh_ver
    BY <2>1 DEF Mh!Init, Mh!NoStaleAppend
  <2> QED
    BY <2>4, <2>5, <2>6, Zenon DEF Mh!Init, Mh!Inv
<1>2. Mh!Inv /\ [Mh!Next]_(Mh!vars) => Mh!Inv'
  <2> SUFFICES ASSUME Mh!Inv, [Mh!Next]_(Mh!vars) PROVE Mh!Inv'
    OBVIOUS
  <2>1. CASE Mh!dnsChanges
    <3>1. mh_ver' \in Mh!Vers /\ mh_ver' = mh_ver + 1 /\ mh_ver \in Mh!Vers
      BY <2>1 DEF Mh!dnsChanges, Mh!Inv, Mh!TypeOK, Mh!Vers, Mh!MultiHostConstants
    <3>2. UNCHANGED <<mh_addrs, mh_old, mh_resolvMu, mh_thr, mh_calls, mh_floor>> /\ Mh!unchangedMap
      BY <2>1, Zenon DEF Mh!dnsChanges
    <3>3. \A v \in 0..MhMaxVer : v <= mh_ver => v <= mh_ver'
      BY <3>1 DEF Mh!Vers
    <3>4. \A v \in Mh!Vers : v \in 0..MhMaxVer
      BY DEF Mh!Vers
    <3>5. Mh!TypeOK'
      BY <3>1, <3>2, MhMapTyped, Zenon DEF Mh!Inv, Mh!TypeOK
    <3>6. \A t \in Mh!Threads : Mh!ThreadSound(t)'
      BY <3>2, <3>3, <3>4, Zenon DEF Mh!Inv, Mh!ThreadSound
    <3>7. \A h \in MhHosts : mh_floor'[h] <= mh_ver'
      BY <3>2, <3>3, Zenon DEF Mh!Inv, Mh!TypeOK
    <3> QED
      BY <3>2, <3>5, <3>6, <3>7, Zenon DEF Mh!Inv, Mh!NoStaleAppend, Mh!unchangedMap
  <2>2. CASE Mh!age
    <3>1. mh_old' \in [MhHosts -> BOOLEAN]
      BY <2>2, Zenon DEF Mh!age, Mh!Inv, Mh!TypeOK
    <3>2. UNCHANGED <<mh_ver, mh_addrs, mh_resolvMu, mh_thr, mh_calls, mh_floor>> /\ Mh!unchangedMap
      BY <2>2, Zenon DEF Mh!age
    <3> QED
      BY <3>1, <3>2, Zenon DEF Mh!Inv, Mh!TypeOK, Mh!ThreadSound, Mh!NoStaleAppend, Mh!unchangedMap
  <2>3. CASE UNCHANGED (Mh!vars)
    BY <2>3, Zenon DEF Mh!vars, Mh!Inv, Mh!TypeOK, Mh!ThreadSound, Mh!NoStaleAppend
  <2>4. ASSUME NEW t \in Mh!Threads, Mh!step(t) PROVE Mh!Inv'
    BY <2>4, MhRefreshInv, MhPutInv, MhLockInv, MhAskInv, MhStoreInv, Zenon DEF Mh!step
  <2>5. \A t \in MhRefreshers \cup MhBuilders : t \in Mh!Threads
    BY DEF Mh!Threads
  <2> QED
    BY <2>1, <2>2, <2>3, <2>4, <2>5, MhCallInv, Zenon DEF Mh!Next
<1> QED
  BY <1>1, <1>2, PTL DEF Mh!Spec

-----------------------------------------------------------------------------
(* DNSCrypt: the attempts to fetch certificates *)

VARIABLES dc_att, dc_main, dc_got, dc_best, dc_cancelled, dc_timedout, dc_certs, dc_at,
          dc_info, dc_ignoreTs
dcVars == <<dc_att, dc_main, dc_got, dc_best, dc_cancelled, dc_timedout, dc_certs, dc_at,
            dc_info, dc_ignoreTs>>
Dc == INSTANCE DcCert WITH
    Attempts <- DcAttempts, Rtts <- DcRtts, Serials <- DcSerials, MaxCerts <- DcMaxCerts,
    att <- dc_att, main <- dc_main, got <- dc_got, best <- dc_best,
    cancelled <- dc_cancelled, timedout <- dc_timedout, certs <- dc_certs, at <- dc_at,
    info <- dc_info, ignoreTs <- dc_ignoreTs

\* Sets and their sizes are counted alike inside the component and out.
LEMMA DcCounts ==
    \A S : (Dc!IsFiniteSet(S) <=> IsFiniteSet(S)) /\ Dc!Cardinality(S) = Cardinality(S)
  BY Zenon DEF Dc!IsFiniteSet, IsFiniteSet, Dc!Cardinality, Cardinality

\* An answer is a sequence of certificates.
LEMMA DcAnswersAreSeqs ==
    ASSUME Dc!DcCertConstants, NEW c \in Dc!Answers
    PROVE  c \in Seq(Dc!Cert) /\ Len(c) \in 0..DcMaxCerts
<1>1. PICK n \in 0..DcMaxCerts : c \in [1..n -> Dc!Cert]
  BY Zenon DEF Dc!Answers
<1>2. n \in Nat
  BY <1>1 DEF Dc!DcCertConstants
<1>3. c \in Seq(Dc!Cert) /\ Len(c) = n
  BY <1>1, <1>2
<1> QED
  BY <1>1, <1>3

LEMMA DcAttemptsAreCounted ==
    ASSUME Dc!DcCertConstants
    PROVE  /\ Dc!Cardinality(DcAttempts) \in Nat
           /\ \A S \in SUBSET DcAttempts : /\ Dc!IsFiniteSet(S) /\ Dc!Cardinality(S) \in Nat
                                           /\ Dc!Cardinality(S) = Dc!Cardinality(DcAttempts) => S = DcAttempts
<1>1. Dc!IsFiniteSet(DcAttempts)
  BY Zenon DEF Dc!DcCertConstants
<1>2. Dc!Cardinality(DcAttempts) \in Nat
  BY <1>1, FS_CardinalityType, DcCounts, Zenon
<1>3. ASSUME NEW S \in SUBSET DcAttempts
      PROVE  /\ Dc!IsFiniteSet(S) /\ Dc!Cardinality(S) \in Nat
             /\ Dc!Cardinality(S) = Dc!Cardinality(DcAttempts) => S = DcAttempts
  <2>1. S \subseteq DcAttempts
    BY <1>3
  <2>2. Dc!IsFiniteSet(S)
    BY <1>1, <2>1, FS_Subset, DcCounts, Zenon
  <2>3. Dc!Cardinality(S) \in Nat
    BY <2>2, FS_CardinalityType, DcCounts, Zenon
  <2>4. Dc!Cardinality(S) = Dc!Cardinality(DcAttempts) => S = DcAttempts
    BY <1>1, <2>1, FS_Subset, DcCounts, Zenon
  <2> QED
    BY <2>2, <2>3, <2>4
<1> QED
  BY <1>2, <1>3, Zenon

\* Attempts sleep, ask and hand over, and the deadline fires.
LEMMA DcExchangeInv ==
    ASSUME Dc!DcCertConstants, Dc!Inv,
           Dc!deadline \/ \E a \in DcAttempts : Dc!attemptStep(a) \/ Dc!receive(a)
    PROVE  Dc!Inv'
<1>1. UNCHANGED <<dc_main, dc_certs, dc_at, dc_info, dc_ignoreTs>>
  BY Zenon DEF Dc!deadline, Dc!attemptStep, Dc!attemptWakes, Dc!attemptAsks, Dc!receive
<1>2. Dc!WalkSound' /\ dc_certs' \in Dc!Answers
  BY <1>1, Zenon DEF Dc!Inv, Dc!WalkSound, Dc!Usable
<1>3. CASE Dc!deadline
  <2>1. UNCHANGED <<dc_att, dc_got, dc_best, dc_cancelled>> /\ dc_timedout' = TRUE /\ dc_main = "wait"
    BY <1>3, Zenon DEF Dc!deadline, Dc!waiting
  <2>2. Dc!Gone' = Dc!Gone
    BY <2>1, Zenon DEF Dc!Gone
  <2>3. Dc!ExchangeSound'
    BY <1>1, <2>1, <2>2 DEF Dc!Inv, Dc!ExchangeSound
  <2>4. Dc!TypeOK'
    BY <1>1, <2>1, Zenon DEF Dc!Inv, Dc!TypeOK
  <2> QED
    BY <1>2, <2>3, <2>4, Zenon DEF Dc!Inv
<1>4. ASSUME NEW a \in DcAttempts, Dc!attemptStep(a)
      PROVE  Dc!Inv'
  <2>1. UNCHANGED <<dc_got, dc_best, dc_cancelled, dc_timedout>>
    BY <1>4, Zenon DEF Dc!attemptStep, Dc!attemptWakes, Dc!attemptAsks
  <2>2. dc_att \in [DcAttempts -> Dc!Attempt] /\ dc_att[a] \in Dc!Attempt
    BY Zenon DEF Dc!Inv, Dc!TypeOK
  <2>3. PICK r \in Dc!Attempt : /\ dc_att' = [dc_att EXCEPT ![a] = r]
                                /\ dc_att[a].pc # "gone"
                                /\ ~dc_cancelled => r.pc # "gone"
    <3>1. CASE Dc!attemptWakes(a)
      <4> DEFINE r == [dc_att[a] EXCEPT !.pc = IF dc_cancelled THEN "gone" ELSE "ask"]
      <4>1. r \in Dc!Attempt /\ (~dc_cancelled => r.pc # "gone")
        BY <2>2 DEF Dc!Attempt
      <4>2. dc_att' = [dc_att EXCEPT ![a] = r] /\ dc_att[a].pc # "gone"
        BY <3>1 DEF Dc!attemptWakes
      <4> QED
        BY <4>1, <4>2, Zenon
    <3>2. CASE Dc!attemptAsks(a)
      <4>1. PICK t \in DcRtts \cup {0} : dc_att' = [dc_att EXCEPT ![a] = [pc |-> "send", rtt |-> t]]
        BY <3>2, Zenon DEF Dc!attemptAsks
      <4>2. [pc |-> "send", rtt |-> t] \in Dc!Attempt /\ dc_att[a].pc # "gone"
        BY <3>2 DEF Dc!Attempt, Dc!attemptAsks
      <4> QED
        BY <4>1, <4>2
    <3> QED
      BY <1>4, <3>1, <3>2, Zenon DEF Dc!attemptStep
  <2>4. dc_att' \in [DcAttempts -> Dc!Attempt] /\ \A b \in DcAttempts : dc_att'[b] = IF b = a THEN r ELSE dc_att[b]
    BY <2>2, <2>3, Zenon
  <2>5. ~dc_cancelled => Dc!Gone' = Dc!Gone /\ \A b \in Dc!Gone : dc_att'[b] = dc_att[b]
    BY <2>3, <2>4 DEF Dc!Gone
  <2>6. Dc!ExchangeSound'
    BY <1>1, <2>1, <2>5 DEF Dc!Inv, Dc!ExchangeSound
  <2>7. Dc!TypeOK'
    BY <1>1, <2>1, <2>4, Zenon DEF Dc!Inv, Dc!TypeOK
  <2> QED
    BY <1>2, <2>6, <2>7, Zenon DEF Dc!Inv
<1>5. ASSUME NEW a \in DcAttempts, Dc!receive(a)
      PROVE  Dc!Inv'
  <2> DEFINE r == dc_att[a].rtt
             faster == dc_best # 0 /\ r # 0 /\ r < dc_best
             n == Dc!Cardinality(DcAttempts)
  <2>1. /\ dc_main = "wait" /\ dc_got < n /\ dc_att[a].pc = "send"
        /\ dc_att' = [dc_att EXCEPT ![a].pc = "gone"]
        /\ dc_best' = IF r # 0 /\ (dc_best = 0 \/ faster) THEN r ELSE dc_best
        /\ dc_cancelled' = (dc_cancelled \/ faster)
        /\ dc_got' = IF faster THEN n ELSE dc_got + 1
        /\ dc_timedout' = dc_timedout
    BY <1>5, Zenon DEF Dc!receive, Dc!waiting
  <2>2. /\ dc_att \in [DcAttempts -> Dc!Attempt] /\ r \in DcRtts \cup {0} /\ dc_best \in DcRtts \cup {0}
        /\ dc_got \in 0..n /\ dc_cancelled \in BOOLEAN /\ dc_timedout \in BOOLEAN
    <3>1. dc_att \in [DcAttempts -> Dc!Attempt] /\ dc_att[a] \in Dc!Attempt
      BY Zenon DEF Dc!Inv, Dc!TypeOK
    <3>2. r \in DcRtts \cup {0}
      BY <3>1 DEF Dc!Attempt
    <3> QED
      BY <3>1, <3>2, Zenon DEF Dc!Inv, Dc!TypeOK
  <2>3. n \in Nat
    BY DcAttemptsAreCounted
  <2>4. /\ dc_att' \in [DcAttempts -> Dc!Attempt]
        /\ \A b \in DcAttempts \ {a} : dc_att'[b] = dc_att[b]
        /\ dc_att'[a].pc = "gone" /\ dc_att'[a].rtt = r
    BY <2>1, <2>2 DEF Dc!Attempt
  <2>5. dc_best' \in DcRtts \cup {0} /\ dc_got' \in 0..n /\ dc_cancelled' \in BOOLEAN
    <3>1. dc_best' \in DcRtts \cup {0} /\ dc_cancelled' \in BOOLEAN
      BY <2>1, <2>2
    <3>2. dc_got' \in 0..n
      BY <2>1, <2>2, <2>3
    <3> QED
      BY <3>1, <3>2
  <2> HIDE DEF n
  <2>6. Dc!TypeOK'
    BY <1>1, <2>1, <2>2, <2>4, <2>5, Zenon DEF Dc!Inv, Dc!TypeOK, n
  <2>7. dc_best' = 0 => dc_best = 0 /\ r = 0 /\ ~dc_cancelled' /\ dc_got' = dc_got + 1
    BY <2>1 DEF Dc!Inv, Dc!ExchangeSound
  <2>8. Dc!Gone' = Dc!Gone \cup {a} /\ a \notin Dc!Gone
    BY <2>1, <2>4, Zenon DEF Dc!Gone
  <2>9. Dc!IsFiniteSet(Dc!Gone) /\ Dc!Cardinality(Dc!Gone) \in Nat
    BY DcAttemptsAreCounted DEF Dc!Gone
  <2>10. Dc!Cardinality(Dc!Gone') = Dc!Cardinality(Dc!Gone) + 1
    BY <2>8, <2>9, FS_AddElement, DcCounts
  <2>11. dc_best' = 0 => \A b \in Dc!Gone' : dc_att'[b].rtt = 0
    <3> SUFFICES ASSUME dc_best' = 0, NEW b \in Dc!Gone' PROVE dc_att'[b].rtt = 0
      OBVIOUS
    <3>1. CASE b = a
      BY <2>4, <2>7, <3>1
    <3>2. CASE b # a
      BY <2>4, <2>7, <2>8, <3>2 DEF Dc!Inv, Dc!ExchangeSound, Dc!Gone
    <3> QED
      BY <3>1, <3>2
  <2>12. dc_best' = 0 => dc_got' = Dc!Cardinality(Dc!Gone')
    BY <2>7, <2>10 DEF Dc!Inv, Dc!ExchangeSound
  <2>13. Dc!ExchangeSound'
    BY <1>1, <2>1, <2>7, <2>11, <2>12 DEF Dc!ExchangeSound
  <2> QED
    BY <1>2, <2>6, <2>13, Zenon DEF Dc!Inv
<1> QED
  BY <1>3, <1>4, <1>5

\* The exchange ends with an answer, or fails.
LEMMA DcExchangeEndsInv == ASSUME Dc!DcCertConstants, Dc!Inv, Dc!dnsExchangeEnds PROVE Dc!Inv'
<1>1. dc_main = "wait" /\ ~Dc!waiting /\ UNCHANGED <<dc_att, dc_got, dc_best, dc_cancelled, dc_timedout, dc_at, dc_info, dc_ignoreTs>>
  BY Zenon DEF Dc!dnsExchangeEnds
<1>2. Dc!Gone' = Dc!Gone
  BY <1>1, Zenon DEF Dc!Gone
<1>3. dc_got \in 0..Dc!Cardinality(DcAttempts) /\ dc_timedout \in BOOLEAN /\ Dc!Cardinality(DcAttempts) \in Nat
  BY DcAttemptsAreCounted, Zenon DEF Dc!Inv, Dc!TypeOK
<1>4. dc_timedout \/ dc_got = Dc!Cardinality(DcAttempts)
  BY <1>1, <1>3 DEF Dc!waiting
<1>5. dc_at = 0 /\ dc_info.from \in 0..DcMaxCerts
  BY <1>1, Zenon DEF Dc!Inv, Dc!TypeOK, Dc!WalkSound
<1>6. dc_info.cons = 0
  <2>1. dc_info.cons # 0 => dc_info.from \in 1..0
    BY <1>5 DEF Dc!Inv, Dc!WalkSound
  <2> QED
    BY <2>1
<1>7. CASE dc_best = 0
  <2>1. dc_main' = "failed" /\ dc_certs' = dc_certs
    BY <1>7, Zenon DEF Dc!dnsExchangeEnds
  <2>2. Dc!TypeOK' /\ dc_certs' \in Dc!Answers
    BY <1>1, <2>1, Zenon DEF Dc!Inv, Dc!TypeOK
  <2>3. Dc!ExchangeSound'
    BY <1>1, <1>2, <1>4, <1>7, <2>1 DEF Dc!Inv, Dc!ExchangeSound
  <2>4. Dc!WalkSound'
    BY <1>1, <1>5, <1>6, <2>1 DEF Dc!Inv, Dc!WalkSound, Dc!Usable
  <2> QED
    BY <2>2, <2>3, <2>4, Zenon DEF Dc!Inv
<1>8. CASE dc_best # 0
  <2>1. dc_main' = "walk" /\ dc_certs' \in Dc!Answers
    BY <1>8, Zenon DEF Dc!dnsExchangeEnds
  <2>2. Dc!TypeOK'
    BY <1>1, <2>1, Zenon DEF Dc!Inv, Dc!TypeOK
  <2>3. Dc!ExchangeSound'
    BY <1>1, <1>2, <1>8, <2>1 DEF Dc!Inv, Dc!ExchangeSound
  <2>4. Len(dc_certs') \in 0..DcMaxCerts
    BY <2>1, DcAnswersAreSeqs
  <2>5. Dc!WalkSound'
    <3>1. dc_at' \in 0..Len(dc_certs')
      BY <1>1, <1>5, <2>4
    <3>2. dc_info' = Dc!None
      BY <1>1, <1>6, Zenon DEF Dc!Inv, Dc!WalkSound
    <3> QED
      BY <1>1, <1>5, <1>6, <2>1, <3>1, <3>2 DEF Dc!WalkSound
  <2> QED
    BY <2>1, <2>2, <2>3, <2>5, Zenon DEF Dc!Inv
<1> QED
  BY <1>7, <1>8

\* One certificate is walked: it replaces the one kept or is no better.
LEMMA DcWalkInv == ASSUME Dc!DcCertConstants, Dc!Inv, Dc!walkCert PROVE Dc!Inv'
<1> DEFINE c == dc_certs[dc_at + 1]
<1>1. /\ dc_main = "walk" /\ dc_at < Len(dc_certs) /\ dc_at' = dc_at + 1
      /\ dc_info' = IF Dc!skipped(c) THEN dc_info ELSE [serial |-> c.serial, cons |-> c.cons, from |-> dc_at + 1]
      /\ UNCHANGED <<dc_att, dc_main, dc_got, dc_best, dc_cancelled, dc_timedout, dc_certs, dc_ignoreTs>>
  BY Zenon DEF Dc!walkCert
<1>2. Dc!ExchangeSound' /\ dc_certs' \in Dc!Answers
  BY <1>1, Zenon DEF Dc!Inv, Dc!ExchangeSound, Dc!Gone
<1>3. dc_certs \in Seq(Dc!Cert) /\ Len(dc_certs) \in 0..DcMaxCerts /\ dc_at \in 0..Len(dc_certs)
  BY DcAnswersAreSeqs DEF Dc!Inv, Dc!WalkSound
<1>4. /\ dc_at \in Nat /\ dc_at + 1 \in 1..Len(dc_certs) /\ dc_at + 1 \in 0..DcMaxCerts /\ dc_at' \in 0..Len(dc_certs')
      /\ 1..dc_at' = 1..dc_at \cup {dc_at + 1}
  BY <1>1, <1>3 DEF Dc!DcCertConstants
<1>5. c \in Dc!Cert
  BY <1>3, <1>4
<1>6. c.cons \in 1..2 /\ (c # Dc!Bad => c.serial \in DcSerials /\ c.dates \in {"valid", "outside"})
  BY <1>5 DEF Dc!Cert, Dc!Bad
<1>7. \A i \in 1..dc_at : i \in 1..Len(dc_certs) /\ dc_certs[i] \in Dc!Cert
  BY <1>3, <1>4
<1> HIDE DEF c
<1>8. dc_info.serial \in DcSerials \cup {0} /\ dc_info.cons \in 0..2 /\ dc_info.from \in 0..DcMaxCerts
  BY Zenon DEF Dc!Inv, Dc!TypeOK
<1>9. \A d \in Dc!Cert : d # Dc!Bad => d.serial \in Nat /\ d.cons \in 1..2
  BY DEF Dc!Cert, Dc!Bad, Dc!DcCertConstants
<1>10. CASE Dc!skipped(c)
  <2>1. dc_info' = dc_info
    BY <1>1, <1>10
  <2>2. Dc!TypeOK'
    BY <1>1, <1>4, <2>1, Zenon DEF Dc!Inv, Dc!TypeOK
  <2>3. Dc!Usable(c) => c.serial < dc_info.serial \/ (c.serial = dc_info.serial /\ c.cons < dc_info.cons)
    BY <1>6, <1>10 DEF Dc!skipped, Dc!Usable
  <2>4. CASE dc_info.cons = 0
    <3>1. dc_info.serial = 0
      BY <2>4 DEF Dc!Inv, Dc!WalkSound, Dc!None
    <3>2. ~Dc!Usable(c)
      <4>1. (c.serial \in Nat /\ c.cons \in 1..2) \/ c = Dc!Bad
        BY <1>5, <1>9
      <4> QED
        BY <2>3, <2>4, <3>1, <4>1 DEF Dc!Usable
    <3>3. \A i \in 1..dc_at' : ~Dc!Usable(dc_certs[i])
      BY <1>4, <2>4, <3>2 DEF Dc!Inv, Dc!WalkSound, c
    <3>4. \A i \in 1..dc_at' : ~Dc!Usable(dc_certs[i])'
      BY <1>1, <3>3, Zenon DEF Dc!Usable
    <3> QED
      BY <1>1, <1>2, <1>4, <2>1, <2>2, <2>4, <3>4 DEF Dc!Inv, Dc!WalkSound
  <2>5. CASE dc_info.cons # 0
    <3>1. /\ dc_info.from \in 1..dc_at /\ Dc!Usable(dc_certs[dc_info.from])
          /\ dc_certs[dc_info.from].serial = dc_info.serial /\ dc_certs[dc_info.from].cons = dc_info.cons
          /\ \A i \in 1..dc_at : Dc!Usable(dc_certs[i]) => Dc!Better(dc_certs[dc_info.from], dc_certs[i])
      BY <2>5, Zenon DEF Dc!Inv, Dc!WalkSound
    <3>2. Dc!Usable(c) => Dc!Better(dc_certs[dc_info.from], c)
      <4>1. dc_certs[dc_info.from].serial \in Nat /\ dc_certs[dc_info.from].cons \in 1..2
        BY <1>7, <1>9, <3>1 DEF Dc!Usable
      <4>2. Dc!Usable(c) => c.serial \in Nat /\ c.cons \in 1..2
        BY <1>5, <1>9 DEF Dc!Usable
      <4> QED
        BY <2>3, <3>1, <4>1, <4>2 DEF Dc!Better
    <3>3. \A i \in 1..dc_at' : Dc!Usable(dc_certs[i]) => Dc!Better(dc_certs[dc_info.from], dc_certs[i])
      BY <1>4, <3>1, <3>2 DEF c
    <3>4. dc_info.from \in 1..dc_at'
      BY <1>4, <3>1
    <3>5. \A i \in 1..dc_at' : Dc!Usable(dc_certs[i])' <=> Dc!Usable(dc_certs[i])
      BY <1>1, Zenon DEF Dc!Usable
    <3>6. Dc!WalkSound'
      BY <1>1, <1>4, <2>1, <2>5, <3>1, <3>3, <3>4, <3>5, Zenon DEF Dc!WalkSound, Dc!Better
    <3> QED
      BY <1>2, <2>2, <3>6, Zenon DEF Dc!Inv
  <2> QED
    BY <2>4, <2>5
<1>11. CASE ~Dc!skipped(c)
  <2>1. /\ dc_info'.serial = c.serial /\ dc_info'.cons = c.cons /\ dc_info'.from = dc_at + 1
    BY <1>1, <1>11
  <2>2. Dc!Usable(c) /\ c # Dc!Bad
    BY <1>6, <1>11 DEF Dc!skipped, Dc!Usable
  <2>3. c.serial \in DcSerials /\ c.serial \in Nat /\ c.cons \in 1..2 /\ dc_info.serial \in Nat
    <3>1. c.serial \in DcSerials
      BY <1>6, <2>2
    <3>2. c.serial \in Nat /\ c.cons \in 1..2
      BY <1>5, <1>9, <2>2
    <3>3. dc_info.serial \in Nat
      <4>1. DcSerials \cup {0} \subseteq Nat
        BY DEF Dc!DcCertConstants
      <4> QED
        BY <1>8, <4>1, Zenon
    <3> QED
      BY <3>1, <3>2, <3>3
  <2>4. Dc!TypeOK'
    <3>1. dc_info'.serial \in DcSerials \cup {0} /\ dc_info'.cons \in 0..2 /\ dc_info'.from \in 0..DcMaxCerts
      BY <1>4, <2>1, <2>3
    <3>2. dc_at' \in 0..DcMaxCerts
      BY <1>1, <1>4
    <3> QED
      BY <1>1, <3>1, <3>2, Zenon DEF Dc!Inv, Dc!TypeOK
  <2>5. c.serial > dc_info.serial \/ (c.serial = dc_info.serial /\ c.cons >= dc_info.cons)
    BY <1>8, <1>11, <2>3 DEF Dc!skipped
  <2>6. \A i \in 1..dc_at : Dc!Usable(dc_certs[i]) => Dc!Better(c, dc_certs[i])
    <3>1. CASE dc_info.cons = 0
      BY <3>1, Zenon DEF Dc!Inv, Dc!WalkSound
    <3>2. CASE dc_info.cons # 0
      <4> SUFFICES ASSUME NEW i \in 1..dc_at, Dc!Usable(dc_certs[i]) PROVE Dc!Better(c, dc_certs[i])
        OBVIOUS
      <4>1. /\ Dc!Better(dc_certs[dc_info.from], dc_certs[i])
            /\ dc_certs[dc_info.from].serial = dc_info.serial /\ dc_certs[dc_info.from].cons = dc_info.cons
        BY <3>2, Zenon DEF Dc!Inv, Dc!WalkSound
      <4>2. dc_certs[i].serial \in Nat /\ dc_certs[i].cons \in 1..2
        BY <1>7, <1>9 DEF Dc!Usable
      <4> QED
        BY <1>8, <2>3, <2>5, <4>1, <4>2 DEF Dc!Better
    <3> QED
      BY <3>1, <3>2
  <2>7. Dc!Better(c, c)
    BY <2>3 DEF Dc!Better
  <2>8. \A i \in 1..dc_at' : Dc!Usable(dc_certs[i]) => Dc!Better(c, dc_certs[i])
    BY <1>4, <2>6, <2>7 DEF c
  <2>9. \A i \in 1..Len(dc_certs) : Dc!Usable(dc_certs[i])' <=> Dc!Usable(dc_certs[i])
    BY <1>1, Zenon DEF Dc!Usable
  <2>10. Dc!WalkSound'
    <3>1. dc_info'.from \in 1..dc_at' /\ dc_info'.cons # 0 /\ dc_certs'[dc_info'.from] = c
      BY <1>1, <1>4, <2>1, <2>3 DEF c
    <3>2. Dc!Usable(dc_certs[dc_info.from])'
      BY <1>1, <2>2, <3>1, Zenon DEF Dc!Usable
    <3>3. \A i \in 1..dc_at' : Dc!Usable(dc_certs[i])' => Dc!Better(c, dc_certs'[i])
      BY <1>1, <2>8, Zenon DEF Dc!Usable
    <3>4. \A i \in 1..dc_at' : Dc!Usable(dc_certs[i])' => Dc!Better(dc_certs[dc_info.from], dc_certs[i])'
      BY <3>1, <3>3, Zenon DEF Dc!Better
    <3>5. dc_certs'[dc_info'.from].serial = dc_info'.serial /\ dc_certs'[dc_info'.from].cons = dc_info'.cons
      BY <2>1, <3>1
    <3> QED
      BY <1>1, <1>4, <3>1, <3>2, <3>4, <3>5, Zenon DEF Dc!WalkSound
  <2> QED
    BY <1>2, <2>4, <2>10, Zenon DEF Dc!Inv
<1> QED
  BY <1>10, <1>11

\* The walk ends.
LEMMA DcWalkEndsInv == ASSUME Dc!DcCertConstants, Dc!Inv, Dc!walkEnds PROVE Dc!Inv'
<1>1. /\ dc_main = "walk" /\ dc_at = Len(dc_certs) /\ dc_main' = IF dc_info.cons = 0 THEN "nocert" ELSE "found"
      /\ UNCHANGED <<dc_att, dc_got, dc_best, dc_cancelled, dc_timedout, dc_certs, dc_at, dc_info, dc_ignoreTs>>
  BY Zenon DEF Dc!walkEnds
<1>2. Dc!TypeOK' /\ dc_certs' \in Dc!Answers
  BY <1>1, Zenon DEF Dc!Inv, Dc!TypeOK
<1>3. Dc!ExchangeSound'
  BY <1>1 DEF Dc!Inv, Dc!ExchangeSound, Dc!Gone
<1>4. Dc!WalkSound'
  BY <1>1 DEF Dc!Inv, Dc!WalkSound, Dc!Usable
<1> QED
  BY <1>2, <1>3, <1>4, Zenon DEF Dc!Inv

\* dnscrypt/certs.go: until an answer comes no attempt is cancelled and each one that
\* is gone is counted; the walk holds the best of the usable certificates it passed.
THEOREM DcFetchIsSound == ASSUME Dc!DcCertConstants PROVE Dc!Spec => []Dc!Inv
<1>1. Dc!Init => Dc!Inv
  <2> SUFFICES ASSUME Dc!Init PROVE Dc!Inv
    OBVIOUS
  <2>1. Dc!Cardinality(DcAttempts) \in Nat /\ 0 \in 0..DcMaxCerts /\ 0 \in 0..0 /\ 1..0 = {}
    BY DcAttemptsAreCounted DEF Dc!DcCertConstants
  <2>2. Dc!TypeOK
    <3>1. [pc |-> "sleep", rtt |-> 0] \in Dc!Attempt
      BY DEF Dc!Attempt
    <3>2. dc_att \in [DcAttempts -> Dc!Attempt]
      BY <3>1 DEF Dc!Init
    <3>3. dc_info.serial \in DcSerials \cup {0} /\ dc_info.cons \in 0..2 /\ dc_info.from \in 0..DcMaxCerts
      BY <2>1 DEF Dc!Init, Dc!None
    <3>4. dc_got \in 0..Dc!Cardinality(DcAttempts) /\ dc_at \in 0..DcMaxCerts /\ dc_best \in DcRtts \cup {0}
      BY <2>1 DEF Dc!Init
    <3> QED
      BY <3>2, <3>3, <3>4, Zenon DEF Dc!Init, Dc!TypeOK
  <2>3. dc_certs \in Dc!Answers /\ Len(dc_certs) = 0
    <3>1. << >> \in [1..0 -> Dc!Cert]
      OBVIOUS
    <3> QED
      BY <2>1, <3>1 DEF Dc!Init, Dc!Answers
  <2>4. Dc!Gone = {}
    BY DEF Dc!Init, Dc!Gone
  <2>5. Dc!ExchangeSound
    BY <2>4, FS_EmptySet, DcCounts DEF Dc!Init, Dc!ExchangeSound
  <2>6. Dc!WalkSound
    BY <2>1, <2>3 DEF Dc!Init, Dc!WalkSound, Dc!None
  <2> QED
    BY <2>2, <2>3, <2>5, <2>6, Zenon DEF Dc!Inv
<1>2. Dc!Inv /\ [Dc!Next]_(Dc!vars) => Dc!Inv'
  <2> SUFFICES ASSUME Dc!Inv, [Dc!Next]_(Dc!vars) PROVE Dc!Inv'
    OBVIOUS
  <2>1. CASE UNCHANGED (Dc!vars)
    BY <2>1, Zenon DEF Dc!vars, Dc!Inv, Dc!TypeOK, Dc!ExchangeSound, Dc!Gone, Dc!WalkSound, Dc!Usable
  <2>2. CASE Dc!Next
    BY <2>2, DcExchangeInv, DcExchangeEndsInv, DcWalkInv, DcWalkEndsInv, Zenon DEF Dc!Next, Dc!mainStep
  <2> QED
    BY <2>1, <2>2
<1> QED
  BY <1>1, <1>2, PTL DEF Dc!Spec

\* What is kept is the best, and the exchange fails only if all attempts fail.
LEMMA DcFetchedIsBest == ASSUME Dc!DcCertConstants, Dc!Inv PROVE Dc!BestCertWins /\ Dc!FailsOnlyIfAllFail
<1>1. Dc!BestCertWins
  BY Zenon DEF Dc!Inv, Dc!WalkSound, Dc!BestCertWins
<1>2. Dc!FailsOnlyIfAllFail
  <2> SUFFICES ASSUME dc_main = "failed", ~dc_timedout
               PROVE  \A a \in DcAttempts : dc_att[a].pc = "gone" /\ dc_att[a].rtt = 0
    BY Zenon DEF Dc!FailsOnlyIfAllFail
  <2>1. dc_best = 0 /\ dc_got = Dc!Cardinality(DcAttempts) /\ dc_got = Dc!Cardinality(Dc!Gone)
        /\ \A a \in Dc!Gone : dc_att[a].rtt = 0
    BY Zenon DEF Dc!Inv, Dc!ExchangeSound
  <2>2. Dc!Gone \in SUBSET DcAttempts
    BY DEF Dc!Gone
  <2>3. Dc!Gone = DcAttempts
    BY <2>1, <2>2, DcAttemptsAreCounted, Zenon
  <2> QED
    BY <2>1, <2>3 DEF Dc!Gone
<1> QED
  BY <1>1, <1>2

-----------------------------------------------------------------------------
(* DNSCrypt: queries, while the relays change *)

VARIABLES dq_relUdp, dq_relTcp, dq_setting, dq_routes, dq_status, dq_q
dqVars == <<dq_relUdp, dq_relTcp, dq_setting, dq_routes, dq_status, dq_q>>
Dq == INSTANCE DcQuery WITH
    Queries <- DqQueries, MaxRoutes <- DqMaxRoutes, MaxUdpTries <- DqMaxUdpTries,
    relUdp <- dq_relUdp, relTcp <- dq_relTcp, setting <- dq_setting, routes <- dq_routes,
    status <- dq_status, q <- dq_q

\* A step of one query that leaves it sound.
LEMMA DqAsking ==
    ASSUME Dq!Inv, NEW i \in DqQueries, NEW r, Dq!AskedSound(r), dq_q' = [dq_q EXCEPT ![i] = r],
           UNCHANGED <<dq_relUdp, dq_relTcp, dq_setting, dq_routes>>, dq_status' \in {"up", "end"}
    PROVE  Dq!Inv'
<1>1. \A j \in DqQueries : dq_q'[j] = IF j = i THEN r ELSE dq_q[j]
  BY Zenon DEF Dq!Inv
<1>2. dq_q' \in [DqQueries -> Dq!Asked]
  BY Zenon DEF Dq!Inv, Dq!AskedSound
<1> QED
  BY <1>1, <1>2, Zenon DEF Dq!Inv

\* A result is told once, when the query is stored.
LEMMA DqEnding ==
    ASSUME Dq!Inv, NEW i \in DqQueries, NEW x \in Dq!Results \ {"none", "whole"}, Dq!end(i, x), Dq!unchangedServer
    PROVE  Dq!Inv'
<1> DEFINE r == [dq_q[i] EXCEPT !.pc = "store", !.res = x]
<1>1. Dq!AskedSound(dq_q[i])
  BY Zenon DEF Dq!Inv
<1>2. Dq!AskedSound(r)
  BY <1>1 DEF Dq!AskedSound, Dq!Asked, Dq!Results
<1>3. dq_q' = [dq_q EXCEPT ![i] = r]
  BY Zenon DEF Dq!end
<1>4. UNCHANGED <<dq_relUdp, dq_relTcp, dq_setting, dq_routes>> /\ dq_status' \in {"up", "end"}
  BY Zenon DEF Dq!unchangedServer, Dq!Inv
<1> HIDE DEF r
<1> QED
  BY <1>2, <1>3, <1>4, DqAsking, Zenon

\* A step of a query.
LEMMA DqStepInv ==
    ASSUME Dq!DcQueryConstants, Dq!Inv, NEW i \in DqQueries, Dq!step(i)
    PROVE  Dq!Inv'
<1>1. Dq!AskedSound(dq_q[i]) /\ dq_q[i] \in Dq!Asked
  BY Zenon DEF Dq!Inv, Dq!AskedSound
<1>2. dq_status \in {"up", "end"} /\ dq_relTcp \in BOOLEAN /\ dq_relUdp \in BOOLEAN
  BY Zenon DEF Dq!Inv
<1>3. ASSUME NEW r, Dq!AskedSound(r), dq_q' = [dq_q EXCEPT ![i] = r], Dq!unchangedServer
      PROVE  Dq!Inv'
  <2>1. UNCHANGED <<dq_relUdp, dq_relTcp, dq_setting, dq_routes>> /\ dq_status' \in {"up", "end"}
    BY <1>2, <1>3, Zenon DEF Dq!unchangedServer
  <2> QED
    BY <1>3, <2>1, DqAsking, Zenon
<1>4. CASE Dq!handleRequest(i)
  <2>1. CASE Dq!go(i, "rtcp")
    <3> DEFINE r == [dq_q[i] EXCEPT !.pc = "rtcp"]
    <3>1. Dq!AskedSound(r)
      BY <1>1, <1>4 DEF Dq!AskedSound, Dq!Asked, Dq!handleRequest
    <3>2. dq_q' = [dq_q EXCEPT ![i] = r] /\ Dq!unchangedServer
      BY <1>4, <2>1, Zenon DEF Dq!go, Dq!handleRequest
    <3> QED
      BY <1>3, <3>1, <3>2, Zenon
  <2>2. CASE Dq!end(i, "synth") \/ Dq!end(i, "ended")
    <3>1. "synth" \in Dq!Results \ {"none", "whole"} /\ "ended" \in Dq!Results \ {"none", "whole"}
      BY DEF Dq!Results
    <3> QED
      BY <1>4, <2>2, <3>1, DqEnding, Zenon DEF Dq!handleRequest
  <2> QED
    BY <1>4, <2>1, <2>2, Zenon DEF Dq!handleRequest
<1>5. CASE Dq!loadTcp(i)
  <2> DEFINE r == [dq_q[i] EXCEPT !.pc = "rudp", !.rtcp = dq_relTcp]
  <2>1. Dq!AskedSound(r)
    BY <1>1, <1>2, <1>5 DEF Dq!AskedSound, Dq!Asked, Dq!loadTcp
  <2>2. dq_q' = [dq_q EXCEPT ![i] = r] /\ Dq!unchangedServer
    BY <1>5, Zenon DEF Dq!loadTcp
  <2> QED
    BY <1>3, <2>1, <2>2, Zenon
<1>6. CASE Dq!loadUdp(i)
  <2> DEFINE r == [dq_q[i] EXCEPT !.pc = "seal", !.rudp = dq_relUdp]
  <2>1. Dq!AskedSound(r)
    BY <1>1, <1>2, <1>6 DEF Dq!AskedSound, Dq!Asked, Dq!loadUdp
  <2>2. dq_q' = [dq_q EXCEPT ![i] = r] /\ Dq!unchangedServer
    BY <1>6, Zenon DEF Dq!loadUdp
  <2> QED
    BY <1>3, <2>1, <2>2, Zenon
<1>7. CASE Dq!encrypt(i)
  <2>1. CASE Dq!end(i, "toolarge")
    <3>1. "toolarge" \in Dq!Results \ {"none", "whole"}
      BY DEF Dq!Results
    <3> QED
      BY <1>7, <2>1, <3>1, DqEnding, Zenon DEF Dq!encrypt
  <2>2. ASSUME NEW p \in {"udp", "tcp"}, Dq!go(i, p)
        PROVE  Dq!Inv'
    <3> DEFINE r == [dq_q[i] EXCEPT !.pc = p]
    <3>1. Dq!AskedSound(r)
      BY <1>1, <1>7 DEF Dq!AskedSound, Dq!Asked, Dq!encrypt
    <3>2. dq_q' = [dq_q EXCEPT ![i] = r] /\ Dq!unchangedServer
      BY <1>7, <2>2, Zenon DEF Dq!go, Dq!encrypt
    <3> QED
      BY <1>3, <3>1, <3>2, Zenon
  <2> QED
    BY <1>7, <2>1, <2>2, Zenon DEF Dq!encrypt
<1>8. CASE Dq!udpExchange(i)
  <2> DEFINE r == [dq_q[i] EXCEPT !.left = @ - 1]
  <2>1. /\ r \in Dq!Asked /\ r.pc = "udp" /\ r.res = "none" /\ r.left \in Nat
    BY <1>1, <1>8 DEF Dq!AskedSound, Dq!Asked, Dq!udpExchange, Dq!DcQueryConstants
  <2>2. PICK v : /\ dq_q' = [dq_q EXCEPT ![i] = v]
                 /\ \/ \E s \in {"small", "large"} : v = [r EXCEPT !.pc = "open", !.size = s]
                    \/ v = r /\ r.left # 0
                    \/ v = [r EXCEPT !.pc = "tcp"]
    BY <1>8, Zenon DEF Dq!udpExchange
  <2> HIDE DEF r
  <2>3. Dq!AskedSound(v)
    <3>1. CASE v = r /\ r.left # 0
      <4>1. r.left > 0
        BY <2>1, <3>1
      <4> QED
        BY <2>1, <3>1, <4>1, Zenon DEF Dq!AskedSound
    <3>2. CASE v = [r EXCEPT !.pc = "tcp"]
      BY <2>1, <3>2 DEF Dq!AskedSound, Dq!Asked
    <3>3. ASSUME NEW s \in {"small", "large"}, v = [r EXCEPT !.pc = "open", !.size = s]
          PROVE  Dq!AskedSound(v)
      BY <2>1, <3>3 DEF Dq!AskedSound, Dq!Asked
    <3> QED
      BY <2>2, <3>1, <3>2, <3>3, Zenon
  <2>4. Dq!unchangedServer
    BY <1>8, Zenon DEF Dq!udpExchange
  <2> QED
    BY <1>3, <2>2, <2>3, <2>4, Zenon
<1>9. CASE Dq!tcpExchange(i)
  <2>1. CASE dq_q' = [dq_q EXCEPT ![i].pc = "store", ![i].res = "failed"]
    <3>1. "failed" \in Dq!Results \ {"none", "whole"} /\ Dq!end(i, "failed")
      BY <2>1 DEF Dq!Results, Dq!end
    <3> QED
      BY <1>9, <3>1, DqEnding, Zenon DEF Dq!tcpExchange
  <2>2. ASSUME NEW s \in {"small", "large"}, dq_q' = [dq_q EXCEPT ![i].pc = "open", ![i].size = s]
        PROVE  Dq!Inv'
    <3> DEFINE r == [dq_q[i] EXCEPT !.pc = "open", !.size = s]
    <3>1. Dq!AskedSound(r)
      BY <1>1, <1>9 DEF Dq!AskedSound, Dq!Asked, Dq!tcpExchange
    <3>2. dq_q' = [dq_q EXCEPT ![i] = r] /\ Dq!unchangedServer
      BY <1>9, <2>2, Zenon DEF Dq!tcpExchange
    <3> QED
      BY <1>3, <3>1, <3>2, Zenon
  <2> QED
    BY <1>9, <2>1, <2>2, Zenon DEF Dq!tcpExchange
<1>10. CASE Dq!handleResponse(i)
  <2>1. ASSUME NEW x \in {"truncated", "bad"}, Dq!end(i, x)
        PROVE  Dq!Inv'
    <3>1. x \in Dq!Results \ {"none", "whole"}
      BY DEF Dq!Results
    <3> QED
      BY <1>10, <2>1, <3>1, DqEnding, Zenon DEF Dq!handleResponse
  <2>2. CASE Dq!end(i, "whole") /\ ~Dq!truncate(dq_q[i])
    <3> DEFINE r == [dq_q[i] EXCEPT !.pc = "store", !.res = "whole"]
    <3>1. Dq!AskedSound(r)
      BY <1>1, <1>10, <2>2 DEF Dq!AskedSound, Dq!Asked, Dq!Results, Dq!handleResponse, Dq!truncate
    <3>2. dq_q' = [dq_q EXCEPT ![i] = r] /\ Dq!unchangedServer
      BY <1>10, <2>2, Zenon DEF Dq!end, Dq!handleResponse
    <3> QED
      BY <1>3, <3>1, <3>2, Zenon
  <2> QED
    BY <1>10, <2>1, <2>2, Zenon DEF Dq!handleResponse
<1>11. CASE Dq!storeStatus(i)
  <2> DEFINE r == [dq_q[i] EXCEPT !.pc = "done"]
  <2>1. Dq!AskedSound(r)
    BY <1>1, <1>11 DEF Dq!AskedSound, Dq!Asked, Dq!storeStatus
  <2>2. dq_q' = [dq_q EXCEPT ![i] = r]
    BY <1>11, Zenon DEF Dq!storeStatus, Dq!go
  <2>3. UNCHANGED <<dq_relUdp, dq_relTcp, dq_setting, dq_routes>> /\ dq_status' \in {"up", "end"}
    BY <1>11, Zenon DEF Dq!storeStatus
  <2> QED
    BY <2>1, <2>2, <2>3, DqAsking, Zenon
<1> QED
  BY <1>4, <1>5, <1>6, <1>7, <1>8, <1>9, <1>10, <1>11, Zenon DEF Dq!step

\* dnscrypt/multiserver.go: a query has a result only once it is over, and what goes
\* whole to a UDP client is small, by whichever of UDP and TCP it was fetched.
THEOREM DqQueriesAreSound == ASSUME Dq!DcQueryConstants PROVE Dq!Spec => []Dq!Inv
<1>1. Dq!Init => Dq!Inv
  <2>1. ASSUME NEW r \in Dq!New PROVE Dq!AskedSound(r)
    <3>1. DqMaxUdpTries \in 0..DqMaxUdpTries /\ DqMaxUdpTries > 0
      BY DEF Dq!DcQueryConstants
    <3>2. "none" \in Dq!Results
      BY Zenon DEF Dq!Results
    <3>3. r.pc = "new" /\ r.left = DqMaxUdpTries /\ r.size = "none" /\ r.res = "none"
      BY DEF Dq!New
    <3>4. r \in Dq!Asked
      BY <3>1, <3>2 DEF Dq!New, Dq!Asked
    <3> QED
      BY <3>1, <3>3, <3>4, Zenon DEF Dq!AskedSound
  <2>2. 0 \in 0..DqMaxRoutes
    BY DEF Dq!DcQueryConstants
  <2>3. \A r \in Dq!New : r \in Dq!Asked
    BY <2>1, Zenon DEF Dq!AskedSound
  <2> QED
    BY <2>1, <2>2, <2>3 DEF Dq!Init, Dq!Inv
<1>2. Dq!Inv /\ [Dq!Next]_(Dq!vars) => Dq!Inv'
  <2> SUFFICES ASSUME Dq!Inv, [Dq!Next]_(Dq!vars) PROVE Dq!Inv'
    OBVIOUS
  <2>1. CASE Dq!setUdpRelays \/ Dq!setTcpRelays \/ Dq!Stop
    <3>1. dq_q' = dq_q
      BY <2>1, Zenon DEF Dq!setUdpRelays, Dq!setTcpRelays, Dq!Stop
    <3>2. /\ dq_relUdp' \in BOOLEAN /\ dq_relTcp' \in BOOLEAN /\ dq_status' \in {"up", "end"}
          /\ dq_setting' \in {"none", "on", "off"}
      BY <2>1, Zenon DEF Dq!setUdpRelays, Dq!setTcpRelays, Dq!Stop, Dq!Inv
    <3>3. dq_routes' \in 0..DqMaxRoutes
      BY <2>1 DEF Dq!setUdpRelays, Dq!setTcpRelays, Dq!Stop, Dq!Inv, Dq!DcQueryConstants
    <3> QED
      BY <3>1, <3>2, <3>3, Zenon DEF Dq!Inv
  <2>2. CASE UNCHANGED (Dq!vars)
    BY <2>2, Zenon DEF Dq!vars, Dq!Inv
  <2> QED
    BY <2>1, <2>2, DqStepInv, Zenon DEF Dq!Next
<1> QED
  BY <1>1, <1>2, PTL DEF Dq!Spec

\* What the client gets fits it.
LEMMA DqAskedFits == Dq!Inv => Dq!TypeOK /\ Dq!AnswerFitsClient
<1>1. ASSUME Dq!Inv, NEW i \in DqQueries
      PROVE  /\ dq_q[i].pc \in {"new", "rtcp", "rudp", "seal", "udp", "tcp", "open", "store", "done"}
             /\ dq_q[i].left \in 0..DqMaxUdpTries
             /\ dq_q[i].size \in {"none", "small", "large"}
             /\ dq_q[i].res \in Dq!Results
             /\ dq_q[i].udp /\ dq_q[i].res = "whole" => dq_q[i].size = "small"
  <2>1. Dq!AskedSound(dq_q[i])
    BY <1>1, Zenon DEF Dq!Inv
  <2> QED
    BY <2>1 DEF Dq!AskedSound, Dq!Asked
<1> QED
  BY <1>1, Zenon DEF Dq!Inv, Dq!TypeOK, Dq!AnswerFitsClient, Dq!Results

-----------------------------------------------------------------------------
(* ODoH: queries, and a target that replaces its key *)

VARIABLES od_key, od_cfg, od_exp, od_preferWK, od_q, od_now
odVars == <<od_key, od_cfg, od_exp, od_preferWK, od_q, od_now>>
Od == INSTANCE Odoh WITH
    Threads <- OdThreads, MaxKey <- OdMaxKey, MaxNow <- OdMaxNow, Ttl <- OdTtl,
    key <- od_key, cfg <- od_cfg, exp <- od_exp, preferWK <- od_preferWK, q <- od_q,
    now <- od_now

\* The step of a query keeps the types, and seals only to a key.
LEMMA OdQueryInv ==
    ASSUME Od!OdohConstants, Od!Inv, NEW t \in OdThreads, Od!queryNext(t)
    PROVE  Od!Inv'
<1>1. /\ od_q \in [OdThreads -> Od!Query] /\ od_q[t] \in Od!Query
      /\ od_key \in Od!Keys /\ od_cfg \in Od!Keys \cup {Nil} /\ od_exp \in 0..(OdMaxNow + OdTtl)
      /\ od_preferWK \in BOOLEAN /\ od_now \in 0..OdMaxNow
      /\ \A u \in OdThreads : od_q[u].pc = "send" => od_q[u].key # Nil
  BY Zenon DEF Od!Inv, Od!TypeOK, Od!SealedToAKey
<1>2. 0 \in 0..(OdMaxNow + OdTtl) /\ od_now \in 0..(OdMaxNow + OdTtl) /\ od_now + OdTtl \in 0..(OdMaxNow + OdTtl)
      /\ 0 \in 0..1 /\ 1 \in 0..1
  BY <1>1 DEF Od!OdohConstants
<1>3. \A r \in {"answer", "servfail", "internal"} : [Od!Idle EXCEPT !.res = r] \in Od!Query
                                                   /\ [Od!Idle EXCEPT !.res = r].pc = "idle"
  BY <1>2 DEF Od!Idle, Od!Query
<1> DEFINE Kept == od_key' \in Od!Keys /\ od_cfg' \in Od!Keys \cup {Nil} /\ od_exp' \in 0..(OdMaxNow + OdTtl)
                   /\ od_preferWK' \in BOOLEAN /\ od_now' \in 0..OdMaxNow
<1>4. ASSUME NEW r \in Od!Query, od_q' = [od_q EXCEPT ![t] = r], r.pc = "send" => r.key # Nil, Kept
      PROVE  Od!Inv'
  <2>1. od_q' \in [OdThreads -> Od!Query]
    BY <1>1, <1>4, Zenon
  <2>2. \A u \in OdThreads : od_q'[u] = IF u = t THEN r ELSE od_q[u]
    BY <1>1, <1>4, Zenon
  <2> QED
    BY <1>1, <1>4, <2>1, <2>2, Zenon DEF Od!Inv, Od!TypeOK, Od!SealedToAKey
<1>5. ASSUME NEW r \in {"answer", "servfail", "internal"}, Od!End(t, r), Kept
      PROVE  Od!Inv'
  <2>1. [Od!Idle EXCEPT !.res = r] \in Od!Query /\ [Od!Idle EXCEPT !.res = r].pc # "send"
    BY <1>3
  <2> QED
    BY <1>4, <1>5, <2>1, Zenon DEF Od!End
<1>6. CASE Od!fetchTargetConfig(t)
  <2> DEFINE r == [Od!Idle EXCEPT !.pc = IF od_cfg # Nil /\ od_now < od_exp THEN "cached" ELSE "refresh"]
  <2>1. r \in Od!Query /\ r.pc # "send"
    BY <1>2 DEF Od!Idle, Od!Query
  <2>2. od_q' = [od_q EXCEPT ![t] = r] /\ Kept
    BY <1>1, <1>6, Zenon DEF Od!fetchTargetConfig
  <2> QED
    BY <1>4, <2>1, <2>2, Zenon
<1>7. CASE Od!cached(t)
  <2> DEFINE r == [od_q[t] EXCEPT !.pc = "build", !.key = od_cfg]
  <2>1. r \in Od!Query /\ r.pc # "send"
    BY <1>1 DEF Od!Query
  <2>2. od_q' = [od_q EXCEPT ![t] = r] /\ Kept
    BY <1>1, <1>7, Zenon DEF Od!cached
  <2> QED
    BY <1>4, <2>1, <2>2, Zenon
<1>8. CASE Od!refreshOk(t)
  <2> DEFINE r == [od_q[t] EXCEPT !.pc = "keep", !.key = od_key, !.exp = od_now + OdTtl, !.tried = 0]
  <2>1. r \in Od!Query /\ r.pc # "send"
    BY <1>1, <1>2 DEF Od!Query
  <2>2. od_q' = [od_q EXCEPT ![t] = r] /\ Kept
    BY <1>1, <1>8, Zenon DEF Od!refreshOk
  <2> QED
    BY <1>4, <2>1, <2>2, Zenon
<1>9. CASE Od!refreshFails(t)
  <2>1. CASE od_q[t].tried = 0
    <3> DEFINE r == [od_q[t] EXCEPT !.tried = 1]
    <3>1. r \in Od!Query /\ r.pc # "send"
      BY <1>1, <1>2, <1>9 DEF Od!Query, Od!refreshFails
    <3>2. od_q' = [od_q EXCEPT ![t] = r] /\ od_preferWK' = ~od_preferWK /\ UNCHANGED <<od_key, od_cfg, od_exp, od_now>>
      BY <1>9, <2>1, Zenon DEF Od!refreshFails
    <3>3. Kept
      BY <1>1, <3>2
    <3> QED
      BY <1>4, <3>1, <3>2, <3>3, Zenon
  <2>2. CASE od_q[t].tried # 0
    <3> DEFINE r == [od_q[t] EXCEPT !.pc = "keep", !.tried = 0]
    <3>1. r \in Od!Query /\ r.pc # "send"
      BY <1>1, <1>2 DEF Od!Query
    <3>2. od_q' = [od_q EXCEPT ![t] = r] /\ Kept
      BY <1>1, <1>9, <2>2, Zenon DEF Od!refreshFails
    <3> QED
      BY <1>4, <3>1, <3>2, Zenon
  <2> QED
    BY <2>1, <2>2
<1>10. CASE Od!keep(t)
  <2>1. od_cfg' \in Od!Keys \cup {Nil} /\ od_exp' \in 0..(OdMaxNow + OdTtl)
    BY <1>1, <1>10 DEF Od!keep, Od!Query
  <2>2. Kept
    BY <1>1, <1>10, <2>1, Zenon DEF Od!keep
  <2>3. CASE od_q[t].key = Nil
    BY <1>5, <1>10, <2>2, <2>3, Zenon DEF Od!keep
  <2>4. CASE od_q[t].key # Nil
    <3> DEFINE r == [od_q[t] EXCEPT !.pc = "build", !.exp = 0]
    <3>1. r \in Od!Query /\ r.pc # "send"
      BY <1>1, <1>2 DEF Od!Query
    <3>2. od_q' = [od_q EXCEPT ![t] = r]
      BY <1>10, <2>4, Zenon DEF Od!keep
    <3> QED
      BY <1>4, <2>2, <3>1, <3>2, Zenon
  <2> QED
    BY <2>3, <2>4
<1>11. CASE Od!buildTargetQuery(t)
  <2>1. Kept
    BY <1>1, <1>11, Zenon DEF Od!buildTargetQuery
  <2>2. CASE od_q[t].key = Nil
    BY <1>5, <1>11, <2>1, <2>2, Zenon DEF Od!buildTargetQuery
  <2>3. CASE od_q[t].key # Nil
    <3> DEFINE r == [od_q[t] EXCEPT !.pc = "send"]
    <3>1. r \in Od!Query /\ r.key # Nil
      BY <1>1, <2>3 DEF Od!Query
    <3>2. od_q' = [od_q EXCEPT ![t] = r]
      BY <1>11, <2>3, Zenon DEF Od!buildTargetQuery
    <3> QED
      BY <1>4, <2>1, <3>1, <3>2, Zenon
  <2> QED
    BY <2>2, <2>3
<1>12. CASE Od!doOdoh(t)
  <2>1. Kept
    BY <1>1, <1>12, Zenon DEF Od!doOdoh
  <2>2. CASE od_q' = [od_q EXCEPT ![t].pc = "drop", ![t].key = Nil]
    <3> DEFINE r == [od_q[t] EXCEPT !.pc = "drop", !.key = Nil]
    <3>1. r \in Od!Query /\ r.pc # "send"
      BY <1>1 DEF Od!Query
    <3>2. od_q' = [od_q EXCEPT ![t] = r]
      BY <2>2, Zenon
    <3> QED
      BY <1>4, <2>1, <3>1, <3>2, Zenon
  <2> QED
    BY <1>5, <1>12, <2>1, <2>2, Zenon DEF Od!doOdoh
<1>13. CASE Od!dropConfig(t)
  <2>1. od_exp' \in 0..(OdMaxNow + OdTtl) /\ od_cfg' = Nil
    BY <1>2, <1>13 DEF Od!dropConfig
  <2>2. Kept
    BY <1>1, <1>13, <2>1, Zenon DEF Od!dropConfig
  <2> QED
    BY <1>5, <1>13, <2>2, Zenon DEF Od!dropConfig
<1> QED
  BY <1>6, <1>7, <1>8, <1>9, <1>10, <1>11, <1>12, <1>13, Zenon DEF Od!queryNext

\* doh/odoh.go: a query is sent sealed to a key, though another query may drop the
\* cached config between the refresh and the read of it.
LEMMA OdKeysAreSealedTo == ASSUME Od!OdohConstants PROVE Od!Spec => []Od!Inv
<1>1. Od!Init => Od!Inv
  <2>1. 1 \in Od!Keys /\ 0 \in 0..(OdMaxNow + OdTtl) /\ 0 \in 0..OdMaxNow /\ 0 \in 0..1
    BY DEF Od!OdohConstants, Od!Keys
  <2>2. Od!Idle \in Od!Query /\ Od!Idle.pc # "send"
    BY <2>1 DEF Od!Idle, Od!Query
  <2> QED
    BY <2>1, <2>2 DEF Od!Init, Od!Inv, Od!TypeOK, Od!SealedToAKey
<1>2. Od!Inv /\ [Od!Next]_(Od!vars) => Od!Inv'
  <2> SUFFICES ASSUME Od!Inv, [Od!Next]_(Od!vars) PROVE Od!Inv'
    OBVIOUS
  <2>1. CASE Od!rotate \/ Od!tick
    BY <2>1 DEF Od!rotate, Od!tick, Od!Inv, Od!TypeOK, Od!SealedToAKey, Od!OdohConstants, Od!Keys
  <2>2. CASE UNCHANGED (Od!vars)
    BY <2>2, Zenon DEF Od!vars, Od!Inv, Od!TypeOK, Od!SealedToAKey
  <2> QED
    BY <2>1, <2>2, OdQueryInv, Zenon DEF Od!Next
<1> QED
  BY <1>1, <1>2, PTL DEF Od!Spec

-----------------------------------------------------------------------------
(* the transports above, of which one runs *)

\* Queries keep coming and run, bodies being read to their end (no time limit of
\* doh.go makes them); a refused query is not for ever lost on the
\* way first, and the sources of the key do not fail for ever.
odFair == \A t \in OdThreads : /\ WF_odVars(On("od") /\ Od!queryNext(t))
                               /\ SF_odVars(On("od") /\ Od!refreshOk(t))
                               /\ SF_odVars(On("od") /\ (Od!doOdoh(t) /\ od_q'[t].pc # "idle"))

\* DNSCrypt runs twice: as "dm", a server that two calls add, remove and refresh,
\* without relays, and as "dr", with relays that come and go, one call at a time.
DmBound ==
    /\ On("dm") => dm_routes' = dm_routes /\ dm_rj'[2] = dm_rj[2]
    /\ On("dr") => dm_env' = dm_env /\ dm_thr'[2] = dm_thr[2]

\* The cycle, calls and their goroutines go on.
dmFair ==
    /\ WF_dmVars(On("dm") /\ Dm!cycleStep /\ DmBound)
    /\ \A t \in DmApis : WF_dmVars(On("dm") /\ Dm!step(t) /\ DmBound)
    /\ \A j \in DmRouteJobs :
         WF_dmVars(On("dm") /\ (Dm!route(j) \/ Dm!refreshRoutes(j)) /\ DmBound)
    /\ \A i \in DmIds : WF_dmVars(On("dm") /\ Dm!stopServer(i) /\ DmBound)

\* Attempts have timeouts, and so has the exchange.
dcFair == /\ WF_dcVars(On("dc") /\ Dc!mainStep)
          /\ \A a \in DcAttempts : WF_dcVars(On("dc") /\ Dc!attemptStep(a))

\* Exchanges have timeouts.
dqFair == \A i \in DqQueries : WF_dqVars(On("dq") /\ Dq!step(i))

\* Resolutions have timeouts.
mhFair == \A t \in MhRefreshers \cup MhBuilders : WF_mhVars(On("mh") /\ Mh!step(t))

TransportInit ==
    /\ Od!Init
    /\ Dm!Init /\ (part \notin {"dm", "dr"} => \A i \in DmIds : dm_cert[i] = "good")
    /\ Dc!Init /\ (part # "dc" => ~dc_ignoreTs)
    /\ Dq!Init /\ (part # "dq" => dq_q = CHOOSE x \in [DqQueries -> Dq!New] : TRUE)
    /\ Mh!Init

TransportNext ==
    /\ IF part = "od" THEN Od!Next ELSE UNCHANGED odVars
    /\ IF part \in {"dm", "dr"} THEN Dm!Next /\ DmBound ELSE UNCHANGED dmVars
    /\ IF part = "dc" THEN Dc!Next ELSE UNCHANGED dcVars
    /\ IF part = "dq" THEN Dq!Next ELSE UNCHANGED dqVars
    /\ IF part = "mh" THEN Mh!Next ELSE UNCHANGED mhVars

transportVars == <<odVars, dmVars, dcVars, dqVars, mhVars>>

TransportSpec == TransportInit /\ [][TransportNext]_transportVars

\* The constants are what the proofs take them for.
ASSUME OdC == Od!OdohConstants
ASSUME DmC == Dm!DcMultiConstants
ASSUME DcC == Dc!DcCertConstants
ASSUME DqC == Dq!DcQueryConstants
ASSUME MhC == Mh!MultiHostConstants

\* dnscrypt/certs.go, multiserver.go, doh/odoh.go: the best certificate is kept and
\* the exchange for it fails only if all attempts fail; an answer to a UDP client
\* fits UDP, however it was fetched; a query is sealed to a key, though another may
\* have dropped the cached one.
AnswersAreSound ==
    /\ On("dc") => Dc!BestCertWins /\ Dc!FailsOnlyIfAllFail
    /\ On("dq") => Dq!AnswerFitsClient
    /\ On("od") => Od!SealedToAKey

\* A behaviour of the whole is, for each component, a behaviour of its own
\* specification, in which it moves or stands still.
LEMMA TransportsAreTheirOwn ==
    TransportSpec => Od!Spec /\ Dc!Spec /\ Dq!Spec /\ Dm!Spec /\ Mh!Spec
<1>1. TransportInit => Od!Init /\ Dc!Init /\ Dq!Init /\ Dm!Init /\ Mh!Init
  BY Zenon DEF TransportInit
<1>2. [TransportNext]_transportVars => [Od!Next]_(Od!vars)
  BY Zenon DEF TransportNext, transportVars, odVars, Od!vars
<1>3. [TransportNext]_transportVars => [Dc!Next]_(Dc!vars)
  BY Zenon DEF TransportNext, transportVars, dcVars, Dc!vars
<1>4. [TransportNext]_transportVars => [Dq!Next]_(Dq!vars)
  BY Zenon DEF TransportNext, transportVars, dqVars, Dq!vars
<1>5. [TransportNext]_transportVars => [Dm!Next]_(Dm!vars)
  BY Zenon DEF TransportNext, transportVars, dmVars, Dm!vars
<1>6. [TransportNext]_transportVars => [Mh!Next]_(Mh!vars)
  BY Zenon DEF TransportNext, transportVars, mhVars, Mh!vars
<1> QED
  BY <1>1, <1>2, <1>3, <1>4, <1>5, <1>6, PTL
     DEF TransportSpec, Od!Spec, Dc!Spec, Dq!Spec, Dm!Spec, Mh!Spec

\* What the exchanges end with, for each of the transports.
LEMMA ExchangesAreSound == TransportSpec => []AnswersAreSound
<1>1. Dc!Spec => [](Dc!BestCertWins /\ Dc!FailsOnlyIfAllFail)
  <2>1. Dc!Spec => []Dc!Inv
    BY DcC, DcFetchIsSound, Zenon
  <2>2. Dc!Inv => Dc!BestCertWins /\ Dc!FailsOnlyIfAllFail
    BY DcC, DcFetchedIsBest, Zenon
  <2> QED
    BY <2>1, <2>2, PTL
<1>2. Dq!Spec => []Dq!AnswerFitsClient
  <2>1. Dq!Spec => []Dq!Inv
    BY DqC, DqQueriesAreSound, Zenon
  <2>2. Dq!Inv => Dq!AnswerFitsClient
    BY DqAskedFits, Zenon
  <2> QED
    BY <2>1, <2>2, PTL
<1>3. Od!Spec => []Od!SealedToAKey
  <2>1. Od!Spec => []Od!Inv
    BY OdC, OdKeysAreSealedTo, Zenon
  <2>2. Od!Inv => Od!SealedToAKey
    BY Zenon DEF Od!Inv
  <2> QED
    BY <2>1, <2>2, PTL
<1>4. /\ Dc!BestCertWins /\ Dc!FailsOnlyIfAllFail
      /\ Dq!AnswerFitsClient /\ Od!SealedToAKey
      => AnswersAreSound
  BY Zenon DEF AnswersAreSound
<1> QED
  BY <1>1, <1>2, <1>3, <1>4, TransportsAreTheirOwn, PTL

\* Servers and hosts have their place, whatever calls and refreshes race.
LEMMA BooksAreKept ==
    TransportSpec => [](Dm!NoServerLeak /\ Mh!NoHostIsLost /\ Mh!NoStaleAppend)
<1>1. Dm!Spec => []Dm!NoServerLeak
  <2>1. Dm!Spec => []Dm!Inv
    BY DmC, DmServersAreKept, Zenon
  <2>2. Dm!Inv => Dm!NoServerLeak
    BY Zenon DEF Dm!Inv
  <2> QED
    BY <2>1, <2>2, PTL
<1>2. Mh!Spec => [](Mh!NoHostIsLost /\ Mh!NoStaleAppend)
  <2>1. Mh!Spec => []Mh!Inv
    BY MhC, MhHostsAreKept, Zenon
  <2>2. Mh!Inv => Mh!NoHostIsLost /\ Mh!NoStaleAppend
    BY Zenon DEF Mh!Inv, Mh!NoHostIsLost
  <2> QED
    BY <2>1, <2>2, PTL
<1> QED
  BY <1>1, <1>2, TransportsAreTheirOwn, PTL

-----------------------------------------------------------------------------
(* DNS over TLS *)

\* DoT without a pool, with ECH and over a relay.
VARIABLES do_m, do_pool, do_conn, do_thr, do_wk, do_outer, do_now, do_scrubtime,
          do_ctxdone, do_status, do_relaySt, do_ech, do_echAt, do_asked, do_stopped
doVars == <<do_m, do_pool, do_conn, do_thr, do_wk, do_outer, do_now, do_scrubtime,
            do_ctxdone, do_status, do_relaySt, do_ech, do_echAt, do_asked, do_stopped>>
Do == INSTANCE Dot WITH
    Threads <- {1, 2}, Conns <- {"c1", "c2"}, Pools <- {1, 2}, Cap <- 1,
    MaxAttempts <- 1, MaxIdle <- 0, MaxNow <- 1, UsePool <- FALSE, UseEch <- TRUE,
    SysKinds <- {TRUE}, Relay <- TRUE, MaxQueries <- 2,
    m <- do_m, pool <- do_pool, conn <- do_conn, thr <- do_thr, wk <- do_wk,
    outer <- do_outer, now <- do_now, scrubtime <- do_scrubtime, ctxdone <- do_ctxdone,
    status <- do_status, relaySt <- do_relaySt, ech <- do_ech, echAt <- do_echAt,
    asked <- do_asked, stopped <- do_stopped

\* DoT with a pool of conns.
VARIABLES dp_m, dp_pool, dp_conn, dp_thr, dp_wk, dp_outer, dp_now, dp_scrubtime,
          dp_ctxdone, dp_status, dp_relaySt, dp_ech, dp_echAt, dp_asked, dp_stopped
dpVars == <<dp_m, dp_pool, dp_conn, dp_thr, dp_wk, dp_outer, dp_now, dp_scrubtime,
            dp_ctxdone, dp_status, dp_relaySt, dp_ech, dp_echAt, dp_asked, dp_stopped>>
Dp == INSTANCE Dot WITH
    Threads <- {1, 2}, Conns <- {"c1", "c2"}, Pools <- {1}, Cap <- 1, MaxAttempts <- 1,
    MaxIdle <- 0, MaxNow <- 0, UsePool <- TRUE, UseEch <- FALSE, SysKinds <- {TRUE},
    Relay <- FALSE, MaxQueries <- 2,
    m <- dp_m, pool <- dp_pool, conn <- dp_conn, thr <- dp_thr, wk <- dp_wk,
    outer <- dp_outer, now <- dp_now, scrubtime <- dp_scrubtime, ctxdone <- dp_ctxdone,
    status <- dp_status, relaySt <- dp_relaySt, ech <- dp_ech, echAt <- dp_echAt,
    asked <- dp_asked, stopped <- dp_stopped
\* Go runs every goroutine that can move; dials, fetches and exchanges are
\* bounded by timeouts, so each ends.
dpFair == \A t \in {1, 2} : /\ WF_dpVars(On("dp") /\ (Dp!step(t) \/ Dp!poolcall(t)))
                            /\ WF_dpVars(On("dp") /\ Dp!poolwork(t))

\* The pool while it is scrubbed.
VARIABLES ds_m, ds_pool, ds_conn, ds_thr, ds_wk, ds_outer, ds_now, ds_scrubtime,
          ds_ctxdone, ds_status, ds_relaySt, ds_ech, ds_echAt, ds_asked, ds_stopped
dsVars == <<ds_m, ds_pool, ds_conn, ds_thr, ds_wk, ds_outer, ds_now, ds_scrubtime,
            ds_ctxdone, ds_status, ds_relaySt, ds_ech, ds_echAt, ds_asked, ds_stopped>>
Ds == INSTANCE Dot WITH
    Threads <- {1}, Conns <- {"c1"}, Pools <- {1, 2}, Cap <- 1, MaxAttempts <- 1,
    MaxIdle <- 0, MaxNow <- 1, UsePool <- TRUE, UseEch <- FALSE, SysKinds <- {TRUE},
    Relay <- FALSE, MaxQueries <- 2,
    m <- ds_m, pool <- ds_pool, conn <- ds_conn, thr <- ds_thr, wk <- ds_wk,
    outer <- ds_outer, now <- ds_now, scrubtime <- ds_scrubtime, ctxdone <- ds_ctxdone,
    status <- ds_status, relaySt <- ds_relaySt, ech <- ds_ech, echAt <- ds_echAt,
    asked <- ds_asked, stopped <- ds_stopped

PoolInit ==
    /\ Do!Init
    /\ Dp!Init
    /\ Ds!Init

PoolNext ==
    /\ IF part = "do" THEN Do!Next ELSE UNCHANGED doVars
    /\ IF part = "dp" THEN Dp!Next ELSE UNCHANGED dpVars
    /\ IF part = "ds" THEN Ds!Next ELSE UNCHANGED dsVars

poolVars == <<doVars, dpVars, dsVars>>

PoolSpec == PoolInit /\ [][PoolNext]_poolVars

ASSUME DoC == Do!DotConstants
ASSUME DpC == Dp!DotConstants
ASSUME DsC == Ds!DotConstants

LEMMA PoolsAreTheirOwn == PoolSpec => Do!Spec /\ Dp!Spec /\ Ds!Spec
<1>1. PoolInit => Do!Init /\ Dp!Init /\ Ds!Init
  BY Zenon DEF PoolInit
<1>2. [PoolNext]_poolVars => [Do!Next]_(Do!vars)
  BY Zenon DEF PoolNext, poolVars, doVars, Do!vars, Do!poolvars
<1>3. [PoolNext]_poolVars => [Dp!Next]_(Dp!vars)
  BY Zenon DEF PoolNext, poolVars, dpVars, Dp!vars, Dp!poolvars
<1>4. [PoolNext]_poolVars => [Ds!Next]_(Ds!vars)
  BY Zenon DEF PoolNext, poolVars, dsVars, Ds!vars, Ds!poolvars
<1> QED
  BY <1>1, <1>2, <1>3, <1>4, PTL DEF PoolSpec, Do!Spec, Dp!Spec, Ds!Spec

\* Conns have one user, in each of the three.
LEMMA PoolsShareNothing == PoolSpec => [](Do!OneOwner /\ Dp!OneOwner /\ Ds!OneOwner)
<1>1. Do!Spec => []Do!OneOwner
  BY DoC, Do!ConnsHaveOneOwner, Zenon
<1>2. Dp!Spec => []Dp!OneOwner
  BY DpC, Dp!ConnsHaveOneOwner, Zenon
<1>3. Ds!Spec => []Ds!OneOwner
  BY DsC, Ds!ConnsHaveOneOwner, Zenon
<1> QED
  BY <1>1, <1>2, <1>3, PoolsAreTheirOwn, PTL

-----------------------------------------------------------------------------
(* DNS over HTTPS, and the whole *)

\* DoH over a relay: two queries at a time.
VARIABLES dh_px, dh_clients, dh_ech, dh_echlast, dh_usingIp, dh_iplast, dh_status,
          dh_lastpurge, dh_boot, dh_purge, dh_q, dh_now, dh_swaps, dh_started, dh_stops,
          dh_won
dhVars == <<dh_px, dh_clients, dh_ech, dh_echlast, dh_usingIp, dh_iplast, dh_status,
            dh_lastpurge, dh_boot, dh_purge, dh_q, dh_now, dh_swaps, dh_started,
            dh_stops, dh_won>>
Dh == INSTANCE Doh WITH
    Threads <- {1, 2}, Pids <- {"a"}, Relay <- "a", HasIp <- TRUE, RetryGap <- 1,
    MaxNow <- 1, MaxSwaps <- 0, MaxQueries <- 2, MaxStops <- 0,
    px <- dh_px, clients <- dh_clients, ech <- dh_ech, echlast <- dh_echlast,
    usingIp <- dh_usingIp, iplast <- dh_iplast, status <- dh_status,
    lastpurge <- dh_lastpurge, boot <- dh_boot, purge <- dh_purge, q <- dh_q,
    now <- dh_now, swaps <- dh_swaps, started <- dh_started, stops <- dh_stops,
    won <- dh_won

\* DoH with ECH: one query after another, as time passes.
VARIABLES de_px, de_clients, de_ech, de_echlast, de_usingIp, de_iplast, de_status,
          de_lastpurge, de_boot, de_purge, de_q, de_now, de_swaps, de_started, de_stops,
          de_won
deVars == <<de_px, de_clients, de_ech, de_echlast, de_usingIp, de_iplast, de_status,
            de_lastpurge, de_boot, de_purge, de_q, de_now, de_swaps, de_started,
            de_stops, de_won>>
De == INSTANCE Doh WITH
    Threads <- {1}, Pids <- {"a"}, Relay <- Nil, HasIp <- TRUE, RetryGap <- 1,
    MaxNow <- 2, MaxSwaps <- 0, MaxQueries <- 2, MaxStops <- 0,
    px <- de_px, clients <- de_clients, ech <- de_ech, echlast <- de_echlast,
    usingIp <- de_usingIp, iplast <- de_iplast, status <- de_status,
    lastpurge <- de_lastpurge, boot <- de_boot, purge <- de_purge, q <- de_q,
    now <- de_now, swaps <- de_swaps, started <- de_started, stops <- de_stops,
    won <- de_won
\* Dials, handshakes and the wait for a response's header have time limits of
\* the client's (doh.go:438-441); the read of its body has none, and is not fair.
deFair == /\ WF_deVars(On("de") /\ De!bootNext)
          /\ WF_deVars(On("de") /\ De!purgeNext)
          /\ WF_deVars(On("de") /\ De!queryNext(1))

\* The same, and a proxy that is replaced.
VARIABLES dw_px, dw_clients, dw_ech, dw_echlast, dw_usingIp, dw_iplast, dw_status,
          dw_lastpurge, dw_boot, dw_purge, dw_q, dw_now, dw_swaps, dw_started, dw_stops,
          dw_won
dwVars == <<dw_px, dw_clients, dw_ech, dw_echlast, dw_usingIp, dw_iplast, dw_status,
            dw_lastpurge, dw_boot, dw_purge, dw_q, dw_now, dw_swaps, dw_started,
            dw_stops, dw_won>>
Dw == INSTANCE Doh WITH
    Threads <- {1}, Pids <- {"a"}, Relay <- Nil, HasIp <- FALSE, RetryGap <- 1,
    MaxNow <- 1, MaxSwaps <- 1, MaxQueries <- 2, MaxStops <- 1,
    px <- dw_px, clients <- dw_clients, ech <- dw_ech, echlast <- dw_echlast,
    usingIp <- dw_usingIp, iplast <- dw_iplast, status <- dw_status,
    lastpurge <- dw_lastpurge, boot <- dw_boot, purge <- dw_purge, q <- dw_q,
    now <- dw_now, swaps <- dw_swaps, started <- dw_started, stops <- dw_stops,
    won <- dw_won

-----------------------------------------------------------------------------
\* The components that do not run stay in one initial state.
Init ==
    /\ part \in Parts /\ TransportInit /\ PoolInit
    /\ Dh!Init
    /\ De!Init
    /\ Dw!Init

Next ==
    /\ UNCHANGED part /\ TransportNext /\ PoolNext
    /\ IF part = "dh" THEN Dh!Next ELSE UNCHANGED dhVars
    /\ IF part = "de" THEN De!Next ELSE UNCHANGED deVars
    /\ IF part = "dw" THEN Dw!Next ELSE UNCHANGED dwVars

vars == <<part, transportVars, poolVars, dhVars, deVars, dwVars>>

Spec == Init /\ [][Next]_vars

-----------------------------------------------------------------------------
\* The type invariant of every component.
TypesOK ==
    /\ On("do") => Do!TypeOK
    /\ On("dp") => Dp!TypeOK
    /\ On("ds") => Ds!TypeOK
    /\ On("dh") => Dh!TypeOK
    /\ On("de") => De!TypeOK
    /\ On("dw") => Dw!TypeOK
    /\ On("od") => Od!TypeOK
    /\ On("dm") \/ On("dr") => Dm!TypeOK
    /\ On("dc") => Dc!TypeOK
    /\ On("dq") => Dq!TypeOK
    /\ On("mh") => Mh!TypeOK

\* What is shared has one owner.
\* - dns53/dot.go, core/connpool.go: a pooled conn is with one query or in the pool,
\*   and whoever holds it holds it open;
\* - dnscrypt/servers.go: every server made is in the map, or is stopped;
\* - ipn/multihost/: a host that two refreshes take out is put back, and no answer
\*   older than a reset comes back after it.
OneOwner ==
    /\ On("do") => Do!OneOwner
    /\ On("dp") => Dp!OneOwner
    /\ On("ds") => Ds!OneOwner
    /\ On("dm") \/ On("dr") => Dm!NoServerLeak
    /\ On("mh") => Mh!NoHostIsLost /\ Mh!NoStaleAppend

\* doh/doh.go:393 "re-enables the IP path at most once every [urlipRetryPeriod]",
\* though several queries find it due at once.
RecheckIsSpaced == Dh!RecheckIsSpaced /\ De!RecheckIsSpaced

\* Exchanges over pooled conns and DNSCrypt end, and those over HTTPS do up to the
\* read of the body, which has no time limit; queries drop a key that the
\* target has replaced; a registered DNSCrypt server comes alive; a host that a
\* refresh takes out comes back.
ExchangesEnd ==
    /\ (On("dp") /\ dpFair) => Dp!QueriesEnd
    /\ (On("de") /\ deFair) => De!QueriesEnd
    /\ (On("od") /\ odFair) => Od!OldKeyIsDropped
    /\ (On("dm") /\ dmFair) => Dm!RegisteredComesAlive
    /\ (On("dc") /\ dcFair) => Dc!ExchangeEnds
    /\ (On("dq") /\ dqFair) => Dq!QueriesEnd
    /\ (On("mh") /\ mhFair) => Mh!HostsComeBack

-----------------------------------------------------------------------------
(* the components side by side *)

\* A behaviour of the whole is a behaviour of each of the two groups above.
LEMMA GroupsAreTheirOwn == Spec => TransportSpec /\ PoolSpec
<1>1. Init => TransportInit /\ PoolInit
  BY Zenon DEF Init
<1>2. [Next]_vars => /\ [TransportNext]_transportVars
                     /\ [PoolNext]_poolVars
  BY Zenon DEF Next, vars
<1> QED
  BY <1>1, <1>2, PTL DEF Spec, TransportSpec, PoolSpec

(***************************************************************************)
(* Whatever queries, calls and refreshes race: a pooled conn has one user, *)
(* who has it open; each DNSCrypt server made is in the map or is stopped; *)
(* a host that a refresh took out of the map is put back, and no answer    *)
(* older than a reset is added after it.                                   *)
(***************************************************************************)
THEOREM OwnersStaySingle == Spec => []OneOwner
<1>1. /\ Do!OneOwner /\ Dp!OneOwner /\ Ds!OneOwner
      /\ Dm!NoServerLeak /\ Mh!NoHostIsLost /\ Mh!NoStaleAppend
      => OneOwner
  BY Zenon DEF OneOwner
<1> QED
  BY <1>1, GroupsAreTheirOwn, PoolsShareNothing, BooksAreKept, PTL

(***************************************************************************)
(* The best certificate is kept, and fetching it fails only if every       *)
(* attempt does; an answer to a UDP client fits UDP however it came; and   *)
(* a query is sealed to a key, though another may have dropped the cached  *)
(* one.                                                                    *)
(***************************************************************************)
THEOREM AnswersStaySound == Spec => []AnswersAreSound
  BY GroupsAreTheirOwn, ExchangesAreSound, PTL
=============================================================================
