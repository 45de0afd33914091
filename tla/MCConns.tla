------------------------------ MODULE MCConns -------------------------------
(***************************************************************************)
(* What tracks conns: the conn map (intra/core/connmap.go) and the muxers  *)
(* that make one UDP socket out of many flows (intra/udpmux.go), as a      *)
(* disjoint union of components. part says which one runs; the others stay *)
(* where they are. Fairness is stated per component, as the premise of     *)
(* what it promises to end.                                                *)
(***************************************************************************)
EXTENDS ConnMap, Sequences, FiniteSetTheorems, TLAPS

CONSTANTS
    Parts, Nil,
    Addrs, OneAddr, MuxConns, Egress, Reader, MaxTimeoutErrors,     \* of UdpMux
    Slots, Owners, Calls, Muxers, MaxResets, FirstOwner, OddCall,   \* of MuxTable
    Bufs, MaxSize, MaxInFlight, MaxOverflow                         \* of DemuxConn

-----------------------------------------------------------------------------
(* the conn map *)

\* The conns that are left when those of some flows are taken away are those of
\* the other flows.
LEMMA ConnsOfOthers ==
    ASSUME Owned, NEW D \in SUBSET Tracked
    PROVE  ConnsOf(Tracked) \ ConnsOf(D) = ConnsOf(Tracked \ D)
  BY SMTT(60) DEF Owned, ConnsOf, Tracked

\* All sets of conns are finite.
LEMMA ConnsAreFinite ==
    ASSUME NEW S \in SUBSET Conns
    PROVE  IsFiniteSet(S) /\ Cardinality(S) \in Nat
  BY FS_Subset, FS_CardinalityType, ConnMapAssumption

\* A flow that is tracked again has more conns, and nothing else changes.
LEMMA MoreConns ==
    ASSUME NEW r \in Stats, NEW cs \in SUBSET Conns
    PROVE  /\ WithConns(r, cs) \in Stats
           /\ WithConns(r, cs).c = r.c \cup cs
           /\ WithConns(r, cs).uid = r.uid
           /\ WithConns(r, cs).pid = r.pid
           /\ WithConns(r, cs).tracked = r.tracked
  BY DEF Stats, WithConns

\* The invariant holds of an empty map.
LEMMA InitInv == Init => Inv
<1> SUFFICES ASSUME Init PROVE Inv
  OBVIOUS
<1>1. TypeOK
  BY Zenon DEF Init, TypeOK, Stats, NoStat
<1>2. Tracked = {}
  BY DEF Init, Tracked, NoStat
<1>3. NoConnIsLost
  BY <1>2, FS_EmptySet, Zenon DEF Init, NoConnIsLost, ConnsOf
<1>4. IndicesAreComplete /\ IndicesAreExact
  BY <1>2 DEF Init, IndicesAreComplete, IndicesAreExact
<1>5. Owned
  BY DEF Init, Owned, NoStat
<1> QED
  BY <1>1, <1>3, <1>4, <1>5 DEF Inv

-----------------------------------------------------------------------------

\* Tracking a flow, for the first time or again, preserves the invariant.
LEMMA TrackInv ==
    ASSUME Inv,
           NEW cid \in Cids, NEW uid \in Uids \cup {NoId}, NEW pid \in Pids \cup {NoId},
           NEW cs \in SUBSET Conns, Track(cid, uid, pid, cs)
    PROVE  Inv'
<1> USE DEF Inv
<1>1. /\ \A c \in Cids \ {cid} : tracc'[c] = tracc[c]
      /\ tracc'[cid].tracked
      /\ tracc'[cid].c = tracc[cid].c \cup cs
      /\ tracc[cid].tracked => tracc'[cid].uid = tracc[cid].uid /\ tracc'[cid].pid = tracc[cid].pid
      /\ ~tracc[cid].tracked => tracc'[cid].uid = uid /\ tracc'[cid].pid = pid
  <2>1. CASE tracc[cid].tracked
    <3>1. tracc'[cid] = WithConns(tracc[cid], cs) /\ tracc[cid] \in Stats
      BY <2>1, Zenon DEF Track, TypeOK
    <3> QED
      BY <2>1, <3>1, MoreConns, Zenon DEF Track, TypeOK
  <2>2. CASE ~tracc[cid].tracked
    BY <2>2 DEF Track, TypeOK, Stats, Owned
  <2> QED
    BY <2>1, <2>2, Zenon
<1>2. tracc' \in [Cids -> Stats]
  <2>1. CASE tracc[cid].tracked
    <3>1. WithConns(tracc[cid], cs) \in Stats
      BY MoreConns DEF TypeOK
    <3> QED
      BY <2>1, <3>1, Zenon DEF Track, TypeOK
  <2>2. CASE ~tracc[cid].tracked
    BY <2>2, Zenon DEF Track, TypeOK, Stats
  <2> QED
    BY <2>1, <2>2, Zenon
<1>3. TypeOK'
  BY <1>2, ConnsAreFinite, SMTT(60) DEF Track, TypeOK
<1>4. Tracked' = Tracked \cup {cid}
  BY <1>1, Zenon DEF Tracked
<1>5. ConnsOf(Tracked)' = ConnsOf(Tracked) \cup cs
  <2>1. \A c \in Tracked : tracc[c].c \subseteq tracc'[c].c
    BY <1>1, Zenon DEF Tracked
  <2>2. \A c \in Tracked' : tracc'[c].c \subseteq ConnsOf(Tracked) \cup cs
    BY <1>1, <1>4 DEF Tracked, ConnsOf, Owned
  <2>3. cs \subseteq tracc'[cid].c /\ cid \in Tracked'
    BY <1>1, <1>4, Zenon
  <2> QED
    BY <1>4, <2>1, <2>2, <2>3 DEF ConnsOf
<1>6. sz' = Cardinality(open')
  <2>1. IsFiniteSet(open) /\ IsFiniteSet(cs) /\ open \cap cs = {}
    BY ConnsAreFinite, Zenon DEF TypeOK, Owned, Track
  <2>2. Cardinality(open \cup cs) = Cardinality(open) + Cardinality(cs) - Cardinality(open \cap cs)
    BY <2>1, FS_Union
  <2>3. Cardinality(open) \in Nat /\ Cardinality(cs) \in Nat /\ Cardinality(open \cap cs) = 0
    BY <2>1, FS_CardinalityType, FS_EmptySet, Zenon
  <2> QED
    BY <2>2, <2>3, SMTT(60) DEF NoConnIsLost, Track
<1>7. NoConnIsLost'
  BY <1>5, <1>6, Zenon DEF NoConnIsLost, Track
<1>8. IndicesAreComplete'
  <2>1. \A u \in Uids : tracu[u] \subseteq tracu'[u]
    BY Zenon DEF Track, TypeOK
  <2>2. \A p \in Pids : tracp[p] \subseteq tracp'[p]
    BY Zenon DEF Track, TypeOK
  <2>3. ~tracc[cid].tracked => (uid \in Uids => cid \in tracu'[uid]) /\ (pid \in Pids => cid \in tracp'[pid])
    BY DEF Track
  <2>4. \A c \in Cids : tracc[c].uid \in Uids \cup {NoId} /\ tracc[c].pid \in Pids \cup {NoId}
    BY Zenon DEF TypeOK, Stats
  <2> QED
    BY <1>1, <1>4, <2>1, <2>2, <2>3, <2>4 DEF IndicesAreComplete, Tracked
<1>9. IndicesAreExact'
  <2> SUFFICES ASSUME ~repeated' PROVE IndicesAreExact'
    BY DEF IndicesAreExact
  <2>1. ~tracc[cid].tracked /\ ~repeated
    BY Zenon DEF Track
  <2>2. \A u \in Uids : cid \notin tracu[u]
    BY <2>1 DEF IndicesAreExact
  <2>3. \A p \in Pids : cid \notin tracp[p]
    BY <2>1, Zenon DEF IndicesAreExact
  <2>4. \A u \in Uids : tracu'[u] = IF u = uid THEN tracu[u] \cup {cid} ELSE tracu[u]
    BY Zenon DEF Track
  <2>5. \A p \in Pids : tracp'[p] = IF p = pid THEN tracp[p] \cup {cid} ELSE tracp[p]
    BY Zenon DEF Track
  <2>6. ASSUME NEW u \in Uids, NEW c \in tracu'[u] PROVE tracc'[c].tracked /\ tracc'[c].uid = u
    <3>1. CASE c = cid
      BY <1>1, <2>1, <2>2, <2>4, <2>6, <3>1, Zenon
    <3>2. CASE c # cid
      <4>1. c \in tracu[u]
        BY <2>4, <2>6, <3>2, Zenon
      <4>2. c \in Cids
        BY <4>1, Zenon DEF TypeOK
      <4> QED
        BY <1>1, <2>1, <3>2, <4>1, <4>2 DEF IndicesAreExact
    <3> QED
      BY <3>1, <3>2
  <2>7. ASSUME NEW p \in Pids, NEW c \in tracp'[p] PROVE tracc'[c].tracked /\ tracc'[c].pid = p
    <3>1. CASE c = cid
      BY <1>1, <2>1, <2>3, <2>5, <2>7, <3>1, Zenon
    <3>2. CASE c # cid
      <4>1. c \in tracp[p]
        BY <2>5, <2>7, <3>2, Zenon
      <4>2. c \in Cids
        BY <4>1, Zenon DEF TypeOK
      <4> QED
        BY <1>1, <2>1, <3>2, <4>1, <4>2 DEF IndicesAreExact
    <3> QED
      BY <3>1, <3>2
  <2> QED
    BY <2>6, <2>7, Zenon DEF IndicesAreExact
<1>10. Owned'
  <2>1. \A c \in Cids : tracc[c].c \subseteq used
    BY Zenon DEF NoConnIsLost, Owned, ConnsOf, Tracked
  <2>2. \A c \in Cids \ {cid} : tracc'[c].c \cap tracc'[cid].c = {}
    BY <1>1, <2>1, Zenon DEF Owned, Track
  <2>3. open' \subseteq used'
    BY DEF Owned, Track
  <2> QED
    BY <1>1, <2>2, <2>3, SMTT(60) DEF Owned
<1> QED
  BY <1>3, <1>7, <1>8, <1>9, <1>10

\* Dropping flows preserves the invariant.
LEMMA DelInv ==
    ASSUME Inv, NEW D \in SUBSET Tracked, delLocked(D)
    PROVE  Inv'
<1> USE DEF Inv
<1>0. D \subseteq Cids
  BY Zenon DEF Tracked
<1>1. \A c \in Cids : tracc'[c] = IF c \in D THEN NoStat ELSE tracc[c]
  BY Zenon DEF delLocked
<1>2. ConnsOf(D) \subseteq open
  BY DEF NoConnIsLost, ConnsOf
<1>3. sz' = Cardinality(open')
  <2>1. IsFiniteSet(open) /\ ConnsOf(D) \subseteq Conns
    BY <1>2, ConnsAreFinite DEF TypeOK
  <2>2. IsFiniteSet(ConnsOf(D)) /\ open \cap ConnsOf(D) = ConnsOf(D)
    BY <1>2, <2>1, ConnsAreFinite, Zenon
  <2>3. Cardinality(open \ ConnsOf(D)) = Cardinality(open) - Cardinality(open \cap ConnsOf(D))
    BY <2>1, FS_Difference
  <2> QED
    BY <2>2, <2>3, Zenon DEF NoConnIsLost, delLocked
<1>4. TypeOK'
  <2>1. tracc' \in [Cids -> Stats]
    BY Zenon DEF delLocked, TypeOK, Stats, NoStat
  <2>2. tracu' \in [Uids -> SUBSET Cids] /\ tracp' \in [Pids -> SUBSET Cids]
    BY Zenon DEF delLocked, TypeOK
  <2>3. open' \subseteq Conns /\ used' \subseteq Conns
    BY DEF delLocked, TypeOK
  <2>4. sz' \in Nat
    BY <1>3, <2>3, ConnsAreFinite
  <2>5. repeated' \in BOOLEAN
    BY Zenon DEF delLocked, TypeOK
  <2> QED
    BY <2>1, <2>2, <2>3, <2>4, <2>5, Zenon DEF TypeOK
<1>5. Tracked' = Tracked \ D
  BY <1>1, SMTT(60) DEF Tracked, NoStat
<1>6. NoConnIsLost'
  <2>1. ConnsOf(Tracked)' = ConnsOf(Tracked \ D)
    BY <1>1, <1>5, ZenonT(60) DEF ConnsOf, Tracked
  <2> QED
    BY <1>3, <2>1, ConnsOfOthers, Zenon DEF NoConnIsLost, delLocked
<1>7. IndicesAreComplete'
  <2> SUFFICES ASSUME NEW c \in Tracked'
               PROVE  /\ tracc'[c].uid # NoId => c \in tracu'[tracc'[c].uid]
                      /\ tracc'[c].pid # NoId => c \in tracp'[tracc'[c].pid]
    BY Zenon DEF IndicesAreComplete
  <2>1. c \in Tracked /\ c \notin D /\ tracc'[c] = tracc[c]
    BY <1>1, <1>5, Zenon DEF Tracked
  <2>2. tracc[c].uid \in Uids \cup {NoId} /\ tracc[c].pid \in Pids \cup {NoId}
    BY <2>1, Zenon DEF TypeOK, Stats, Tracked
  <2> QED
    BY <2>1, <2>2, Zenon DEF IndicesAreComplete, delLocked
<1>8. IndicesAreExact'
  <2> SUFFICES ASSUME ~repeated PROVE IndicesAreExact'
    BY Zenon DEF IndicesAreExact, delLocked
  <2>1. \A u \in Uids : \A c \in tracu'[u] : c \in tracu[u] /\ c \notin D
    BY Zenon DEF delLocked, IndicesAreExact
  <2>2. \A p \in Pids : \A c \in tracp'[p] : c \in tracp[p] /\ c \notin D
    BY Zenon DEF delLocked, IndicesAreExact
  <2> QED
    <3>1. (~repeated)' /\ ~repeated
      BY Zenon DEF delLocked
    <3>2. \A u \in Uids : \A c \in tracu'[u] : tracc'[c].tracked /\ tracc'[c].uid = u
      BY <1>1, <2>1, <3>1, SMTT(60) DEF IndicesAreExact, TypeOK
    <3>3. \A p \in Pids : \A c \in tracp'[p] : tracc'[c].tracked /\ tracc'[c].pid = p
      BY <1>1, <2>2, <3>1, SMTT(60) DEF IndicesAreExact, TypeOK
    <3> QED
      BY <3>2, <3>3, Zenon DEF IndicesAreExact
<1>9. Owned'
  BY <1>1 DEF Owned, NoStat, delLocked
<1> QED
  BY <1>4, <1>6, <1>7, <1>8, <1>9

\* Clearing the map preserves it.
LEMMA ClearInv == Inv /\ Clear => Inv'
<1> SUFFICES ASSUME Inv, Clear PROVE Inv'
  OBVIOUS
<1> USE DEF Inv
<1>1. Tracked' = {}
  BY Zenon DEF Clear, Tracked, NoStat
<1>2. open' = {}
  BY DEF Clear, NoConnIsLost, ConnsOf, Tracked
<1>3. NoConnIsLost'
  BY <1>1, <1>2, FS_EmptySet, Zenon DEF Clear, NoConnIsLost, ConnsOf
<1>4. TypeOK'
  BY Zenon DEF Clear, TypeOK, Stats, NoStat
<1>5. IndicesAreComplete' /\ IndicesAreExact'
  BY <1>1, Zenon DEF Clear, IndicesAreComplete, IndicesAreExact
<1>6. Owned'
  BY <1>2, Zenon DEF Clear, Owned, NoStat
<1> QED
  BY <1>3, <1>4, <1>5, <1>6

\* So does every step.
LEMMA NextInv == Inv /\ [Next]_vars => Inv'
<1> SUFFICES ASSUME Inv, [Next]_vars PROVE Inv'
  OBVIOUS
<1>1. ASSUME NEW cid \in Cids, NEW uid \in Uids \cup {NoId}, NEW pid \in Pids \cup {NoId},
             NEW cs \in SUBSET Conns, Track(cid, uid, pid, cs)
      PROVE  Inv'
  BY <1>1, TrackInv, Zenon
<1>2. ASSUME NEW cid \in Cids, Untrack(cid) PROVE Inv'
  BY <1>2, DelInv DEF Untrack
<1>3. ASSUME NEW ids \in SUBSET (Cids \cup Uids \cup Pids), UntrackBatch(ids) PROVE Inv'
  BY <1>3, DelInv DEF UntrackBatch
<1>4. CASE Clear
  BY <1>4, ClearInv, Zenon
<1>5. CASE UNCHANGED vars
  BY <1>5 DEF Inv, vars, TypeOK, NoConnIsLost, IndicesAreComplete, IndicesAreExact, Owned,
              Tracked, ConnsOf
<1> QED
  BY <1>1, <1>2, <1>3, <1>4, <1>5 DEF Next

(***************************************************************************)
(* The inductive invariant holds, and with it the type invariant.          *)
(***************************************************************************)
THEOREM ConnMapInvariant == Spec => []Inv
  BY InitInv, NextInv, PTL DEF Spec

(***************************************************************************)
(* The open conns are the ones the map reaches, and sz counts them.        *)
(***************************************************************************)
THEOREM NoConnIsEverLost == Spec => []NoConnIsLost
  BY ConnMapInvariant, PTL DEF Inv

(***************************************************************************)
(* Every tracked flow is found by its user and by its proxy, and nothing   *)
(* stale is left in the indices as long as no id is tracked twice.         *)
(***************************************************************************)
THEOREM IndicesStayInAgreement == Spec => []IndicesAgree
  BY ConnMapInvariant, PTL DEF Inv, IndicesAgree

\* One step of UserIsClosed.
LEMMA UserStep ==
    ASSUME Inv, NEW u \in Uids, UntrackBatch({u}), NEW c \in Tracked
    PROVE  /\ tracc[c].uid = u => tracc[c].c \cap open' = {}
           /\ ~repeated /\ tracc[c].uid # u => tracc[c].c \subseteq open'
<1> USE DEF Inv
<1>1. Targets(u) = tracu[u]
  BY ConnMapAssumption, Zenon DEF Targets
<1>2. open' = open \ ConnsOf(tracu[u] \cap Tracked)
  BY <1>1, Zenon DEF UntrackBatch, delLocked
<1>3. ASSUME tracc[c].uid = u PROVE tracc[c].c \cap open' = {}
  <2>1. c \in tracu[u]
    BY <1>3, ConnMapAssumption, Zenon DEF IndicesAreComplete
  <2> QED
    BY <1>2, <2>1, Zenon DEF ConnsOf
<1>4. ASSUME ~repeated, tracc[c].uid # u PROVE tracc[c].c \subseteq open'
  <2>1. c \notin tracu[u]
    BY <1>4, Zenon DEF IndicesAreExact
  <2>2. tracc[c].c \cap ConnsOf(tracu[u] \cap Tracked) = {}
    BY <2>1, ZenonT(60) DEF Owned, ConnsOf, Tracked
  <2>3. tracc[c].c \subseteq open
    BY Zenon DEF NoConnIsLost, ConnsOf
  <2> QED
    BY <1>2, <2>2, <2>3, SMTT(60)
<1> QED
  BY <1>3, <1>4

(***************************************************************************)
(* Closing the conns of a user closes all of theirs, and none of others'.  *)
(***************************************************************************)
THEOREM UsersAreClosed == Spec => UserIsClosed
<1>1. Inv /\ [Next]_vars =>
        [\A u \in Uids : UntrackBatch({u}) =>
           \A c \in Tracked :
              /\ tracc[c].uid = u => tracc[c].c \cap open' = {}
              /\ ~repeated /\ tracc[c].uid # u => tracc[c].c \subseteq open']_vars
  BY UserStep, Zenon
<1> QED
  BY <1>1, ConnMapInvariant, PTL DEF Spec, UserIsClosed

-----------------------------------------------------------------------------
(* the table of muxers *)

VARIABLES mt_t, mt_mux, mt_call, mt_resets, mt_tostop
mtVars == <<mt_t, mt_mux, mt_call, mt_resets, mt_tostop>>
Mt == INSTANCE MuxTable WITH
    Uids <- Owners,
    t <- mt_t, mux <- mt_mux, call <- mt_call, resets <- mt_resets, tostop <- mt_tostop

\* The invariant holds of an empty table.
LEMMA MtInitInv == ASSUME Mt!MuxTableConstants, Mt!Init PROVE Mt!Inv
<1>1. Mt!TypeOK
  <2>1. mt_resets \in 0..MaxResets
    BY SMTT(60) DEF Mt!Init, Mt!MuxTableConstants
  <2> QED
    BY <2>1, Zenon DEF Mt!Init, Mt!TypeOK, Mt!MuxStates, Mt!Phases, Mt!CallStates
<1>2. Mt!SlotsSound /\ Mt!CallsSound
  BY Zenon DEF Mt!Init, Mt!SlotsSound, Mt!CallsSound, Mt!Unstarted
<1> QED
  BY <1>1, <1>2, Zenon DEF Mt!Inv

\* A call that finds a muxer in its slot takes it if it is of the same owner.
LEMMA MtAgreeIsSound ==
    ASSUME Mt!Inv, NEW c \in Calls, NEW x \in Muxers,
           mt_mux' \in [Muxers -> Mt!MuxStates], Mt!Agree(c, x),
           mt_mux'[x].phase # "none", mt_mux'[x].slot = mt_call[c].slot,
           \A y \in Muxers \ {x} : mt_mux'[y] = mt_mux[y],
           mt_mux'[x] = mt_mux[x] \/ Mt!Unstarted(x)
    PROVE  mt_call' \in [Calls -> Mt!CallStates] /\ Mt!CallsSound'
<1> DEFINE p == IF mt_mux'[x].uid = mt_call[c].uid THEN "route" ELSE "err"
<1>1. mt_call' = [mt_call EXCEPT ![c].mxr = x, ![c].pc = p]
  BY DEF Mt!Agree
<1>2. mt_call' \in [Calls -> Mt!CallStates]
  <2>1. p \in {"route", "err"}
    BY Zenon
  <2> HIDE DEF p
  <2>2. [mt_call[c] EXCEPT !.mxr = x, !.pc = p] \in Mt!CallStates
    BY <2>1, ZenonT(60) DEF Mt!Inv, Mt!TypeOK, Mt!CallStates
  <2> QED
    BY <1>1, <2>2, Zenon DEF Mt!Inv, Mt!TypeOK
<1>3. \A d \in Calls \ {c} : mt_call'[d] = mt_call[d]
  BY <1>1, Zenon DEF Mt!Inv, Mt!TypeOK
<1>4. /\ mt_call'[c].mxr = x /\ mt_call'[c].slot = mt_call[c].slot /\ mt_call'[c].uid = mt_call[c].uid
      /\ mt_call'[c].pc \in {"route", "ok"} => mt_mux'[x].uid = mt_call[c].uid
  BY <1>1, Zenon DEF Mt!Inv, Mt!TypeOK, Mt!CallStates
<1>5. Mt!CallsSound'
  BY <1>3, <1>4, SMTT(60) DEF Mt!Inv, Mt!CallsSound, Mt!Unstarted
<1> QED
  BY <1>2, <1>5, Zenon

\* The first look leaves with the muxer of the slot, or to dial.
LEMMA MtLookupInv ==
    ASSUME Mt!MuxTableConstants, Mt!Inv, NEW c \in Calls, Mt!Lookup(c)
    PROVE  Mt!Inv'
<1> DEFINE x == mt_t[mt_call[c].slot]
<1>1. UNCHANGED <<mt_t, mt_mux, mt_resets, mt_tostop>>
  BY Zenon DEF Mt!Lookup
<1>2. Mt!SlotsSound'
  BY <1>1, Zenon DEF Mt!Inv, Mt!SlotsSound, Mt!Unstarted
<1>3. mt_call[c].slot \in Slots
  BY Zenon DEF Mt!Inv, Mt!TypeOK, Mt!CallStates
<1>4. CASE x = Nil
  <2>1. mt_call' = [mt_call EXCEPT ![c].pc = "mk"]
    BY <1>4 DEF Mt!Lookup
  <2>2. Mt!TypeOK'
    BY <1>1, <2>1, Zenon DEF Mt!Inv, Mt!TypeOK, Mt!CallStates
  <2>3. Mt!CallsSound'
    BY <1>1, <2>1, ZenonT(60) DEF Mt!Inv, Mt!TypeOK, Mt!CallStates, Mt!CallsSound, Mt!Unstarted
  <2> QED
    BY <1>2, <2>2, <2>3, Zenon DEF Mt!Inv
<1>5. CASE x # Nil
  <2>1. Mt!Agree(c, x) /\ x \in Muxers
    BY <1>3, <1>5, Zenon DEF Mt!Lookup, Mt!Inv, Mt!TypeOK
  <2>2. mt_mux[x].phase # "none" /\ mt_mux[x].slot = mt_call[c].slot
    BY <1>3, <1>5, Zenon DEF Mt!Inv, Mt!SlotsSound, Mt!Unstarted
  <2> HIDE DEF x
  <2>3. mt_call' \in [Calls -> Mt!CallStates] /\ Mt!CallsSound'
    BY <1>1, <2>1, <2>2, MtAgreeIsSound, Zenon DEF Mt!Inv, Mt!TypeOK
  <2> QED
    BY <1>1, <1>2, <2>3, Zenon DEF Mt!Inv, Mt!TypeOK
<1> QED
  BY <1>4, <1>5, Zenon

\* The second look: a muxer is started only in a slot that has none.
LEMMA MtRelockInv ==
    ASSUME Mt!MuxTableConstants, Mt!Inv, NEW c \in Calls, Mt!Relock(c)
    PROVE  Mt!Inv'
<1> DEFINE s == mt_call[c].slot
<1>1. s \in Slots /\ mt_call[c].uid \in Owners /\ mt_resets' = mt_resets /\ mt_tostop' = mt_tostop
  BY Zenon DEF Mt!Relock, Mt!Inv, Mt!TypeOK, Mt!CallStates
<1>2. CASE mt_t[s] # Nil
  <2>1. UNCHANGED <<mt_t, mt_mux>> /\ Mt!Agree(c, mt_t[s]) /\ mt_t[s] \in Muxers
    BY <1>1, <1>2, Zenon DEF Mt!Relock, Mt!Inv, Mt!TypeOK
  <2>2. mt_mux[mt_t[s]].phase # "none" /\ mt_mux[mt_t[s]].slot = s
    BY <1>1, <1>2, Zenon DEF Mt!Inv, Mt!SlotsSound, Mt!Unstarted
  <2>3. mt_call' \in [Calls -> Mt!CallStates] /\ Mt!CallsSound'
    BY <2>1, <2>2, MtAgreeIsSound, Zenon DEF Mt!Inv, Mt!TypeOK
  <2>4. Mt!SlotsSound'
    BY <1>1, <2>1, Zenon DEF Mt!Inv, Mt!SlotsSound, Mt!Unstarted
  <2> QED
    BY <1>1, <2>1, <2>3, <2>4, Zenon DEF Mt!Inv, Mt!TypeOK
<1>3. CASE mt_t[s] = Nil
  <2>1. PICK x \in Muxers :
          /\ mt_mux[x].phase = "none"
          /\ mt_mux' = [mt_mux EXCEPT ![x] = [phase |-> "open", slot |-> s, uid |-> mt_call[c].uid]]
          /\ mt_t' = [mt_t EXCEPT ![s] = x]
          /\ Mt!Agree(c, x)
    BY <1>3, Zenon DEF Mt!Relock
  <2> HIDE DEF s
  <2>2. mt_mux' \in [Muxers -> Mt!MuxStates] /\ mt_t' \in [Slots -> Muxers \cup {Nil}]
    BY <1>1, <2>1, Zenon DEF Mt!Inv, Mt!TypeOK, Mt!MuxStates, Mt!Phases
  <2>3. mt_mux'[x].phase = "open" /\ mt_mux'[x].slot = s /\ \A y \in Muxers \ {x} : mt_mux'[y] = mt_mux[y]
    BY <2>1, Zenon DEF Mt!Inv, Mt!TypeOK
  <2>4. mt_call' \in [Calls -> Mt!CallStates] /\ Mt!CallsSound'
    BY <2>1, <2>2, <2>3, MtAgreeIsSound, Zenon DEF Mt!Unstarted, s
  <2>5. Mt!SlotsSound'
    <3>1. \A r \in Slots : r # s => mt_t'[r] = mt_t[r]
      BY <2>1, Zenon DEF Mt!Inv, Mt!TypeOK
    <3>2. mt_t'[s] = x
      BY <1>1, <2>1, Zenon DEF Mt!Inv, Mt!TypeOK
    <3>3. \A r \in Slots : mt_t[r] # x
      BY <2>1, <1>1, Zenon DEF Mt!Inv, Mt!SlotsSound, Mt!Unstarted, Mt!MuxTableConstants
    <3> QED
      BY <1>1, <1>3, <2>3, <3>1, <3>2, <3>3, SMTT(60) DEF Mt!Inv, Mt!TypeOK, Mt!SlotsSound, Mt!Unstarted, Mt!MuxTableConstants
  <2> QED
    BY <1>1, <2>2, <2>4, <2>5, Zenon DEF Mt!Inv, Mt!TypeOK
<1> QED
  BY <1>2, <1>3, Zenon

\* mk and route change only the call.
LEMMA MtCallInv ==
    ASSUME Mt!MuxTableConstants, Mt!Inv, NEW c \in Calls, NEW ok \in BOOLEAN, Mt!Mk(c, ok) \/ Mt!Route(c, ok)
    PROVE  Mt!Inv'
<1>1. UNCHANGED <<mt_t, mt_mux, mt_resets, mt_tostop>>
  BY Zenon DEF Mt!Mk, Mt!Route
<1>2. \/ mt_call[c].pc = "mk" /\ mt_call' = [mt_call EXCEPT ![c].pc = IF ok THEN "relock" ELSE "err"]
      \/ mt_call[c].pc = "route" /\ mt_call' = [mt_call EXCEPT ![c].pc = IF ok THEN "ok" ELSE "err"]
  BY Zenon DEF Mt!Mk, Mt!Route
<1>3. Mt!TypeOK'
  BY <1>1, <1>2, SMTT(60) DEF Mt!Inv, Mt!TypeOK, Mt!CallStates
<1>4. Mt!SlotsSound'
  BY <1>1, Zenon DEF Mt!Inv, Mt!SlotsSound, Mt!Unstarted
<1>5. Mt!CallsSound'
  BY <1>1, <1>2, SMTT(60) DEF Mt!Inv, Mt!TypeOK, Mt!CallStates, Mt!CallsSound, Mt!Unstarted
<1> QED
  BY <1>3, <1>4, <1>5 DEF Mt!Inv

\* A muxer stops, drains and calls back in its slot.
LEMMA MtPhaseInv ==
    ASSUME Mt!MuxTableConstants, Mt!Inv, NEW x \in Muxers, Mt!Stop(x) \/ Mt!Drain(x) \/ Mt!CallBack(x)
    PROVE  Mt!Inv'
<1>1. UNCHANGED <<mt_t, mt_call, mt_resets, mt_tostop>>
  BY Zenon DEF Mt!Stop, Mt!Drain, Mt!CallBack
<1>2. PICK p \in {"stopping", "drained", "gone"} :
        /\ mt_mux[x].phase \in {"open", "stopping", "drained"}
        /\ mt_mux' = [mt_mux EXCEPT ![x].phase = p]
  BY Zenon DEF Mt!Stop, Mt!Drain, Mt!CallBack
<1>3. Mt!TypeOK'
  BY <1>1, <1>2, Zenon DEF Mt!Inv, Mt!TypeOK, Mt!MuxStates, Mt!Phases
<1>4. \A y \in Muxers : /\ mt_mux'[y].slot = mt_mux[y].slot /\ mt_mux'[y].uid = mt_mux[y].uid
                        /\ Mt!Unstarted(y)' <=> Mt!Unstarted(y)
                        /\ mt_mux'[y].phase \in {"open", "stopping", "drained", "gone"} =>
                             mt_mux[y].phase \in {"open", "stopping", "drained", "gone"}
  BY <1>2, Zenon DEF Mt!Inv, Mt!TypeOK, Mt!MuxStates, Mt!Unstarted
<1>5. Mt!SlotsSound'
  BY <1>1, <1>4, SMTT(60) DEF Mt!Inv, Mt!TypeOK, Mt!SlotsSound
<1>6. Mt!CallsSound'
  BY <1>1, <1>4, Zenon DEF Mt!Inv, Mt!CallsSound
<1> QED
  BY <1>3, <1>5, <1>6 DEF Mt!Inv

\* Until the first reset, what dissociate finds in the slot is the muxer itself.
LEMMA MtDissociateInv ==
    ASSUME Mt!MuxTableConstants, Mt!Inv, NEW x \in Muxers, Mt!dissociate(x)
    PROVE  Mt!Inv'
<1>1. /\ mt_mux[x].phase = "gone"
      /\ mt_mux' = [mt_mux EXCEPT ![x].phase = "forgotten"]
      /\ mt_t' = [mt_t EXCEPT ![mt_mux[x].slot] = Nil]
      /\ UNCHANGED <<mt_call, mt_resets, mt_tostop>>
  BY Zenon DEF Mt!dissociate
<1>2. mt_mux[x].slot \in Slots
  BY <1>1, Zenon DEF Mt!Inv, Mt!SlotsSound, Mt!Unstarted
<1>3. Mt!TypeOK'
  BY <1>1, <1>2, Zenon DEF Mt!Inv, Mt!TypeOK, Mt!MuxStates, Mt!Phases
<1>4. \A y \in Muxers : /\ mt_mux'[y].slot = mt_mux[y].slot /\ mt_mux'[y].uid = mt_mux[y].uid
                        /\ Mt!Unstarted(y)' <=> Mt!Unstarted(y)
                        /\ y # x => mt_mux'[y].phase = mt_mux[y].phase
                        /\ mt_mux'[x].phase = "forgotten"
  BY <1>1, Zenon DEF Mt!Inv, Mt!TypeOK, Mt!MuxStates, Mt!Unstarted
<1>5. \A s \in Slots : mt_t'[s] = IF s = mt_mux[x].slot THEN Nil ELSE mt_t[s]
  BY <1>1 DEF Mt!Inv, Mt!TypeOK
<1>6. mt_resets = 0 => mt_t[mt_mux[x].slot] = x
  BY <1>1, Zenon DEF Mt!Inv, Mt!SlotsSound
<1>7. Mt!SlotsSound'
  BY <1>1, <1>2, <1>4, <1>5, <1>6, SMTT(60) DEF Mt!Inv, Mt!TypeOK, Mt!SlotsSound
<1>8. Mt!CallsSound'
  BY <1>1, <1>4, SMTT(60) DEF Mt!Inv, Mt!CallsSound
<1> QED
  BY <1>3, <1>7, <1>8, Zenon DEF Mt!Inv

\* A reset empties the table, and nothing more is said of it.
LEMMA MtResetInv ==
    ASSUME Mt!MuxTableConstants, Mt!Inv, Mt!reset \/ \E x \in Muxers : Mt!ResetStop(x)
    PROVE  Mt!Inv'
<1>1. CASE Mt!reset
  <2>1. mt_resets' \in 0..MaxResets /\ mt_resets' # 0
    BY <1>1, SMTT(60) DEF Mt!reset, Mt!Inv, Mt!TypeOK, Mt!MuxTableConstants
  <2>2. Mt!TypeOK'
    BY <1>1, <2>1, Zenon DEF Mt!reset, Mt!Inv, Mt!TypeOK
  <2>3. Mt!SlotsSound' /\ Mt!CallsSound'
    BY <1>1, <2>1, Zenon DEF Mt!reset, Mt!Inv, Mt!SlotsSound, Mt!CallsSound, Mt!Unstarted
  <2> QED
    BY <2>2, <2>3, Zenon DEF Mt!Inv
<1>2. CASE \E x \in Muxers : Mt!ResetStop(x)
  BY <1>2 DEF Mt!ResetStop, Mt!Inv, Mt!TypeOK, Mt!SlotsSound, Mt!CallsSound, Mt!Unstarted
<1> QED
  BY <1>1, <1>2

\* Every step preserves the invariant.
LEMMA MtNextInv == ASSUME Mt!MuxTableConstants, Mt!Inv, [Mt!Next]_(Mt!vars) PROVE Mt!Inv'
<1>1. CASE UNCHANGED (Mt!vars)
  BY <1>1, Zenon DEF Mt!vars, Mt!Inv, Mt!TypeOK, Mt!SlotsSound, Mt!CallsSound, Mt!Unstarted
<1>2. CASE Mt!Next
  BY <1>2, MtLookupInv, MtRelockInv, MtCallInv, MtPhaseInv, MtDissociateInv, MtResetInv DEF Mt!Next
<1> QED
  BY <1>1, <1>2, Zenon

(***************************************************************************)
(* The invariant of the table holds throughout.                            *)
(***************************************************************************)
THEOREM MuxTableInvariant == ASSUME Mt!MuxTableConstants PROVE Mt!Spec => []Mt!Inv
<1>1. Mt!Init => Mt!Inv
  BY MtInitInv, Zenon
<1>2. Mt!Inv /\ [Mt!Next]_(Mt!vars) => Mt!Inv'
  BY MtNextInv
<1> QED
  BY <1>1, <1>2, PTL DEF Mt!Spec

(***************************************************************************)
(* Until the tunnel is restarted a running muxer is the one of its slot,   *)
(* for any number of sources, owners, calls and muxers.                    *)
(***************************************************************************)
THEOREM RunningMuxersAreFound == ASSUME Mt!MuxTableConstants PROVE Mt!Spec => []Mt!RunningIsFound
<1>1. Mt!Inv => Mt!RunningIsFound
  BY Zenon DEF Mt!Inv, Mt!SlotsSound, Mt!RunningIsFound
<1> QED
  BY <1>1, MuxTableInvariant, PTL

(***************************************************************************)
(* A call routes only over a muxer of its own source and owner, restarts   *)
(* of the tunnel included.                                                 *)
(***************************************************************************)
THEOREM CallsUseTheirOwnMuxer == ASSUME Mt!MuxTableConstants PROVE Mt!Spec => []Mt!OwnMuxer
<1>1. Mt!Inv => Mt!OwnMuxer
  BY Zenon DEF Mt!Inv, Mt!CallsSound, Mt!OwnMuxer
<1> QED
  BY <1>1, MuxTableInvariant, PTL

-----------------------------------------------------------------------------
(* a conn of a muxer *)

VARIABLES dx_pool, dx_size, dx_routed, dx_arrived, dx_inCh, dx_overflowCh, dx_rd, dx_got,
          dx_closed, dx_readClosed, dx_writeClosed, dx_once, dx_closer
dxVars == <<dx_pool, dx_size, dx_routed, dx_arrived, dx_inCh, dx_overflowCh, dx_rd,
            dx_got, dx_closed, dx_readClosed, dx_writeClosed, dx_once, dx_closer>>
Dx == INSTANCE DemuxConn WITH
    pool <- dx_pool, size <- dx_size, routed <- dx_routed, arrived <- dx_arrived,
    inCh <- dx_inCh, overflowCh <- dx_overflowCh, rd <- dx_rd, got <- dx_got,
    closed <- dx_closed, readClosed <- dx_readClosed, writeClosed <- dx_writeClosed,
    once <- dx_once, closer <- dx_closer

-----------------------------------------------------------------------------
(* the channels *)

\* An empty channel holds nothing.
LEMMA DxEmptyChannel ==
    Dx!BufsOf(<< >>) = {} /\ Dx!Distinct(<< >>) /\ \A g : Dx!Unread(<< >>, g)
BY SMTT(60) DEF Dx!BufsOf, Dx!Distinct, Dx!Unread

\* A send adds one buffer.
LEMMA DxSent ==
    ASSUME NEW s \in Seq(Dx!Slices), NEW e \in Dx!Slices, e.b \notin Dx!BufsOf(s), Dx!Distinct(s)
    PROVE  /\ Append(s, e) \in Seq(Dx!Slices) /\ Len(Append(s, e)) = Len(s) + 1
           /\ Dx!BufsOf(Append(s, e)) = Dx!BufsOf(s) \cup {e.b}
           /\ Dx!Distinct(Append(s, e))
           /\ \A g : Dx!Unread(s, g) /\ e.from = g[e.b] => Dx!Unread(Append(s, e), g)
<1> DEFINE a == Append(s, e)
<1>1. /\ a \in Seq(Dx!Slices) /\ Len(a) = Len(s) + 1
      /\ \A i \in 1..Len(s) : a[i] = s[i]
      /\ a[Len(s) + 1] = e
      /\ Len(s) \in Nat
    BY SMTT(60)
<1> HIDE DEF a
<1>2. 1..Len(a) = 1..Len(s) \cup {Len(s) + 1}
    BY <1>1, SMTT(60)
<1>3. Dx!BufsOf(a) = Dx!BufsOf(s) \cup {e.b}
    BY <1>1, <1>2, SMTT(60) DEF Dx!BufsOf
<1>4. \A i \in 1..Len(s) : s[i].b # e.b
    BY Zenon DEF Dx!BufsOf
<1>5. Dx!Distinct(a)
    BY <1>1, <1>2, <1>4, Zenon DEF Dx!Distinct
<1>6. \A g : Dx!Unread(s, g) /\ e.from = g[e.b] => Dx!Unread(a, g)
    BY <1>1, <1>2, Zenon DEF Dx!Unread
<1>7. QED
    BY <1>1, <1>3, <1>5, <1>6, Zenon DEF a

\* A receive takes one buffer.
LEMMA DxReceived ==
    ASSUME NEW s \in Seq(Dx!Slices), s # << >>, Dx!Distinct(s)
    PROVE  /\ Head(s) \in Dx!Slices /\ Tail(s) \in Seq(Dx!Slices) /\ Len(Tail(s)) = Len(s) - 1
           /\ Len(s) \in Nat
           /\ Head(s).b \in Dx!BufsOf(s)
           /\ Dx!BufsOf(Tail(s)) = Dx!BufsOf(s) \ {Head(s).b}
           /\ Dx!Distinct(Tail(s))
           /\ \A g : Dx!Unread(s, g) => Dx!Unread(Tail(s), g) /\ Head(s).from = g[Head(s).b]
<1> DEFINE r == Tail(s)
<1>1. /\ Head(s) \in Dx!Slices /\ r \in Seq(Dx!Slices) /\ Len(r) = Len(s) - 1
      /\ \A i \in 1..Len(r) : r[i] = s[i + 1]
      /\ Len(s) \in Nat \ {0}
    BY SMTT(60)
<1>2. Head(s) = s[1]
    BY SMTT(60)
<1> HIDE DEF r
<1>3. 1 \in 1..Len(s) /\ \A i \in 1..Len(r) : i + 1 \in 1..Len(s) /\ i + 1 # 1
    BY <1>1, SMTT(60)
<1>4. \A k \in 1..Len(s) : k = 1 \/ (k - 1 \in 1..Len(r) /\ r[k - 1] = s[k])
    BY <1>1, SMTT(60)
<1>5. Head(s).b \in Dx!BufsOf(s)
    BY <1>2, <1>3, Zenon DEF Dx!BufsOf
<1>6. Dx!BufsOf(r) \subseteq Dx!BufsOf(s) \ {Head(s).b}
    BY <1>1, <1>2, <1>3, SMTT(60) DEF Dx!BufsOf, Dx!Distinct
<1>7. Dx!BufsOf(s) \ {Head(s).b} \subseteq Dx!BufsOf(r)
    BY <1>2, <1>4, ZenonT(60) DEF Dx!BufsOf
<1>8. Dx!Distinct(r)
    BY <1>1, <1>3, SMTT(60) DEF Dx!Distinct
<1>9. \A g : Dx!Unread(s, g) => Dx!Unread(r, g) /\ Head(s).from = g[Head(s).b]
    BY <1>1, <1>2, <1>3, Zenon DEF Dx!Unread
<1>10. QED
    BY <1>1, <1>5, <1>6, <1>7, <1>8, <1>9, Zenon DEF r

\* A channel does not see the reads of packets that it does not hold.
LEMMA DxUnseen ==
    ASSUME NEW s \in Seq(Dx!Slices), NEW g \in [Bufs -> 0..MaxSize], Dx!Unread(s, g),
           NEW b \in Bufs, b \notin Dx!BufsOf(s), NEW n
    PROVE  Dx!Unread(s, [g EXCEPT ![b] = n])
<1>1. \A i \in 1..Len(s) : s[i] \in Dx!Slices /\ s[i].b \in Bufs /\ s[i].b # b
    <2>1. \A i \in 1..Len(s) : s[i] \in Dx!Slices
        BY SMTT(60)
    <2>2. \A x \in Dx!Slices : x.b \in Bufs
        BY Zenon DEF Dx!Slices
    <2>3. QED
        BY <2>1, <2>2, Zenon DEF Dx!BufsOf
<1>2. QED
    BY <1>1, Zenon DEF Dx!Unread

\* A channel holds pooled buffers.
LEMMA DxBufsOfBufs ==
    ASSUME NEW s \in Seq(Dx!Slices)
    PROVE  Dx!BufsOf(s) \subseteq Bufs
<1>1. \A i \in 1..Len(s) : s[i] \in Dx!Slices
    BY SMTT(60)
<1>2. \A x \in Dx!Slices : x.b \in Bufs
    BY Zenon DEF Dx!Slices
<1>3. QED
    BY <1>1, <1>2, Zenon DEF Dx!BufsOf

-----------------------------------------------------------------------------
(* the actions *)

\* The invariant holds of a conn that was just made.
LEMMA DxInitInv ==
    ASSUME Dx!DemuxConnConstants, Dx!Init
    PROVE  Dx!Inv
<1>1. 0 \in 0..MaxSize /\ 1 \in 1..MaxSize /\ 0 <= MaxInFlight /\ 0 <= MaxOverflow
    BY SMTT(60) DEF Dx!DemuxConnConstants
<1>2. Dx!TypeOK
    <2>1. << >> \in Seq(Dx!Slices) /\ Len(<< >>) = 0
        BY SMTT(60)
    <2>2. QED
        BY <1>1, <2>1, Zenon DEF Dx!Init, Dx!TypeOK
<1>3. Dx!ReadSound
    BY Zenon DEF Dx!Init, Dx!ReadSound
<1>4. Dx!Apart
    BY DxEmptyChannel, Zenon DEF Dx!Init, Dx!Apart, Dx!DemuxConnConstants, Dx!NoSlice
<1>5. Dx!QueuesSound /\ Dx!HalvesSound
    BY DxEmptyChannel, Zenon DEF Dx!Init, Dx!QueuesSound, Dx!HalvesSound, Dx!Closers
<1>6. QED
    BY <1>2, <1>3, <1>4, <1>5, Zenon DEF Dx!Inv

\* The packets and the halves are apart.
PacketVars == <<dx_pool, dx_size, dx_arrived, dx_inCh, dx_overflowCh, dx_rd, dx_got>>
CloseVars == <<dx_closed, dx_readClosed, dx_writeClosed, dx_once, dx_closer>>

\* Steps that leave the packets alone preserve what is said of them ...
LEMMA DxPacketsKept ==
    ASSUME Dx!Inv, UNCHANGED PacketVars
    PROVE  Dx!ReadSound' /\ Dx!Apart' /\ Dx!QueuesSound'
BY Zenon DEF Dx!Inv, PacketVars, Dx!ReadSound, Dx!Apart, Dx!QueuesSound

\* ... and so do steps that leave the halves alone.
LEMMA DxHalvesKept ==
    ASSUME Dx!Inv, UNCHANGED CloseVars
    PROVE  Dx!HalvesSound'
BY Zenon DEF Dx!Inv, CloseVars, Dx!HalvesSound

\* A buffer out of the pool is in no other place.
LEMMA DxArriveInv ==
    ASSUME Dx!DemuxConnConstants, Dx!Inv, NEW b \in Bufs, NEW n \in 1..MaxSize, Dx!Arrive(b, n)
    PROVE  Dx!Inv'
<1>1. /\ dx_arrived = Nil /\ dx_arrived' = b /\ b \in dx_pool /\ dx_pool' = dx_pool \ {b}
      /\ dx_size' = [dx_size EXCEPT ![b] = n] /\ dx_got' = [dx_got EXCEPT ![b] = 0]
      /\ UNCHANGED <<dx_inCh, dx_overflowCh, dx_rd, dx_routed>> /\ UNCHANGED CloseVars
    BY Zenon DEF Dx!Arrive, CloseVars
<1>2. dx_inCh \in Seq(Dx!Slices) /\ dx_overflowCh \in Seq(Dx!Slices) /\ dx_got \in [Bufs -> 0..MaxSize]
    BY Zenon DEF Dx!Inv, Dx!TypeOK
<1>3. b \notin Dx!BufsOf(dx_inCh) /\ b \notin Dx!BufsOf(dx_overflowCh) /\ b # dx_rd.sx.b /\ b # Nil
    BY <1>1, Zenon DEF Dx!Inv, Dx!Apart, Dx!DemuxConnConstants
<1>4. Dx!TypeOK'
    <2>1. 0 \in 0..MaxSize
        BY SMTT(60) DEF Dx!DemuxConnConstants
    <2>2. QED
        BY <1>1, <2>1, ZenonT(60) DEF Dx!Inv, Dx!TypeOK, CloseVars
<1>5. Dx!ReadSound'
    <2>1. dx_rd.pc = "io" => dx_rd.sx.b \in Bufs
        BY Zenon DEF Dx!Inv, Dx!ReadSound, Dx!Slices
    <2>2. QED
        BY <1>1, <1>2, <1>3, <2>1, Zenon DEF Dx!Inv, Dx!ReadSound
<1>6. Dx!Apart'
    <2>1. Dx!BufsOf(dx_inCh') = Dx!BufsOf(dx_inCh) /\ Dx!BufsOf(dx_overflowCh') = Dx!BufsOf(dx_overflowCh)
          /\ Dx!Distinct(dx_inCh') /\ Dx!Distinct(dx_overflowCh')
        BY <1>1, Zenon DEF Dx!Inv, Dx!Apart
    <2>2. QED
        BY <1>1, <1>3, <2>1, Zenon DEF Dx!Inv, Dx!Apart
<1>7. Dx!QueuesSound'
    <2>1. Dx!Unread(dx_inCh, dx_got') /\ Dx!Unread(dx_overflowCh, dx_got')
        BY <1>1, <1>2, <1>3, DxUnseen, Zenon DEF Dx!Inv, Dx!QueuesSound
    <2>2. dx_got'[b] = 0
        BY <1>1, <1>2, Zenon
    <2>3. QED
        BY <1>1, <2>1, <2>2, Zenon DEF Dx!QueuesSound
<1>8. Dx!HalvesSound'
    BY <1>1, DxHalvesKept, Zenon
<1>9. QED
    BY <1>4, <1>5, <1>6, <1>7, <1>8, Zenon DEF Dx!Inv

\* readers() hands its buffer to the channel or back to the pool.
LEMMA DxDeliverInv ==
    ASSUME Dx!DemuxConnConstants, Dx!Inv, Dx!Deliver
    PROVE  Dx!Inv'
<1> DEFINE e == [b |-> dx_arrived, from |-> 0]
<1>1. /\ dx_arrived # Nil /\ dx_arrived' = Nil /\ dx_arrived \in Bufs
      /\ UNCHANGED <<dx_size, dx_routed, dx_overflowCh, dx_rd, dx_got>> /\ UNCHANGED CloseVars
    BY Zenon DEF Dx!Deliver, CloseVars, Dx!Inv, Dx!TypeOK
<1>2. Dx!HalvesSound'
    BY <1>1, DxHalvesKept, Zenon
<1>3. dx_inCh \in Seq(Dx!Slices) /\ dx_overflowCh \in Seq(Dx!Slices) /\ Nil \notin Bufs
      /\ Nil \notin Dx!BufsOf(dx_inCh) /\ Nil \notin Dx!BufsOf(dx_overflowCh) /\ Nil \notin dx_pool
    BY DxBufsOfBufs, Zenon DEF Dx!Inv, Dx!TypeOK, Dx!DemuxConnConstants
<1>4. Dx!ReadSound'
    BY <1>1, Zenon DEF Dx!Inv, Dx!ReadSound
<1>5. CASE Len(dx_inCh) < MaxInFlight /\ dx_inCh' = Append(dx_inCh, e) /\ dx_pool' = dx_pool
    <2>1. e \in Dx!Slices /\ e.b = dx_arrived /\ e.from = 0
        BY <1>1, SMTT(60) DEF Dx!Slices, Dx!DemuxConnConstants
    <2> HIDE DEF e
    <2>2. dx_arrived \notin Dx!BufsOf(dx_inCh) /\ Dx!Distinct(dx_inCh)
        BY Zenon DEF Dx!Inv, Dx!Apart
    <2>3. /\ dx_inCh' \in Seq(Dx!Slices) /\ Len(dx_inCh') = Len(dx_inCh) + 1
          /\ Dx!BufsOf(dx_inCh') = Dx!BufsOf(dx_inCh) \cup {dx_arrived} /\ Dx!Distinct(dx_inCh')
          /\ \A g : Dx!Unread(dx_inCh, g) /\ g[dx_arrived] = 0 => Dx!Unread(dx_inCh', g)
        BY <1>3, <1>5, <2>1, <2>2, DxSent, ZenonT(60)
    <2>4. Len(dx_inCh') <= MaxInFlight
        BY <1>3, <1>5, <2>3, SMTT(60) DEF Dx!DemuxConnConstants
    <2>5. Dx!TypeOK'
        BY <1>1, <1>5, <2>3, <2>4, SMTT(60) DEF Dx!Inv, Dx!TypeOK, CloseVars
    <2>6. Dx!Apart'
        <3>1. Dx!BufsOf(dx_overflowCh') = Dx!BufsOf(dx_overflowCh) /\ Dx!Distinct(dx_overflowCh')
            BY <1>1, Zenon DEF Dx!Inv, Dx!Apart
        <3>2. QED
            BY <1>1, <1>3, <1>5, <2>3, <3>1, ZenonT(60) DEF Dx!Inv, Dx!Apart
    <2>7. Dx!QueuesSound'
        BY <1>1, <2>3, SMTT(60) DEF Dx!Inv, Dx!QueuesSound
    <2>8. QED
        BY <1>2, <1>4, <2>5, <2>6, <2>7, ZenonT(60) DEF Dx!Inv
<1>6. CASE dx_pool' = dx_pool \cup {dx_arrived} /\ dx_inCh' = dx_inCh
    <2>1. Dx!TypeOK'
        BY <1>1, <1>6, Zenon DEF Dx!Inv, Dx!TypeOK, CloseVars
    <2>2. Dx!Apart'
        <3>1. Dx!BufsOf(dx_overflowCh') = Dx!BufsOf(dx_overflowCh) /\ Dx!Distinct(dx_overflowCh')
              /\ Dx!BufsOf(dx_inCh') = Dx!BufsOf(dx_inCh) /\ Dx!Distinct(dx_inCh')
            BY <1>1, <1>6, Zenon DEF Dx!Inv, Dx!Apart
        <3>2. QED
            BY <1>1, <1>3, <1>6, <3>1, Zenon DEF Dx!Inv, Dx!Apart
    <2>3. Dx!QueuesSound'
        BY <1>1, <1>6, Zenon DEF Dx!Inv, Dx!QueuesSound
    <2>4. QED
        BY <1>2, <1>4, <2>1, <2>2, <2>3, Zenon DEF Dx!Inv
<1>7. QED
    BY <1>5, <1>6, Zenon DEF Dx!Deliver

\* The steps of Read that take no packet.
LEMMA DxReadWaitsInv ==
    ASSUME Dx!DemuxConnConstants, Dx!Inv, (\E n \in 1..MaxSize : Dx!Read(n)) \/ Dx!ReadTimeout \/ Dx!ReadClosed \/ Dx!ReadReturns
    PROVE  Dx!Inv'
<1>1. /\ dx_rd'.sx = dx_rd.sx /\ dx_rd.pc # "io" /\ dx_rd'.pc # "io"
      /\ dx_rd' \in [pc : {"idle", "select", "io", "close"}, sx : Dx!Slices \cup {Dx!NoSlice}, sz : 1..MaxSize]
      /\ UNCHANGED <<dx_pool, dx_size, dx_routed, dx_arrived, dx_inCh, dx_overflowCh, dx_got>> /\ UNCHANGED CloseVars
    BY Zenon DEF Dx!Inv, Dx!TypeOK, Dx!Read, Dx!ReadTimeout, Dx!ReadClosed, Dx!ReadReturns, CloseVars
<1>2. Dx!TypeOK'
    BY <1>1, Zenon DEF Dx!Inv, Dx!TypeOK, CloseVars
<1>3. Dx!ReadSound'
    BY <1>1, Zenon DEF Dx!Inv, Dx!ReadSound
<1>4. Dx!Apart' /\ Dx!QueuesSound'
    BY <1>1, Zenon DEF Dx!Inv, Dx!Apart, Dx!QueuesSound
<1>5. QED
    BY <1>1, <1>2, <1>3, <1>4, DxHalvesKept, SMTT(60) DEF Dx!Inv

\* The slice that Read takes out of overflowCh is in io now.
LEMMA DxReadOverflowInv ==
    ASSUME Dx!DemuxConnConstants, Dx!Inv, Dx!ReadOverflow
    PROVE  Dx!Inv'
<1> DEFINE e == Head(dx_overflowCh)
<1>1. /\ dx_rd.pc = "select" /\ dx_overflowCh # << >> /\ dx_overflowCh' = Tail(dx_overflowCh)
      /\ dx_rd' = [dx_rd EXCEPT !.pc = "io", !.sx = e]
      /\ UNCHANGED <<dx_pool, dx_size, dx_routed, dx_arrived, dx_inCh, dx_got>> /\ UNCHANGED CloseVars
    BY Zenon DEF Dx!ReadOverflow, CloseVars
<1>2. dx_overflowCh \in Seq(Dx!Slices) /\ Dx!Distinct(dx_overflowCh) /\ Dx!Unread(dx_overflowCh, dx_got)
      /\ Len(dx_overflowCh) <= MaxOverflow /\ dx_inCh \in Seq(Dx!Slices)
    BY Zenon DEF Dx!Inv, Dx!TypeOK, Dx!Apart, Dx!QueuesSound
<1>3. /\ e \in Dx!Slices /\ dx_overflowCh' \in Seq(Dx!Slices)
      /\ Len(dx_overflowCh') = Len(dx_overflowCh) - 1 /\ Len(dx_overflowCh) \in Nat
      /\ e.b \in Dx!BufsOf(dx_overflowCh) /\ Dx!BufsOf(dx_overflowCh') = Dx!BufsOf(dx_overflowCh) \ {e.b}
      /\ Dx!Distinct(dx_overflowCh') /\ Dx!Unread(dx_overflowCh', dx_got) /\ e.from = dx_got[e.b]
    BY <1>1, <1>2, DxReceived, Zenon
<1> HIDE DEF e
<1>4. dx_rd'.pc = "io" /\ dx_rd'.sx = e
      /\ dx_rd' \in [pc : {"idle", "select", "io", "close"}, sx : Dx!Slices \cup {Dx!NoSlice}, sz : 1..MaxSize]
    BY <1>1, <1>3, Zenon DEF Dx!Inv, Dx!TypeOK
<1>5. Dx!TypeOK'
    <2>1. Len(dx_overflowCh') <= MaxOverflow
        BY <1>2, <1>3, SMTT(60) DEF Dx!DemuxConnConstants
    <2>2. QED
        BY <1>1, <1>3, <1>4, <2>1, Zenon DEF Dx!Inv, Dx!TypeOK, CloseVars
<1>6. Dx!ReadSound'
    BY <1>1, <1>3, <1>4, Zenon DEF Dx!ReadSound
<1>7. Dx!Apart'
    <2>1. Dx!BufsOf(dx_inCh') = Dx!BufsOf(dx_inCh) /\ Dx!Distinct(dx_inCh')
        BY <1>1, Zenon DEF Dx!Inv, Dx!Apart
    <2>2. QED
        BY <1>1, <1>3, <1>4, <2>1, SMTT(60) DEF Dx!Inv, Dx!Apart
<1>8. Dx!QueuesSound'
    BY <1>1, <1>3, SMTT(60) DEF Dx!Inv, Dx!QueuesSound
<1>9. QED
    BY <1>1, <1>5, <1>6, <1>7, <1>8, DxHalvesKept, Zenon DEF Dx!Inv

\* So is the one it takes out of inCh.
LEMMA DxReadInInv ==
    ASSUME Dx!DemuxConnConstants, Dx!Inv, Dx!ReadIn
    PROVE  Dx!Inv'
<1> DEFINE e == Head(dx_inCh)
<1>1. /\ dx_rd.pc = "select" /\ dx_inCh # << >> /\ dx_inCh' = Tail(dx_inCh)
      /\ dx_rd' = [dx_rd EXCEPT !.pc = "io", !.sx = e]
      /\ UNCHANGED <<dx_pool, dx_size, dx_routed, dx_arrived, dx_overflowCh, dx_got>> /\ UNCHANGED CloseVars
    BY Zenon DEF Dx!ReadIn, CloseVars
<1>2. dx_inCh \in Seq(Dx!Slices) /\ Dx!Distinct(dx_inCh) /\ Dx!Unread(dx_inCh, dx_got)
      /\ Len(dx_inCh) <= MaxInFlight /\ dx_overflowCh \in Seq(Dx!Slices)
    BY Zenon DEF Dx!Inv, Dx!TypeOK, Dx!Apart, Dx!QueuesSound
<1>3. /\ e \in Dx!Slices /\ dx_inCh' \in Seq(Dx!Slices)
      /\ Len(dx_inCh') = Len(dx_inCh) - 1 /\ Len(dx_inCh) \in Nat
      /\ e.b \in Dx!BufsOf(dx_inCh) /\ Dx!BufsOf(dx_inCh') = Dx!BufsOf(dx_inCh) \ {e.b}
      /\ Dx!Distinct(dx_inCh') /\ Dx!Unread(dx_inCh', dx_got) /\ e.from = dx_got[e.b]
    BY <1>1, <1>2, DxReceived
<1> HIDE DEF e
<1>4. dx_rd'.pc = "io" /\ dx_rd'.sx = e
      /\ dx_rd' \in [pc : {"idle", "select", "io", "close"}, sx : Dx!Slices \cup {Dx!NoSlice}, sz : 1..MaxSize]
    BY <1>1, <1>3, Zenon DEF Dx!Inv, Dx!TypeOK
<1>5. Dx!TypeOK'
    <2>1. Len(dx_inCh') <= MaxInFlight
        BY <1>2, <1>3, SMTT(60) DEF Dx!DemuxConnConstants
    <2>2. QED
        BY <1>1, <1>3, <1>4, <2>1, Zenon DEF Dx!Inv, Dx!TypeOK, CloseVars
<1>6. Dx!ReadSound'
    BY <1>1, <1>3, <1>4, Zenon DEF Dx!ReadSound
<1>7. Dx!Apart'
    <2>1. Dx!BufsOf(dx_overflowCh') = Dx!BufsOf(dx_overflowCh) /\ Dx!Distinct(dx_overflowCh')
        BY <1>1, Zenon DEF Dx!Inv, Dx!Apart
    <2>2. QED
        BY <1>1, <1>3, <1>4, <2>1, ZenonT(60) DEF Dx!Inv, Dx!Apart
<1>8. Dx!QueuesSound'
    BY <1>1, <1>3, Zenon DEF Dx!Inv, Dx!QueuesSound
<1>9. QED
    BY <1>1, <1>5, <1>6, <1>7, <1>8, DxHalvesKept DEF Dx!Inv

\* io hands its buffer to overflowCh, from where the read left off, or to the pool.
LEMMA DxIoInv ==
    ASSUME Dx!DemuxConnConstants, Dx!Inv, Dx!io
    PROVE  Dx!Inv'
<1> DEFINE b == dx_rd.sx.b
           e == Dx!End(dx_rd.sx)
           rest == [dx_rd.sx EXCEPT !.from = e]
<1>1. /\ dx_rd.pc = "io" /\ dx_got' = [dx_got EXCEPT ![b] = e]
      /\ dx_rd' = [dx_rd EXCEPT !.pc = "idle", !.sx = Dx!NoSlice]
      /\ UNCHANGED <<dx_size, dx_routed, dx_arrived, dx_inCh>> /\ UNCHANGED CloseVars
    BY Zenon DEF Dx!io, CloseVars
<1>2. dx_rd.sx \in Dx!Slices /\ b \in Bufs /\ Nil \notin Bufs
    BY <1>1, Zenon DEF Dx!Inv, Dx!ReadSound, Dx!Slices, Dx!DemuxConnConstants
<1>3. e \in 0..MaxSize
    <2>1. dx_rd.sx.from \in 0..MaxSize /\ dx_rd.sz \in 1..MaxSize /\ dx_size[b] \in 1..MaxSize
        BY <1>2, Zenon DEF Dx!Inv, Dx!TypeOK, Dx!Slices
    <2>2. QED
        BY <2>1, SMTT(60) DEF Dx!End, Dx!DemuxConnConstants
<1>4. rest \in Dx!Slices /\ rest.b = b /\ rest.from = e
    BY <1>2, <1>3, Zenon DEF Dx!Slices
<1> HIDE DEF b, e, rest
<1>5. /\ dx_inCh \in Seq(Dx!Slices) /\ dx_overflowCh \in Seq(Dx!Slices) /\ dx_got \in [Bufs -> 0..MaxSize]
      /\ Dx!Distinct(dx_inCh) /\ Dx!Distinct(dx_overflowCh)
      /\ b \notin Dx!BufsOf(dx_inCh) /\ b \notin Dx!BufsOf(dx_overflowCh) /\ b \notin dx_pool /\ b # dx_arrived
    BY <1>2, Zenon DEF Dx!Inv, Dx!TypeOK, Dx!Apart, b
<1>6. /\ dx_rd'.pc = "idle" /\ dx_rd'.sx = Dx!NoSlice
      /\ dx_rd' \in [pc : {"idle", "select", "io", "close"}, sx : Dx!Slices \cup {Dx!NoSlice}, sz : 1..MaxSize]
    BY <1>1, Zenon DEF Dx!Inv, Dx!TypeOK
<1>7. dx_got' \in [Bufs -> 0..MaxSize] /\ dx_got'[b] = e /\ (dx_arrived # Nil => dx_got'[dx_arrived] = 0)
    <2>1. dx_arrived # Nil => dx_got[dx_arrived] = 0 /\ dx_arrived \in Bufs
        BY Zenon DEF Dx!Inv, Dx!TypeOK, Dx!QueuesSound
    <2>2. QED
        BY <1>1, <1>2, <1>3, <1>5, <2>1, Zenon
<1>8. Dx!Unread(dx_inCh, dx_got') /\ Dx!Unread(dx_overflowCh, dx_got')
    BY <1>1, <1>2, <1>5, DxUnseen, Zenon DEF Dx!Inv, Dx!QueuesSound
<1>9. Dx!ReadSound' /\ Dx!HalvesSound'
    BY <1>1, <1>6, DxHalvesKept, Zenon DEF Dx!ReadSound
<1>10. Nil \notin Dx!BufsOf(dx_inCh) /\ Nil \notin Dx!BufsOf(dx_overflowCh) /\ Nil \notin dx_pool /\ Dx!NoSlice.b = Nil
    BY <1>2, <1>5, DxBufsOfBufs, Zenon DEF Dx!Inv, Dx!TypeOK, Dx!NoSlice
<1>11. CASE Len(dx_overflowCh) < MaxOverflow /\ dx_overflowCh' = Append(dx_overflowCh, rest) /\ dx_pool' = dx_pool
    <2>1. /\ dx_overflowCh' \in Seq(Dx!Slices) /\ Len(dx_overflowCh') = Len(dx_overflowCh) + 1
          /\ Dx!BufsOf(dx_overflowCh') = Dx!BufsOf(dx_overflowCh) \cup {b} /\ Dx!Distinct(dx_overflowCh')
          /\ Dx!Unread(dx_overflowCh', dx_got')
        BY <1>4, <1>5, <1>7, <1>8, <1>11, DxSent, ZenonT(60)
    <2>2. Len(dx_overflowCh') <= MaxOverflow
        BY <1>5, <1>11, <2>1, SMTT(60) DEF Dx!DemuxConnConstants
    <2>3. Dx!TypeOK'
        BY <1>1, <1>6, <1>7, <1>11, <2>1, <2>2, ZenonT(60) DEF Dx!Inv, Dx!TypeOK, CloseVars
    <2>4. Dx!Apart'
        BY <1>1, <1>2, <1>5, <1>6, <1>10, <1>11, <2>1, SMTT(60) DEF Dx!Inv, Dx!Apart
    <2>5. Dx!QueuesSound'
        BY <1>1, <1>7, <1>8, <2>1, SMTT(60) DEF Dx!QueuesSound
    <2>6. QED
        BY <1>9, <2>3, <2>4, <2>5, Zenon DEF Dx!Inv
<1>12. CASE dx_pool' = dx_pool \cup {b} /\ dx_overflowCh' = dx_overflowCh
    <2>1. Dx!TypeOK'
        BY <1>1, <1>2, <1>6, <1>7, <1>12, Zenon DEF Dx!Inv, Dx!TypeOK, CloseVars
    <2>2. Dx!Apart'
        BY <1>1, <1>2, <1>5, <1>6, <1>10, <1>12, SMTT(60) DEF Dx!Inv, Dx!Apart
    <2>3. Dx!QueuesSound'
        BY <1>1, <1>7, <1>8, <1>12, Zenon DEF Dx!QueuesSound
    <2>4. QED
        BY <1>9, <2>1, <2>2, <2>3, Zenon DEF Dx!Inv
<1>13. QED
    BY <1>11, <1>12, Zenon DEF Dx!io, b, e, rest

\* Draining hands buffers of the channels to the pool.
LEMMA DxOnceDrainInv ==
    ASSUME Dx!DemuxConnConstants, Dx!Inv, Dx!OnceDrain
    PROVE  Dx!Inv'
<1>1. /\ dx_once = "drain" /\ dx_once' \in {"drain", "done"}
      /\ UNCHANGED <<dx_size, dx_routed, dx_arrived, dx_rd, dx_got, dx_closed, dx_readClosed, dx_writeClosed, dx_closer>>
    BY Zenon DEF Dx!OnceDrain
<1>2. Dx!HalvesSound'
    BY <1>1, Zenon DEF Dx!Inv, Dx!HalvesSound
<1>3. Dx!ReadSound'
    BY <1>1, Zenon DEF Dx!Inv, Dx!ReadSound
<1>4. /\ dx_inCh \in Seq(Dx!Slices) /\ Dx!Distinct(dx_inCh) /\ Dx!Unread(dx_inCh, dx_got) /\ Len(dx_inCh) <= MaxInFlight
      /\ dx_overflowCh \in Seq(Dx!Slices) /\ Dx!Distinct(dx_overflowCh) /\ Dx!Unread(dx_overflowCh, dx_got)
      /\ Len(dx_overflowCh) <= MaxOverflow
      /\ Dx!BufsOf(dx_inCh) \subseteq Bufs /\ Dx!BufsOf(dx_overflowCh) \subseteq Bufs
    BY DxBufsOfBufs, Zenon DEF Dx!Inv, Dx!TypeOK, Dx!Apart, Dx!QueuesSound
<1>5. CASE dx_inCh # << >> /\ dx_pool' = dx_pool \cup {Head(dx_inCh).b} /\ dx_inCh' = Tail(dx_inCh)
           /\ dx_overflowCh' = dx_overflowCh
    <2> DEFINE b == Head(dx_inCh).b
    <2>1. /\ dx_inCh' \in Seq(Dx!Slices) /\ Len(dx_inCh') = Len(dx_inCh) - 1 /\ Len(dx_inCh) \in Nat
          /\ b \in Dx!BufsOf(dx_inCh) /\ Dx!BufsOf(dx_inCh') = Dx!BufsOf(dx_inCh) \ {b}
          /\ Dx!Distinct(dx_inCh') /\ Dx!Unread(dx_inCh', dx_got) /\ dx_pool' = dx_pool \cup {b}
        BY <1>4, <1>5, DxReceived, Zenon
    <2> HIDE DEF b
    <2>2. Len(dx_inCh') <= MaxInFlight
        BY <1>4, <2>1, SMTT(60) DEF Dx!DemuxConnConstants
    <2>3. Dx!TypeOK'
        BY <1>1, <1>4, <1>5, <2>1, <2>2, Zenon DEF Dx!Inv, Dx!TypeOK
    <2>4. Dx!Apart'
        BY <1>1, <1>4, <1>5, <2>1, ZenonT(60) DEF Dx!Inv, Dx!Apart
    <2>5. Dx!QueuesSound'
        BY <1>1, <1>5, <2>1, SMTT(60) DEF Dx!Inv, Dx!QueuesSound
    <2>6. QED
        BY <1>2, <1>3, <2>3, <2>4, <2>5 DEF Dx!Inv
<1>6. CASE dx_overflowCh # << >> /\ dx_pool' = dx_pool \cup {Head(dx_overflowCh).b}
           /\ dx_overflowCh' = Tail(dx_overflowCh) /\ dx_inCh' = dx_inCh
    <2> DEFINE b == Head(dx_overflowCh).b
    <2>1. /\ dx_overflowCh' \in Seq(Dx!Slices) /\ Len(dx_overflowCh') = Len(dx_overflowCh) - 1
          /\ Len(dx_overflowCh) \in Nat
          /\ b \in Dx!BufsOf(dx_overflowCh) /\ Dx!BufsOf(dx_overflowCh') = Dx!BufsOf(dx_overflowCh) \ {b}
          /\ Dx!Distinct(dx_overflowCh') /\ Dx!Unread(dx_overflowCh', dx_got) /\ dx_pool' = dx_pool \cup {b}
        BY <1>4, <1>6, DxReceived, Zenon
    <2> HIDE DEF b
    <2>2. Len(dx_overflowCh') <= MaxOverflow
        BY <1>4, <2>1, SMTT(60) DEF Dx!DemuxConnConstants
    <2>3. Dx!TypeOK'
        BY <1>1, <1>4, <1>6, <2>1, <2>2, SMTT(60) DEF Dx!Inv, Dx!TypeOK
    <2>4. Dx!Apart'
        BY <1>1, <1>4, <1>6, <2>1, ZenonT(60) DEF Dx!Inv, Dx!Apart
    <2>5. Dx!QueuesSound'
        BY <1>1, <1>6, <2>1, Zenon DEF Dx!Inv, Dx!QueuesSound
    <2>6. QED
        BY <1>2, <1>3, <2>3, <2>4, <2>5 DEF Dx!Inv
<1>7. CASE UNCHANGED <<dx_pool, dx_inCh, dx_overflowCh>>
    <2>1. UNCHANGED PacketVars
        BY <1>1, <1>7, Zenon DEF PacketVars
    <2>2. Dx!TypeOK'
        BY <1>1, <1>7, Zenon DEF Dx!Inv, Dx!TypeOK
    <2>3. QED
        BY <1>2, <2>1, <2>2, DxPacketsKept, Zenon DEF Dx!Inv
<1>8. QED
    BY <1>5, <1>6, <1>7, Zenon DEF Dx!OnceDrain

\* The steps that close, and Unroute, leave the packets alone.
LEMMA DxClosingInv ==
    ASSUME Dx!DemuxConnConstants, Dx!Inv,
           \/ Dx!Unroute \/ Dx!CloseRead \/ Dx!CloseWrite \/ Dx!Close
           \/ Dx!OnceClose \/ Dx!OnceReadClosed \/ Dx!OnceWriteClosed
           \/ \E p \in Dx!Closers : Dx!Closeall(p) \/ Dx!CloseReturns(p)
    PROVE  Dx!Inv'
<1>1. UNCHANGED PacketVars
    BY Zenon DEF PacketVars, Dx!Unroute, Dx!CloseRead, Dx!CloseWrite, Dx!Close, Dx!OnceClose, Dx!OnceReadClosed,
           Dx!OnceWriteClosed, Dx!Closeall, Dx!CloseReturns
<1>2. Dx!ReadSound' /\ Dx!Apart' /\ Dx!QueuesSound'
    BY <1>1, DxPacketsKept, SMTT(60)
<1>3. Dx!TypeOK' /\ Dx!HalvesSound'
    <2> SUFFICES ASSUME Dx!TypeOK, Dx!HalvesSound
                 PROVE  Dx!TypeOK' /\ Dx!HalvesSound'
        BY Zenon DEF Dx!Inv
    <2> USE DEF Dx!TypeOK, Dx!HalvesSound, PacketVars, Dx!Closers
    <2>1. CASE Dx!Unroute
        BY <1>1, <2>1, Zenon DEF Dx!Unroute
    <2>2. CASE Dx!CloseRead
        BY <1>1, <2>2, Zenon DEF Dx!CloseRead
    <2>3. CASE Dx!CloseWrite
        BY <1>1, <2>3, Zenon DEF Dx!CloseWrite
    <2>4. CASE Dx!Close
        BY <1>1, <2>4, Zenon DEF Dx!Close
    <2>5. CASE Dx!OnceClose
        BY <1>1, <2>5, SMTT(60) DEF Dx!OnceClose
    <2>6. CASE Dx!OnceReadClosed
        BY <1>1, <2>6, SMTT(60) DEF Dx!OnceReadClosed
    <2>7. CASE Dx!OnceWriteClosed
        BY <1>1, <2>7, SMTT(60) DEF Dx!OnceWriteClosed
    <2>8. ASSUME NEW p \in Dx!Closers, Dx!Closeall(p)
          PROVE  Dx!TypeOK' /\ Dx!HalvesSound'
        BY <1>1, <2>8, Zenon DEF Dx!Closeall
    <2>9. ASSUME NEW p \in Dx!Closers, Dx!CloseReturns(p)
          PROVE  Dx!TypeOK' /\ Dx!HalvesSound'
        BY <1>1, <2>9, Zenon DEF Dx!CloseReturns
    <2>10. QED
        BY <2>1, <2>2, <2>3, <2>4, <2>5, <2>6, <2>7, <2>8, <2>9, ZenonT(60)
<1>4. QED
    BY <1>2, <1>3, SMTT(60) DEF Dx!Inv

-----------------------------------------------------------------------------
(* the theorems *)

\* Every buffer is in one place, what is queued is unread, and the halves
\* agree on who closes, whatever readers(), Read and the closers interleave.
THEOREM ConnInvariant ==
    ASSUME Dx!DemuxConnConstants
    PROVE  Dx!Spec => []Dx!Inv
<1>1. Dx!Init => Dx!Inv
    BY DxInitInv
<1>2. Dx!Inv /\ [Dx!Next]_(Dx!vars) => Dx!Inv'
    <2> SUFFICES ASSUME Dx!Inv, [Dx!Next]_(Dx!vars)
                 PROVE  Dx!Inv'
        BY Zenon
    <2>1. CASE UNCHANGED (Dx!vars)
        <3>1. UNCHANGED PacketVars /\ UNCHANGED CloseVars /\ dx_routed' = dx_routed
            BY <2>1, Zenon DEF Dx!vars, PacketVars, CloseVars
        <3>2. Dx!TypeOK'
            BY <3>1, ZenonT(60) DEF Dx!Inv, Dx!TypeOK, PacketVars, CloseVars
        <3>3. QED
            BY <3>1, <3>2, DxPacketsKept, DxHalvesKept, Zenon DEF Dx!Inv
    <2>2. CASE \E b \in Bufs, n \in 1..MaxSize : Dx!Arrive(b, n)
        BY <2>2, DxArriveInv, Zenon
    <2>3. CASE Dx!Deliver
        BY <2>3, DxDeliverInv, Zenon
    <2>4. CASE (\E n \in 1..MaxSize : Dx!Read(n)) \/ Dx!ReadTimeout \/ Dx!ReadClosed \/ Dx!ReadReturns
        BY <2>4, DxReadWaitsInv, SMTT(60)
    <2>5. CASE Dx!ReadOverflow
        BY <2>5, DxReadOverflowInv, Zenon
    <2>6. CASE Dx!ReadIn
        BY <2>6, DxReadInInv, Zenon
    <2>7. CASE Dx!io
        BY <2>7, DxIoInv
    <2>8. CASE Dx!OnceDrain
        BY <2>8, DxOnceDrainInv
    <2>9. CASE \/ Dx!Unroute \/ Dx!CloseRead \/ Dx!CloseWrite \/ Dx!Close
               \/ Dx!OnceClose \/ Dx!OnceReadClosed \/ Dx!OnceWriteClosed
               \/ \E p \in Dx!Closers : Dx!Closeall(p) \/ Dx!CloseReturns(p)
        BY <2>9, DxClosingInv, Zenon
    <2>10. QED
        BY <2>1, <2>2, <2>3, <2>4, <2>5, <2>6, <2>7, <2>8, <2>9, SMTT(60) DEF Dx!Next
<1>3. QED
    BY <1>1, <1>2, PTL DEF Dx!Spec

\* The recycler of a buffer runs once: the pool, the channels, readers() and
\* io hold it one at a time, for any number of buffers and any capacities.
THEOREM BuffersHaveOneHolder ==
    ASSUME Dx!DemuxConnConstants
    PROVE  Dx!Spec => []Dx!OneHolder
<1>1. Dx!Inv => Dx!OneHolder
    <2> SUFFICES ASSUME Dx!Inv, NEW b \in Bufs, NEW x \in Dx!Holders(b), NEW y \in Dx!Holders(b)
                 PROVE  x = y
        BY Zenon DEF Dx!OneHolder
    <2> DEFINE In(h) == \E i \in 1..Len(dx_inCh) : dx_inCh[i].b = b /\ h = <<"inCh", i>>
               Over(h) == \E i \in 1..Len(dx_overflowCh) : dx_overflowCh[i].b = b /\ h = <<"overflowCh", i>>
    <2>1. b # Nil
        BY SMTT(60) DEF Dx!DemuxConnConstants
    <2>2. \A h \in Dx!Holders(b) :
             \/ In(h) \/ Over(h)
             \/ b \in dx_pool /\ h = <<"pool", 0>>
             \/ b = dx_arrived /\ h = <<"readers", 0>>
             \/ b = dx_rd.sx.b /\ h = <<"io", 0>>
        BY Zenon DEF Dx!Holders
    <2>3. \A h : (In(h) => b \in Dx!BufsOf(dx_inCh)) /\ (Over(h) => b \in Dx!BufsOf(dx_overflowCh))
        BY Zenon DEF Dx!BufsOf
    <2>4. (In(x) /\ In(y) => x = y) /\ (Over(x) /\ Over(y) => x = y)
        BY Zenon DEF Dx!Inv, Dx!Apart, Dx!Distinct
    <2> HIDE DEF In, Over
    <2>5. QED
        BY <2>1, <2>2, <2>3, <2>4, SMTT(60) DEF Dx!Inv, Dx!Apart
<1>2. QED
    BY <1>1, ConnInvariant, PTL

\* What overflowCh keeps of a packet, and what io is about to copy, starts
\* where the reads of it have left off.
THEOREM OverflowIsUnread ==
    ASSUME Dx!DemuxConnConstants
    PROVE  Dx!Spec => []Dx!RestIsUnread
<1>1. Dx!Inv => Dx!RestIsUnread
    <2> SUFFICES ASSUME Dx!Inv
                 PROVE  Dx!RestIsUnread
        BY Zenon
    <2>1. DOMAIN dx_overflowCh = 1..Len(dx_overflowCh)
        BY SMTT(60) DEF Dx!Inv, Dx!TypeOK
    <2>2. QED
        BY <2>1, Zenon DEF Dx!Inv, Dx!QueuesSound, Dx!ReadSound, Dx!Unread, Dx!RestIsUnread
<1>2. QED
    BY <1>1, ConnInvariant, PTL

\* When CloseRead and CloseWrite have both returned the conn is closed,
\* whatever way their compare-and-swaps and loads race with each other and
\* with Close.
THEOREM HalvesCloseTheConn ==
    ASSUME Dx!DemuxConnConstants
    PROVE  Dx!Spec => []Dx!HalvesClose
<1>1. Dx!Inv => Dx!HalvesClose
    BY Zenon DEF Dx!Inv, Dx!HalvesSound, Dx!HalvesClose
<1>2. QED
    BY <1>1, ConnInvariant, PTL

-----------------------------------------------------------------------------
(* the components, of which one runs *)

VARIABLE part          \* the component that runs

On(p) == part = p

\* A muxer stops by itself only when its socket fails; a reset stops it for
\* sure, and a stop that has begun runs to its end (uwFair).
mtFair == /\ \A x \in Muxers : WF_mtVars(On("mt") /\ x \in mt_tostop /\ Mt!Stop(x))
          /\ \A x \in Muxers : WF_mtVars(On("mt") /\ (Mt!Drain(x) \/ Mt!CallBack(x) \/ Mt!dissociate(x)))
          /\ \A x \in Muxers : WF_mtVars(On("mt") /\ Mt!ResetStop(x))

\* The muxer of a socket.
VARIABLES um_doneCh, um_mxopen, um_rmu, um_routes, um_conn, um_key, um_vend, um_watch,
          um_wg, um_router, um_timeouts, um_awaiter, um_stop
umVars == <<um_doneCh, um_mxopen, um_rmu, um_routes, um_conn, um_key, um_vend, um_watch,
            um_wg, um_router, um_timeouts, um_awaiter, um_stop>>
Um == INSTANCE UdpMuxProofs WITH
    Conns <- MuxConns,
    doneCh <- um_doneCh, mxopen <- um_mxopen, rmu <- um_rmu, routes <- um_routes,
    conn <- um_conn, key <- um_key, vend <- um_vend, watch <- um_watch, wg <- um_wg,
    router <- um_router, timeouts <- um_timeouts, awaiter <- um_awaiter, stop <- um_stop

\* The same with fewer remotes, for what has to end.
VARIABLES uw_doneCh, uw_mxopen, uw_rmu, uw_routes, uw_conn, uw_key, uw_vend, uw_watch,
          uw_wg, uw_router, uw_timeouts, uw_awaiter, uw_stop
uwVars == <<uw_doneCh, uw_mxopen, uw_rmu, uw_routes, uw_conn, uw_key, uw_vend, uw_watch,
            uw_wg, uw_router, uw_timeouts, uw_awaiter, uw_stop>>
Uw == INSTANCE UdpMux WITH
    Addrs <- OneAddr, Conns <- MuxConns,
    doneCh <- uw_doneCh, mxopen <- uw_mxopen, rmu <- uw_rmu, routes <- uw_routes,
    conn <- uw_conn, key <- uw_key, vend <- uw_vend, watch <- uw_watch, wg <- uw_wg,
    router <- uw_router, timeouts <- uw_timeouts, awaiter <- uw_awaiter, stop <- uw_stop
\* The scheduler runs every goroutine that can go on, and reading from a closed
\* mxconn returns; packets, flows, vends and closes are owed to nobody.
uwFair == /\ \A r \in Egress \cup {Reader} : WF_uwVars(On("uw") /\ Uw!RouteStep(r))
          /\ \A c \in MuxConns : /\ WF_uwVars(On("uw") /\ Uw!unroute(c))
                                 /\ WF_uwVars(On("uw") /\ Uw!Unaccept(c))
          /\ WF_uwVars(On("uw") /\ Uw!Accept)
          /\ WF_uwVars(On("uw") /\ Uw!AwaiterDone)
          /\ WF_uwVars(On("uw") /\ Uw!StopStep)
          /\ WF_uwVars(On("uw") /\ ~uw_mxopen /\ Uw!ReadError)

\* Goroutines that can go on do; nothing is owed by the network, by the timers
\* or by those who might close the conn.
dxFair == /\ WF_dxVars(On("dx") /\ Dx!Deliver)
          /\ WF_dxVars(On("dx") /\ Dx!Unroute)
          /\ WF_dxVars(On("dx") /\ Dx!Once)
          /\ WF_dxVars(On("dx") /\ Dx!ReadClosed)
          /\ WF_dxVars(On("dx") /\ Dx!ReadReturns)
          /\ WF_dxVars(On("dx") /\ Dx!io)
          /\ \A p \in Dx!Closers : /\ WF_dxVars(On("dx") /\ Dx!Closeall(p))
                                   /\ WF_dxVars(On("dx") /\ Dx!CloseReturns(p))

\* The constants are what the proofs about the components take them to be.
ASSUME UmC == Um!UdpMuxConstants
ASSUME UwC == Uw!UdpMuxConstants
ASSUME MtC == Mt!MuxTableConstants
ASSUME DxC == Dx!DemuxConnConstants

-----------------------------------------------------------------------------
\* The components that do not run stay in one initial state.  Calls and owners
\* are alike, so it is enough to let one call be of another owner.
MCInit ==
    /\ part \in Parts
    /\ Init
    /\ Um!Init
    /\ Uw!Init
    /\ Mt!Init
    /\ \A c \in Calls : mt_call[c].uid # FirstOwner => c = OddCall /\ part = "mt"
    /\ Dx!Init

MCNext ==
    /\ UNCHANGED part
    /\ IF part = "conns" THEN Next ELSE UNCHANGED vars
    /\ IF part = "um" THEN Um!Next ELSE UNCHANGED umVars
    /\ IF part = "uw" THEN Uw!Next ELSE UNCHANGED uwVars
    /\ IF part = "mt" THEN Mt!Next ELSE UNCHANGED mtVars
    /\ IF part = "dx" THEN Dx!Next ELSE UNCHANGED dxVars

allvars == <<part, vars, umVars, uwVars, mtVars, dxVars>>

MCSpec == MCInit /\ [][MCNext]_allvars

-----------------------------------------------------------------------------
\* The type invariant of every component (of Uw it is that of Um).
TypesOK ==
    /\ On("conns") => TypeOK
    /\ On("um") => Um!TypeOK
    /\ On("mt") => Mt!TypeOK
    /\ On("dx") => Dx!TypeOK

\* udpmux.go and udp.go, while flows, packets, closes, stops and resets race.
\* The table finds every muxer that runs, for its own socket and owner; after
\* drain no conn of a muxer is open, and no two are open to one remote.
RoutesAreSound ==
    /\ On("mt") => Mt!RunningIsFound /\ Mt!OwnMuxer
    /\ On("um") => Um!DrainClosesAll /\ Um!OneOpenPerAddr

\* udpmux.go: each buffer taken from the pool is held by one party (the reader,
\* a channel, the conn's rest, or the pool), what a short Read left over is what
\* the next one gets, and once Close has returned both halves are closed.
OneHolder == On("dx") => Dx!OneHolder /\ Dx!RestIsUnread /\ Dx!HalvesClose

\* udpmux.go: the muxer implements its abstract specification (MuxerSpec), and
\* no step takes the route of an open conn away from it.
KeepsPromise == Um!KeepsPromise /\ Um!OpenStaysRouted

\* udpmux.go and udp.go: a stop of a muxer does not wait for ever: it calls back, or
\* its Wait panics because an Add raced it, and the callback is not made; a closed
\* conn leaves the routes; a reset of the table stops the muxers it
\* found, and a dead muxer makes way for another; Read and Close of a conn
\* return once the conn is closed.
WaitsEnd ==
    /\ (On("uw") /\ uwFair) => Uw!StopCompletes /\ Uw!ClosedIsUnrouted
    /\ (On("mt") /\ mtFair) => Mt!ResetStopsAll /\ Mt!DeadIsReplaceable
    /\ (On("dx") /\ dxFair) => Dx!ReadWakes /\ Dx!CloseEnds

-----------------------------------------------------------------------------
(* the components side by side *)

\* A behaviour of the whole is, for each component, a behaviour of its own
\* specification, in which it moves or stands still.
LEMMA PartsAreTheirOwn ==
    MCSpec => Spec /\ Um!Spec /\ Mt!Spec /\ Dx!Spec
<1>1. MCInit => Init /\ Um!Init /\ Mt!Init /\ Dx!Init
  BY ZenonT(60) DEF MCInit
<1>2. [MCNext]_allvars => [Next]_vars
  BY ZenonT(60) DEF MCNext, allvars
<1>3. [MCNext]_allvars => [Um!Next]_(Um!vars)
  BY ZenonT(60) DEF MCNext, allvars, umVars, Um!vars
<1>4. [MCNext]_allvars => [Mt!Next]_(Mt!vars)
  BY ZenonT(60) DEF MCNext, allvars, mtVars, Mt!vars
<1>5. [MCNext]_allvars => [Dx!Next]_(Dx!vars)
  BY Zenon DEF MCNext, allvars, dxVars, Dx!vars
<1> QED
  BY <1>1, <1>2, <1>3, <1>4, <1>5, PTL DEF MCSpec, Spec, Um!Spec, Mt!Spec, Dx!Spec

(***************************************************************************)
(* Every component keeps its types.                                        *)
(***************************************************************************)
THEOREM ComponentsAreTyped == MCSpec => []TypesOK
<1>1. Inv /\ Um!Inv /\ Mt!Inv /\ Dx!Inv => TypesOK
  BY ZenonT(60) DEF TypesOK, Inv, Um!Inv, Mt!Inv, Dx!Inv
<1>2. Um!Spec => []Um!Inv
  BY UmC, Um!MuxerInvariant, ZenonT(60)
<1>3. Mt!Spec => []Mt!Inv
  BY MtC, MuxTableInvariant, Zenon
<1>4. Dx!Spec => []Dx!Inv
  BY DxC, ConnInvariant, Zenon
<1> QED
  BY <1>1, <1>2, <1>3, <1>4, PartsAreTheirOwn, ConnMapInvariant, PTL

(***************************************************************************)
(* Whatever flows, packets, closes, stops and resets race: until a restart *)
(* the table of associate finds each muxer that runs, and a call routes    *)
(* over a muxer of its own source and owner; the drain of a muxer leaves   *)
(* no conn open, and no two conns are open to one remote.                  *)
(***************************************************************************)
THEOREM RoutesStaySound == MCSpec => []RoutesAreSound
<1>1. Um!Spec => []Um!DrainClosesAll /\ []Um!OneOpenPerAddr
  BY UmC, Um!StopLeavesNoneOpen, Um!RemotesHaveOneConn, ZenonT(60)
<1>2. Mt!Spec => []Mt!RunningIsFound /\ []Mt!OwnMuxer
  BY MtC, RunningMuxersAreFound, CallsUseTheirOwnMuxer, Zenon
<1>3. Um!DrainClosesAll /\ Um!OneOpenPerAddr /\ Mt!RunningIsFound /\ Mt!OwnMuxer
        => RoutesAreSound
  BY ZenonT(60) DEF RoutesAreSound
<1> QED
  BY <1>1, <1>2, <1>3, PartsAreTheirOwn, PTL

(***************************************************************************)
(* The buffers of a conn of the muxer have one holder each, what a short   *)
(* Read left is what the next one gets, and a returned Close has closed    *)
(* both halves.                                                            *)
(***************************************************************************)
THEOREM HoldersStaySingle == MCSpec => []OneHolder
<1>1. Dx!Spec => []Dx!OneHolder /\ []Dx!RestIsUnread /\ []Dx!HalvesClose
  BY DxC, BuffersHaveOneHolder, OverflowIsUnread, HalvesCloseTheConn, ZenonT(60)
<1>2. Dx!OneHolder /\ Dx!RestIsUnread /\ Dx!HalvesClose => OneHolder
  BY ZenonT(60) DEF OneHolder
<1> QED
  BY <1>1, <1>2, PartsAreTheirOwn, PTL

(***************************************************************************)
(* The muxer implements MuxerSpec, and keeps the routes of open conns.     *)
(***************************************************************************)
THEOREM PromiseIsKept == MCSpec => KeepsPromise
<1>1. Um!Spec => Um!KeepsPromise
  BY UmC, Um!MuxerKeepsPromise, ZenonT(60)
<1>2. Um!Spec => Um!OpenStaysRouted
  BY UmC, Um!OpenConnsStayRouted, ZenonT(60)
<1> QED
  BY <1>1, <1>2, PartsAreTheirOwn, PTL DEF KeepsPromise
=============================================================================
