------------------------------ MODULE ConnMap -------------------------------
(***************************************************************************)
(* The conn tracker (intra/core/connmap.go): conns by the id of their flow *)
(* (tracc), and the ids of flows by user (tracu) and by proxy (tracp), so  *)
(* that the client can close the conns of a flow, of a user or of a proxy. *)
(* Every operation runs under the map's mutex.                             *)
(***************************************************************************)
EXTENDS Integers, FiniteSets

CONSTANTS
    Cids,       \* ids of flows
    Uids,       \* ids of users
    Pids,       \* ids of proxies
    Conns,
    NoId        \* the empty string: nothing is indexed under it

ASSUME ConnMapAssumption ==
    /\ NoId \notin Cids \cup Uids \cup Pids
    /\ Cids \cap (Uids \cup Pids) = {} /\ Uids \cap Pids = {}
    /\ IsFiniteSet(Conns)

VARIABLES
    tracc,      \* cid -> its conns, user and proxy
    tracu,      \* uid -> cids
    tracp,      \* pid -> cids
    sz,         \* number of tracked conns
    open,       \* the conns that flows have handed over and the map has not closed
    used,       \* all that flows have ever handed over
    repeated    \* an id was tracked while it was tracked ("should not happen?")

vars == <<tracc, tracu, tracp, sz, open, used, repeated>>

Stats == [c : SUBSET Conns, uid : Uids \cup {NoId}, pid : Pids \cup {NoId}, tracked : BOOLEAN]

NoStat == [c |-> {}, uid |-> NoId, pid |-> NoId, tracked |-> FALSE]

TypeOK ==
    /\ tracc \in [Cids -> Stats]
    /\ tracu \in [Uids -> SUBSET Cids]
    /\ tracp \in [Pids -> SUBSET Cids]
    /\ sz \in Nat
    /\ open \subseteq Conns
    /\ used \subseteq Conns
    /\ repeated \in BOOLEAN

Init ==
    /\ tracc = [cid \in Cids |-> NoStat]
    /\ tracu = [u \in Uids |-> {}]
    /\ tracp = [p \in Pids |-> {}]
    /\ sz = 0
    /\ open = {}
    /\ used = {}
    /\ repeated = FALSE

-----------------------------------------------------------------------------

WithConns(stat, cs) == [stat EXCEPT !.c = @ \cup cs]

\* Mutant: a repeated id moves to the user and the proxy it is repeated with.
TrackMoves(cid, uid, pid, cs) ==
    /\ cs # {}
    /\ cs \cap used = {}
    /\ tracc' = [tracc EXCEPT ![cid] = [c |-> @.c \cup cs, uid |-> uid, pid |-> pid, tracked |-> TRUE]]
    /\ tracu' = IF tracc[cid].tracked THEN tracu
                ELSE [u \in Uids |-> IF u = uid THEN tracu[u] \cup {cid} ELSE tracu[u]]
    /\ tracp' = IF tracc[cid].tracked THEN tracp
                ELSE [p \in Pids |-> IF p = pid THEN tracp[p] \cup {cid} ELSE tracp[p]]
    /\ sz' = sz + Cardinality(cs)
    /\ open' = open \cup cs
    /\ used' = used \cup cs
    /\ repeated' = (repeated \/ tracc[cid].tracked)

\* A flow tracks its conns, which no other flow has.
Track(cid, uid, pid, cs) ==
    /\ cs # {}
    /\ cs \cap used = {}
    /\ tracc' = [tracc EXCEPT ![cid] =
                   IF tracc[cid].tracked THEN WithConns(tracc[cid], cs)
                   ELSE [c |-> cs, uid |-> uid, pid |-> pid, tracked |-> TRUE]]
    /\ tracu' = [u \in Uids |-> IF u = uid THEN tracu[u] \cup {cid} ELSE tracu[u]]
    /\ tracp' = [p \in Pids |-> IF p = pid THEN tracp[p] \cup {cid} ELSE tracp[p]]
    /\ sz' = sz + Cardinality(cs)
    /\ open' = open \cup cs
    /\ used' = used \cup cs
    /\ repeated' = (repeated \/ tracc[cid].tracked)

\* Mutant: the index is ranged over while it shrinks, which skips entries.
TargetsSkipping(id) ==
    CASE id \in Cids -> {id}
      [] id \in Uids -> IF Cardinality(tracu[id]) > 1 THEN {CHOOSE c \in tracu[id] : TRUE} ELSE tracu[id]
      [] id \in Pids -> tracp[id]

\* The flows an id names: itself, those of a user, or those of a proxy.
Targets(id) ==
    CASE id \in Cids -> {id}
      [] id \in Uids -> tracu[id]
      [] id \in Pids -> tracp[id]

ConnsOf(cids) == UNION {tracc[c].c : c \in cids}

\* Mutant: the conns that are left are counted by the flows they belong to.
delLockedByFlow(cids) ==
    /\ tracc' = [c \in Cids |-> IF c \in cids THEN NoStat ELSE tracc[c]]
    /\ tracu' = [u \in Uids |-> tracu[u] \ {c \in cids : tracc[c].uid = u}]
    /\ tracp' = [p \in Pids |-> tracp[p] \ {c \in cids : tracc[c].pid = p}]
    /\ sz' = sz - Cardinality(cids)
    /\ open' = open \ ConnsOf(cids)
    /\ UNCHANGED <<used, repeated>>

\* Flows are dropped, from the indices of the user and of the proxy they were
\* tracked with first, and their conns are closed.
delLocked(cids) ==
    /\ tracc' = [c \in Cids |-> IF c \in cids THEN NoStat ELSE tracc[c]]
    /\ tracu' = [u \in Uids |-> tracu[u] \ {c \in cids : tracc[c].uid = u}]
    /\ tracp' = [p \in Pids |-> tracp[p] \ {c \in cids : tracc[c].pid = p}]
    /\ sz' = sz - Cardinality(ConnsOf(cids))
    /\ open' = open \ ConnsOf(cids)
    /\ UNCHANGED <<used, repeated>>

Tracked == {c \in Cids : tracc[c].tracked}

\* Mutant: two conns are counted off, tracked or not.
UntrackBlind(cid) ==
    /\ tracc' = [tracc EXCEPT ![cid] = NoStat]
    /\ tracu' = [u \in Uids |-> tracu[u] \ {cid}]
    /\ tracp' = [p \in Pids |-> tracp[p] \ {cid}]
    /\ sz' = sz - 2
    /\ open' = open \ tracc[cid].c
    /\ UNCHANGED <<used, repeated>>

\* A flow is over.
Untrack(cid) == delLocked({cid} \cap Tracked)

\* The client closes the conns of flows, users and proxies.
UntrackBatch(ids) == delLocked((UNION {Targets(id) : id \in ids}) \cap Tracked)

Clear ==
    /\ tracc' = [c \in Cids |-> NoStat]
    /\ tracu' = [u \in Uids |-> {}]
    /\ tracp' = [p \in Pids |-> {}]
    /\ sz' = 0
    /\ open' = open \ ConnsOf(Cids)
    /\ repeated' = FALSE
    /\ UNCHANGED used

Next ==
    \/ \E cid \in Cids, uid \in Uids \cup {NoId}, pid \in Pids \cup {NoId}, cs \in SUBSET Conns :
         Track(cid, uid, pid, cs)
    \/ \E cid \in Cids : Untrack(cid)
    \/ \E ids \in SUBSET (Cids \cup Uids \cup Pids) : UntrackBatch(ids)
    \/ Clear

Spec == Init /\ [][Next]_vars

-----------------------------------------------------------------------------

(***************************************************************************)
(* The conns that flows have handed over and nobody has closed are exactly *)
(* the ones the map can still reach, each through one flow, and sz counts  *)
(* them: none leaks, whatever ids are repeated, untracked twice or closed  *)
(* by user and by proxy at once.                                           *)
(***************************************************************************)
NoConnIsLost ==
    /\ open = ConnsOf(Tracked)
    /\ sz = Cardinality(open)

(***************************************************************************)
(* No flow outlives its user or its proxy: every tracked flow is indexed   *)
(* by both (unless they are empty), so that UntrackBatch finds it.         *)
(***************************************************************************)
IndicesAreComplete ==
    \A c \in Tracked :
        /\ tracc[c].uid # NoId => c \in tracu[tracc[c].uid]
        /\ tracc[c].pid # NoId => c \in tracp[tracc[c].pid]

(***************************************************************************)
(* As long as no id is tracked twice, the indices hold nothing else: a     *)
(* flow that reuses an id is never closed on behalf of another's proxy.    *)
(***************************************************************************)
IndicesAreExact ==
    ~repeated =>
        /\ \A u \in Uids : \A c \in tracu[u] : tracc[c].tracked /\ tracc[c].uid = u
        /\ \A p \in Pids : \A c \in tracp[p] : tracc[c].tracked /\ tracc[c].pid = p

(***************************************************************************)
(* The indices by user and by proxy agree with the flows that are tracked: *)
(* they miss none, and hold nothing else as long as no id is tracked twice *)
(* (addLocked and delLocked, connmap.go:129-158, 181-254).                 *)
(***************************************************************************)
IndicesAgree == IndicesAreComplete /\ IndicesAreExact

(***************************************************************************)
(* UntrackBatch of a user closes all the conns of the flows that are       *)
(* tracked as that user's, and, if no id is tracked twice, no others.      *)
(***************************************************************************)
UserIsClosed ==
    [][\A u \in Uids : UntrackBatch({u}) =>
         \A c \in Tracked :
            /\ tracc[c].uid = u => tracc[c].c \cap open' = {}
            /\ ~repeated /\ tracc[c].uid # u => tracc[c].c \subseteq open']_vars

-----------------------------------------------------------------------------
(* what the proofs need *)

\* What the invariants need besides themselves: conns belong to one flow, and
\* flows that are not tracked have none.
Owned ==
    /\ open \subseteq used
    /\ \A c \in Cids : ~tracc[c].tracked => tracc[c].c = {}
    /\ \A c, d \in Cids : c # d => tracc[c].c \cap tracc[d].c = {}

Inv == TypeOK /\ NoConnIsLost /\ IndicesAreComplete /\ IndicesAreExact /\ Owned
=============================================================================
