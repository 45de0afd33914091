------------------------------ MODULE ProxyTo ------------------------------
(***************************************************************************)
(* How the proxifier picks the proxy for a connection (proxifier.ProxyTo,  *)
(* intra/ipn/proxies.go:514-812): pins from an app (uid) and from an       *)
(* address to the proxy used last, the health check a pin goes through,    *)
(* the search among the offered ids, the wait for missing ones, and the    *)
(* order of the fall-backs. One destination address; the table underneath  *)
(* changes while a call stalls.                                            *)
(***************************************************************************)
EXTENDS Naturals, Sequences

CONSTANTS
    Remotes,   \* ids of remote proxies
    Locals,    \* ids of local proxies: always registered, always healthy
    NoRoute,   \* remote ids whose router does not contain the destination
    Circular,  \* remote ids whose own endpoint is the destination
    NoH3,      \* remote ids that cannot proxy h3
    Noops,     \* remote ids of type NOOP
    H3,        \* is the destination h3-like, and not from our own uid?
    Uids, Callers,
    Offers,    \* the sequences of ids a caller may offer
    MaxCalls, MaxChanges, \* bounds: calls; changes of the table
    Nil

Ids == Remotes \cup Locals

VARIABLES
    reg,     \* remote id -> "missing" | "ok" | "stale" | "paused" | "ended"
    uidPins, ipPin,
    calls,   \* caller -> call in progress or settled
    nCalls, nChanges

vars == <<reg, uidPins, ipPin, calls, nCalls, nChanges>>

local(id) == id \in Locals
proxyFor(id) == local(id) \/ reg[id] # "missing"

(* healthy: local and noop proxies always are; others must be dialable and
   have been ok recently. *)
healthy(id) == local(id) \/ id \in Noops \/ reg[id] = "ok"

canth3(id) == H3 /\ id \in NoH3

(* pin: only of a healthy proxy, for the uid and for the address. *)
pin(u, id) ==
    IF proxyFor(id) /\ healthy(id)
    THEN uidPins' = [uidPins EXCEPT ![u] = id] /\ ipPin' = id
    ELSE UNCHANGED <<uidPins, ipPin>>

delpin(u) == uidPins' = [uidPins EXCEPT ![u] = Nil] /\ ipPin' = Nil

getpin(u) == IF uidPins[u] # Nil THEN uidPins[u] ELSE ipPin

(* clear(missproxies): the elements are zeroed, the slice keeps its length. *)
clear(s) == [i \in 1..Len(s) |-> ""]

Settled(c, got, err) == [calls EXCEPT ![c].pc = "done", ![c].got = got, ![c].err = err]

---------------------------------------------------------------------------
Init ==
    /\ reg \in [Remotes -> {"missing", "ok"}]
    /\ uidPins = [u \in Uids |-> Nil] /\ ipPin = Nil
    /\ calls = [c \in Callers |-> Nil]
    /\ nCalls = 0 /\ nChanges = 0

(* Entry: ids must be given; one id takes a path of its own. *)
Ask(c, u, pids) ==
    /\ nCalls < MaxCalls
    /\ calls[c] # Nil => calls[c].pc = "done"
    /\ calls' = [calls EXCEPT ![c] =
         [pc |-> IF pids = <<>> THEN "done" ELSE IF Len(pids) = 1 THEN "single" ELSE "pinned",
          uid |-> u, pids |-> pids, i |-> 1, pinned |-> Nil, waited |-> FALSE,
          notok |-> <<>>, noh3 |-> <<>>, lo |-> <<>>, miss |-> <<>>, why |-> {},
          got |-> Nil, err |-> IF pids = <<>> THEN "noid" ELSE ""]]
    /\ nCalls' = nCalls + 1
    /\ UNCHANGED <<reg, uidPins, ipPin, nChanges>>

At(c, pc) == calls[c] # Nil /\ calls[c].pc = pc

(* One id: pin it if it is healthy; wait once if it is missing. *)
single(c) ==
    LET k == calls[c]
        id == k.pids[1]
    IN /\ At(c, "single")
       /\ pin(k.uid, id)
       /\ calls' = IF proxyFor(id) THEN [calls EXCEPT ![c].pc = "check"]
                   ELSE IF ~k.waited THEN [calls EXCEPT ![c].waited = TRUE]
                   ELSE Settled(c, Nil, "notfound")
       /\ UNCHANGED <<reg, nCalls, nChanges>>

\* Mutant: what may not be used stays pinned.
singleCheckKeeps(c) ==
    LET k == calls[c]
        id == k.pids[1]
        err == IF id \in Circular THEN "circular"
               ELSE IF id \in NoRoute THEN "noroute"
               ELSE IF canth3(id) THEN "noh3" ELSE ""
    IN /\ At(c, "check")
       /\ calls' = Settled(c, IF err = "" THEN id ELSE Nil, err)
       /\ UNCHANGED <<reg, uidPins, ipPin, nCalls, nChanges>>

(* ... then see whether it may be used at all, and unpin it if not. It is
   returned whatever its health. *)
singleCheck(c) ==
    LET k == calls[c]
        id == k.pids[1]
        err == IF id \in Circular THEN "circular"
               ELSE IF id \in NoRoute THEN "noroute"
               ELSE IF canth3(id) THEN "noh3" ELSE ""
    IN /\ At(c, "check")
       /\ IF err = "" THEN UNCHANGED <<uidPins, ipPin>> ELSE delpin(k.uid)
       /\ calls' = Settled(c, IF err = "" THEN id ELSE Nil, err)
       /\ UNCHANGED <<reg, nCalls, nChanges>>

(* Many ids: a local pin is kept for later; a remote pin is pinned again and
   used if it can be; a pin not among the ids is dropped. *)
pinned(c) ==
    LET k == calls[c]
        id == getpin(k.uid)
        chosen == \E i \in 1..Len(k.pids) : k.pids[i] = id
        next == [k EXCEPT !.pc = "search"]
        set(r) == calls' = [calls EXCEPT ![c] = r]
    IN /\ At(c, "pinned")
       /\ IF id = Nil THEN set(next) /\ UNCHANGED <<uidPins, ipPin>>
          ELSE IF ~chosen THEN set([next EXCEPT !.pinned = id]) /\ delpin(k.uid)
          ELSE IF local(id) THEN /\ set([next EXCEPT !.pinned = id, !.lo = <<id>>])
                                 /\ UNCHANGED <<uidPins, ipPin>>
          ELSE IF proxyFor(id) /\ healthy(id)
          THEN IF id \in Circular
               THEN set([next EXCEPT !.pinned = id, !.why = {"circular"}]) /\ delpin(k.uid)
               ELSE IF canth3(id)
               THEN /\ set([next EXCEPT !.noh3 = <<id>>, !.why = {"noh3"},
                                        !.pinned = IF id \in NoRoute THEN id ELSE Nil])
                    /\ delpin(k.uid)
               ELSE IF id \in NoRoute
               THEN set([next EXCEPT !.pinned = id, !.why = {"noroute"}]) /\ delpin(k.uid)
               ELSE pin(k.uid, id) /\ calls' = Settled(c, id, "")
          ELSE /\ set([next EXCEPT !.pinned = id, !.why = {"notok"},
                                   !.notok = <<IF proxyFor(id) THEN id ELSE Nil>>])
               /\ UNCHANGED <<uidPins, ipPin>>
       /\ UNCHANGED <<reg, nCalls, nChanges>>

(* retrySearch: one turn of the loop over the ids. *)
search(c) ==
    LET k == calls[c]
        id == k.pids[k.i]
        next == [k EXCEPT !.i = @ + 1]
        skip(r) == calls' = [calls EXCEPT ![c] = r] /\ UNCHANGED <<uidPins, ipPin>>
    IN /\ At(c, "search") /\ k.i <= Len(k.pids)
       /\ IF id = k.pinned THEN skip(next)
          ELSE IF local(id) THEN skip([next EXCEPT !.lo = Append(@, id)])
          ELSE IF ~proxyFor(id) THEN skip([next EXCEPT !.miss = Append(@, id)])
          ELSE IF reg[id] \in {"paused", "ended"} THEN skip([next EXCEPT !.why = @ \cup {reg[id]}])
          ELSE IF id \in Noops THEN skip([next EXCEPT !.lo = Append(@, id)])
          ELSE IF id \in Circular THEN skip([next EXCEPT !.why = @ \cup {"circular"}])
          ELSE IF id \in NoRoute THEN skip([next EXCEPT !.why = @ \cup {"noroute"}])
          ELSE IF canth3(id) THEN skip([next EXCEPT !.why = @ \cup {"noh3"},
                                                    !.noh3 = Append(@, id)])
          ELSE IF healthy(id) THEN pin(k.uid, id) /\ calls' = Settled(c, id, "")
          ELSE skip([next EXCEPT !.why = @ \cup {"notok"},
                                 !.notok = Append(@, id)])
       /\ UNCHANGED <<reg, nCalls, nChanges>>

(* The loop ends: stall if some proxy can route but is not healthy. *)
searched(c) ==
    LET k == calls[c] IN
    /\ At(c, "search") /\ k.i > Len(k.pids)
    /\ calls' = [calls EXCEPT ![c].pc = IF k.notok # <<>> \/ k.noh3 # <<>> THEN "choose" ELSE "wait"]
    /\ UNCHANGED <<reg, uidPins, ipPin, nCalls, nChanges>>

(* After the stall: any one of the unhealthy, at random, as it is; else the
   first of those that cannot proxy h3 which is healthy by now. *)
choose(c) ==
    LET k == calls[c]
        ready == {i \in 1..Len(k.noh3) : proxyFor(k.noh3[i]) /\ healthy(k.noh3[i])}
        one == IF k.notok = <<>> THEN {Nil} ELSE {k.notok[i] : i \in 1..Len(k.notok)}
    IN /\ At(c, "choose")
       /\ \E id \in one :
            IF id # Nil THEN calls' = Settled(c, id, "") /\ UNCHANGED <<uidPins, ipPin>>
            ELSE IF ready # {}
            THEN LET i == CHOOSE i \in ready : \A j \in ready : i <= j
                 IN pin(k.uid, k.noh3[i]) /\ calls' = Settled(c, k.noh3[i], "")
            ELSE calls' = [calls EXCEPT ![c].pc = "wait"] /\ UNCHANGED <<uidPins, ipPin>>
       /\ UNCHANGED <<reg, nCalls, nChanges>>

(* Wait for the missing, once, and search again among those alone. *)
wait(c) ==
    LET k == calls[c]
        again == k.miss # <<>> /\ ~k.waited
    IN /\ At(c, "wait")
       /\ calls' = IF again
                   THEN [calls EXCEPT ![c] = [k EXCEPT !.pc = "search", !.waited = TRUE, !.i = 1,
                                                       !.pids = k.miss, !.miss = clear(k.miss)]]
                   ELSE [calls EXCEPT ![c].pc = "local"]
       /\ UNCHANGED <<reg, uidPins, ipPin, nCalls, nChanges>>

(* Local (and noop) proxies, the pinned one first; then the errors in order. *)
fallback(c) ==
    LET k == calls[c]
        found == {i \in 1..Len(k.lo) : proxyFor(k.lo[i])}
        missing == k.miss # <<>> \/ (k.lo # <<>> /\ found = {})
        err == IF "notok" \in k.why THEN "unhealthy" ELSE IF missing THEN "notfound"
               ELSE IF "noroute" \in k.why THEN "noroute" ELSE IF "ended" \in k.why THEN "ended"
               ELSE IF "paused" \in k.why THEN "paused" ELSE IF "noh3" \in k.why THEN "noh3"
               ELSE IF "circular" \in k.why THEN "circular" ELSE "alldown"
    IN /\ At(c, "local")
       /\ IF found = {} THEN calls' = Settled(c, Nil, err) /\ UNCHANGED <<uidPins, ipPin>>
          ELSE LET i == CHOOSE i \in found : \A j \in found : i <= j
               IN pin(k.uid, k.lo[i]) /\ calls' = Settled(c, k.lo[i], "")
       /\ UNCHANGED <<reg, nCalls, nChanges>>

---------------------------------------------------------------------------
(* The table underneath: proxies are added, removed, paused, stopped, fail
   and recover. *)
Change(id, s) ==
    /\ nChanges < MaxChanges /\ reg[id] # s
    /\ reg' = [reg EXCEPT ![id] = s]
    /\ nChanges' = nChanges + 1
    /\ UNCHANGED <<uidPins, ipPin, calls, nCalls>>

(* Pins run out of their time, each by itself. *)
Expire ==
    /\ \/ \E u \in Uids : uidPins[u] # Nil /\ uidPins' = [uidPins EXCEPT ![u] = Nil] /\ UNCHANGED ipPin
       \/ ipPin # Nil /\ ipPin' = Nil /\ UNCHANGED uidPins
    /\ UNCHANGED <<reg, calls, nCalls, nChanges>>

(* RefreshProxies and stopProxies drop every pin. *)
clearpins ==
    /\ \E u \in Uids : uidPins[u] # Nil
    /\ uidPins' = [u \in Uids |-> Nil] /\ ipPin' = Nil
    /\ UNCHANGED <<reg, calls, nCalls, nChanges>>

step(c) == single(c) \/ singleCheck(c) \/ pinned(c) \/ search(c) \/ searched(c)
           \/ choose(c) \/ wait(c) \/ fallback(c)

Next ==
    \/ \E c \in Callers, u \in Uids, o \in Offers : Ask(c, u, o)
    \/ \E c \in Callers : step(c)
    \/ \E id \in Remotes, s \in {"missing", "ok", "stale", "paused", "ended"} : Change(id, s)
    \/ Expire \/ clearpins

Spec == Init /\ [][Next]_vars

---------------------------------------------------------------------------
TypeOK ==
    /\ reg \in [Remotes -> {"missing", "ok", "stale", "paused", "ended"}]
    /\ uidPins \in [Uids -> Ids \cup {Nil}]
    /\ ipPin \in Ids \cup {Nil}
    /\ \A c \in Callers : calls[c] # Nil =>
         /\ DOMAIN calls[c] = {"pc", "uid", "pids", "i", "pinned", "waited", "notok", "noh3", "lo",
                               "miss", "why", "got", "err"}
         /\ calls[c].got \in Ids \cup {Nil}
         /\ calls[c].i \in 1..(Len(calls[c].pids) + 1)

Resting == \A c \in Callers : calls[c] # Nil => calls[c].pc = "done"

(* When no call is under way, no pin names a proxy that cannot carry the
   destination: pins made before the route is known are taken back, whatever
   other calls pin meanwhile (proxies.go:585-606, 640-658). The one exception
   is a proxy that can do neither h3 nor the route: found pinned, it is kept
   for its lack of h3 alone, and pinned anew after the stall (643-648, 754-761). *)
PinsAreRoutable ==
    Resting =>
      \A id \in {uidPins[u] : u \in Uids} \cup {ipPin} :
        id \notin Circular /\ (id \in NoRoute => canth3(id))

(* A call ends with a proxy or with a reason: "all down" is never it. *)
AnswerOrReason ==
    \A c \in Callers : calls[c] # Nil /\ calls[c].pc = "done" =>
      /\ calls[c].err # "alldown"
      /\ (calls[c].got = Nil) <=> (calls[c].err # "")

(* Every call ends: it searches again at most once. *)
CallsEnd ==
    \A c \in Callers : (calls[c] # Nil) ~> (calls[c] # Nil /\ calls[c].pc = "done")
=============================================================================
