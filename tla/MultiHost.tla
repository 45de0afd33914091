----------------------------- MODULE MultiHost -----------------------------
(***************************************************************************)
(* Endpoints with many addresses (intra/ipn/multihost): an MH holds host   *)
(* names, the addresses they resolved to and addresses given as such; a    *)
(* map finds the MH of a WireGuard peer by host name or by address.        *)
(*                                                                         *)
(* The map of a proxy is refreshed by the calls that follow a change of    *)
(* network (Refresh) and by the proxy's event listener (MaybeRefresh), in  *)
(* goroutines of their own; Build resolves in the background. A refresh    *)
(* takes a host out of the map, resolves its names, and puts it back. The  *)
(* answer that DNS gives for a host changes over time: answer number v of  *)
(* host h is the address IpOf[h][v], and an MH is modelled by the numbers  *)
(* of the answers it holds.                                                *)
(***************************************************************************)
EXTENDS Integers, FiniteSets

CONSTANTS Hosts,        \* the MHs, one per peer
          Named,        \* those given by host names; the others by addresses
          Refreshers,   \* goroutines in MHMap.Refresh or MHMap.MaybeRefresh
          Builders,     \* goroutines in the background resolution of Build
          IpOf,         \* the address that answer v for host h carries
          MaxVer,       \* bound: answers
          MaxCalls,     \* bound: calls of Refresh, MaybeRefresh and Build
          Nil

Vers == 1..MaxVer
Ips  == {IpOf[h][v] : h \in Hosts, v \in Vers}

VARIABLES ver,          \* what DNS answers now
          addrs,        \* h.addrs and h.preresolved
          old,          \* h.mtime is more than refreshInterval ago
          resolvMu,     \* holder of h.resolvMu
          uniq, byIpp, byHostport, byAddr,   \* the map
          thr, calls,
          floor         \* DNS's answer when the last refresh of h began (ghost)

vars == <<ver, addrs, old, resolvMu, uniq, byIpp, byHostport, byAddr, thr, calls, floor>>

Threads == Refreshers \cup Builders

Idle == [pc |-> "idle", todo |-> {}, h |-> Nil, got |-> {}]

Thread == [pc : {"idle", "next", "lock", "resolve", "store", "put"}, todo : SUBSET Hosts,
           h : Hosts \cup {Nil}, got : SUBSET Vers]

TypeOK ==
  /\ ver \in Vers
  /\ addrs \in [Hosts -> SUBSET Vers] /\ old \in [Hosts -> BOOLEAN]
  /\ resolvMu \in [Hosts -> Threads \cup {Nil}]
  /\ uniq \subseteq Hosts
  /\ byIpp \in [Ips -> Hosts \cup {Nil}] /\ byHostport \in [Named -> BOOLEAN]
  /\ \A ip \in Ips : byAddr[ip] \in Nat
  /\ thr \in [Threads -> Thread] /\ calls \in 0..MaxCalls
  /\ floor \in [Hosts -> 0..MaxVer]

IpsOf(h, as) == {IpOf[h][v] : v \in as}

\* The loader fills the map with every peer: names unresolved, addresses known.
Init ==
  /\ ver = 1
  /\ addrs = [h \in Hosts |-> IF h \in Named THEN {} ELSE {1}]
  /\ old = [h \in Hosts |-> FALSE]
  /\ resolvMu = [h \in Hosts |-> Nil]
  /\ uniq = Hosts
  /\ byIpp \in [Ips -> Hosts \cup {Nil}]
  /\ \A ip \in Ips : LET own == {h \in Hosts \ Named : IpOf[h][1] = ip} IN
       IF own = {} THEN byIpp[ip] = Nil ELSE byIpp[ip] \in own
  /\ byAddr = [ip \in Ips |-> Cardinality({h \in Hosts \ Named : IpOf[h][1] = ip})]
  /\ byHostport = [h \in Named |-> TRUE]
  /\ thr = [t \in Threads |-> Idle] /\ calls = 0
  /\ floor = [h \in Hosts |-> 0]

-----------------------------------------------------------------------------
(* The map *)

\* putLocked: a host that is there already is left as it is indexed.
Put(h) ==
  IF h \in uniq
  THEN UNCHANGED <<uniq, byIpp, byHostport, byAddr>>
  ELSE LET ips == IpsOf(h, addrs[h]) IN
    /\ uniq' = uniq \cup {h}
    /\ byIpp' = [ip \in Ips |-> IF ip \in ips THEN h ELSE byIpp[ip]]
    /\ byAddr' = [ip \in Ips |-> byAddr[ip] + (IF ip \in ips THEN 1 ELSE 0)]
    /\ byHostport' = [n \in Named |-> n = h \/ byHostport[n]]

\* Mutant: counts are not looked at.
DelUncounted(h) ==
  LET ips == {ip \in IpsOf(h, addrs[h]) : byIpp[ip] = h} IN
    /\ uniq' = uniq \ {h}
    /\ byIpp' = [ip \in Ips |-> IF ip \in ips THEN Nil ELSE byIpp[ip]]
    /\ byAddr' = [ip \in Ips |-> IF ip \in IpsOf(h, addrs[h]) THEN byAddr[ip] - 1
                                 ELSE byAddr[ip]]
    /\ byHostport' = [n \in Named |-> n # h /\ byHostport[n]]

\* delLocked: takes out the addresses that still lead to h, and their counts.
Del(h) ==
  LET ips == {ip \in IpsOf(h, addrs[h]) : byIpp[ip] = h} IN
    /\ uniq' = uniq \ {h}
    /\ byIpp' = [ip \in Ips |-> IF ip \in ips THEN Nil ELSE byIpp[ip]]
    /\ byAddr' = [ip \in Ips |-> IF ip \in ips /\ byAddr[ip] > 0 THEN byAddr[ip] - 1
                                 ELSE byAddr[ip]]
    /\ byHostport' = [n \in Named |-> n # h /\ byHostport[n]]

unchangedMap == UNCHANGED <<uniq, byIpp, byHostport, byAddr>>

-----------------------------------------------------------------------------
(* Refresh and MaybeRefresh *)

\* Both walk a copy of the set of hosts; MaybeRefresh, of those that are old.
Refresh(t) ==
  /\ thr[t].pc = "idle" /\ calls < MaxCalls
  /\ calls' = calls + 1
  /\ thr' = [thr EXCEPT ![t].pc = "next", ![t].todo = uniq]
  /\ unchangedMap /\ UNCHANGED <<ver, addrs, old, resolvMu, floor>>

MaybeRefresh(t) ==
  /\ thr[t].pc = "idle" /\ calls < MaxCalls
  /\ {h \in uniq : old[h]} # {}
  /\ calls' = calls + 1
  /\ thr' = [thr EXCEPT ![t].pc = "next", ![t].todo = {h \in uniq : old[h]}]
  /\ unchangedMap /\ UNCHANGED <<ver, addrs, old, resolvMu, floor>>

\* A host is taken out; one without names has nothing to resolve.
refreshNext(t) ==
  /\ thr[t].pc = "next"
  /\ IF thr[t].todo = {}
     THEN thr' = [thr EXCEPT ![t] = Idle] /\ unchangedMap
     ELSE \E h \in thr[t].todo :
            /\ Del(h)
            /\ thr' = [thr EXCEPT ![t].todo = @ \ {h}, ![t].h = h,
                                  ![t].pc = IF h \in Named THEN "lock" ELSE "put"]
  /\ UNCHANGED <<ver, addrs, old, resolvMu, calls, floor>>

\* Mutant: the host is not put back.
refreshDrops(t) ==
  /\ thr[t].pc = "put"
  /\ thr' = [thr EXCEPT ![t].pc = "next", ![t].h = Nil]
  /\ UNCHANGED <<ver, addrs, old, resolvMu, uniq, byIpp, byHostport, byAddr, calls, floor>>

refreshPut(t) ==
  /\ thr[t].pc = "put"
  /\ Put(thr[t].h)
  /\ thr' = [thr EXCEPT ![t].pc = "next", ![t].h = Nil]
  /\ UNCHANGED <<ver, addrs, old, resolvMu, calls, floor>>

-----------------------------------------------------------------------------
(* MH.Build, MH.addInternal *)

\* Build resolves in place when the host has no address yet, else in a
\* goroutine of its own: either way another thread for the map.
Build(t) ==
  /\ thr[t].pc = "idle" /\ calls < MaxCalls
  /\ calls' = calls + 1
  /\ \E h \in Named : thr' = [thr EXCEPT ![t].pc = "lock", ![t].h = h]
  /\ unchangedMap /\ UNCHANGED <<ver, addrs, old, resolvMu, floor>>

\* All resolutions of a host are serialised on resolvMu, to the store.
lockResolv(t) ==
  /\ thr[t].pc = "lock"
  /\ resolvMu[thr[t].h] = Nil
  /\ resolvMu' = [resolvMu EXCEPT ![thr[t].h] = t]
  /\ thr' = [thr EXCEPT ![t].pc = "resolve"]
  /\ unchangedMap /\ UNCHANGED <<ver, addrs, old, calls, floor>>

\* resolvNames: DNS answers, or does not.
resolvNames(t) ==
  /\ thr[t].pc = "resolve"
  /\ \E got \in {{}, {ver}} :
       thr' = [thr EXCEPT ![t].pc = "store", ![t].got = got]
  /\ unchangedMap /\ UNCHANGED <<ver, addrs, old, resolvMu, calls, floor>>

\* A refresh replaces the addresses if it got any; Build adds what it got.
Stored(t, as) ==
  IF t \in Refreshers
  THEN IF thr[t].got = {} THEN as ELSE thr[t].got
  ELSE as \cup thr[t].got

storeAddrs(t) ==
  /\ thr[t].pc = "store"
  /\ LET h == thr[t].h IN
       /\ addrs' = [addrs EXCEPT ![h] = Stored(t, @)]
       /\ old' = [old EXCEPT ![h] = FALSE]
       /\ resolvMu' = [resolvMu EXCEPT ![h] = IF @ = t THEN Nil ELSE @]
       /\ floor' = IF t \in Refreshers /\ thr[t].got # {}
                   THEN [floor EXCEPT ![h] = CHOOSE v \in thr[t].got : TRUE] ELSE floor
  /\ thr' = [thr EXCEPT ![t] = IF t \in Refreshers
                               THEN [@ EXCEPT !.pc = "put", !.got = {}] ELSE Idle]
  /\ unchangedMap /\ UNCHANGED <<ver, calls>>

-----------------------------------------------------------------------------

dnsChanges ==
  /\ ver < MaxVer
  /\ ver' = ver + 1
  /\ unchangedMap /\ UNCHANGED <<addrs, old, resolvMu, thr, calls, floor>>

age ==
  /\ \E h \in Hosts : ~old[h] /\ old' = [old EXCEPT ![h] = TRUE]
  /\ unchangedMap /\ UNCHANGED <<ver, addrs, resolvMu, thr, calls, floor>>

step(t) ==
  \/ refreshNext(t) \/ refreshPut(t)
  \/ lockResolv(t) \/ resolvNames(t) \/ storeAddrs(t)

Next ==
  \/ dnsChanges \/ age
  \/ \E t \in Refreshers : Refresh(t) \/ MaybeRefresh(t)
  \/ \E t \in Builders : Build(t)
  \/ \E t \in Threads : step(t)

Spec == Init /\ [][Next]_vars

-----------------------------------------------------------------------------
(* Properties *)

\* multihost.go:386-390 "a reset never interleaves with a background append":
\* once a refresh has replaced the addresses of a host, no answer older than
\* the one it stored comes back.
NoStaleAppend == \A h \in Hosts : \A v \in addrs[h] : v >= floor[h]

\* map.go:204-250: two refreshes of one map may each take the same host out
\* and put it back in any order; a host is missing only while one that took it
\* out has yet to put it back, so no peer is lost whatever DNS answers.
NoHostIsLost ==
  \A h \in Hosts \ uniq : \E t \in Refreshers : thr[t].h = h

\* Every host that a refresh takes out comes back: resolutions of a host wait
\* for each other, and none of them waits for the map.
HostsComeBack == \A h \in Hosts : h \notin uniq ~> h \in uniq

-----------------------------------------------------------------------------
(* what the proofs need *)

\* What the constants are.
MultiHostConstants ==
  /\ IsFiniteSet(Hosts) /\ Named \subseteq Hosts /\ Nil \notin Hosts /\ Nil \notin Threads
  /\ MaxVer \in Nat \ {0} /\ MaxCalls \in Nat

\* Where a thread has a host in hand.
InHand == {"lock", "resolve", "store", "put"}

\* A host that is out of the map is in the hand of a refresh. The lock of a host
\* is held from before DNS is asked until the answer is stored, and so an answer
\* in hand is no older than the floor.
ThreadSound(t) ==
  /\ t \notin Refreshers => thr[t].pc \notin {"next", "put"}
  /\ thr[t].pc \in InHand => thr[t].h \in Hosts
  /\ thr[t].pc \in {"resolve", "store"} => resolvMu[thr[t].h] = t
  /\ thr[t].pc = "store" => \/ thr[t].got = {}
                            \/ \E v \in Vers : thr[t].got = {v} /\ v >= floor[thr[t].h] /\ v <= ver

Inv ==
  /\ TypeOK
  /\ \A t \in Threads : ThreadSound(t)
  /\ \A h \in Hosts : floor[h] <= ver
  /\ \A h \in Hosts \ uniq : \E t \in Refreshers : thr[t].h = h /\ thr[t].pc \in InHand
  /\ NoStaleAppend
=============================================================================
