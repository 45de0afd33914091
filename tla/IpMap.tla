-------------------------------- MODULE IpMap -------------------------------
(***************************************************************************)
(* The dialers' cache of addresses (intra/protect/ipmap/ipmap.go) and the  *)
(* dials that use it (intra/dialers/cdial.go, ips.go): a dial takes the    *)
(* set of a host, resolves the host when the set is empty, dials the       *)
(* confirmed address first, then the others, and renews the set when no    *)
(* address is of a family in use. Confirming and disconfirming an address  *)
(* are left to goroutines; so is the clearing of sets.                     *)
(*                                                                         *)
(* A host is protected when it has seed addresses. Sets are objects; the   *)
(* id of a set that nothing refers to may be used again.                   *)
(***************************************************************************)
EXTENDS Naturals, FiniteSets

CONSTANTS
    Dials,     \* threads; each dials one host, again and again
    HostOf,    \* Dials -> the host it dials
    Seed,      \* host -> seed addresses; {} for a regular host
    Never,     \* hosts that are never resolved (Selfhost, Systemhost)
    IPs, Alive, Fam, Prefer,   \* addresses; those that answer; family; families in use
    Answers4, Answers6,        \* what A and AAAA queries may give; Nil is an error
    X,                         \* the gateway's undo: address -> addresses
    FailLimit, \* maxFailLimit
    MaxFails,  \* bound: failures counted while others are being acted upon
    MaxClears, \* bound: calls of Clear
    SetIds,    \* bound: sets alive at once, numbers
    Nil

Hosts == {HostOf[t] : t \in Dials}
Protected(h) == Seed[h] # {} \/ h \in Never
None == 0

VARIABLES
    sets,  \* id -> [ips, conf, fails, prot, seed]
    m,     \* host -> id or Nil: m.m for regular hosts, m.p for protected ones
    dial,  \* thread -> [pc, s, c, front, back]
    tasks, \* goroutines: [by, kind, s, ip, n]
    clears

vars == <<sets, m, dial, tasks, clears>>

NewSet(h, seed) == [ips |-> seed, conf |-> None, fails |-> 0, prot |-> Protected(h), seed |-> seed]
Idle == [pc |-> "idle", s |-> Nil, c |-> None, front |-> {}, back |-> {}]

Free == SetIds \ ({m[h] : h \in Hosts} \cup {dial[t].s : t \in Dials} \cup {k.s : k \in tasks})

(* LookupNetIP, queryIP: no error unless both queries fail; algs undone. *)
undoAlgAndOrNat64(S) ==
    LET real == UNION {X[ip] : ip \in S} IN IF real = {} THEN S ELSE real

queryIP(h) ==
    IF h \in Never THEN {{}}
    ELSE {undoAlgAndOrNat64(IF r[1] = Nil THEN {} ELSE r[1])
            \cup undoAlgAndOrNat64(IF r[2] = Nil THEN {} ELSE r[2]) :
              r \in (Answers4 \X Answers6) \ {<<Nil, Nil>>}}

(* reorderIPs: the addresses of families in use, then the others. *)
reorderIPs(ips, exclude) ==
    LET ok == ips \ {exclude}
        front == IF Cardinality(ips) = 1 THEN ok ELSE {ip \in ok : Fam[ip] \in Prefer}
    IN [front |-> front, back |-> ok \ front]

Init ==
    /\ LET ps == {h \in Hosts : Seed[h] # {}}
           f == CHOOSE g \in [ps -> SetIds] : \A h, k \in ps : h # k => g[h] # g[k]
       IN
         /\ m = [h \in Hosts |-> IF h \in DOMAIN f THEN f[h] ELSE Nil]
         /\ sets = [i \in SetIds |->
                      IF \E h \in DOMAIN f : f[h] = i
                      THEN LET h == CHOOSE g \in DOMAIN f : f[g] = i IN NewSet(h, Seed[h])
                      ELSE [ips |-> {}, conf |-> None, fails |-> 0, prot |-> FALSE, seed |-> {}]]
    /\ dial = [t \in Dials |-> Idle]
    /\ tasks = {} /\ clears = 0

---------------------------------------------------------------------------
Go(t, kind, s, ip, n) == [by |-> t, kind |-> kind, s |-> s, ip |-> ip, n |-> n]
Spawns(t, kinds) == \A k \in tasks : k.by = t => k.kind \notin kinds   \* bound: one of these at once

(* makeIPSet: published whatever was there; dropped if protected and unseeded. *)
makeIPSet(t, h, seed, pc) ==
    LET i == CHOOSE j \in Free : \A k \in Free : j <= k
    IN  /\ Free # {}
        /\ sets' = [sets EXCEPT ![i] = NewSet(h, seed)]
        /\ m' = IF Protected(h) /\ seed = {} THEN m ELSE [m EXCEPT ![h] = i]
        /\ dial' = [dial EXCEPT ![t].s = i, ![t].pc = pc]

(* get: the host's set as it is now; made, under another lock, when missing,
   though another may have been made meanwhile. *)
get(t, from, missing, to) ==
    /\ dial[t].pc = from
    /\ dial' = [dial EXCEPT ![t].s = m[HostOf[t]], ![t].pc = IF m[HostOf[t]] = Nil THEN missing ELSE to]
    /\ UNCHANGED <<sets, m, tasks>>

make(t, missing, to) ==
    /\ dial[t].pc = missing
    /\ makeIPSet(t, HostOf[t], {}, to)
    /\ UNCHANGED tasks

(* add: what the host resolves to joins the set; a failed lookup changes nothing. *)
add(t, from, to) ==
    /\ dial[t].pc = from
    /\ \E ips \in queryIP(HostOf[t]) :
         LET s == dial[t].s
             all == sets[s].ips \cup ips
         IN sets' = [sets EXCEPT ![s].ips = all, ![s].fails = IF all # {} THEN 0 ELSE @]
    /\ dial' = [dial EXCEPT ![t].pc = to]
    /\ UNCHANGED <<m, tasks>>

addFails(t, from, to) ==
    /\ dial[t].pc = from
    /\ (Nil \in Answers4 \cap Answers6) /\ HostOf[t] \notin Never
    /\ dial' = [dial EXCEPT ![t].pc = to]
    /\ UNCHANGED <<sets, m, tasks>>

(* Confirm and Disconfirm, but for their goroutines. *)
Confirm(t, s, ip) ==
    IF ip = sets[s].conf THEN UNCHANGED tasks
    ELSE Spawns(t, {"confirm", "store", "grow"}) /\ tasks' = tasks \cup {Go(t, "confirm", s, ip, 0)}

Disconfirm(t, s, ip) ==
    LET c == sets[s].conf
    IN /\ Spawns(t, {"disconfirm", "empty"})
       /\ sets' = IF ip = c THEN [sets EXCEPT ![s].conf = None] ELSE sets
       /\ tasks' = tasks \cup {Go(t, "disconfirm", s, ip, IF ip = c THEN 1 ELSE IF c = None THEN 1 ELSE 0)}

---------------------------------------------------------------------------
(* commondial2, as of a host that is not an address. *)
Start(t) == get(t, "idle", "make", "size")

empty(t) ==
    /\ dial[t].pc = "size"
    /\ dial' = [dial EXCEPT ![t].pc = IF sets[dial[t].s].ips = {} THEN "resolve" ELSE "confirmed"]
    /\ UNCHANGED <<sets, m, tasks>>

confirmed(t) ==
    LET c == sets[dial[t].s].conf
    IN /\ dial[t].pc = "confirmed"
       /\ dial' = [dial EXCEPT ![t].c = c, ![t].pc = IF c = None THEN "addrs" ELSE "first"]
       /\ UNCHANGED <<sets, m, tasks>>

connectFirst(t, ok) ==
    LET d == dial[t]
    IN /\ d.pc = "first"
       /\ ok <=> d.c \in Alive
       /\ IF ok THEN UNCHANGED <<sets, tasks>> ELSE Disconfirm(t, d.s, d.c)
       /\ dial' = [dial EXCEPT ![t] = IF ok THEN [Idle EXCEPT !.pc = "ok"] ELSE [d EXCEPT !.pc = "addrs"]]
       /\ UNCHANGED m

addrs(t, from) ==
    LET d == dial[t]
        o == reorderIPs(sets[d.s].ips, d.c)
        open == o.front = {} /\ from = "addrs"
        none == sets[d.s].ips = {}
    IN /\ d.pc = from
       /\ dial' = [dial EXCEPT ![t].front = IF from = "renewed" /\ none THEN @ ELSE o.front,
                               ![t].back = IF from = "renewed" /\ none THEN @ ELSE o.back,
                               ![t].c = IF open THEN @ ELSE None,
                               ![t].pc = IF open THEN "renew" ELSE "try"]
       /\ UNCHANGED <<sets, m, tasks>>

(* renew: Reset, or seeded anew, then resolved; an empty set is resolved first,
   and seeded anew if that was in vain (regular hosts have no seed to go back to). *)
renew(t) ==
    LET h == HostOf[t]
        s == dial[t].s
    IN /\ dial[t].pc = "renew"
       /\ IF h \in Never
          THEN /\ sets' = [sets EXCEPT ![s].conf = None, ![s].fails = 0]
               /\ dial' = [dial EXCEPT ![t].pc = "renewed"] /\ UNCHANGED m
          ELSE IF sets[s].prot \/ sets[s].ips # {}
          THEN makeIPSet(t, h, sets[s].seed, "renewget")
          ELSE dial' = [dial EXCEPT ![t].pc = "emptyget"] /\ UNCHANGED <<sets, m>>
       /\ UNCHANGED tasks

reseed(t) ==
    /\ dial[t].pc = "emptied"
    /\ IF sets[dial[t].s].ips = {} THEN makeIPSet(t, HostOf[t], {}, "renewed")
       ELSE dial' = [dial EXCEPT ![t].pc = "renewed"] /\ UNCHANGED <<sets, m>>
    /\ UNCHANGED tasks

(* "try all ips": any of the front first; dialRetryTimeout may end it. *)
connect(t, ok) ==
    LET d == dial[t]
        next == IF d.front # {} THEN d.front ELSE d.back
    IN /\ d.pc = "try"
       /\ \E ip \in next :
            /\ ok <=> ip \in Alive
            /\ IF ok THEN Confirm(t, d.s, ip) ELSE UNCHANGED tasks
            /\ dial' = [dial EXCEPT ![t] = IF ok THEN [Idle EXCEPT !.pc = "ok"]
                                          ELSE [d EXCEPT !.front = @ \ {ip}, !.back = @ \ {ip}]]
       /\ UNCHANGED <<sets, m>>

exhausted(t) ==
    /\ dial[t].pc = "try" /\ dial[t].front = {} /\ dial[t].back = {}
    /\ dial' = [dial EXCEPT ![t] = [Idle EXCEPT !.pc = "failed"]]
    /\ UNCHANGED <<sets, m, tasks>>

dialRetryTimeout(t) ==
    /\ dial[t].pc = "try"
    /\ dial' = [dial EXCEPT ![t] = [Idle EXCEPT !.pc = "failed"]]
    /\ UNCHANGED <<sets, m, tasks>>

(* The caller is done, or has the failure disconfirmed (dns53/dot.go). *)
Done(t) ==
    /\ dial[t].pc = "ok"
    /\ dial' = [dial EXCEPT ![t] = Idle]
    /\ UNCHANGED <<sets, m, tasks>>

Report(t) ==
    LET s == m[HostOf[t]]
    IN /\ dial[t].pc = "failed"
       /\ IF s = Nil THEN UNCHANGED <<sets, tasks>> ELSE Disconfirm(t, s, None)
       /\ dial' = [dial EXCEPT ![t] = Idle]
       /\ UNCHANGED m

---------------------------------------------------------------------------
\* Mutant: protected hosts are emptied too.
ClearedAll(s) == [sets EXCEPT ![s].ips = {}, ![s].conf = None, ![s].fails = 0]

Cleared(s) == [sets EXCEPT ![s].ips = IF sets[s].prot THEN @ ELSE {}, ![s].conf = None, ![s].fails = 0]

(* Confirm's goroutine: is the address new? then store it, then add it. *)
goConfirm(k) ==
    LET new == k.ip \notin sets[k.s].ips
    IN /\ k.kind = "confirm"
       /\ tasks' = (tasks \ {k}) \cup {Go(k.by, "store", k.s, k.ip, IF new THEN 1 ELSE 0)}
       /\ UNCHANGED <<sets, m, dial>>

goStore(k) ==
    /\ k.kind = "store"
    /\ sets' = [sets EXCEPT ![k.s].conf = IF sets[k.s].prot /\ k.n = 1 THEN None ELSE k.ip]
    /\ tasks' = (tasks \ {k}) \cup
                (IF k.n = 1 /\ ~sets[k.s].prot THEN {Go(k.by, "grow", k.s, k.ip, 0)} ELSE {})
    /\ UNCHANGED <<m, dial>>

goGrow(k) ==
    /\ k.kind = "grow"
    /\ sets' = [sets EXCEPT ![k.s].ips = @ \cup {k.ip}]
    /\ tasks' = tasks \ {k}
    /\ UNCHANGED <<m, dial>>

(* Disconfirm's goroutine: a failure more, or the last straw. *)
goDisconfirm(k) ==
    LET s == sets[k.s]
        sz == Cardinality(s.ips)
        tot == s.fails + k.n
        limit == IF 2 * sz > FailLimit THEN 2 * sz ELSE FailLimit
    IN /\ k.kind = "disconfirm" /\ s.fails < MaxFails
       /\ sets' = IF sz > 0 THEN [sets EXCEPT ![k.s].fails = tot] ELSE sets
       /\ tasks' = (tasks \ {k}) \cup
                   (IF sz > 0 /\ tot > limit THEN {Go(k.by, "empty", k.s, None, tot)} ELSE {})
       /\ UNCHANGED <<m, dial>>

goEmpty(k) ==
    /\ k.kind = "empty"
    /\ sets' = IF sets[k.s].fails = k.n THEN Cleared(k.s) ELSE sets
    /\ tasks' = tasks \ {k}
    /\ UNCHANGED <<m, dial>>

(* Clear: regular sets are let go; all are cleared by a goroutine. *)
Clear ==
    /\ clears < MaxClears /\ clears' = clears + 1
    /\ \E h \in Hosts : m[h] # Nil
    /\ tasks' = tasks \cup {Go(Nil, "purge", m[h], None, 0) : h \in {g \in Hosts : m[g] # Nil}}
    /\ m' = [h \in Hosts |-> IF Protected(h) THEN m[h] ELSE Nil]
    /\ UNCHANGED <<sets, dial>>

goPurge(k) ==
    /\ k.kind = "purge"
    /\ sets' = Cleared(k.s)
    /\ tasks' = tasks \ {k}
    /\ UNCHANGED <<m, dial>>

---------------------------------------------------------------------------
resolves(t) == \/ add(t, "resolve", "confirmed") \/ add(t, "readd", "renewed")
               \/ add(t, "emptyadd", "emptied")

step(t) ==
    /\ \/ Start(t) \/ make(t, "make", "size") \/ empty(t) \/ resolves(t)
       \/ addFails(t, "resolve", "confirmed")
       \/ confirmed(t) \/ \E ok \in BOOLEAN : connectFirst(t, ok) \/ connect(t, ok)
       \/ addrs(t, "addrs") \/ renew(t)
       \/ get(t, "renewget", "makereadd", "readd") \/ make(t, "makereadd", "readd")
       \/ addFails(t, "readd", "renewed")
       \/ get(t, "emptyget", "makeempty", "emptyadd") \/ make(t, "makeempty", "emptyadd")
       \/ addFails(t, "emptyadd", "emptied") \/ reseed(t)
       \/ addrs(t, "renewed") \/ exhausted(t) \/ dialRetryTimeout(t) \/ Done(t) \/ Report(t)
    /\ UNCHANGED clears

Kinds == {"confirm", "store", "grow", "disconfirm", "empty", "purge"}
goroutine(kind) ==
    /\ \E k \in {j \in tasks : j.kind = kind} :
         goConfirm(k) \/ goStore(k) \/ goGrow(k) \/ goDisconfirm(k) \/ goEmpty(k) \/ goPurge(k)
    /\ UNCHANGED clears

Next == Clear \/ (\E kind \in Kinds : goroutine(kind)) \/ \E t \in Dials : step(t)

resolvesAlive(t) == step(t) /\ resolves(t) /\ sets'[dial[t].s].ips \cap Alive # {}
connects(t) == step(t) /\ connect(t, TRUE)

Spec == Init /\ [][Next]_vars

---------------------------------------------------------------------------
TypeOK ==
    /\ m \in [Hosts -> SetIds \cup {Nil}]
    /\ \A i \in SetIds : sets[i].ips \subseteq IPs /\ sets[i].conf \in IPs \cup {None}
    /\ \A t \in Dials : dial[t].s \in SetIds \cup {Nil} /\ dial[t].front \cup dial[t].back \subseteq IPs
    /\ \A k \in tasks : k.s \in SetIds

(* A protected host is never left without the addresses it is registered
   with: not by Clear, by a run of failures, by a renewal, or by a clearing
   that was asked for while the set was replaced (ipmap.go:854-902). *)
SeedsAreKept ==
    \A h \in Hosts : Seed[h] # {} => m[h] # Nil /\ Seed[h] \subseteq sets[m[h]].ips

(* A protected set confirms only an address it holds, though a dial confirms
   an address of a set that was replaced meanwhile (ipmap.go:825-837). That is
   less than the comments there ask for, that unseeded addresses be neither
   added nor confirmed (798, 823-824): what a protected host resolves to joins
   its set, and is confirmed like a seed. *)
ConfirmedIsKnown ==
    \A i \in SetIds : sets[i].prot /\ sets[i].conf # None => sets[i].conf \in sets[i].ips

(* A host whose dials fail is dialed with success in the end, when it resolves
   to an address that answers: the stale addresses are disconfirmed until the
   set is emptied and resolved again (ipmap.go:870-902). *)
DialsRecover == \A t \in Dials : (dial[t].pc = "failed") ~> (dial[t].pc = "ok")
=============================================================================
