------------------------------- MODULE DnsAlg -------------------------------
(***************************************************************************)
(* The DNS gateway, dnsx/alg.go: it answers an app's A, AAAA and HTTPS/SVCB*)
(* query from a primary transport t1, asks a secondary t2 whether the name *)
(* is blocked, hands the app a made-up "alg" ip, and remembers which real  *)
(* ips and names stand behind it, so that a later connection to the alg ip *)
(* can be undone (X, PTR, RESOLV, RDNSBL).                                 *)
(*                                                                         *)
(* One action per step of a query that the code interleaves: q's start,    *)
(* the secondary's goroutine, the primary's answer, and the end of q, which*)
(* runs under the gateway's lock.  A transport stopping runs alongside.    *)
(***************************************************************************)
EXTENDS Integers, FiniteSets, TLAPS

CONSTANTS
    Tids,          \* ids of transports
    Uids,          \* ids of apps, Unknown among them
    NoTransport,   \* the wildcard tid: notransport, NoDNS or ""
    AnyIp,           \* the unspecified ip, 0.0.0.0 or ::, which says "blocked"
    TidPrefix,     \* pairs <<t, u>>: the id t is a proper prefix of the id u
    UidSuffix,     \* pairs <<a, b>>: the id a is a proper suffix of the id b
    StaleThres,    \* staleXipsThres, staleDomainThres
    VacuumInterval, \* vaccumInterval
    Domains, Ip4, Ip6,     \* names, and real ips by family
    AlgIps,                \* the alg ips the hash can produce, of both families
    GenIp,                 \* GenIp[k][i]: gen4Locked, gen6Locked: key k, salt i
    MaxIter,               \* maxiter
    FixedIps,              \* fixedRealIPs
    Preset, FixedId,       \* the ids synthesized answers are filed under, in Tids
    BlockAll, FixedTid,    \* ids of two special transports
    Nil, Unknown,          \* Unknown in Uids: core.UNKNOWN_UID_STR
    MyUid,                 \* in Uids: this program's own
    IdOf,                  \* [Tids -> Tids]: the id a transport puts in a summary
    Nat64,                 \* from Ip4s to Ip6s: the local NAT64's image of an ip
    Asks,                  \* queries: [d, typ, uid, t1, t2, preset, tun, do, local]
    Upstream,              \* Upstream[typ]: what a transport may answer, [rc, ips]
    Ttls,                  \* ttls a transport's answer may have
    Modes,                 \* pairs of settings translate may be called with
    StopTids,              \* transports that may be stopped
    MinTtl, AlgTtl,        \* ttl8s, ttl2m
    Calls,                 \* ids of the queries in flight
    MaxNow, MaxOps         \* bounds: the clock, and calls into the gateway

-----------------------------------------------------------------------------
(* The answers kept behind each alg ip: xips (real ips by transport, secondary *)
(* ips by transport and app), xdomains (domains by transport and app) and      *)
(* algans, which holds one of each.  Every operator is a function of the value *)
(* and of the time.  An answer set is kept as a set: the order of its ips,     *)
(* youngest first, only tells the dialers which to try first.  Time 0 is the   *)
(* zero time.Time.                                                             *)

\* The keys of aux and of xdomains are tid+uid in one string, so a key starts
\* with every tid that is a prefix of its tid, and ends with every such uid.
HasPrefix(k, tid) == k[1] = tid \/ <<tid, k[1]>> \in TidPrefix
HasSuffix(k, uid) == k[2] = uid \/ <<uid, k[2]>> \in UidSuffix

AuxKeys == Tids \X Uids

\* expaddr, expdomains: values with an expiry and a birth; the zero value is
\* also what a Go map returns for a missing key.
NoExp == [val |-> {}, ttl |-> 0, dob |-> 0]

fresh(a, now) == a.ttl # 0 /\ a.ttl > now

after(a, b) == IF a.dob = 0 THEN b.dob = 0 ELSE a.dob > b.dob

fresherThan(a, b) == IF a.ttl = 0 THEN b.ttl = 0 ELSE a.ttl > b.ttl

withinStaleThres(a, now) == a.dob # 0 /\ now - a.dob <= StaleThres

get(a, s, now) == IF s = "all" THEN a.val ELSE IF fresh(a, now) THEN a.val ELSE {}

-----------------------------------------------------------------------------
(* xips *)

XipsEmpty == [pri |-> [t \in Tids |-> NoExp], aux |-> [k \in AuxKeys |-> NoExp],
              past |-> [t \in Tids |-> NoExp], vacuumed |-> 0]

\* NewXips; an empty tid is refused by the caller, registerLocked.
NewXips(tid, uid, pri, sec, ttl, now) ==
    LET exp(v) == IF v = {} THEN NoExp ELSE [val |-> v, ttl |-> ttl, dob |-> now]
    IN  [XipsEmpty EXCEPT !.pri[tid] = exp(pri), !.aux[<<tid, uid>>] = exp(sec)]

\* allips: what is kept for every transport; past only tells of primary ips
\* and only a caller that takes expired ones.
allips(p, t, s, now) ==
    LET own == IF t = "sec" THEN UNION {get(p.aux[k], s, now) : k \in AuxKeys}
                            ELSE UNION {get(p.pri[k], s, now) : k \in Tids}
        old == UNION {p.past[k].val : k \in {k \in Tids : withinStaleThres(p.past[k], now)}}
    IN  own \cup (IF s = "all" /\ t = "pri" THEN old ELSE {})

\* ipsFor: one transport's ips, or everyone's when no transport is named.
ipsFor(p, tid, uid, t, s, now) ==
    CASE t = "pri" /\ tid = NoTransport -> allips(p, "pri", s, now)
      [] t = "sec" /\ tid = NoTransport ->
            UNION {get(p.aux[k], s, now) : k \in {k \in AuxKeys : HasSuffix(k, uid)}}
      [] t = "sec" /\ tid # NoTransport -> get(p.aux[<<tid, uid>>], s, now)
      [] OTHER -> get(p.pri[tid], s, now)

\* secipsFor, and zz: does a live secondary answer block this app?
secipsFor(p, tid, uid, now) == ipsFor(p, tid, uid, "sec", "alive", now)
zz(p, uid, now) == AnyIp \in secipsFor(p, NoTransport, uid, now)

\* realips: all primary ips, and the unspecified ip for an app that is blocked.
realips(p, uid, s, now) ==
    allips(p, "pri", s, now) \cup (IF zz(p, uid, now) THEN {AnyIp} ELSE {})

\* relegateLocked: v joins what past has under k, or replaces it once stale.
relegateLocked(past, k, v, now) ==
    IF withinStaleThres(past[k], now)
    THEN [past EXCEPT ![k].val = @ \cup v.val,
                      ![k].dob = IF @ < v.dob THEN v.dob ELSE @]
    ELSE [past EXCEPT ![k] = v]

\* vaccumLocked: at most once in an interval, drop what is past the threshold.
vaccumLocked(p, now) ==
    IF p.vacuumed # 0 /\ now - p.vacuumed < VacuumInterval
    THEN p
    ELSE [p EXCEPT !.past = [k \in DOMAIN p.past |->
                                IF withinStaleThres(p.past[k], now) THEN p.past[k] ELSE NoExp],
                   !.vacuumed = now]

\* The entry that merge leaves for one key: qv when pv is over, both else.
mergeOne(pv, qv, now) ==
    IF ~fresh(pv, now) THEN qv
    ELSE [val |-> get(pv, "alive", now) \cup get(qv, "alive", now),
          ttl |-> IF fresherThan(pv, qv) THEN pv.ttl ELSE qv.ttl,
          dob |-> IF after(pv, qv) THEN pv.dob ELSE qv.dob]

\* What merge moves to past: the entry it replaces, or q's, if not stale.
mergePast(past, k, pv, qv, now) ==
    LET v == IF fresh(pv, now) THEN qv ELSE pv
    IN  IF v.val # {} /\ withinStaleThres(v, now) THEN relegateLocked(past, k, v, now) ELSE past

\* xips.merge: q into p, for every key q has.
xipsMerge(p, q, now) ==
    vaccumLocked(
      [p EXCEPT
         !.pri = [k \in Tids |-> IF q.pri[k] = NoExp THEN @[k] ELSE mergeOne(@[k], q.pri[k], now)],
         !.past = [k \in Tids |-> IF q.pri[k] = NoExp THEN @[k]
                                  ELSE mergePast(@, k, p.pri[k], q.pri[k], now)[k]],
         !.aux = [k \in AuxKeys |-> IF q.aux[k] = NoExp THEN @[k]
                                    ELSE mergeOne(@[k], q.aux[k], now)]], now)

\* xips.rmv: a stopped transport's ips expire now, and are kept in past.
xipsRmv(p, tid, now) ==
    LET live == fresh(p.pri[tid], now)
        sec  == {k \in AuxKeys : fresh(p.aux[k], now) /\ HasPrefix(k, tid)}
        over(v) == [v EXCEPT !.ttl = now]
        q    == [p EXCEPT !.pri[tid] = IF live THEN over(@) ELSE @,
                          !.past = IF live THEN relegateLocked(@, tid, over(p.pri[tid]), now) ELSE @,
                          !.aux = [k \in AuxKeys |-> IF k \in sec THEN over(@[k]) ELSE @[k]]]
    IN  IF live \/ sec # {} THEN vaccumLocked(q, now) ELSE p

-----------------------------------------------------------------------------
(* xdomains: the same life for the names of an answer, with no secondaries *)

XdomainsEmpty == [pri |-> [k \in AuxKeys |-> NoExp], past |-> [k \in AuxKeys |-> NoExp],
                  vacuumed |-> 0]

NewXdomains(tid, uid, doms, ttl, now) ==
    [XdomainsEmpty EXCEPT !.pri[<<tid, uid>>] =
        IF doms = {} THEN NoExp ELSE [val |-> doms, ttl |-> ttl, dob |-> now]]

domainsFor(p, tid, uid, s, now) ==
    LET keys == IF tid = NoTransport THEN {k \in AuxKeys : HasSuffix(k, uid)} ELSE {<<tid, uid>>}
        old  == {k \in keys : withinStaleThres(p.past[k], now)}
    IN  UNION {get(p.pri[k], s, now) : k \in keys}
        \cup (IF s = "all" THEN UNION {p.past[k].val : k \in old} ELSE {})

domainsRelegate(past, k, v, now) ==
    IF withinStaleThres(past[k], now)
    THEN [past EXCEPT ![k].val = @ \cup v.val, ![k].dob = IF @ < v.dob THEN v.dob ELSE @]
    ELSE [past EXCEPT ![k] = v]

domainsVaccum(p, now) ==
    IF p.vacuumed # 0 /\ now - p.vacuumed < VacuumInterval THEN p
    ELSE [p EXCEPT !.past = [k \in AuxKeys |->
                                IF withinStaleThres(@[k], now) THEN @[k] ELSE NoExp],
                   !.vacuumed = now]

domainsMerge(p, q, now) ==
    LET old(k) == IF fresh(p.pri[k], now) THEN q.pri[k] ELSE p.pri[k]
    IN  domainsVaccum(
          [p EXCEPT
             !.pri = [k \in AuxKeys |-> IF q.pri[k] = NoExp THEN @[k]
                                        ELSE mergeOne(@[k], q.pri[k], now)],
             !.past = [k \in AuxKeys |->
                         IF q.pri[k] # NoExp /\ old(k).val # {} /\ withinStaleThres(old(k), now)
                         THEN domainsRelegate(@, k, old(k), now)[k] ELSE @[k]]], now)

domainsRmv(p, tid, now) ==
    LET gone == {k \in AuxKeys : HasPrefix(k, tid) /\ fresh(p.pri[k], now)}
        over(k) == [p.pri[k] EXCEPT !.ttl = now]
    IN  IF gone = {} THEN p
        ELSE domainsVaccum(
               [p EXCEPT !.pri = [k \in AuxKeys |-> IF k \in gone THEN over(k) ELSE @[k]],
                         !.past = [k \in AuxKeys |-> IF k \in gone
                                                     THEN domainsRelegate(@, k, over(k), now)[k]
                                                     ELSE @[k]]], now)

-----------------------------------------------------------------------------
(* algans: the answer behind one alg ip *)

\* extend: each use of an alg ip lengthens its life.
extend(a, by, now) == [a EXCEPT !.ttl = IF @ = 0 \/ now > @ THEN now + by ELSE @ + by]

\* algans.merge: b into a; the blocklists are b's and the ttl is the later one.
algansMerge(a, b, now) ==
    [a EXCEPT !.ips = xipsMerge(@, b.ips, now), !.domains = domainsMerge(@, b.domains, now),
              !.blocklists = b.blocklists, !.ttl = IF b.ttl > @ THEN b.ttl ELSE @]

-----------------------------------------------------------------------------
VARIABLES
    now,
    mod, fix, split,       \* dnsgateway.mod, fix, split
    alg,                   \* key -> Nil or [algip, ttl, ips, domains, blocklists]
    nat,                   \* alg ip -> Nil or the key whose baseans it holds
    ptr,                   \* real ip -> the keys whose baseans it lists
    calls,                 \* queries: where each is, and what it has so far
    stopped,               \* onStopped calls at work: what is left of the snapshot
    ops,                   \* calls into the gateway so far, for the bound
    told                   \* ghost: what each answered query told its app, and when

vars == <<now, mod, fix, split, alg, nat, ptr, calls, stopped, ops, told>>

Keys == Domains \X {4, 6}
Ips  == Ip4 \cup Ip6 \cup {AnyIp}
FamilyOf(ips, f) == ips \cap (IF f = 4 THEN Ip4 \cup {AnyIp} ELSE Ip6 \cup {AnyIp})

NoAnswer == [rc |-> "none", ips |-> {}, ttl |-> 0]
Larger(a, b) == IF a > b THEN a ELSE b

Init ==
    /\ now = 1 /\ split = FALSE
    /\ \E m \in Modes : mod = m[1] /\ fix = m[2]         \* as the client set them
    /\ alg = [k \in Keys |-> Nil] /\ nat = [i \in AlgIps |-> Nil] /\ ptr = [i \in Ips |-> {}]
    /\ calls = [c \in Calls |-> Nil] /\ stopped = {} /\ ops = 0 /\ told = {}

-----------------------------------------------------------------------------
(* Reads *)

isFresh(a) == a.ttl # 0 /\ a.ttl > now
effUid(uid) == IF split THEN uid ELSE Unknown
skipInternalCache(ts) == BlockAll \in ts

\* resolvLocked: what alg has for a name of one family, of a kind.
resolvLocked(k, typ, tid, uid) ==
    IF alg[k] = Nil \/ ~isFresh(alg[k]) THEN {}
    ELSE CASE typ = "alg"  -> {alg[k].algip}
           [] typ = "real" -> FamilyOf(ipsFor(alg[k].ips, tid, uid, "pri", "alive", now), k[2])
           [] OTHER        -> FamilyOf(secipsFor(alg[k].ips, tid, uid, now), k[2])

\* fromInternalCache: a cached answer lives for as long as the alg entries do.
fromInternalCache(a, t, uid, typ) ==
    LET k    == <<a.d, IF a.typ = "a" THEN 4 ELSE 6>>
        skip == skipInternalCache({t}) \/ (typ = "real" /\ a.do) \/ a.local \/ a.typ \notin {"a", "aaaa"}
        ips  == IF t \in Tids THEN resolvLocked(k, typ, t, uid) ELSE {}
        both == {f \in {4, 6} : alg[<<a.d, f>>] # Nil /\ isFresh(alg[<<a.d, f>>])}
        ends == {alg[<<a.d, f>>].ttl : f \in both}
        until == CHOOSE e \in ends : \A f \in ends : e <= f
    IN  IF skip \/ ips = {} THEN NoAnswer
        ELSE [rc |-> "ok", ips |-> ips, ttl |-> until - now]

\* maybeUndoLocalNat64Locked: the ip4s behind ips the local NAT64 made.
undoNat64(ips) == {i \in DOMAIN Nat64 : Nat64[i] \in ips}

\* xLocked without tids: the real ips behind an ip, {} when they are over.
xLocked(ip, usestale, uid) ==
    LET s    == IF usestale THEN "all" ELSE "alive"
        keys == IF uid = MyUid THEN {}
                ELSE IF ip \in AlgIps /\ nat[ip] # Nil THEN {nat[ip]}
                ELSE IF ip \in Ips THEN ptr[ip] ELSE {}
        real == UNION {realips(alg[k].ips, uid, s, now) : k \in keys}
        un   == undoNat64(IF real = {} THEN {ip} ELSE real)
    IN  IF un # {} THEN un ELSE IF real = {} /\ keys = {} THEN {ip} ELSE real

X(ip, uid) == xLocked(ip, ~mod, effUid(uid))

\* ptrLocked, PTR: the names behind an ip; stale ones only through ptr.
ptrLocked(ip, tid, uid, useptr) ==
    LET names(keys, s) == UNION {domainsFor(alg[k].domains, tid, uid, s, now) : k \in keys}
        own   == IF ip \in AlgIps /\ nat[ip] # Nil THEN names({nat[ip]}, "alive") ELSE {}
        keys  == IF ip \in Ips THEN ptr[ip] ELSE {}
        alive == names(keys, "alive")
    IN  IF own # {} \/ ~useptr THEN own ELSE IF alive # {} THEN alive ELSE names(keys, "all")

PTR(ip, uid, tid, force) == ptrLocked(ip, tid, effUid(uid), ~mod \/ force)

\* RESOLV: the alg ips of a name, or its real ones when alg is off.
RESOLV(d, uid, tid) ==
    LET any == effUid(uid) = MyUid \/ tid = Nil
    IN  UNION {resolvLocked(<<d, f>>, IF mod THEN "alg" ELSE "real", IF any THEN NoTransport ELSE tid,
                            IF effUid(uid) = MyUid THEN Unknown ELSE effUid(uid)) : f \in {4, 6}}

-----------------------------------------------------------------------------
(* A query *)

Op == ops < MaxOps /\ ops' = ops + 1

usePreset(a) == a.preset # {}

\* q's start: which transports to ask, and whether to alg the answer.
qStart(c) ==
    /\ calls[c] = Nil
    /\ \E a \in Asks :
         LET algd     == a.uid # MyUid /\ a.tun /\ mod
             usefixed == ~usePreset(a) /\ algd /\ a.t1 = FixedTid
             t1       == IF a.t1 = FixedTid THEN a.t2 ELSE a.t1
             synth    == usePreset(a) \/ usefixed
             call     == [ask |-> a, at |-> now, mod |-> algd, uid |-> effUid(a.uid),
                          t1 |-> t1, t2 |-> IF synth THEN Nil ELSE a.t2, fixed |-> usefixed,
                          preset |-> IF usefixed THEN FixedIps ELSE a.preset,
                          dontalg |-> ~usefixed /\ (usePreset(a) \/ skipInternalCache({a.t1, a.t2})),
                          id |-> Nil, pri |-> Nil, sec |-> Nil, pc |-> "query"]
         IN  /\ calls' = [calls EXCEPT ![c] = IF t1 = Nil
                              THEN [call EXCEPT !.pc = "err"]          \* errAlgNoTransport
                              ELSE call]
    /\ Op /\ UNCHANGED <<now, mod, fix, split, alg, nat, ptr, stopped, told>>

\* What a transport may answer.
Replies(a) == UNION {IF u.rc = "ok" THEN [rc : {"ok"}, ips : {u.ips}, ttl : Ttls]
                     ELSE {[rc |-> u.rc, ips |-> {}, ttl |-> 0]} : u \in Upstream[a.typ]}

\* Req; a secondary that is BlockAll answers with the unspecified ip.
Req(t, a, r) == r \in IF t = BlockAll THEN [rc : {"ok"}, ips : {{AnyIp}}, ttl : Ttls] ELSE Replies(a)

\* synthesizeOrQuery: the preset ips of the question's family, or t1's answer
\* with its hints replaced by one preset ip of each family.
synthesize(call, r) ==
    LET a == call.ask
        own == FamilyOf(call.preset, IF a.typ = "a" THEN 4 ELSE 6)
        hint(f) == IF FamilyOf(r.ips, f) = {} \/ FamilyOf(call.preset, f) = {} THEN FamilyOf(r.ips, f)
                   ELSE {CHOOSE i \in FamilyOf(call.preset, f) : TRUE}
    IN  IF a.typ \in {"a", "aaaa"} /\ own # {} THEN [rc |-> "ok", ips |-> own, ttl |-> 0]
        ELSE IF a.typ = "svcb" /\ r.rc = "ok" THEN [r EXCEPT !.ips = hint(4) \cup hint(6)]
        ELSE r

\* withPresetSummary: the id an HTTPS or SVCB answer with preset hints is filed
\* under.
svcbId(call) == IF call.fixed THEN FixedId ELSE Preset

\* The primary's answer: qp (a live cached one first), or a synthesized one.
qp(c) ==
    /\ calls[c] # Nil /\ calls[c].pc = "query" /\ calls[c].pri = Nil
    /\ LET call == calls[c]
           hit  == fromInternalCache(call.ask, call.t1, call.uid, "real")
           made == call.ask.typ \in {"a", "aaaa"}
                   /\ FamilyOf(call.preset, IF call.ask.typ = "a" THEN 4 ELSE 6) # {}
           id   == IF call.preset # {} /\ made THEN Preset
                   ELSE IF call.preset # {} /\ call.ask.typ = "svcb" THEN svcbId(call)
                   ELSE IF call.preset = {} /\ hit # NoAnswer THEN call.t1
                   ELSE IF call.t1 \in Tids THEN IdOf[call.t1] ELSE call.t1
       IN  \E r \in Replies(call.ask) \cup {hit} :
             /\ IF call.preset # {} THEN (made => r = NoAnswer) /\ (~made => Req(call.t1, call.ask, r))
                ELSE IF hit # NoAnswer THEN r = hit ELSE Req(call.t1, call.ask, r)
             /\ calls' = [calls EXCEPT ![c].id = id,
                             ![c].pri = IF call.preset # {} THEN synthesize(call, r) ELSE r]
    /\ UNCHANGED <<now, mod, fix, split, alg, nat, ptr, stopped, ops, told>>

\* querySecondary: its own goroutine, given up after a timeout.  Without a
\* secondary it waits for the primary's answer.  rdns.blockQ, rdns.blockA may
\* block the question or the answer, and name the blocklists.
NoSec == [ips |-> {}, lists |-> FALSE]
querySecondary(c) ==
    /\ calls[c] # Nil /\ calls[c].pc = "query" /\ calls[c].sec = Nil
    /\ LET call == calls[c]
           hit  == fromInternalCache(call.ask, call.t2, call.uid, "sec")
           zero == [ips |-> {AnyIp}, lists |-> TRUE]
       IN  \E r \in Replies(call.ask) \cup {hit} \cup (IF call.pri = Nil THEN {} ELSE {call.pri}) :
             /\ IF call.t2 = Nil THEN call.pri # Nil /\ r = call.pri
                ELSE IF hit # NoAnswer THEN r = hit ELSE Req(call.t2, call.ask, r)
             /\ \E blockQ \in BOOLEAN, blockA \in BOOLEAN :
                  calls' = [calls EXCEPT ![c].sec =
                     IF call.ask.typ = "txt" THEN NoSec
                     ELSE IF blockQ THEN [ips |-> IF call.ask.typ = "svcb" THEN {} ELSE {AnyIp}, lists |-> TRUE]
                     ELSE IF r.rc # "ok" \/ r.ips = {} THEN NoSec
                     ELSE IF blockA THEN zero
                     ELSE IF AnyIp \in r.ips THEN [ips |-> {AnyIp}, lists |-> FALSE]
                     ELSE [ips |-> r.ips, lists |-> FALSE]]
    /\ UNCHANGED <<now, mod, fix, split, alg, nat, ptr, stopped, ops, told>>

secondaryTimeout(c) ==
    /\ calls[c] # Nil /\ calls[c].pc = "query" /\ calls[c].sec = Nil
    /\ calls' = [calls EXCEPT ![c].sec = NoSec]
    /\ UNCHANGED <<now, mod, fix, split, alg, nat, ptr, stopped, ops, told>>

\* D64: an AAAA answer without ips may be made from the name's ip4s.
D64(a, r) == {r.ips} \cup (IF a.typ = "aaaa" /\ r.rc = "ok" /\ r.ips = {}
                           THEN {{Nat64[i] : i \in s} : s \in SUBSET DOMAIN Nat64 \ {{}}} ELSE {})

\* Mutant: the first candidate, taken or not.
firstHash(k) == IF alg[k] # Nil THEN alg[k].algip ELSE GenIp[k][0]

\* The ip the key has, or the first one generated for it that is not taken.
firstFree(k) ==
    LET free  == {i \in 0 .. MaxIter - 1 : nat[GenIp[k][i]] = Nil}
        first == {i \in free : \A j \in free : i <= j}
    IN  IF alg[k] # Nil THEN alg[k].algip
        ELSE IF first = {} THEN Nil
        ELSE GenIp[k][CHOOSE i \in first : TRUE]

take4Locked(d) == firstFree(<<d, 4>>)
take6Locked(d) == firstFree(<<d, 6>>)
takeLocked(k) == IF k[2] = 4 THEN take4Locked(k[1]) ELSE take6Locked(k[1])

\* registerLocked for one key: file the answer under its alg ip.  The entry
\* of a key that has one was extended by takeLocked.
registerLocked(k, call, real, sec, lists, ttl) ==
    LET x == [algip |-> takeLocked(k), ttl |-> now + Larger(AlgTtl, ttl),
              ips |-> NewXips(call.id, call.uid, FamilyOf(real, k[2]), FamilyOf(sec, k[2]), now + ttl, now),
              domains |-> NewXdomains(call.id, call.uid, {k[1]}, now + ttl, now),
              blocklists |-> lists]
    IN  IF alg[k] = Nil THEN x ELSE algansMerge(extend(alg[k], AlgTtl, now), x, now)

each(p) == allips(p, "pri", "all", now) \cup allips(p, "sec", "all", now)

\* An answer q leaves alone: not of ips, an error, a block, or not to be alg'd.
leftAlone(call, ips) ==
    \/ call.ask.typ = "txt" \/ ips = {} \/ call.pri.rc # "ok" \/ AnyIp \in ips \/ call.dontalg

CannotSubst(a) == IF a.typ = "svcb" THEN BOOLEAN ELSE {FALSE}

\* The end of q, under the lock: take alg ips, register, answer.  An answer
\* that is not alg'd does not wait for the secondary.  The ips are taken in
\* order, hints first the ip4s', so a failure extends the entries before it.
\* SubstSVCBRecordIPs may refuse an HTTPS or SVCB record (of priority 0, or
\* with a target): q then errs (errAlgCannotSubst) once all ips are taken.  The
\* same error for a fixed answer without ips changes nothing.
qEnd(c) ==
    LET call  == calls[c]
        a     == call.ask
        r     == call.pri
        first == IF a.typ = "svcb" THEN 4 ELSE 6
    IN
    /\ call # Nil /\ call.pc = "query" /\ r # Nil
    /\ \E ips \in D64(a, r), cant \in CannotSubst(a) :
         LET early == leftAlone(call, ips)
             ks    == {<<a.d, f>> : f \in {f \in {4, 6} : FamilyOf(ips, f) # {}}}
             short == {k \in ks : takeLocked(k) = Nil}
             real  == IF call.fixed THEN {} ELSE ips
             sec   == IF call.fixed THEN {} ELSE call.sec.ips
             ttl   == Larger(MinTtl, r.ttl)
             alg2  == [k \in Keys |->
                         IF k \notin ks \/ early THEN alg[k]
                         ELSE IF short = {} /\ ~cant
                              THEN registerLocked(k, call, real, sec, call.sec.lists, ttl)
                         ELSE IF alg[k] # Nil /\ (k[2] = first \/ short = {}) THEN extend(alg[k], AlgTtl, now)
                         ELSE alg[k]]
             ok    == ~early /\ short = {} /\ ~cant
             tell(k) == [key |-> k, algip |-> alg2[k].algip, real |-> FamilyOf(real, k[2]),
                         blocked |-> AnyIp \in sec, tid |-> call.id, uid |-> call.uid, app |-> a.uid,
                         at |-> now, ttl |-> ttl, given |-> call.mod,
                         ended |-> FALSE]
         IN  /\ ~early => call.sec # Nil
             /\ alg' = alg2
             /\ nat' = [i \in AlgIps |-> IF ok /\ \E k \in ks : alg2[k].algip = i
                                         THEN CHOOSE k \in ks : alg2[k].algip = i ELSE nat[i]]
             /\ ptr' = [i \in Ips |-> ptr[i] \cup {k \in ks : ok /\ i \in each(alg2[k].ips)}]
             /\ told' = told \cup (IF ok THEN {tell(k) : k \in ks} ELSE {})
    /\ calls' = [calls EXCEPT ![c] = Nil]
    /\ UNCHANGED <<now, mod, fix, split, stopped, ops>>

qErr(c) ==
    /\ calls[c] # Nil /\ calls[c].pc = "err"
    /\ calls' = [calls EXCEPT ![c] = Nil]
    /\ UNCHANGED <<now, mod, fix, split, alg, nat, ptr, stopped, ops, told>>

-----------------------------------------------------------------------------
(* Settings, a stopping transport, and the end *)

translate(tr, fx) ==
    /\ <<tr, fx>> # <<mod, fix>>
    /\ mod' = tr /\ fix' = fx
    /\ Op /\ UNCHANGED <<now, split, alg, nat, ptr, calls, stopped, told>>

splitTunnel ==
    /\ ~split /\ split' = TRUE
    /\ Op /\ UNCHANGED <<now, mod, fix, alg, nat, ptr, calls, stopped, told>>

\* Ghost: what a stopped transport's answers told is over.
toldEnds(tid) == {IF HasPrefix(<<e.tid, e.uid>>, tid) THEN [e EXCEPT !.ended = TRUE] ELSE e : e \in told}

\* onStopped: a snapshot of the entries under the read lock, then one entry's
\* ips, and later its names, at a time, without the lock.
onStopped(tid) ==
    /\ \A s \in stopped : s.tid # tid
    /\ LET all == {k \in Keys : alg[k] # Nil}
       IN  all # {} /\ stopped' = stopped \cup {[tid |-> tid, ips |-> all, doms |-> all]}
    /\ told' = toldEnds(tid)
    /\ Op /\ UNCHANGED <<now, mod, fix, split, alg, nat, ptr, calls>>

onStoppedRmv(s) ==
    /\ LET left == IF s.ips # {} THEN s.ips ELSE s.doms
       IN  \E k \in left :
             /\ alg' = [alg EXCEPT ![k] =
                   IF s.ips # {} THEN [alg[k] EXCEPT !.ips = xipsRmv(alg[k].ips, s.tid, now)]
                   ELSE [alg[k] EXCEPT !.domains = domainsRmv(alg[k].domains, s.tid, now)]]
             /\ LET t == IF s.ips # {} THEN [s EXCEPT !.ips = @ \ {k}] ELSE [s EXCEPT !.doms = @ \ {k}]
                IN  stopped' = (stopped \ {s}) \cup (IF t.doms = {} THEN {} ELSE {t})
    /\ told' = toldEnds(s.tid)
    /\ UNCHANGED <<now, mod, fix, split, nat, ptr, calls, ops>>

\* stop, when the context ends; a snapshot then holds entries nobody can reach.
stop ==
    /\ \E k \in Keys : alg[k] # Nil
    /\ alg' = [k \in Keys |-> Nil] /\ nat' = [i \in AlgIps |-> Nil] /\ ptr' = [i \in Ips |-> {}]
    /\ stopped' = {} /\ told' = {}
    /\ Op /\ UNCHANGED <<now, mod, fix, split, calls>>

\* Time passes; what was told longer ago than anything is kept for is forgotten.
Tick ==
    /\ now < MaxNow /\ now' = now + 1
    /\ told' = {e \in told : now' <= e.at + Larger(e.ttl, StaleThres)}
    /\ UNCHANGED <<mod, fix, split, alg, nat, ptr, calls, stopped, ops>>

Next ==
    \/ \E c \in Calls : \/ qStart(c) \/ qp(c) \/ querySecondary(c) \/ secondaryTimeout(c)
                        \/ qEnd(c) \/ qErr(c)
    \/ \E m \in Modes : translate(m[1], m[2])
    \/ splitTunnel
    \/ \E tid \in StopTids : onStopped(tid)
    \/ \E s \in stopped : onStoppedRmv(s)
    \/ stop
    \/ Tick

Spec == Init /\ [][Next]_vars

-----------------------------------------------------------------------------
(* Properties *)

\* dnsgateway's maps, by type; only the parts a Go map cannot get wrong itself.
TypeOK ==
    /\ now \in 1 .. MaxNow /\ {mod, fix, split} \subseteq BOOLEAN
    /\ \A k \in Keys : alg[k] # Nil => alg[k].algip \in AlgIps /\ alg[k].ttl \in Nat
    /\ nat \in [AlgIps -> Keys \cup {Nil}] /\ ptr \in [Ips -> SUBSET Keys]

\* An alg ip stands for one name of one family: nat leads back to the entry that
\* holds it and to no other, however the hashes of two names collide, so a
\* connection is never undone to another name's ips (registerLocked, take4Locked).
NatMatchesAlg ==
    /\ \A k \in Keys : alg[k] # Nil => nat[alg[k].algip] = k
    /\ \A i \in AlgIps : nat[i] # Nil => alg[nat[i]] # Nil /\ alg[nat[i]].algip = i

\* A live promise: what an app was told still counts.
live(e) == e.at + e.ttl > now /\ ~e.ended

\* An app that was handed an alg ip can be connected: until the answer's ttl is
\* over or its transport stops, X undoes the alg ip to every ip of that answer,
\* or to the ip4s behind the NAT64'd ones, whatever was merged since (q, X).
UndoGivesAnswer ==
    \A e \in told : (e.given /\ live(e) /\ e.real # {}) =>
        LET r == X(e.algip, e.app)
        IN  \/ e.real \subseteq r
            \/ r # {} /\ r \subseteq Ip4 /\ undoNat64(e.real) \subseteq r

\* A secondary's "blocked" for an app is found by zz until it expires, whatever
\* other apps' and other transports' answers are merged into the entry (merge).
BlocksAreKept ==
    \A e \in told : (e.blocked /\ live(e)) => zz(alg[e.key].ips, e.uid, now)

\* Ips answered within the stale threshold are never lost: merges, expiry, a
\* stopping transport and the vacuum all keep them for the callers that take
\* stale ips (relegateLocked, vaccumLocked, rmv).
RecentIpsAreKept ==
    \A e \in told : now - e.at <= StaleThres => e.real \subseteq allips(alg[e.key].ips, "pri", "all", now)

\* ptr is complete: a real ip an entry can still return leads to that entry,
\* so a connection to the ip itself finds the names and blocklists (PTR, RDNSBL).
PtrFindsAll ==
    \A k \in Keys : alg[k] # Nil => \A i \in each(alg[k].ips) : k \in ptr[i]

\* While an answer is live, PTR leads from the alg ip an app holds to the name
\* and RESOLV back from the name to that alg ip. An answer from before
\* splitTunnel was turned on (alg.go:1135) was filed for no app, and is left out.
NamesAreKept ==
    \A e \in told : (e.given /\ live(e) /\ e.uid = effUid(e.app)) =>
        /\ e.key[1] \in PTR(e.algip, e.app, NoTransport, FALSE)
        /\ mod => e.algip \in RESOLV(e.key[1], e.app, Nil)

\* An alg ip handed to an app can be undone, whatever names collide,
\* answers merge, transports stop and entries go stale in between. It stands for one
\* name of one family; until the answer's ttl is over it leads to the ips of that
\* answer, to its name, and to a secondary's block; recent ips are never lost, and
\* each ip an entry can return leads back to that entry.
AlgIsUndone ==
  /\ NatMatchesAlg /\ UndoGivesAnswer /\ BlocksAreKept
  /\ RecentIpsAreKept /\ PtrFindsAll /\ NamesAreKept

\* Every query ends: the end of q waits for the secondary, which is given up.
QueriesEnd == \A c \in Calls : calls[c] # Nil ~> calls[c] = Nil

-----------------------------------------------------------------------------
(* Proofs *)

\* What the constants are: ids an answer may be filed under are in Tids, the ip4
\* and the ip6 generator never make the same alg ip, and Nil is nothing else.
Exp(V) == [val : SUBSET V, ttl : Nat, dob : Nat]
Xips == [pri : [Tids -> Exp(Ips)], aux : [AuxKeys -> Exp(Ips)], past : [Tids -> Exp(Ips)],
         vacuumed : Nat]
Xdomains == [pri : [AuxKeys -> Exp(Domains)], past : [AuxKeys -> Exp(Domains)], vacuumed : Nat]
Algans == [algip : AlgIps, ttl : Nat, ips : Xips, domains : Xdomains, blocklists : BOOLEAN]
Rcs == {"ok", "none"} \cup {u.rc : u \in UNION {Upstream[a.typ] : a \in Asks}}
Answers == [rc : Rcs, ips : SUBSET Ips, ttl : Nat]
Secs == [ips : SUBSET Ips, lists : BOOLEAN]
Queries == [ask : Asks, at : Nat, mod : BOOLEAN, uid : Uids, t1 : Tids \cup {BlockAll, Nil},
            t2 : Tids \cup {BlockAll, Nil}, fixed : BOOLEAN, preset : SUBSET Ips,
            dontalg : BOOLEAN, id : Tids \cup {BlockAll, Nil}, pri : Answers \cup {Nil},
            sec : Secs \cup {Nil}, pc : {"query", "err"}]

AskOK(a) ==
    /\ a.d \in Domains /\ a.uid \in Uids /\ a.preset \subseteq Ips
    /\ a.t1 \in Tids \cup {BlockAll, FixedTid, Nil} /\ a.t2 \in Tids \cup {BlockAll, Nil}
    /\ a.t1 = FixedTid => a.t2 \in Tids \cup {Nil}
    /\ \A u \in Upstream[a.typ] : u.ips \subseteq Ips

DnsAlgConstants ==
    /\ Preset \in Tids /\ FixedId \in Tids /\ IdOf \in [Tids -> Tids] /\ BlockAll # FixedTid
    /\ Unknown \in Uids /\ Unknown # MyUid
    /\ StaleThres \in Nat /\ VacuumInterval \in Nat /\ MaxIter \in Nat /\ MaxNow \in Nat \ {0}
    /\ MinTtl \in Nat \ {0} /\ AlgTtl \in Nat /\ Ttls \subseteq Nat
    /\ StopTids \subseteq Tids
    /\ \A m \in Modes : m[1] \in BOOLEAN /\ m[2] \in BOOLEAN
    /\ \A k \in Keys, i \in 0 .. MaxIter - 1 : GenIp[k][i] \in AlgIps
    /\ \A k, l \in Keys, i, j \in 0 .. MaxIter - 1 : k[2] # l[2] => GenIp[k][i] # GenIp[l][j]
    /\ \A i \in DOMAIN Nat64 : i \in Ip4 /\ Nat64[i] \in Ip6
    /\ FixedIps \subseteq Ips
    /\ \A a \in Asks : AskOK(a)
    /\ Nil \notin Tids /\ Nil \notin AlgIps /\ Nil \notin Keys /\ Nil # BlockAll /\ Nil # FixedTid
    /\ Nil \notin Algans /\ Nil \notin Answers /\ Nil \notin Secs /\ Nil \notin Queries

\* v still has the values S, and until u at least.
Holds(v, S, u) == S # {} => S \subseteq v.val /\ v.ttl >= u

\* p has the ips S of transport t, born at time at or later, among the current
\* ones or among the past ones.
Recent(p, t, S, at) ==
    \A i \in S : \/ i \in p.pri[t].val /\ p.pri[t].dob >= at
                 \/ i \in p.past[t].val /\ p.past[t].dob >= at

\* One answer to merge: nothing, or values born now that are not over.
Newborn(v, n) == v = NoExp \/ (fresh(v, n) /\ v.dob = n)

\* mergeOne: no live value is lost, none is made up, and no life is shortened.
LEMMA MergeOne ==
    ASSUME NEW V, NEW pv \in Exp(V), NEW qv \in Exp(V), NEW n \in Nat \ {0},
           fresh(qv, n), qv.dob = n, NEW m, m = mergeOne(pv, qv, n)
    PROVE  /\ m \in Exp(V)
           /\ m.val \subseteq pv.val \cup qv.val
           /\ qv.val \subseteq m.val /\ m.ttl >= qv.ttl /\ m.dob >= qv.dob
           /\ fresh(pv, n) => pv.val \subseteq m.val /\ m.ttl >= pv.ttl /\ m.dob >= pv.dob
<1>1. CASE ~fresh(pv, n)
    BY <1>1, SMTT(60) DEF mergeOne, Exp
<1>2. CASE fresh(pv, n)
    <2>1. m = [val |-> pv.val \cup qv.val,
               ttl |-> IF fresherThan(pv, qv) THEN pv.ttl ELSE qv.ttl,
               dob |-> IF after(pv, qv) THEN pv.dob ELSE qv.dob]
        BY <1>2, Zenon DEF mergeOne, get
    <2>2. m.ttl \in Nat /\ m.ttl >= qv.ttl /\ m.ttl >= pv.ttl
        BY <2>1, <1>2, SMTT(60) DEF fresherThan, fresh, Exp
    <2>3. m.dob \in Nat /\ m.dob >= qv.dob /\ m.dob >= pv.dob
        BY <2>1, SMTT(60) DEF after, Exp
    <2> QED
        BY <2>1, <2>2, <2>3, SMTT(60) DEF Exp
<1> QED
    BY <1>1, <1>2, Zenon

\* relegateLocked, at one key: what is recent stays recent.
Relegated(old, v, n) ==
    IF withinStaleThres(old, n)
    THEN [val |-> old.val \cup v.val, ttl |-> old.ttl,
          dob |-> IF old.dob < v.dob THEN v.dob ELSE old.dob]
    ELSE v

LEMMA RelegateOne ==
    ASSUME NEW V, NEW K, NEW past \in [K -> Exp(V)], NEW k \in K, NEW v \in Exp(V), NEW n \in Nat
    PROVE  /\ relegateLocked(past, k, v, n)[k] = Relegated(past[k], v, n)
           /\ domainsRelegate(past, k, v, n)[k] = Relegated(past[k], v, n)
           /\ relegateLocked(past, k, v, n) = [past EXCEPT ![k] = Relegated(past[k], v, n)]
           /\ Relegated(past[k], v, n) \in Exp(V)
<1>1. CASE withinStaleThres(past[k], n)
    <2> DEFINE d == IF past[k].dob < v.dob THEN v.dob ELSE past[k].dob
    <2>1. [past EXCEPT ![k].val = past[k].val \cup v.val, ![k].dob = d]
            = [past EXCEPT ![k] = [val |-> past[k].val \cup v.val, ttl |-> past[k].ttl, dob |-> d]]
        <3> DEFINE f == [past EXCEPT ![k].val = past[k].val \cup v.val, ![k].dob = d]
                   g == [past EXCEPT ![k] = [val |-> past[k].val \cup v.val, ttl |-> past[k].ttl, dob |-> d]]
        <3>1. f \in [K -> Exp(V)] /\ g \in [K -> Exp(V)]
            BY Zenon DEF Exp
        <3>2. \A j \in K : f[j].val = g[j].val /\ f[j].ttl = g[j].ttl /\ f[j].dob = g[j].dob
            BY Zenon DEF Exp
        <3>3. \A x, y \in Exp(V) : x.val = y.val /\ x.ttl = y.ttl /\ x.dob = y.dob => x = y
            BY SMTT(60) DEF Exp
        <3> HIDE DEF f, g
        <3>4. \A j \in K : f[j] = g[j]
            BY <3>1, <3>2, <3>3, SMTT(60)
        <3>5. f = g
            BY <3>1, <3>4, SMTT(60)
        <3> QED
            BY <3>5, Zenon DEF f, g
    <2>2. relegateLocked(past, k, v, n) = [past EXCEPT ![k] = Relegated(past[k], v, n)]
        BY <1>1, <2>1, Zenon DEF relegateLocked, Relegated
    <2>3. domainsRelegate(past, k, v, n) = [past EXCEPT ![k] = Relegated(past[k], v, n)]
        BY <1>1, <2>1 DEF domainsRelegate, Relegated
    <2>4. Relegated(past[k], v, n) \in Exp(V)
        BY <1>1, Zenon DEF Relegated, Exp
    <2> QED
        BY <2>2, <2>3, <2>4, Zenon
<1>2. CASE ~withinStaleThres(past[k], n)
    BY <1>2, Zenon DEF relegateLocked, domainsRelegate, Relegated
<1> QED
    BY <1>1, <1>2, Zenon

LEMMA RelegatedKeeps ==
    ASSUME NEW V, NEW old \in Exp(V), NEW v \in Exp(V), NEW n \in Nat, StaleThres \in Nat,
           NEW m, m = Relegated(old, v, n)
    PROVE  /\ m.val \subseteq old.val \cup v.val
           /\ v.val \subseteq m.val /\ m.dob >= v.dob
           /\ withinStaleThres(v, n) => withinStaleThres(m, n)
           /\ withinStaleThres(old, n) => old.val \subseteq m.val /\ m.dob >= old.dob
    BY SMTT(60) DEF Relegated, withinStaleThres, Exp

\* What vaccumLocked leaves: all but the past values that are past the threshold.
LEMMA Vaccum ==
    ASSUME NEW V, NEW K, NEW past \in [K -> Exp(V)], NEW n \in Nat, NEW m,
           m = [k \in K |-> IF withinStaleThres(past[k], n) THEN past[k] ELSE NoExp]
    PROVE  /\ m \in [K -> Exp(V)]
           /\ \A k \in K : m[k] = past[k] \/ (~withinStaleThres(past[k], n) /\ m[k] = NoExp)
<1>1. NoExp \in Exp(V)
    BY Zenon DEF Exp, NoExp
<1> QED
    BY <1>1, Zenon

LEMMA VaccumXips ==
    ASSUME NEW p \in Xips, NEW n \in Nat, NEW r, r = vaccumLocked(p, n)
    PROVE  /\ r \in Xips /\ r.pri = p.pri /\ r.aux = p.aux
           /\ \A k \in Tids : \/ r.past[k] = p.past[k]
                              \/ ~withinStaleThres(p.past[k], n) /\ r.past[k] = NoExp
<1>1. CASE r = p
    BY <1>1, Zenon
<1>2. CASE r # p
    <2> DEFINE m == [k \in Tids |-> IF withinStaleThres(p.past[k], n) THEN p.past[k] ELSE NoExp]
    <2>1. p.past \in [Tids -> Exp(Ips)] /\ DOMAIN p.past = Tids
        BY Zenon DEF Xips
    <2>2. /\ m \in [Tids -> Exp(Ips)]
          /\ \A k \in Tids : m[k] = p.past[k] \/ (~withinStaleThres(p.past[k], n) /\ m[k] = NoExp)
        <3>1. m = [k \in Tids |-> IF withinStaleThres(p.past[k], n) THEN p.past[k] ELSE NoExp]
            BY Zenon
        <3> HIDE DEF m
        <3> QED
            BY <2>1, <3>1, Vaccum, SMTT(60)
    <2>3. r = [p EXCEPT !.past = m, !.vacuumed = n]
        BY <1>2, <2>1, Zenon DEF vaccumLocked
    <2> HIDE DEF m
    <2>4. r = [pri |-> p.pri, aux |-> p.aux, past |-> m, vacuumed |-> n]
        BY <2>3, Zenon DEF Xips
    <2> QED
        BY <2>2, <2>4, SMTT(60) DEF Xips
<1> QED
    BY <1>1, <1>2, Zenon

\* What merge files as past under one key.
PastOne(old, pv, qv, n) ==
    LET v == IF fresh(pv, n) THEN qv ELSE pv
    IN  IF v.val # {} /\ withinStaleThres(v, n) THEN Relegated(old, v, n) ELSE old

\* xips.merge, key by key.
LEMMA XipsMergeIs ==
    ASSUME NEW p \in Xips, NEW q \in Xips, NEW n \in Nat \ {0}, NEW r, r = xipsMerge(p, q, n),
           \A t \in Tids : Newborn(q.pri[t], n), \A k \in AuxKeys : Newborn(q.aux[k], n)
    PROVE  /\ r \in Xips
           /\ \A t \in Tids :
                /\ q.pri[t] = NoExp => r.pri[t] = p.pri[t]
                /\ q.pri[t] # NoExp => r.pri[t] = mergeOne(p.pri[t], q.pri[t], n)
                /\ LET x == IF q.pri[t] = NoExp THEN p.past[t]
                            ELSE PastOne(p.past[t], p.pri[t], q.pri[t], n)
                   IN  r.past[t] = x \/ (~withinStaleThres(x, n) /\ r.past[t] = NoExp)
           /\ \A k \in AuxKeys :
                /\ q.aux[k] = NoExp => r.aux[k] = p.aux[k]
                /\ q.aux[k] # NoExp => r.aux[k] = mergeOne(p.aux[k], q.aux[k], n)
<1> DEFINE P == [k \in Tids |-> IF q.pri[k] = NoExp THEN p.pri[k]
                                ELSE mergeOne(p.pri[k], q.pri[k], n)]
           Q == [k \in Tids |-> IF q.pri[k] = NoExp THEN p.past[k]
                                ELSE mergePast(p.past, k, p.pri[k], q.pri[k], n)[k]]
           A == [k \in AuxKeys |-> IF q.aux[k] = NoExp THEN p.aux[k]
                                   ELSE mergeOne(p.aux[k], q.aux[k], n)]
           x == [p EXCEPT !.pri = P, !.past = Q, !.aux = A]
<1>0. /\ p.pri \in [Tids -> Exp(Ips)] /\ q.pri \in [Tids -> Exp(Ips)]
      /\ p.past \in [Tids -> Exp(Ips)]
      /\ p.aux \in [AuxKeys -> Exp(Ips)] /\ q.aux \in [AuxKeys -> Exp(Ips)]
    BY Zenon DEF Xips
<1>1. P \in [Tids -> Exp(Ips)]
    <2> SUFFICES ASSUME NEW t \in Tids, q.pri[t] # NoExp
                 PROVE  mergeOne(p.pri[t], q.pri[t], n) \in Exp(Ips)
        BY <1>0, Zenon
    <2> QED
        BY <1>0, MergeOne, SMTT(60) DEF Newborn
<1>2. A \in [AuxKeys -> Exp(Ips)]
    <2> SUFFICES ASSUME NEW k \in AuxKeys, q.aux[k] # NoExp
                 PROVE  mergeOne(p.aux[k], q.aux[k], n) \in Exp(Ips)
        BY <1>0, Zenon
    <2> QED
        BY <1>0, MergeOne, Zenon DEF Newborn
<1>3. /\ Q \in [Tids -> Exp(Ips)]
      /\ \A t \in Tids : Q[t] = IF q.pri[t] = NoExp THEN p.past[t]
                                ELSE PastOne(p.past[t], p.pri[t], q.pri[t], n)
    <2> SUFFICES ASSUME NEW t \in Tids
                 PROVE  /\ mergePast(p.past, t, p.pri[t], q.pri[t], n)[t]
                             = PastOne(p.past[t], p.pri[t], q.pri[t], n)
                        /\ PastOne(p.past[t], p.pri[t], q.pri[t], n) \in Exp(Ips)
        BY <1>0, Zenon
    <2> DEFINE v == IF fresh(p.pri[t], n) THEN q.pri[t] ELSE p.pri[t]
    <2>1. v \in Exp(Ips)
        BY <1>0, Zenon
    <2> HIDE DEF v
    <2>2. /\ relegateLocked(p.past, t, v, n)[t] = Relegated(p.past[t], v, n)
          /\ Relegated(p.past[t], v, n) \in Exp(Ips)
        <3>1. p.past \in [Tids -> Exp(Ips)] /\ n \in Nat
            BY <1>0, Zenon
        <3> HIDE <1>0
        <3> QED
            BY <2>1, <3>1, RelegateOne, SMTT(30)
    <2> QED
        BY <2>2, <1>0, Zenon DEF mergePast, PastOne, v
<1>4. r = vaccumLocked(x, n)
    BY Zenon DEF xipsMerge
<1> HIDE DEF P, Q, A
<1>5. x.pri = P /\ x.aux = A /\ x.past = Q
    BY Zenon DEF Xips
<1>6. x \in Xips
    BY <1>1, <1>2, <1>3, Zenon DEF Xips
<1> HIDE DEF x
<1>7. /\ r \in Xips /\ r.pri = P /\ r.aux = A
      /\ \A k \in Tids : \/ r.past[k] = Q[k]
                         \/ ~withinStaleThres(Q[k], n) /\ r.past[k] = NoExp
    BY <1>4, <1>5, <1>6, VaccumXips, SMTT(60)
<1>8. \A t \in Tids : /\ q.pri[t] = NoExp => P[t] = p.pri[t]
                      /\ q.pri[t] # NoExp => P[t] = mergeOne(p.pri[t], q.pri[t], n)
    BY Zenon DEF P
<1>9. \A k \in AuxKeys : /\ q.aux[k] = NoExp => A[k] = p.aux[k]
                         /\ q.aux[k] # NoExp => A[k] = mergeOne(p.aux[k], q.aux[k], n)
    BY Zenon DEF A
<1> QED
    <2> SUFFICES ASSUME NEW t \in Tids
                 PROVE  LET y == IF q.pri[t] = NoExp THEN p.past[t]
                                 ELSE PastOne(p.past[t], p.pri[t], q.pri[t], n)
                        IN  r.past[t] = y \/ (~withinStaleThres(y, n) /\ r.past[t] = NoExp)
        BY <1>7, <1>8, <1>9, Zenon
    <2>1. Q[t] = IF q.pri[t] = NoExp THEN p.past[t]
                 ELSE PastOne(p.past[t], p.pri[t], q.pri[t], n)
        BY <1>3, Zenon
    <2> QED
        BY <1>7, <2>1, Zenon

\* A merge keeps what an entry holds beyond now, and adds what the new one holds.
LEMMA MergeHolds ==
    ASSUME NEW V, NEW pv \in Exp(V), NEW qv \in Exp(V), NEW n \in Nat \ {0}, Newborn(qv, n),
           NEW S, NEW u \in Nat, u > n, Holds(pv, S, u) \/ Holds(qv, S, u),
           NEW m, qv = NoExp => m = pv, qv # NoExp => m = mergeOne(pv, qv, n)
    PROVE  Holds(m, S, u)
<1>1. CASE qv = NoExp
    BY <1>1, Zenon DEF Holds, NoExp
<1>2. CASE qv # NoExp
    <2>1. fresh(qv, n) /\ qv.dob = n /\ m = mergeOne(pv, qv, n)
        BY <1>2, Zenon DEF Newborn
    <2>2. /\ m \in Exp(V)
          /\ qv.val \subseteq m.val /\ m.ttl >= qv.ttl
          /\ fresh(pv, n) => pv.val \subseteq m.val /\ m.ttl >= pv.ttl
        BY <2>1, MergeOne, ZenonT(60)
    <2>3. pv.ttl \in Nat /\ qv.ttl \in Nat /\ m.ttl \in Nat
        BY <2>2, Zenon DEF Exp
    <2>4. pv.ttl >= u => fresh(pv, n)
        BY <2>3, SMTT(60) DEF fresh
    <2> QED
        BY <2>2, <2>3, <2>4, SMTT(60) DEF Holds
<1> QED
    BY <1>1, <1>2, Zenon

\* It keeps what is recent, among the current values or the past ones.
LEMMA MergeRecent ==
    ASSUME NEW V, NEW pv \in Exp(V), NEW qv \in Exp(V), NEW old \in Exp(V), NEW n \in Nat \ {0},
           Newborn(qv, n), StaleThres \in Nat, NEW at \in Nat, 1 <= at, at <= n,
           n - at <= StaleThres, NEW i,
           \/ i \in pv.val /\ pv.dob >= at
           \/ i \in old.val /\ old.dob >= at
           \/ i \in qv.val,
           NEW m, qv = NoExp => m = pv, qv # NoExp => m = mergeOne(pv, qv, n),
           NEW w, w = IF qv = NoExp THEN old ELSE PastOne(old, pv, qv, n),
           NEW z, z = w \/ (~withinStaleThres(w, n) /\ z = NoExp)
    PROVE  \/ i \in m.val /\ m.dob >= at
           \/ i \in z.val /\ z.dob >= at
<1>0. \A v \in Exp(V) : v.dob >= at => withinStaleThres(v, n)
    BY SMTT(60) DEF withinStaleThres, Exp
<1>1. CASE qv = NoExp
    BY <1>0, <1>1, Zenon DEF NoExp
<1>2. CASE qv # NoExp
    <2>1. fresh(qv, n) /\ qv.dob = n /\ m = mergeOne(pv, qv, n) /\ w = PastOne(old, pv, qv, n)
        BY <1>2, Zenon DEF Newborn
    <2>2. /\ m \in Exp(V)
          /\ qv.val \subseteq m.val /\ m.dob >= qv.dob
          /\ fresh(pv, n) => pv.val \subseteq m.val /\ m.dob >= pv.dob
        BY <2>1, MergeOne, Zenon
    <2>3. \A x \in Exp(V) : /\ Relegated(old, x, n) \in Exp(V)
                            /\ x.val \subseteq Relegated(old, x, n).val
                            /\ Relegated(old, x, n).dob >= x.dob
                            /\ withinStaleThres(old, n) => /\ old.val \subseteq Relegated(old, x, n).val
                                                           /\ Relegated(old, x, n).dob >= old.dob
        BY SMTT(60) DEF Relegated, withinStaleThres, Exp
    <2>4. pv.dob \in Nat /\ qv.dob \in Nat /\ m.dob \in Nat /\ old.dob \in Nat
        BY <2>2, Zenon DEF Exp
    <2>5. CASE i \in qv.val
        BY <2>5, <2>1, <2>2, <2>4, SMTT(60)
    <2>6. CASE i \in old.val /\ old.dob >= at
        <3>1. withinStaleThres(old, n)
            BY <2>6, <1>0, Zenon
        <3>2. w \in Exp(V) /\ old.val \subseteq w.val /\ w.dob >= old.dob
            BY <2>1, <2>3, <2>4, <3>1, SMTT(60) DEF PastOne
        <3>3. w.dob \in Nat
            BY <3>2, Zenon DEF Exp
        <3> QED
            BY <3>2, <3>3, <2>6, <2>4, <1>0, SMTT(60)
    <2>7. CASE i \in pv.val /\ pv.dob >= at /\ fresh(pv, n)
        BY <2>7, <2>2, <2>4, SMTT(60)
    <2>8. CASE i \in pv.val /\ pv.dob >= at /\ ~fresh(pv, n)
        <3>1. w = Relegated(old, pv, n)
            BY <2>8, <2>1, <1>0, Zenon DEF PastOne
        <3>2. w \in Exp(V) /\ i \in w.val /\ w.dob >= pv.dob
            BY <3>1, <2>3, <2>8, Zenon
        <3>3. w.dob \in Nat
            BY <3>2, Zenon DEF Exp
        <3> QED
            BY <3>2, <3>3, <2>8, <2>4, <1>0, SMTT(60)
    <2> QED
        BY <2>5, <2>6, <2>7, <2>8, Zenon
<1> QED
    BY <1>1, <1>2, Zenon

\* What it files as past is recent, or was there.
LEMMA MergePastBound ==
    ASSUME NEW V, NEW pv \in Exp(V), NEW qv \in Exp(V), NEW old \in Exp(V), NEW n \in Nat,
           StaleThres \in Nat,
           NEW w, w = IF qv = NoExp THEN old ELSE PastOne(old, pv, qv, n),
           NEW z, z = w \/ (~withinStaleThres(w, n) /\ z = NoExp)
    PROVE  z.val \subseteq old.val \/ withinStaleThres(z, n)
<1>1. CASE w = old
    BY <1>1, SMTT(60) DEF NoExp
<1>2. CASE w # old
    <2> DEFINE v == IF fresh(pv, n) THEN qv ELSE pv
    <2>1. v \in Exp(V) /\ withinStaleThres(v, n) /\ w = Relegated(old, v, n)
        BY <1>2, Zenon DEF PastOne
    <2> HIDE DEF v
    <2>2. withinStaleThres(w, n)
        BY <2>1, RelegatedKeeps, Zenon
    <2> QED
        BY <2>2, Zenon
<1> QED
    BY <1>1, <1>2, Zenon

\* xips.rmv: lives end, but no value goes and what is recent stays.
LEMMA XipsRmvIs ==
    ASSUME NEW p \in Xips, NEW tid \in Tids, NEW n \in Nat, StaleThres \in Nat,
           NEW r, r = xipsRmv(p, tid, n)
    PROVE  /\ r \in Xips
           /\ \A t \in Tids :
                /\ r.pri[t].val = p.pri[t].val /\ r.pri[t].dob = p.pri[t].dob
                /\ t # tid => r.pri[t] = p.pri[t]
                /\ r.past[t].val \subseteq p.past[t].val \cup p.pri[t].val
                /\ withinStaleThres(p.past[t], n) => /\ p.past[t].val \subseteq r.past[t].val
                                                     /\ r.past[t].dob >= p.past[t].dob
           /\ \A k \in AuxKeys : /\ r.aux[k].val = p.aux[k].val
                                 /\ ~HasPrefix(k, tid) => r.aux[k] = p.aux[k]
<1>0. /\ p.pri \in [Tids -> Exp(Ips)] /\ p.past \in [Tids -> Exp(Ips)]
      /\ p.aux \in [AuxKeys -> Exp(Ips)]
    BY Zenon DEF Xips
<1>1. CASE r = p
    <2>1. \A t \in Tids : p.past[t].dob \in Nat
        BY <1>0, Zenon DEF Exp
    <2> QED
        BY <1>1, <2>1, SMTT(60)
<1>2. CASE r # p
    <2> DEFINE isLive == fresh(p.pri[tid], n)
               sec == {k \in AuxKeys : fresh(p.aux[k], n) /\ HasPrefix(k, tid)}
               over(v) == [v EXCEPT !.ttl = n]
               P == [p.pri EXCEPT ![tid] = IF isLive THEN over(p.pri[tid]) ELSE p.pri[tid]]
               Q == IF isLive THEN relegateLocked(p.past, tid, over(p.pri[tid]), n) ELSE p.past
               A == [k \in AuxKeys |-> IF k \in sec THEN over(p.aux[k]) ELSE p.aux[k]]
               x == [p EXCEPT !.pri = P, !.past = Q, !.aux = A]
    <2>1. r = vaccumLocked(x, n)
        <3>1. [p EXCEPT !.pri[tid] = IF isLive THEN over(@) ELSE @, !.past = Q, !.aux = A] = x
            BY <1>0, Zenon DEF Xips
        <3> QED
            BY <3>1, <1>2, Zenon DEF xipsRmv
    <2>2. \A v \in Exp(Ips) : /\ over(v) \in Exp(Ips)
                              /\ over(v).val = v.val /\ over(v).dob = v.dob
        BY Zenon DEF Exp
    <2>3. /\ P \in [Tids -> Exp(Ips)]
          /\ \A t \in Tids : /\ P[t].val = p.pri[t].val /\ P[t].dob = p.pri[t].dob
                             /\ t # tid => P[t] = p.pri[t]
        BY <1>0, <2>2, Zenon
    <2>4. /\ A \in [AuxKeys -> Exp(Ips)]
          /\ \A k \in AuxKeys : /\ A[k].val = p.aux[k].val
                                /\ ~HasPrefix(k, tid) => A[k] = p.aux[k]
        BY <1>0, <2>2, Zenon
    <2>5. /\ Q \in [Tids -> Exp(Ips)]
          /\ \A t \in Tids :
               /\ Q[t].val \subseteq p.past[t].val \cup p.pri[t].val
               /\ withinStaleThres(p.past[t], n) => /\ p.past[t].val \subseteq Q[t].val
                                                    /\ Q[t].dob >= p.past[t].dob
        <3>1. CASE ~isLive
            <4>1. \A t \in Tids : p.past[t].dob \in Nat
                BY <1>0, Zenon DEF Exp
            <4> QED
                BY <3>1, <4>1, <1>0, SMTT(60)
        <3>2. CASE isLive
            <4> DEFINE v == over(p.pri[tid])
                       z == Relegated(p.past[tid], v, n)
            <4>1. v \in Exp(Ips) /\ v.val = p.pri[tid].val
                BY <1>0, <2>2, Zenon
            <4> HIDE DEF v
            <4>2. /\ relegateLocked(p.past, tid, v, n) = [p.past EXCEPT ![tid] = z]
                  /\ z \in Exp(Ips)
                <5>1. p.past \in [Tids -> Exp(Ips)] /\ v \in Exp(Ips)
                    BY <1>0, <4>1, Zenon
                <5> HIDE <1>0
                <5>2. /\ relegateLocked(p.past, tid, v, n)
                            = [p.past EXCEPT ![tid] = Relegated(p.past[tid], v, n)]
                      /\ Relegated(p.past[tid], v, n) \in Exp(Ips)
                    <6> DEFINE f == p.past
                    <6>1. f \in [Tids -> Exp(Ips)]
                        BY <5>1, Zenon
                    <6> HIDE DEF f
                    <6>2. /\ relegateLocked(f, tid, v, n) = [f EXCEPT ![tid] = Relegated(f[tid], v, n)]
                          /\ Relegated(f[tid], v, n) \in Exp(Ips)
                        BY <5>1, <6>1, RelegateOne, SMTT(30)
                    <6> QED
                        BY <6>2, Zenon DEF f
                <5> QED
                    BY <5>2, Zenon
            <4>3. /\ z.val \subseteq p.past[tid].val \cup v.val
                  /\ withinStaleThres(p.past[tid], n) => /\ p.past[tid].val \subseteq z.val
                                                         /\ z.dob >= p.past[tid].dob
                BY <4>1, <1>0, RelegatedKeeps, SMTT(60)
            <4> HIDE DEF z
            <4>4. Q = [p.past EXCEPT ![tid] = z]
                BY <3>2, <4>2, Zenon DEF v
            <4> HIDE DEF Q
            <4>5. \A t \in Tids : p.past[t].dob \in Nat
                BY <1>0, Zenon DEF Exp
            <4> QED
                BY <4>1, <4>2, <4>3, <4>4, <4>5, <1>0, SMTT(60)
        <3> QED
            BY <3>1, <3>2, Zenon
    <2> HIDE DEF P, Q, A
    <2>6. x \in Xips /\ x.pri = P /\ x.past = Q /\ x.aux = A
        BY <2>3, <2>4, <2>5, Zenon DEF Xips
    <2> HIDE DEF x
    <2>7. /\ r \in Xips /\ r.pri = P /\ r.aux = A
          /\ \A t \in Tids : r.past[t] = Q[t] \/ (~withinStaleThres(Q[t], n) /\ r.past[t] = NoExp)
        BY <2>1, <2>6, VaccumXips, SMTT(60)
    <2>8. ASSUME NEW t \in Tids
          PROVE  /\ r.past[t].val \subseteq p.past[t].val \cup p.pri[t].val
                 /\ withinStaleThres(p.past[t], n) => /\ p.past[t].val \subseteq r.past[t].val
                                                      /\ r.past[t].dob >= p.past[t].dob
        <3>1. Q[t] \in Exp(Ips) /\ p.past[t] \in Exp(Ips)
            BY <1>0, <2>5, Zenon
        <3>2. withinStaleThres(p.past[t], n) => withinStaleThres(Q[t], n)
            BY <3>1, <2>5, SMTT(60) DEF withinStaleThres, Exp
        <3> QED
            BY <3>2, <2>5, <2>7, SMTT(60) DEF NoExp
    <2> QED
        BY <2>3, <2>4, <2>7, <2>8, Zenon
<1> QED
    BY <1>1, <1>2, Zenon

LEMMA VaccumXdomains ==
    ASSUME NEW p \in Xdomains, NEW n \in Nat, NEW r, r = domainsVaccum(p, n)
    PROVE  r \in Xdomains /\ r.pri = p.pri
<1>1. CASE r = p
    BY <1>1, Zenon
<1>2. CASE r # p
    <2> DEFINE m == [k \in AuxKeys |-> IF withinStaleThres(p.past[k], n) THEN p.past[k] ELSE NoExp]
    <2>1. p.past \in [AuxKeys -> Exp(Domains)]
        BY Zenon DEF Xdomains
    <2>2. m \in [AuxKeys -> Exp(Domains)]
        <3>1. NoExp \in Exp(Domains)
            BY Zenon DEF Exp, NoExp
        <3> QED
            BY <2>1, <3>1, Zenon
    <2>3. r = [p EXCEPT !.past = m, !.vacuumed = n]
        BY <1>2, <2>1, Zenon DEF domainsVaccum
    <2> HIDE DEF m
    <2> QED
        BY <2>2, <2>3, Zenon DEF Xdomains
<1> QED
    BY <1>1, <1>2, Zenon

\* xdomains.merge, key by key.
LEMMA DomainsMergeIs ==
    ASSUME NEW p \in Xdomains, NEW q \in Xdomains, NEW n \in Nat \ {0},
           NEW r, r = domainsMerge(p, q, n), \A k \in AuxKeys : Newborn(q.pri[k], n)
    PROVE  /\ r \in Xdomains
           /\ \A k \in AuxKeys :
                /\ q.pri[k] = NoExp => r.pri[k] = p.pri[k]
                /\ q.pri[k] # NoExp => r.pri[k] = mergeOne(p.pri[k], q.pri[k], n)
<1> DEFINE old(k) == IF fresh(p.pri[k], n) THEN q.pri[k] ELSE p.pri[k]
           P == [k \in AuxKeys |-> IF q.pri[k] = NoExp THEN p.pri[k]
                                   ELSE mergeOne(p.pri[k], q.pri[k], n)]
           Q == [k \in AuxKeys |->
                   IF q.pri[k] # NoExp /\ old(k).val # {} /\ withinStaleThres(old(k), n)
                   THEN domainsRelegate(p.past, k, old(k), n)[k] ELSE p.past[k]]
           x == [p EXCEPT !.pri = P, !.past = Q]
<1>0. /\ p.pri \in [AuxKeys -> Exp(Domains)] /\ q.pri \in [AuxKeys -> Exp(Domains)]
      /\ p.past \in [AuxKeys -> Exp(Domains)]
    BY Zenon DEF Xdomains
<1>1. P \in [AuxKeys -> Exp(Domains)]
    <2> SUFFICES ASSUME NEW k \in AuxKeys, q.pri[k] # NoExp
                 PROVE  mergeOne(p.pri[k], q.pri[k], n) \in Exp(Domains)
        BY <1>0, Zenon
    <2> QED
        BY <1>0, MergeOne, Zenon DEF Newborn
<1>2. Q \in [AuxKeys -> Exp(Domains)]
    <2> SUFFICES ASSUME NEW k \in AuxKeys
                 PROVE  domainsRelegate(p.past, k, old(k), n)[k] \in Exp(Domains)
        BY <1>0, Zenon
    <2>1. old(k) \in Exp(Domains)
        BY <1>0, Zenon
    <2> HIDE DEF old
    <2>2. /\ domainsRelegate(p.past, k, old(k), n)[k] = Relegated(p.past[k], old(k), n)
          /\ Relegated(p.past[k], old(k), n) \in Exp(Domains)
        <3>1. p.past \in [AuxKeys -> Exp(Domains)] /\ n \in Nat
            BY <1>0, Zenon
        <3> HIDE <1>0
        <3> QED
            BY <2>1, <3>1, RelegateOne, SMTT(30)
    <2> QED
        BY <2>2, SMTT(60)
<1>3. r = domainsVaccum(x, n)
    BY Zenon DEF domainsMerge
<1> HIDE DEF P, Q
<1>4. x \in Xdomains /\ x.pri = P
    BY <1>1, <1>2, Zenon DEF Xdomains
<1> HIDE DEF x
<1>5. r \in Xdomains /\ r.pri = P
    BY <1>3, <1>4, VaccumXdomains, Zenon
<1> QED
    BY <1>5, Zenon DEF P

\* xdomains.rmv: only the stopped transport's names end.
LEMMA DomainsRmvIs ==
    ASSUME NEW p \in Xdomains, NEW tid, NEW n \in Nat, NEW r, r = domainsRmv(p, tid, n)
    PROVE  /\ r \in Xdomains
           /\ \A k \in AuxKeys : ~HasPrefix(k, tid) => r.pri[k] = p.pri[k]
<1>1. CASE r = p
    BY <1>1, Zenon
<1>2. CASE r # p
    <2> DEFINE gone == {k \in AuxKeys : HasPrefix(k, tid) /\ fresh(p.pri[k], n)}
               over(k) == [p.pri[k] EXCEPT !.ttl = n]
               P == [k \in AuxKeys |-> IF k \in gone THEN over(k) ELSE p.pri[k]]
               Q == [k \in AuxKeys |-> IF k \in gone THEN domainsRelegate(p.past, k, over(k), n)[k]
                                       ELSE p.past[k]]
               x == [p EXCEPT !.pri = P, !.past = Q]
    <2>0. p.pri \in [AuxKeys -> Exp(Domains)] /\ p.past \in [AuxKeys -> Exp(Domains)]
        BY Zenon DEF Xdomains
    <2>1. \A k \in AuxKeys : over(k) \in Exp(Domains)
        BY <2>0, Zenon DEF Exp
    <2>2. r = domainsVaccum(x, n)
        BY <1>2, Zenon DEF domainsRmv
    <2>3. P \in [AuxKeys -> Exp(Domains)]
        BY <2>0, <2>1, Zenon
    <2> HIDE DEF over
    <2>4. Q \in [AuxKeys -> Exp(Domains)]
        <3> SUFFICES ASSUME NEW k \in AuxKeys
                     PROVE  domainsRelegate(p.past, k, over(k), n)[k] \in Exp(Domains)
            BY <2>0, Zenon
        <3>1. over(k) \in Exp(Domains)
            BY <2>1, Zenon
        <3>2. /\ domainsRelegate(p.past, k, over(k), n)[k] = Relegated(p.past[k], over(k), n)
              /\ Relegated(p.past[k], over(k), n) \in Exp(Domains)
            BY <3>1, <2>0, RelegateOne, SMTT(30)
        <3> QED
            BY <3>2, Zenon
    <2>5. \A k \in AuxKeys : ~HasPrefix(k, tid) => P[k] = p.pri[k]
        BY Zenon
    <2> HIDE DEF P, Q
    <2>6. x \in Xdomains /\ x.pri = P
        BY <2>3, <2>4, Zenon DEF Xdomains
    <2> HIDE DEF x
    <2>7. r \in Xdomains /\ r.pri = P
        BY <2>2, <2>6, VaccumXdomains, Zenon
    <2> QED
        BY <2>5, <2>7, Zenon
<1> QED
    BY <1>1, <1>2, Zenon

\* NewXips and NewXdomains hold what they are made of, and nothing that is past.
LEMMA NewXipsIs ==
    ASSUME NEW tid \in Tids, NEW uid \in Uids, NEW P \in SUBSET Ips, NEW S \in SUBSET Ips,
           NEW u \in Nat, NEW n \in Nat \ {0}, u > n, NEW x, x = NewXips(tid, uid, P, S, u, n)
    PROVE  /\ x \in Xips
           /\ \A t \in Tids : Newborn(x.pri[t], n)
           /\ \A k \in AuxKeys : Newborn(x.aux[k], n)
           /\ Holds(x.pri[tid], P, u) /\ Holds(x.aux[<<tid, uid>>], S, u)
           /\ P \subseteq x.pri[tid].val
<1> DEFINE exp(v) == IF v = {} THEN NoExp ELSE [val |-> v, ttl |-> u, dob |-> n]
           zp == [t \in Tids |-> NoExp]
           za == [k \in AuxKeys |-> NoExp]
           Q == [zp EXCEPT ![tid] = exp(P)]
           A == [za EXCEPT ![<<tid, uid>>] = exp(S)]
<1>1. NoExp \in Exp(Ips)
    BY Zenon DEF NoExp, Exp
<1>2. \A v \in SUBSET Ips : exp(v) \in Exp(Ips) /\ Newborn(exp(v), n) /\ Holds(exp(v), v, u)
                            /\ v \subseteq exp(v).val
    BY <1>1, SMTT(60) DEF Exp, Newborn, Holds, fresh, NoExp
<1>3. x = [pri |-> Q, aux |-> A, past |-> zp, vacuumed |-> 0]
    BY Zenon DEF NewXips, XipsEmpty
<1>4. <<tid, uid>> \in AuxKeys
    BY Zenon DEF AuxKeys
<1> HIDE DEF exp
<1>5. /\ Q \in [Tids -> Exp(Ips)] /\ Q[tid] = exp(P)
      /\ \A t \in Tids : Newborn(Q[t], n)
    BY <1>1, <1>2, Zenon DEF Newborn
<1>6. /\ A \in [AuxKeys -> Exp(Ips)] /\ A[<<tid, uid>>] = exp(S)
      /\ \A k \in AuxKeys : Newborn(A[k], n)
    BY <1>1, <1>2, <1>4, Zenon DEF Newborn
<1>7. zp \in [Tids -> Exp(Ips)] /\ \A t \in Tids : zp[t] = NoExp
    BY <1>1, Zenon
<1> HIDE DEF Q, A, zp, za
<1>8. x.pri = Q /\ x.aux = A /\ x.past = zp
    BY <1>3, SMTT(60)
<1>9. x \in Xips
    BY <1>3, <1>5, <1>6, <1>7, SMTT(60) DEF Xips
<1> QED
    BY <1>2, <1>5, <1>6, <1>7, <1>8, <1>9, Zenon DEF NoExp

LEMMA NewXipsHasNoPast ==
    ASSUME NEW tid, NEW uid, NEW P, NEW S, NEW u, NEW n, NEW t \in Tids
    PROVE  NewXips(tid, uid, P, S, u, n).past[t].val = {}
    BY Zenon DEF NewXips, XipsEmpty, NoExp

LEMMA NewXdomainsIs ==
    ASSUME NEW tid \in Tids, NEW uid \in Uids, NEW S \in SUBSET Domains, S # {},
           NEW u \in Nat, NEW n \in Nat \ {0}, u > n, NEW x, x = NewXdomains(tid, uid, S, u, n)
    PROVE  /\ x \in Xdomains
           /\ \A k \in AuxKeys : Newborn(x.pri[k], n)
           /\ Holds(x.pri[<<tid, uid>>], S, u)
<1> DEFINE v == [val |-> S, ttl |-> u, dob |-> n]
           za == [k \in AuxKeys |-> NoExp]
           A == [za EXCEPT ![<<tid, uid>>] = v]
<1>1. NoExp \in Exp(Domains)
    BY Zenon DEF NoExp, Exp
<1>2. v \in Exp(Domains) /\ Newborn(v, n) /\ Holds(v, S, u)
    BY SMTT(60) DEF Exp, Newborn, Holds, fresh
<1>3. x = [pri |-> A, past |-> za, vacuumed |-> 0]
    BY Zenon DEF NewXdomains, XdomainsEmpty
<1>4. <<tid, uid>> \in AuxKeys
    BY Zenon DEF AuxKeys
<1> HIDE DEF v
<1>5. /\ A \in [AuxKeys -> Exp(Domains)] /\ A[<<tid, uid>>] = v
      /\ \A k \in AuxKeys : Newborn(A[k], n)
    BY <1>1, <1>2, <1>4, Zenon DEF Newborn
<1>6. za \in [AuxKeys -> Exp(Domains)]
    BY <1>1, Zenon
<1> HIDE DEF A, za
<1> QED
    BY <1>2, <1>3, <1>5, <1>6, SMTT(60) DEF Xdomains

-----------------------------------------------------------------------------
\* What a query told is kept by the entry a of its key at time n.
Tellings == [key : Keys, algip : AlgIps, real : SUBSET Ips, blocked : BOOLEAN, tid : Tids,
             uid : Uids, app : Uids, at : Nat, ttl : Nat, given : BOOLEAN, ended : BOOLEAN]

KeptBy(e, a, n) ==
    /\ 1 <= e.at /\ e.at <= n /\ (e.given => e.app # MyUid)
    /\ a # Nil /\ a.algip = e.algip /\ a.ttl >= e.at + e.ttl
    /\ (e.at + e.ttl > n /\ ~e.ended) =>
         /\ Holds(a.ips.pri[e.tid], e.real, e.at + e.ttl)
         /\ e.blocked => Holds(a.ips.aux[<<e.tid, e.uid>>], {AnyIp}, e.at + e.ttl)
         /\ Holds(a.domains.pri[<<e.tid, e.uid>>], {e.key[1]}, e.at + e.ttl)
    /\ n - e.at <= StaleThres => Recent(a.ips, e.tid, e.real, e.at)

\* The entry b takes over all that a is good for at time n.
Carries(a, b, n) ==
    /\ b.algip = a.algip /\ b.ttl >= a.ttl
    /\ \A t \in Tids, S \in SUBSET Ips, u \in Nat :
         (u > n /\ Holds(a.ips.pri[t], S, u)) => Holds(b.ips.pri[t], S, u)
    /\ \A k \in AuxKeys, S \in SUBSET Ips, u \in Nat :
         (u > n /\ Holds(a.ips.aux[k], S, u)) => Holds(b.ips.aux[k], S, u)
    /\ \A k \in AuxKeys, S \in SUBSET Domains, u \in Nat :
         (u > n /\ Holds(a.domains.pri[k], S, u)) => Holds(b.domains.pri[k], S, u)
    /\ \A t \in Tids, S \in SUBSET Ips, at \in 1 .. n :
         (n - at <= StaleThres /\ Recent(a.ips, t, S, at)) => Recent(b.ips, t, S, at)

LEMMA CarriedIsKept ==
    ASSUME NEW e \in Tellings, NEW n \in Nat \ {0}, NEW a \in Algans, NEW b \in Algans,
           Nil \notin Algans, Carries(a, b, n), KeptBy(e, a, n)
    PROVE  KeptBy(e, b, n)
<1>1. /\ e.at \in 1 .. n /\ e.ttl \in Nat /\ e.at + e.ttl \in Nat /\ e.tid \in Tids
      /\ e.real \in SUBSET Ips /\ {AnyIp} \in SUBSET Ips
      /\ <<e.tid, e.uid>> \in AuxKeys /\ {e.key[1]} \in SUBSET Domains
    BY SMTT(60) DEF Tellings, KeptBy, AuxKeys, Keys, Ips
<1>2. a.ttl \in Nat /\ b.ttl \in Nat
    BY Zenon DEF Algans
<1>3. b.ttl >= e.at + e.ttl
    BY <1>1, <1>2, SMTT(60) DEF KeptBy, Carries
<1>4. CASE e.at + e.ttl > n /\ ~e.ended
    BY <1>1, <1>3, <1>4, Zenon DEF KeptBy, Carries
<1>5. CASE ~(e.at + e.ttl > n /\ ~e.ended)
    BY <1>1, <1>3, <1>5, Zenon DEF KeptBy, Carries
<1> QED
    BY <1>4, <1>5, Zenon

\* algans.merge takes over all, and adds what the new answer holds.
LEMMA MergeCarries ==
    ASSUME NEW a \in Algans, NEW x \in Algans, NEW n \in Nat \ {0}, StaleThres \in Nat,
           \A t \in Tids : Newborn(x.ips.pri[t], n), \A k \in AuxKeys : Newborn(x.ips.aux[k], n),
           \A k \in AuxKeys : Newborn(x.domains.pri[k], n),
           NEW b, b = algansMerge(a, x, n)
    PROVE  /\ b \in Algans /\ Carries(a, b, n) /\ b.ttl >= x.ttl
           /\ \A t \in Tids, S \in SUBSET Ips, u \in Nat :
                (u > n /\ Holds(x.ips.pri[t], S, u)) => Holds(b.ips.pri[t], S, u)
           /\ \A k \in AuxKeys, S \in SUBSET Ips, u \in Nat :
                (u > n /\ Holds(x.ips.aux[k], S, u)) => Holds(b.ips.aux[k], S, u)
           /\ \A k \in AuxKeys, S \in SUBSET Domains, u \in Nat :
                (u > n /\ Holds(x.domains.pri[k], S, u)) => Holds(b.domains.pri[k], S, u)
           /\ \A t \in Tids : Recent(b.ips, t, x.ips.pri[t].val, n)
           /\ \A t \in Tids : \/ b.ips.past[t].val \subseteq a.ips.past[t].val
                              \/ withinStaleThres(b.ips.past[t], n)
<1> DEFINE p == a.ips
           q == x.ips
           r == xipsMerge(p, q, n)
           d == a.domains
           f == x.domains
           g == domainsMerge(d, f, n)
<1>1. /\ p \in Xips /\ q \in Xips /\ d \in Xdomains /\ f \in Xdomains
      /\ a.ttl \in Nat /\ x.ttl \in Nat /\ x.blocklists \in BOOLEAN /\ a.algip \in AlgIps
    BY Zenon DEF Algans
<1>2. b = [a EXCEPT !.ips = r, !.domains = g, !.blocklists = x.blocklists,
                    !.ttl = IF x.ttl > a.ttl THEN x.ttl ELSE a.ttl]
    BY Zenon DEF algansMerge
<1>3. /\ \A t \in Tids : Newborn(q.pri[t], n)
      /\ \A k \in AuxKeys : Newborn(q.aux[k], n) /\ Newborn(f.pri[k], n)
    BY Zenon
<1> HIDE DEF p, q, d, f
<1>4. /\ r \in Xips
      /\ \A t \in Tids :
           /\ q.pri[t] = NoExp => r.pri[t] = p.pri[t]
           /\ q.pri[t] # NoExp => r.pri[t] = mergeOne(p.pri[t], q.pri[t], n)
           /\ LET y == IF q.pri[t] = NoExp THEN p.past[t]
                       ELSE PastOne(p.past[t], p.pri[t], q.pri[t], n)
              IN  r.past[t] = y \/ (~withinStaleThres(y, n) /\ r.past[t] = NoExp)
      /\ \A k \in AuxKeys :
           /\ q.aux[k] = NoExp => r.aux[k] = p.aux[k]
           /\ q.aux[k] # NoExp => r.aux[k] = mergeOne(p.aux[k], q.aux[k], n)
    BY <1>1, <1>3, XipsMergeIs, SMTT(60)
<1>5. /\ g \in Xdomains
      /\ \A k \in AuxKeys :
           /\ f.pri[k] = NoExp => g.pri[k] = d.pri[k]
           /\ f.pri[k] # NoExp => g.pri[k] = mergeOne(d.pri[k], f.pri[k], n)
    BY <1>1, <1>3, DomainsMergeIs, SMTT(60)
<1> HIDE DEF r, g
<1>6. /\ b \in Algans /\ b.ips = r /\ b.domains = g /\ b.algip = a.algip
      /\ b.ttl >= a.ttl /\ b.ttl >= x.ttl
    <2>1. r \in Xips /\ g \in Xdomains
        BY <1>4, <1>5, Zenon
    <2> HIDE <1>4, <1>5
    <2>2. b.ips = r /\ b.domains = g /\ b.algip = a.algip
        BY <1>2, Zenon DEF Algans
    <2>3. b.ttl >= a.ttl /\ b.ttl >= x.ttl
        BY <1>1, <1>2, SMTT(60) DEF Algans
    <2>4. b \in Algans
        BY <1>1, <1>2, <2>1, Zenon DEF Algans
    <2> QED
        BY <2>2, <2>3, <2>4, Zenon
<1>7. /\ p.pri \in [Tids -> Exp(Ips)] /\ q.pri \in [Tids -> Exp(Ips)]
      /\ p.past \in [Tids -> Exp(Ips)]
      /\ p.aux \in [AuxKeys -> Exp(Ips)] /\ q.aux \in [AuxKeys -> Exp(Ips)]
      /\ d.pri \in [AuxKeys -> Exp(Domains)] /\ f.pri \in [AuxKeys -> Exp(Domains)]
    BY <1>1, Zenon DEF Xips, Xdomains
<1>8. ASSUME NEW t \in Tids, NEW S \in SUBSET Ips, NEW u \in Nat, u > n,
             Holds(p.pri[t], S, u) \/ Holds(q.pri[t], S, u)
      PROVE  Holds(r.pri[t], S, u)
    BY <1>3, <1>4, <1>7, <1>8, MergeHolds, SMTT(60)
<1>9. ASSUME NEW k \in AuxKeys, NEW S \in SUBSET Ips, NEW u \in Nat, u > n,
             Holds(p.aux[k], S, u) \/ Holds(q.aux[k], S, u)
      PROVE  Holds(r.aux[k], S, u)
    BY <1>3, <1>4, <1>7, <1>9, MergeHolds, SMTT(60)
<1>10. ASSUME NEW k \in AuxKeys, NEW S \in SUBSET Domains, NEW u \in Nat, u > n,
              Holds(d.pri[k], S, u) \/ Holds(f.pri[k], S, u)
       PROVE  Holds(g.pri[k], S, u)
    BY <1>3, <1>5, <1>7, <1>10, MergeHolds, SMTT(60)
<1>11. ASSUME NEW t \in Tids, NEW S \in SUBSET Ips, NEW at \in 1 .. n, n - at <= StaleThres,
              Recent(p, t, S, at) \/ S = q.pri[t].val
       PROVE  Recent(r, t, S, at)
    <2> SUFFICES ASSUME NEW i \in S
                 PROVE  \/ i \in r.pri[t].val /\ r.pri[t].dob >= at
                        \/ i \in r.past[t].val /\ r.past[t].dob >= at
        BY Zenon DEF Recent
    <2>1. \/ i \in p.pri[t].val /\ p.pri[t].dob >= at
          \/ i \in p.past[t].val /\ p.past[t].dob >= at
          \/ i \in q.pri[t].val
        BY <1>11, Zenon DEF Recent
    <2>2. p.pri[t] \in Exp(Ips) /\ q.pri[t] \in Exp(Ips) /\ p.past[t] \in Exp(Ips)
        BY <1>7, Zenon
    <2>3. Newborn(q.pri[t], n) /\ at \in Nat /\ 1 <= at /\ at <= n
        BY <1>3, SMTT(60)
    <2> DEFINE y == IF q.pri[t] = NoExp THEN p.past[t]
                    ELSE PastOne(p.past[t], p.pri[t], q.pri[t], n)
    <2>4. /\ q.pri[t] = NoExp => r.pri[t] = p.pri[t]
          /\ q.pri[t] # NoExp => r.pri[t] = mergeOne(p.pri[t], q.pri[t], n)
          /\ r.past[t] = y \/ (~withinStaleThres(y, n) /\ r.past[t] = NoExp)
        BY <1>4, Zenon
    <2>5. y = IF q.pri[t] = NoExp THEN p.past[t] ELSE PastOne(p.past[t], p.pri[t], q.pri[t], n)
        BY Zenon
    <2> HIDE DEF y
    <2> DEFINE pv == p.pri[t]
               qv == q.pri[t]
               old == p.past[t]
               m == r.pri[t]
               z == r.past[t]
    <2>6. /\ pv \in Exp(Ips) /\ qv \in Exp(Ips) /\ old \in Exp(Ips) /\ Newborn(qv, n)
          /\ \/ i \in pv.val /\ pv.dob >= at
             \/ i \in old.val /\ old.dob >= at
             \/ i \in qv.val
          /\ qv = NoExp => m = pv
          /\ qv # NoExp => m = mergeOne(pv, qv, n)
          /\ y = IF qv = NoExp THEN old ELSE PastOne(old, pv, qv, n)
          /\ z = y \/ (~withinStaleThres(y, n) /\ z = NoExp)
        BY <2>1, <2>2, <2>3, <2>4, <2>5, ZenonT(60)
    <2>7. \/ i \in m.val /\ m.dob >= at
          \/ i \in z.val /\ z.dob >= at
        <3> HIDE DEF pv, qv, old, m, z
        <3> QED
            BY <2>3, <2>6, <1>11, MergeRecent, SMTT(60)
    <2> QED
        BY <2>7, Zenon
<1>12. ASSUME NEW t \in Tids
       PROVE  r.past[t].val \subseteq p.past[t].val \/ withinStaleThres(r.past[t], n)
    <2> DEFINE y == IF q.pri[t] = NoExp THEN p.past[t]
                    ELSE PastOne(p.past[t], p.pri[t], q.pri[t], n)
    <2>1. p.pri[t] \in Exp(Ips) /\ q.pri[t] \in Exp(Ips) /\ p.past[t] \in Exp(Ips)
        BY <1>7, Zenon
    <2>2. r.past[t] = y \/ (~withinStaleThres(y, n) /\ r.past[t] = NoExp)
        BY <1>4, Zenon
    <2> QED
        BY <2>1, <2>2, MergePastBound, Zenon
<1>13. Carries(a, b, n)
    BY <1>6, <1>8, <1>9, <1>10, <1>11, Zenon DEF Carries, p, d
<1>14. \A t \in Tids : Recent(r, t, q.pri[t].val, n)
    <2>1. \A t \in Tids : q.pri[t].val \in SUBSET Ips
        BY <1>7, Zenon DEF Exp
    <2>2. n \in 1 .. n /\ n - n <= StaleThres
        BY SMTT(60)
    <2> QED
        BY <2>1, <2>2, <1>11, Zenon
<1> QED
    BY <1>6, <1>8, <1>9, <1>10, <1>12, <1>13, <1>14, Zenon DEF p, q, f

\* Extending an entry's life leaves the rest of it alone.
LEMMA ExtendIs ==
    ASSUME NEW a \in Algans, NEW n \in Nat, AlgTtl \in Nat, NEW b, b = extend(a, AlgTtl, n)
    PROVE  /\ b \in Algans /\ b.ips = a.ips /\ b.domains = a.domains /\ b.algip = a.algip
           /\ b.ttl >= a.ttl /\ Carries(a, b, n)
<1>1. /\ b \in Algans /\ b.ips = a.ips /\ b.domains = a.domains /\ b.algip = a.algip
      /\ b.ttl >= a.ttl
    BY SMTT(60) DEF extend, Algans
<1> QED
    BY <1>1, Zenon DEF Carries

LEMMA CarriesSame ==
    ASSUME NEW a, NEW b, NEW c, NEW n, a.ttl \in Nat, b.ttl \in Nat, c.ttl \in Nat,
           a.ips = c.ips, a.domains = c.domains, a.algip = c.algip, a.ttl >= c.ttl,
           Carries(a, b, n)
    PROVE  Carries(c, b, n)
<1>1. b.ttl >= c.ttl
    BY SMTT(60) DEF Carries
<1> QED
    BY <1>1, Zenon DEF Carries

\* The entry b of key k: it takes over the entry k had, and holds the answer
\* (real ips R, secondary's S) that transport tid gave app uid for ttl.
Registered(b, k, tid, uid, R, S, ttl) ==
    /\ b \in Algans
    /\ b.algip = IF alg[k] = Nil THEN takeLocked(k) ELSE alg[k].algip
    /\ alg[k] # Nil => Carries(alg[k], b, now)
    /\ b.ttl >= now + ttl
    /\ Holds(b.ips.pri[tid], FamilyOf(R, k[2]), now + ttl)
    /\ Holds(b.ips.aux[<<tid, uid>>], FamilyOf(S, k[2]), now + ttl)
    /\ Holds(b.domains.pri[<<tid, uid>>], {k[1]}, now + ttl)
    /\ Recent(b.ips, tid, FamilyOf(R, k[2]), now)
    /\ \A t \in Tids : \/ b.ips.past[t].val = {} \/ withinStaleThres(b.ips.past[t], now)
                       \/ alg[k] # Nil /\ b.ips.past[t].val \subseteq alg[k].ips.past[t].val

LEMMA RegisterIs ==
    ASSUME DnsAlgConstants, now \in Nat \ {0}, NEW k \in Keys, NEW call,
           call.id \in Tids, call.uid \in Uids, NEW R \in SUBSET Ips, NEW S \in SUBSET Ips,
           NEW lists \in BOOLEAN, NEW ttl \in Nat \ {0}, takeLocked(k) \in AlgIps,
           alg[k] \in Algans \cup {Nil},
           NEW b, b = registerLocked(k, call, R, S, lists, ttl)
    PROVE  Registered(b, k, call.id, call.uid, R, S, ttl)
<1> DEFINE P == FamilyOf(R, k[2])
           Q == FamilyOf(S, k[2])
           u == now + ttl
           ips == NewXips(call.id, call.uid, P, Q, u, now)
           doms == NewXdomains(call.id, call.uid, {k[1]}, u, now)
           x == [algip |-> takeLocked(k), ttl |-> now + Larger(AlgTtl, ttl), ips |-> ips,
                 domains |-> doms, blocklists |-> lists]
           ck == <<call.id, call.uid>>
<1>1. P \in SUBSET Ips /\ Q \in SUBSET Ips /\ {k[1]} \in SUBSET Domains /\ ck \in AuxKeys
    BY Zenon DEF FamilyOf, Keys, AuxKeys
<1>2. u \in Nat /\ u > now /\ StaleThres \in Nat /\ AlgTtl \in Nat /\ Nil \notin Algans
    BY SMTT(60) DEF DnsAlgConstants
<1>3. b = IF alg[k] = Nil THEN x ELSE algansMerge(extend(alg[k], AlgTtl, now), x, now)
    BY Zenon DEF registerLocked
<1> HIDE DEF P, Q, u
<1>4. /\ ips \in Xips
      /\ \A t \in Tids : Newborn(ips.pri[t], now) /\ ips.past[t].val = {}
      /\ \A y \in AuxKeys : Newborn(ips.aux[y], now)
      /\ Holds(ips.pri[call.id], P, u) /\ Holds(ips.aux[ck], Q, u)
      /\ P \subseteq ips.pri[call.id].val
    <2> DEFINE tid == call.id
               uid == call.uid
               n == now
    <2>1. /\ ips = NewXips(tid, uid, P, Q, u, n) /\ tid \in Tids /\ uid \in Uids
          /\ P \in SUBSET Ips /\ Q \in SUBSET Ips /\ u \in Nat /\ n \in Nat \ {0} /\ u > n
        BY <1>1, <1>2, Zenon
    <2> HIDE DEF ips, tid, uid, n
    <2>2. /\ ips \in Xips
          /\ \A t \in Tids : Newborn(ips.pri[t], n)
          /\ \A t \in Tids : ips.past[t].val = {}
          /\ \A y \in AuxKeys : Newborn(ips.aux[y], n)
          /\ Holds(ips.pri[tid], P, u) /\ Holds(ips.aux[<<tid, uid>>], Q, u)
          /\ P \subseteq ips.pri[tid].val
        <3>1. ips \in Xips /\ \A t \in Tids : Newborn(ips.pri[t], n)
            BY <2>1, NewXipsIs, Zenon
        <3>2. \A t \in Tids : ips.past[t].val = {}
            BY <2>1, NewXipsHasNoPast, Zenon
        <3>3. \A y \in AuxKeys : Newborn(ips.aux[y], n)
            BY <2>1, NewXipsIs, Zenon
        <3>4. Holds(ips.pri[tid], P, u) /\ Holds(ips.aux[<<tid, uid>>], Q, u)
            BY <2>1, NewXipsIs, Zenon
        <3>5. P \subseteq ips.pri[tid].val
            BY <2>1, NewXipsIs, Zenon
        <3> QED
            BY <3>1, <3>2, <3>3, <3>4, <3>5, Zenon
    <2> QED
        BY <2>2, Zenon DEF tid, uid, n
<1>5. /\ doms \in Xdomains
      /\ \A y \in AuxKeys : Newborn(doms.pri[y], now)
      /\ Holds(doms.pri[ck], {k[1]}, u)
    BY <1>1, <1>2, NewXdomainsIs, Zenon
<1> HIDE DEF ips, doms
<1>6. /\ x \in Algans /\ x.ips = ips /\ x.domains = doms /\ x.ttl >= u /\ x.algip = takeLocked(k)
    BY <1>2, <1>4, <1>5, SMTT(60) DEF Algans, Larger, u
<1> HIDE DEF x
<1>7. CASE alg[k] = Nil
    <2>1. b = x
        BY <1>3, <1>7, Zenon
    <2>2. \A i \in P : i \in ips.pri[call.id].val /\ ips.pri[call.id].dob = now
        BY <1>4, SMTT(60) DEF Newborn, NoExp
    <2>3. Recent(ips, call.id, P, now)
        BY <2>2, SMTT(60) DEF Recent
    <2> QED
        BY <2>1, <2>3, <1>4, <1>5, <1>6, <1>7, Zenon DEF NoExp, P, Q, u, Registered
<1>8. CASE alg[k] # Nil
    <2> DEFINE a == extend(alg[k], AlgTtl, now)
    <2>1. alg[k] \in Algans
        BY <1>8, Zenon
    <2>2. /\ a \in Algans /\ a.ips = alg[k].ips /\ a.domains = alg[k].domains
          /\ a.algip = alg[k].algip /\ a.ttl >= alg[k].ttl
        <3> DEFINE o == alg[k]
                   n == now
        <3>1. o \in Algans /\ n \in Nat /\ AlgTtl \in Nat /\ a = extend(o, AlgTtl, n)
            BY <2>1, <1>2, Zenon
        <3> HIDE DEF o, n, a
        <3>2. /\ a \in Algans /\ a.ips = o.ips /\ a.domains = o.domains
              /\ a.algip = o.algip /\ a.ttl >= o.ttl
            BY <3>1, ExtendIs, ZenonT(60)
        <3> QED
            BY <3>2, ZenonT(60) DEF o
    <2>3. b = algansMerge(a, x, now)
        BY <1>3, <1>8, Zenon
    <2> HIDE DEF a
    <2>4. /\ \A t \in Tids : Newborn(x.ips.pri[t], now)
          /\ \A y \in AuxKeys : Newborn(x.ips.aux[y], now)
          /\ \A y \in AuxKeys : Newborn(x.domains.pri[y], now)
        BY <1>4, <1>5, <1>6, Zenon
    <2>5. /\ b \in Algans /\ Carries(a, b, now) /\ b.ttl >= x.ttl
          /\ \A t \in Tids, Z \in SUBSET Ips, v \in Nat :
               (v > now /\ Holds(x.ips.pri[t], Z, v)) => Holds(b.ips.pri[t], Z, v)
          /\ \A y \in AuxKeys, Z \in SUBSET Ips, v \in Nat :
               (v > now /\ Holds(x.ips.aux[y], Z, v)) => Holds(b.ips.aux[y], Z, v)
          /\ \A y \in AuxKeys, Z \in SUBSET Domains, v \in Nat :
               (v > now /\ Holds(x.domains.pri[y], Z, v)) => Holds(b.domains.pri[y], Z, v)
          /\ \A t \in Tids : Recent(b.ips, t, x.ips.pri[t].val, now)
          /\ \A t \in Tids : \/ b.ips.past[t].val \subseteq a.ips.past[t].val
                             \/ withinStaleThres(b.ips.past[t], now)
        BY <1>2, <1>6, <2>2, <2>3, <2>4, MergeCarries, Zenon
    <2>6. Carries(alg[k], b, now)
        <3>1. b.ttl \in Nat /\ a.ttl \in Nat /\ alg[k].ttl \in Nat
            BY <2>1, <2>2, <2>5, Zenon DEF Algans
        <3>2. Carries(a, b, now)
            BY <2>5, Zenon
        <3> QED
            BY <3>1, <3>2, <2>2, CarriesSame, Zenon
    <2>7. b.ttl >= u
        BY <1>2, <1>6, <2>5, SMTT(60) DEF Algans
    <2>8. Recent(b.ips, call.id, P, now)
        BY <1>4, <1>6, <2>5, Zenon DEF Recent
    <2>9. Holds(b.ips.pri[call.id], P, u)
        BY <1>1, <1>2, <1>4, <1>6, <2>5, Zenon
    <2>10. Holds(b.ips.aux[ck], Q, u)
        BY <1>1, <1>2, <1>4, <1>6, <2>5, Zenon
    <2>11. Holds(b.domains.pri[ck], {k[1]}, u)
        BY <1>1, <1>2, <1>5, <1>6, <2>5, Zenon
    <2>12. b.algip = alg[k].algip
        BY <2>6, Zenon DEF Carries
    <2> QED
        BY <1>8, <2>2, <2>5, <2>6, <2>7, <2>8, <2>9, <2>10, <2>11, <2>12, Zenon DEF P, Q, u, Registered
<1> QED
    BY <1>7, <1>8, Zenon

-----------------------------------------------------------------------------
\* Every ip the entry p has, whatever its age, leads to the key k.
ListedIn(k, p, P) ==
    /\ \A t \in Tids : \A i \in p.pri[t].val \cup p.past[t].val : k \in P[i]
    /\ \A y \in AuxKeys : \A i \in p.aux[y].val : k \in P[i]

\* A query that is to file its answer does so under an id of Tids; an answer
\* made up for BlockAll is left alone.
CallOK(call) ==
    /\ call.mod => call.ask.uid # MyUid
    /\ call.pc = "query" => call.t1 # Nil /\ (call.t1 \in Tids \/ call.dontalg)
    /\ (call.pri # Nil /\ ~call.dontalg) => call.id \in Tids

MapsOK ==
    /\ now \in Nat \ {0} /\ now <= MaxNow
    /\ mod \in BOOLEAN /\ fix \in BOOLEAN /\ split \in BOOLEAN
    /\ alg \in [Keys -> Algans \cup {Nil}]
    /\ nat \in [AlgIps -> Keys \cup {Nil}] /\ ptr \in [Ips -> SUBSET Keys]
    /\ NatMatchesAlg
    /\ \A k \in Keys : alg[k] # Nil => ListedIn(k, alg[k].ips, ptr)

CallsOK == /\ calls \in [Calls -> Queries \cup {Nil}]
           /\ \A c \in Calls : calls[c] # Nil => CallOK(calls[c])

\* No entry that onStopped has still to visit has gone.
StoppedOK == /\ stopped \subseteq [tid : StopTids, ips : SUBSET Keys, doms : SUBSET Keys]
             /\ \A s \in stopped : \A k \in s.ips \cup s.doms : alg[k] # Nil

ToldOK == told \subseteq Tellings /\ \A e \in told : KeptBy(e, alg[e.key], now)

Inv == MapsOK /\ CallsOK /\ StoppedOK /\ ToldOK

LEMMA InitInv ==
    ASSUME DnsAlgConstants, Init
    PROVE  Inv
<1>1. PICK m \in Modes : mod = m[1] /\ fix = m[2]
    BY Zenon DEF Init
<1>2. /\ alg = [k \in Keys |-> Nil] /\ nat = [i \in AlgIps |-> Nil] /\ ptr = [i \in Ips |-> {}]
      /\ calls = [c \in Calls |-> Nil] /\ stopped = {} /\ told = {} /\ now = 1 /\ split = FALSE
    BY Zenon DEF Init
<1>3. mod \in BOOLEAN /\ fix \in BOOLEAN
    BY <1>1, Zenon DEF DnsAlgConstants
<1>4. NatMatchesAlg
    BY <1>2, Zenon DEF NatMatchesAlg
<1>5. 1 <= MaxNow
    BY SMTT(60) DEF DnsAlgConstants
<1>6. MapsOK
    <2>1. now \in Nat \ {0} /\ now <= MaxNow /\ split \in BOOLEAN
        <3>1. split \in BOOLEAN
            BY <1>2, Zenon
        <3>2. now = 1
            BY <1>2, Zenon
        <3> HIDE <1>2
        <3> QED
            BY <3>1, <3>2, <1>5, SMTT(60)
    <2>2. /\ alg \in [Keys -> Algans \cup {Nil}]
          /\ nat \in [AlgIps -> Keys \cup {Nil}] /\ ptr \in [Ips -> SUBSET Keys]
        BY <1>2, Zenon
    <2>3. \A k \in Keys : alg[k] = Nil
        BY <1>2, Zenon
    <2> QED
        BY <2>1, <2>2, <2>3, <1>3, <1>4, Zenon DEF MapsOK
<1> QED
    BY <1>2, <1>6, Zenon DEF Inv, CallsOK, StoppedOK, ToldOK

\* takeLocked: the key's own alg ip, or one its hash makes that nobody has.
LEMMA TakeIs ==
    ASSUME DnsAlgConstants, MapsOK, NEW k \in Keys, takeLocked(k) # Nil
    PROVE  /\ takeLocked(k) \in AlgIps
           /\ alg[k] # Nil => takeLocked(k) = alg[k].algip
           /\ alg[k] = Nil => /\ nat[takeLocked(k)] = Nil
                              /\ \E i \in 0 .. MaxIter - 1 : takeLocked(k) = GenIp[k][i]
<1>1. takeLocked(k) = firstFree(k)
    BY SMTT(60) DEF takeLocked, take4Locked, take6Locked, Keys
<1> DEFINE free == {i \in 0 .. MaxIter - 1 : nat[GenIp[k][i]] = Nil}
           first == {i \in free : \A j \in free : i <= j}
           least == CHOOSE i \in first : TRUE
<1>2. CASE alg[k] # Nil
    <2>1. firstFree(k) = alg[k].algip /\ alg[k] \in Algans
        BY <1>2, Zenon DEF firstFree, MapsOK
    <2> QED
        BY <2>1, <1>1, <1>2, Zenon DEF Algans
<1>3. CASE alg[k] = Nil
    <2>1. first # {} /\ firstFree(k) = GenIp[k][least]
        BY <1>1, <1>3, Zenon DEF firstFree
    <2> HIDE DEF first
    <2>2. least \in first
        BY <2>1, Zenon
    <2> HIDE DEF least
    <2>3. least \in 0 .. MaxIter - 1 /\ nat[GenIp[k][least]] = Nil
        BY <2>2, Zenon DEF first
    <2>4. GenIp[k][least] \in AlgIps
        BY <2>3, Zenon DEF DnsAlgConstants
    <2> QED
        BY <2>1, <2>3, <2>4, <1>1, <1>3, Zenon
<1> QED
    BY <1>2, <1>3, Zenon

\* What was told survives a step in which each entry takes over the one before.
LEMMA CarryingStep ==
    ASSUME DnsAlgConstants, Inv, alg' \in [Keys -> Algans \cup {Nil}],
           \A k \in Keys : alg[k] # Nil => alg'[k] # Nil /\ Carries(alg[k], alg'[k], now),
           now' = now, stopped' = stopped
    PROVE  StoppedOK' /\ \A e \in told : KeptBy(e, alg'[e.key], now')
<1>1. StoppedOK'
    <2> SUFFICES ASSUME NEW s \in stopped, NEW k \in s.ips \cup s.doms
                 PROVE  alg'[k] # Nil
        BY Zenon DEF StoppedOK, Inv
    <2>1. k \in Keys /\ alg[k] # Nil
        BY Zenon DEF StoppedOK, Inv
    <2> QED
        BY <2>1, Zenon
<1>2. ASSUME NEW e \in told
      PROVE  KeptBy(e, alg'[e.key], now')
    <2>1. e \in Tellings /\ KeptBy(e, alg[e.key], now) /\ e.key \in Keys
        BY Zenon DEF Inv, ToldOK, Tellings
    <2>2. alg[e.key] # Nil
        BY <2>1, Zenon DEF KeptBy
    <2>3. /\ alg[e.key] \in Algans /\ alg'[e.key] \in Algans /\ Nil \notin Algans
          /\ now \in Nat \ {0} /\ Carries(alg[e.key], alg'[e.key], now)
        BY <2>1, <2>2, SMTT(60) DEF Inv, MapsOK, DnsAlgConstants
    <2>4. KeptBy(e, alg'[e.key], now)
        BY <2>1, <2>3, CarriedIsKept, Zenon
    <2> QED
        BY <2>4, Zenon
<1> QED
    BY <1>1, <1>2, Zenon

\* The ips D64 makes up are ips.
LEMMA D64Ips ==
    ASSUME DnsAlgConstants, NEW a, NEW r \in Answers, NEW ips \in D64(a, r)
    PROVE  ips \in SUBSET Ips
<1>1. CASE ips = r.ips
    BY <1>1, Zenon DEF Answers
<1>2. CASE ips # r.ips
    <2>1. PICK s \in SUBSET DOMAIN Nat64 : ips = {Nat64[i] : i \in s}
        BY <1>2, Zenon DEF D64
    <2>2. \A i \in s : Nat64[i] \in Ip6
        BY Zenon DEF DnsAlgConstants
    <2> QED
        BY <2>1, <2>2, Zenon DEF Ips
<1> QED
    BY <1>1, <1>2, Zenon

\* The end of q.
LEMMA QEndKeeps ==
    ASSUME DnsAlgConstants, Inv, NEW c \in Calls, qEnd(c)
    PROVE  Inv'
<1> DEFINE call == calls[c]
           a == call.ask
           r == call.pri
           first == IF a.typ = "svcb" THEN 4 ELSE 6
           ks(ips) == {<<a.d, f>> : f \in {f \in {4, 6} : FamilyOf(ips, f) # {}}}
           short(ips) == {k \in ks(ips) : takeLocked(k) = Nil}
           real(ips) == IF call.fixed THEN {} ELSE ips
           sec == IF call.fixed THEN {} ELSE call.sec.ips
           ttl == Larger(MinTtl, r.ttl)
           alg2(ips, cant) == [k \in Keys |->
                 IF k \notin ks(ips) \/ leftAlone(call, ips) THEN alg[k]
                 ELSE IF short(ips) = {} /\ ~cant
                      THEN registerLocked(k, call, real(ips), sec, call.sec.lists, ttl)
                 ELSE IF alg[k] # Nil /\ (k[2] = first \/ short(ips) = {}) THEN extend(alg[k], AlgTtl, now)
                 ELSE alg[k]]
           ok(ips, cant) == ~leftAlone(call, ips) /\ short(ips) = {} /\ ~cant
           tell(ips, cant, k) == [key |-> k, algip |-> alg2(ips, cant)[k].algip, real |-> FamilyOf(real(ips), k[2]),
                            blocked |-> AnyIp \in sec, tid |-> call.id, uid |-> call.uid,
                            app |-> a.uid, at |-> now, ttl |-> ttl, given |-> call.mod,
                            ended |-> FALSE]
<1>1. PICK ips \in D64(a, r), cant \in CannotSubst(a) :
        /\ ~leftAlone(call, ips) => call.sec # Nil
        /\ alg' = alg2(ips, cant)
        /\ nat' = [i \in AlgIps |-> IF ok(ips, cant) /\ \E k \in ks(ips) : alg2(ips, cant)[k].algip = i
                                    THEN CHOOSE k \in ks(ips) : alg2(ips, cant)[k].algip = i ELSE nat[i]]
        /\ ptr' = [i \in Ips |-> ptr[i] \cup {k \in ks(ips) : ok(ips, cant) /\ i \in each(alg2(ips, cant)[k].ips)}]
        /\ told' = told \cup (IF ok(ips, cant) THEN {tell(ips, cant, k) : k \in ks(ips)} ELSE {})
    BY Zenon DEF qEnd
<1>2. /\ call \in Queries /\ CallOK(call) /\ r \in Answers /\ call.pc = "query"
      /\ calls' = [calls EXCEPT ![c] = Nil]
      /\ now' = now /\ mod' = mod /\ fix' = fix /\ split' = split /\ stopped' = stopped
    BY Zenon DEF qEnd, Inv, CallsOK, Queries
<1>3. CallsOK'
    BY <1>2, Zenon DEF Inv, CallsOK
<1>4. ips \in SUBSET Ips
    BY <1>1, <1>2, D64Ips, ZenonT(60)
<1>5. /\ now \in Nat \ {0} /\ alg \in [Keys -> Algans \cup {Nil}] /\ Nil \notin Algans
      /\ AlgTtl \in Nat /\ StaleThres \in Nat /\ a \in Asks /\ AskOK(a)
    BY <1>2, Zenon DEF Inv, MapsOK, DnsAlgConstants, Queries
<1> DEFINE K == ks(ips)
           R == real(ips)
<1>6. K \subseteq Keys /\ \A k \in K : k[2] \in {4, 6} /\ k = <<a.d, k[2]>>
    BY <1>5, SMTT(60) DEF AskOK, Keys
<1>7. CASE ~ok(ips, cant)
    <2>1. \A k \in Keys : alg'[k] = alg[k] \/ (alg[k] # Nil /\ alg'[k] = extend(alg[k], AlgTtl, now))
        BY <1>1, <1>7, Zenon
    <2>2. ASSUME NEW k \in Keys
          PROVE  /\ alg[k] = Nil => alg'[k] = Nil
                 /\ alg[k] # Nil => /\ alg'[k] \in Algans /\ alg'[k].algip = alg[k].algip
                                    /\ alg'[k].ips = alg[k].ips /\ Carries(alg[k], alg'[k], now)
        <3>1. CASE alg'[k] = alg[k]
            <4>1. alg[k] # Nil => alg[k] \in Algans /\ alg[k].ttl \in Nat
                BY <1>5, Zenon DEF Algans
            <4> QED
                BY <3>1, <4>1, SMTT(60) DEF Carries
        <3>2. CASE alg[k] # Nil /\ alg'[k] = extend(alg[k], AlgTtl, now)
            <4>1. alg[k] \in Algans
                BY <3>2, <1>5, Zenon
            <4> QED
                BY <3>2, <4>1, <1>5, ExtendIs, SMTT(60)
        <3> QED
            BY <3>1, <3>2, <2>1, ZenonT(60)
    <2>3. nat' = nat /\ ptr' = ptr /\ told' = told
        BY <1>1, <1>7, Zenon DEF Inv, MapsOK
    <2>4. alg' \in [Keys -> Algans \cup {Nil}]
        BY <1>1, <2>2, Zenon
    <2>5. \A k \in Keys : alg[k] # Nil => alg'[k] # Nil /\ Carries(alg[k], alg'[k], now)
        BY <2>2, <1>5, Zenon
    <2>6. StoppedOK' /\ \A e \in told : KeptBy(e, alg'[e.key], now')
        BY <2>4, <2>5, <1>2, CarryingStep, Zenon
    <2>7. NatMatchesAlg'
        <3>1. NatMatchesAlg /\ nat \in [AlgIps -> Keys \cup {Nil}] /\ Nil \notin Keys
            BY Zenon DEF Inv, MapsOK, DnsAlgConstants
        <3> QED
            BY <3>1, <2>2, <2>3, <1>5, SMTT(60) DEF NatMatchesAlg
    <2>8. \A k \in Keys : alg'[k] # Nil => ListedIn(k, alg'[k].ips, ptr')
        BY <2>2, <2>3, Zenon DEF Inv, MapsOK
    <2>9. MapsOK'
        BY <1>2, <2>3, <2>4, <2>7, <2>8, Zenon DEF Inv, MapsOK
    <2> QED
        BY <1>3, <2>3, <2>6, <2>9, Zenon DEF Inv, ToldOK
<1>8. CASE ok(ips, cant)
    <2>1. /\ call.sec # Nil /\ call.sec \in Secs /\ ~call.dontalg /\ call.id \in Tids
          /\ call.uid \in Uids /\ call.mod \in BOOLEAN /\ call.fixed \in BOOLEAN
        BY <1>1, <1>2, <1>8, ZenonT(60) DEF leftAlone, Queries, CallOK, DnsAlgConstants
    <2>2. /\ R \in SUBSET Ips /\ sec \in SUBSET Ips /\ call.sec.lists \in BOOLEAN
          /\ ttl \in Nat \ {0}
        BY <2>1, <1>2, <1>4, SMTT(60) DEF Secs, Answers, Larger, DnsAlgConstants
    <2>3. \A k \in Keys : alg'[k] = IF k \in K THEN registerLocked(k, call, R, sec, call.sec.lists, ttl)
                                    ELSE alg[k]
        BY <1>1, <1>8, Zenon
    <2>4. \A k \in K : takeLocked(k) # Nil
        BY <1>8, Zenon
    <2> HIDE DEF sec, ttl
    <2>5. ASSUME NEW k \in K
          PROVE  /\ Registered(alg'[k], k, call.id, call.uid, R, sec, ttl)
                 /\ alg'[k] \in Algans /\ alg'[k].algip = takeLocked(k)
                 /\ alg[k] # Nil => Carries(alg[k], alg'[k], now)
        <3>1. k \in Keys /\ alg[k] \in Algans \cup {Nil}
            BY <1>5, <1>6, Zenon
        <3>2. /\ takeLocked(k) \in AlgIps /\ (alg[k] # Nil => takeLocked(k) = alg[k].algip)
            BY <2>4, <3>1, TakeIs, Zenon DEF Inv
        <3>3. alg'[k] = registerLocked(k, call, R, sec, call.sec.lists, ttl)
            BY <2>3, <3>1, Zenon
        <3> DEFINE b == alg'[k]
                   lists == call.sec.lists
        <3>4. b = registerLocked(k, call, R, sec, lists, ttl)
            BY <3>3, Zenon
        <3>5. now \in Nat \ {0} /\ call.id \in Tids /\ call.uid \in Uids /\ lists \in BOOLEAN
            BY <1>5, <2>1, <2>2, Zenon
        <3>6. R \in SUBSET Ips /\ sec \in SUBSET Ips /\ ttl \in Nat \ {0}
            BY <2>2, Zenon
        <3>7. takeLocked(k) \in AlgIps
            BY <3>2, Zenon
        <3> HIDE DEF call, R, b, lists
        <3>8. Registered(b, k, call.id, call.uid, R, sec, ttl)
            BY <3>1, <3>4, <3>5, <3>6, <3>7, RegisterIs, Zenon
        <3> QED
            BY <3>8, <3>2, Zenon DEF b, Registered
    <2>6. alg' \in [Keys -> Algans \cup {Nil}]
        BY <1>1, <1>5, <1>6, <2>3, <2>5, Zenon
    <2>7. \A k \in Keys : alg[k] # Nil => alg'[k] # Nil /\ Carries(alg[k], alg'[k], now)
        <3> SUFFICES ASSUME NEW k \in Keys, alg[k] # Nil
                     PROVE  alg'[k] # Nil /\ Carries(alg[k], alg'[k], now)
            BY Zenon
        <3>1. CASE k \in K
            BY <3>1, <1>5, <2>5, ZenonT(60)
        <3>2. CASE k \notin K
            <4>1. alg'[k] = alg[k] /\ alg[k].ttl \in Nat
                BY <3>2, <2>3, <1>5, Zenon DEF Algans
            <4> QED
                BY <4>1, SMTT(60) DEF Carries
        <3> QED
            BY <3>1, <3>2, Zenon
    <2>8. StoppedOK' /\ \A e \in told : KeptBy(e, alg'[e.key], now')
        BY <2>6, <2>7, <1>2, CarryingStep, Zenon
    <2>9. /\ NatMatchesAlg /\ nat \in [AlgIps -> Keys \cup {Nil}] /\ Nil \notin Keys /\ MapsOK
          /\ ptr \in [Ips -> SUBSET Keys]
        BY Zenon DEF Inv, MapsOK, DnsAlgConstants
    <2>10. \A k \in Keys : alg'[k] # Nil => (k \in K \/ alg'[k] = alg[k]) /\ alg'[k].algip \in AlgIps
        BY <2>3, <2>6, Zenon DEF Algans
    <2>11. nat' = [i \in AlgIps |-> IF \E k \in K : alg'[k].algip = i
                                    THEN CHOOSE k \in K : alg'[k].algip = i ELSE nat[i]]
        BY <1>1, <1>8, Zenon
    <2>12. ptr' = [i \in Ips |-> ptr[i] \cup {k \in K : i \in each(alg'[k].ips)}]
        BY <1>1, <1>8, Zenon
    <2>13. told' = told \cup {tell(ips, cant, k) : k \in K}
        BY <1>1, <1>8, Zenon
    <2> HIDE DEF K
    <2>14. ASSUME NEW k \in K, NEW l \in Keys, alg'[l] # Nil, alg'[l].algip = alg'[k].algip
           PROVE  l = k
        <3>1. /\ k \in Keys /\ alg'[k].algip = takeLocked(k) /\ takeLocked(k) # Nil
              /\ alg[k] # Nil => takeLocked(k) = alg[k].algip
              /\ alg[k] = Nil => /\ nat[takeLocked(k)] = Nil
                                 /\ \E i \in 0 .. MaxIter - 1 : takeLocked(k) = GenIp[k][i]
            BY <1>6, <2>4, <2>5, <2>9, TakeIs, Zenon
        <3>2. CASE alg[l] # Nil
            <4>1. alg[l].algip = takeLocked(k)
                BY <3>1, <3>2, <2>7, <2>14, Zenon DEF Carries
            <4>2. nat[takeLocked(k)] = l
                BY <3>2, <4>1, <2>9, Zenon DEF NatMatchesAlg
            <4> QED
                BY <3>1, <4>2, <2>9, Zenon DEF NatMatchesAlg
        <3>3. CASE alg[l] = Nil
            <4>1. l \in K
                BY <3>3, <2>3, <2>14, Zenon
            <4>2. takeLocked(l) = takeLocked(k) /\ takeLocked(l) # Nil
                BY <3>1, <4>1, <2>4, <2>5, <2>14, Zenon
            <4>3. /\ nat[takeLocked(l)] = Nil
                  /\ \E i \in 0 .. MaxIter - 1 : takeLocked(l) = GenIp[l][i]
                BY <3>3, <4>2, <2>9, TakeIs, ZenonT(60)
            <4>4. alg[k] = Nil
                BY <3>1, <4>2, <4>3, <2>9, SMTT(60) DEF NatMatchesAlg
            <4>5. k[2] = l[2]
                BY <3>1, <4>2, <4>3, <4>4, SMTT(60) DEF DnsAlgConstants
            <4> QED
                BY <4>1, <4>5, <1>6, Zenon
        <3> QED
            BY <3>2, <3>3, Zenon
    <2>15. NatMatchesAlg'
        <3>1. ASSUME NEW k \in Keys, alg'[k] # Nil
              PROVE  nat'[alg'[k].algip] = k
            <4>1. CASE k \in K
                <5> DEFINE l == CHOOSE l \in K : alg'[l].algip = alg'[k].algip
                <5>1. l \in K /\ alg'[l].algip = alg'[k].algip
                    BY <4>1, Zenon
                <5>2. nat'[alg'[k].algip] = l
                    BY <4>1, <3>1, <2>10, <2>11, Zenon
                <5> QED
                    BY <5>1, <5>2, <3>1, <2>14, Zenon
            <4>2. CASE k \notin K
                <5>1. alg'[k] = alg[k]
                    BY <4>2, <3>1, <2>10, Zenon
                <5>2. ~\E l \in K : alg'[l].algip = alg'[k].algip
                    BY <4>2, <3>1, <2>14, Zenon
                <5>3. nat'[alg'[k].algip] = nat[alg'[k].algip]
                    BY <5>2, <3>1, <2>10, <2>11, Zenon
                <5> QED
                    BY <5>1, <5>3, <3>1, <2>9, Zenon DEF NatMatchesAlg
            <4> QED
                BY <4>1, <4>2, Zenon
        <3>2. ASSUME NEW i \in AlgIps, nat'[i] # Nil
              PROVE  alg'[nat'[i]] # Nil /\ alg'[nat'[i]].algip = i
            <4>1. CASE \E k \in K : alg'[k].algip = i
                <5>1. nat'[i] \in K /\ alg'[nat'[i]].algip = i
                    BY <4>1, <2>11, Zenon
                <5> QED
                    BY <5>1, <2>5, <1>5, Zenon
            <4>2. CASE ~\E k \in K : alg'[k].algip = i
                <5>1. nat'[i] = nat[i]
                    BY <4>2, <2>11, Zenon
                <5>2. nat[i] \in Keys /\ alg[nat[i]] # Nil /\ alg[nat[i]].algip = i
                    BY <5>1, <3>2, <2>9, ZenonT(60) DEF NatMatchesAlg
                <5> QED
                    BY <5>1, <5>2, <2>7, Zenon DEF Carries
            <4> QED
                BY <4>1, <4>2, Zenon
        <3> QED
            BY <3>1, <3>2, Zenon DEF NatMatchesAlg
    <2>16. nat' \in [AlgIps -> Keys \cup {Nil}] /\ ptr' \in [Ips -> SUBSET Keys]
        <3>1. \A i \in AlgIps : (\E k \in K : alg'[k].algip = i)
                                => (CHOOSE k \in K : alg'[k].algip = i) \in K
            BY Zenon
        <3> QED
            BY <3>1, <2>9, <2>11, <2>12, <1>6, Zenon
    <2>17. ASSUME NEW k \in Keys, alg'[k] # Nil
           PROVE  ListedIn(k, alg'[k].ips, ptr')
        <3> DEFINE p == alg'[k].ips
        <3>1. /\ alg'[k] \in Algans /\ p \in Xips
              /\ p.pri \in [Tids -> Exp(Ips)] /\ p.aux \in [AuxKeys -> Exp(Ips)]
              /\ p.past \in [Tids -> Exp(Ips)]
            BY <2>6, <2>17, Zenon DEF Algans, Xips
        <3>2. /\ \A t \in Tids : p.pri[t].val \subseteq Ips /\ p.past[t].val \subseteq Ips
              /\ \A y \in AuxKeys : p.aux[y].val \subseteq Ips
            BY <3>1, Zenon DEF Exp
        <3>3. \A i \in Ips : ptr[i] \subseteq ptr'[i]
            BY <2>12, Zenon
        <3>4. alg[k] # Nil => ListedIn(k, alg[k].ips, ptr)
            BY <2>9, Zenon DEF MapsOK
        <3>5. CASE k \notin K
            <4>1. alg'[k] = alg[k]
                BY <3>5, <2>10, <2>17, Zenon
            <4> QED
                BY <4>1, <3>2, <3>3, <3>4, <2>17, Zenon DEF ListedIn
        <3>6. CASE k \in K
            <4>1. \A i \in Ips : i \in each(p) => k \in ptr'[i]
                BY <3>6, <2>12, Zenon
            <4>2. \A t \in Tids : p.pri[t].val \subseteq each(p)
                BY Zenon DEF each, allips, get
            <4>3. \A y \in AuxKeys : p.aux[y].val \subseteq each(p)
                BY Zenon DEF each, allips, get
            <4>4. \A t \in Tids : withinStaleThres(p.past[t], now) => p.past[t].val \subseteq each(p)
                BY Zenon DEF each, allips
            <4>5. ASSUME NEW t \in Tids, NEW i \in p.past[t].val
                  PROVE  k \in ptr'[i]
                <5>1. \/ withinStaleThres(p.past[t], now)
                      \/ alg[k] # Nil /\ p.past[t].val \subseteq alg[k].ips.past[t].val
                    BY <3>6, <4>5, <2>5, Zenon DEF Registered
                <5>2. i \in Ips
                    BY <3>2, <4>5, Zenon
                <5>3. CASE withinStaleThres(p.past[t], now)
                    BY <5>2, <5>3, <4>1, <4>4, <4>5, Zenon
                <5>4. CASE alg[k] # Nil /\ p.past[t].val \subseteq alg[k].ips.past[t].val
                    BY <5>2, <5>4, <3>3, <3>4, <4>5, Zenon DEF ListedIn
                <5> QED
                    BY <5>1, <5>3, <5>4, Zenon
            <4> HIDE DEF p
            <4>6. ListedIn(k, p, ptr')
                BY <3>2, <4>1, <4>2, <4>3, <4>5, Zenon DEF ListedIn
            <4> QED
                BY <4>6, Zenon DEF p
        <3> QED
            BY <3>5, <3>6, Zenon
    <2>18. ASSUME NEW k \in K, NEW e, e = tell(ips, cant, k)
           PROVE  e \in Tellings /\ e.key = k /\ KeptBy(e, alg'[k], now)
        <3>1. /\ e.key = k /\ e.algip = alg'[k].algip /\ e.real = FamilyOf(R, k[2])
              /\ e.blocked = (AnyIp \in sec) /\ e.tid = call.id /\ e.uid = call.uid
              /\ e.app = a.uid /\ e.at = now /\ e.ttl = ttl /\ e.given = call.mod
              /\ e.ended = FALSE
            BY <1>1, <2>18, Zenon
        <3>2. k \in Keys /\ a.uid \in Uids /\ (call.mod => a.uid # MyUid)
            BY <1>2, <1>5, <1>6, Zenon DEF CallOK, AskOK
        <3>3. Registered(alg'[k], k, call.id, call.uid, R, sec, ttl) /\ alg'[k] # Nil
            BY <2>5, <1>5, Zenon
        <3>4. e \in Tellings
            <4>1. /\ alg'[k].algip \in AlgIps /\ FamilyOf(R, k[2]) \in SUBSET Ips
                  /\ now \in Nat /\ ttl \in Nat
                BY <2>2, <2>10, <3>2, <3>3, <1>5, Zenon DEF FamilyOf
            <4> DEFINE blocked == AnyIp \in sec
                       algip == alg'[k].algip
                       ofk == FamilyOf(R, k[2])
                       app == a.uid
            <4>2. FALSE \in BOOLEAN
                BY Zenon
            <4>5. blocked \in BOOLEAN
                BY SMTT(60)
            <4>3. e = [key |-> k, algip |-> algip, real |-> ofk, blocked |-> blocked,
                       tid |-> call.id, uid |-> call.uid, app |-> app, at |-> now, ttl |-> ttl,
                       given |-> call.mod, ended |-> FALSE]
                BY <1>1, <2>18, Zenon
            <4>4. /\ call.id \in Tids /\ call.uid \in Uids /\ call.mod \in BOOLEAN /\ app \in Uids
                  /\ algip \in AlgIps /\ ofk \in SUBSET Ips
                BY <2>1, <3>2, <4>1, Zenon
            <4> HIDE DEF call, blocked, algip, ofk, app
            <4> QED
                BY <3>2, <4>1, <4>2, <4>3, <4>4, <4>5, Zenon DEF Tellings
        <3>5. KeptBy(e, alg'[k], now)
            <4> HIDE DEF call, a, R
            <4> DEFINE b == alg'[k]
            <4>1. 1 <= e.at /\ e.at <= now
                BY <3>1, <1>5, SMTT(60)
            <4>2. e.given => e.app # MyUid
                BY <3>1, <3>2, Zenon
            <4>3. b # Nil /\ b.algip = e.algip /\ b.ttl >= e.at + e.ttl
                BY <3>1, <3>3, Zenon DEF Registered
            <4>4. Holds(b.ips.pri[e.tid], e.real, e.at + e.ttl)
                BY <3>1, <3>3, Zenon DEF Registered
            <4>5. e.blocked => Holds(b.ips.aux[<<e.tid, e.uid>>], {AnyIp}, e.at + e.ttl)
                <5>1. SUFFICES ASSUME AnyIp \in sec
                              PROVE  Holds(b.ips.aux[<<call.id, call.uid>>], {AnyIp}, now + ttl)
                    BY <3>1, Zenon
                <5>2. AnyIp \in FamilyOf(sec, k[2])
                    BY <5>1, Zenon DEF FamilyOf
                <5>3. Holds(b.ips.aux[<<call.id, call.uid>>], FamilyOf(sec, k[2]), now + ttl)
                    BY <3>3, Zenon DEF Registered
                <5> QED
                    BY <5>2, <5>3, Zenon DEF Holds
            <4>6. Holds(b.domains.pri[<<e.tid, e.uid>>], {e.key[1]}, e.at + e.ttl)
                BY <3>1, <3>3, Zenon DEF Registered
            <4>7. Recent(b.ips, e.tid, e.real, e.at)
                BY <3>1, <3>3, Zenon DEF Registered
            <4> QED
                BY <4>1, <4>2, <4>3, <4>4, <4>5, <4>6, <4>7, ZenonT(60) DEF KeptBy
        <3> QED
            BY <3>1, <3>4, <3>5, Zenon
    <2>20. told' \subseteq Tellings /\ \A e \in told' : KeptBy(e, alg'[e.key], now')
        <3> HIDE DEF tell
        <3>1. told \subseteq Tellings
            BY Zenon DEF Inv, ToldOK
        <3> QED
            BY <3>1, <1>2, <2>8, <2>13, <2>18, ZenonT(60)
    <2>19. MapsOK'
        BY <1>2, <2>6, <2>9, <2>15, <2>16, <2>17, Zenon DEF MapsOK
    <2> QED
        BY <1>3, <2>8, <2>19, <2>20, Zenon DEF Inv, ToldOK
<1> QED
    BY <1>7, <1>8, Zenon

\* A step of one query that leaves the maps alone.
LEMMA CallStep ==
    ASSUME Inv, NEW c \in Calls, NEW q, q = Nil \/ (q \in Queries /\ CallOK(q)),
           calls' = [calls EXCEPT ![c] = q],
           UNCHANGED <<now, mod, fix, split, alg, nat, ptr, stopped, told>>
    PROVE  Inv'
<1>1. CallsOK'
    BY Zenon DEF Inv, CallsOK
<1>2. MapsOK'
    BY Zenon DEF Inv, MapsOK, NatMatchesAlg, ListedIn
<1>3. StoppedOK'
    BY Zenon DEF Inv, StoppedOK
<1>4. ToldOK'
    BY Zenon DEF Inv, ToldOK
<1> QED
    BY <1>1, <1>2, <1>3, <1>4, Zenon DEF Inv

LEMMA AnswerOf ==
    ASSUME NEW c \in Rcs, NEW S \in SUBSET Ips, NEW t \in Nat
    PROVE  [rc |-> c, ips |-> S, ttl |-> t] \in Answers
    BY Zenon DEF Answers

LEMMA RepliesAre ==
    ASSUME DnsAlgConstants, NEW a \in Asks
    PROVE  Replies(a) \subseteq Answers /\ NoAnswer \in Answers
<1>1. ASSUME NEW u \in Upstream[a.typ]
      PROVE  u.rc \in Rcs /\ u.ips \subseteq Ips /\ Ttls \subseteq Nat
    BY ZenonT(60) DEF DnsAlgConstants, AskOK, Rcs
<1>2. "ok" \in Rcs /\ "none" \in Rcs
    BY Zenon DEF Rcs
<1>3. NoAnswer \in Answers
    BY <1>2, AnswerOf, Zenon DEF NoAnswer
<1>4. ASSUME NEW x \in Replies(a)
      PROVE  x \in Answers
    <2>1. PICK u \in Upstream[a.typ] : x \in IF u.rc = "ok" THEN [rc : {"ok"}, ips : {u.ips}, ttl : Ttls]
                                          ELSE {[rc |-> u.rc, ips |-> {}, ttl |-> 0]}
        BY <1>4, Zenon DEF Replies
    <2>2. CASE u.rc = "ok"
        <3>1. PICK t \in Ttls : x = [rc |-> "ok", ips |-> u.ips, ttl |-> t]
            BY <2>1, <2>2, Zenon
        <3> QED
            BY <3>1, <1>1, <1>2, AnswerOf, Zenon
    <2>3. CASE u.rc # "ok"
        BY <2>1, <2>3, <1>1, AnswerOf, Zenon
    <2> QED
        BY <2>2, <2>3, Zenon
<1> QED
    BY <1>3, <1>4, Zenon

\* fromInternalCache: ips, for as long as an entry of the name lives.
LEMMA CacheIs ==
    ASSUME DnsAlgConstants, MapsOK, NEW a \in Asks, NEW t, NEW uid, NEW typ \in {"real", "sec"}
    PROVE  fromInternalCache(a, t, uid, typ) \in Answers
<1> DEFINE f0 == IF a.typ = "a" THEN 4 ELSE 6
           k == <<a.d, f0>>
           skip == skipInternalCache({t}) \/ (typ = "real" /\ a.do) \/ a.local \/ a.typ \notin {"a", "aaaa"}
           ips == IF t \in Tids THEN resolvLocked(k, typ, t, uid) ELSE {}
           both == {f \in {4, 6} : alg[<<a.d, f>>] # Nil /\ isFresh(alg[<<a.d, f>>])}
           ends == {alg[<<a.d, f>>].ttl : f \in both}
           until == CHOOSE e \in ends : \A f \in ends : e <= f
<1>1. fromInternalCache(a, t, uid, typ) =
        IF skip \/ ips = {} THEN NoAnswer ELSE [rc |-> "ok", ips |-> ips, ttl |-> until - now]
    BY Zenon DEF fromInternalCache
<1>2. CASE skip \/ ips = {}
    BY <1>1, <1>2, RepliesAre, Zenon
<1>3. CASE ~(skip \/ ips = {})
    <2>1. ips = resolvLocked(k, typ, t, uid) /\ ips # {}
        BY <1>3, Zenon
    <2>2. alg[k] # Nil /\ isFresh(alg[k])
        BY <2>1, Zenon DEF resolvLocked
    <2>3. ips \subseteq Ips
        BY <2>1, <2>2, Zenon DEF resolvLocked, FamilyOf, Ips
    <2>4. f0 \in both
        BY <2>2, Zenon
    <2>5. \A f \in both : alg[<<a.d, f>>].ttl \in Nat /\ alg[<<a.d, f>>].ttl > now
        <3> SUFFICES ASSUME NEW f \in both
                     PROVE  alg[<<a.d, f>>].ttl \in Nat /\ alg[<<a.d, f>>].ttl > now
            BY Zenon
        <3>1. <<a.d, f>> \in Keys
            BY Zenon DEF DnsAlgConstants, AskOK, Keys
        <3>2. alg[<<a.d, f>>] \in Algans /\ isFresh(alg[<<a.d, f>>])
            BY <3>1, Zenon DEF MapsOK
        <3> QED
            BY <3>2, Zenon DEF Algans, isFresh
    <2>6. \E e \in ends : \A f \in ends : e <= f
        <3> DEFINE g == IF f0 = 4 THEN 6 ELSE 4
                   x(f) == alg[<<a.d, f>>].ttl
        <3>1. \A f \in both : f = f0 \/ f = g
            BY Zenon
        <3> HIDE DEF both, f0, g
        <3>2. x(f0) \in ends /\ (g \in both => x(g) \in ends)
            BY <2>4, Zenon
        <3>3. \A e \in ends : e = x(f0) \/ (g \in both /\ e = x(g))
            BY <3>1, Zenon
        <3>4. x(f0) \in Nat /\ (g \in both => x(g) \in Nat)
            BY <2>4, <2>5, Zenon
        <3> HIDE DEF ends, x
        <3>5. CASE g \in both /\ x(g) < x(f0)
            BY <3>2, <3>3, <3>4, <3>5, SMTT(60)
        <3>6. CASE ~(g \in both /\ x(g) < x(f0))
            BY <3>2, <3>3, <3>4, <3>6, SMTT(60)
        <3> QED
            BY <3>5, <3>6, Zenon
    <2> HIDE DEF both, f0
    <2>7. until \in ends
        BY <2>6, Zenon
    <2>8. until \in Nat /\ until > now
        BY <2>5, <2>7, Zenon
    <2> HIDE DEF until, ips, skip
    <2>9. until - now \in Nat
        BY <2>8, SMTT(60) DEF MapsOK
    <2>10. "ok" \in Rcs
        BY Zenon DEF Rcs
    <2> QED
        BY <1>1, <1>3, <2>3, <2>9, <2>10, AnswerOf, Zenon
<1> QED
    BY <1>2, <1>3, Zenon

LEMMA SynthesizeIs ==
    ASSUME NEW call, call.preset \subseteq Ips, NEW r \in Answers
    PROVE  synthesize(call, r) \in Answers
<1>1. \A S, f : FamilyOf(S, f) \subseteq Ips
    BY Zenon DEF FamilyOf, Ips
<1> DEFINE own == FamilyOf(call.preset, IF call.ask.typ = "a" THEN 4 ELSE 6)
           hint(f) == IF FamilyOf(r.ips, f) = {} \/ FamilyOf(call.preset, f) = {}
                      THEN FamilyOf(r.ips, f) ELSE {CHOOSE i \in FamilyOf(call.preset, f) : TRUE}
<1>2. \A f : hint(f) \subseteq Ips
    <2> SUFFICES ASSUME NEW f PROVE hint(f) \subseteq Ips
        BY Zenon
    <2>1. FamilyOf(call.preset, f) # {} =>
            (CHOOSE i \in FamilyOf(call.preset, f) : TRUE) \in FamilyOf(call.preset, f)
        BY Zenon
    <2> QED
        BY <1>1, <2>1, Zenon
<1> DEFINE both == hint(4) \cup hint(6)
<1>3. \/ synthesize(call, r) = [rc |-> "ok", ips |-> own, ttl |-> 0]
      \/ synthesize(call, r) = [r EXCEPT !.ips = both]
      \/ synthesize(call, r) = r
    BY Zenon DEF synthesize
<1>4. own \subseteq Ips /\ both \subseteq Ips
    BY <1>1, <1>2, Zenon
<1> HIDE DEF own, both
<1>5. [r EXCEPT !.ips = both] \in Answers
    BY <1>4, Zenon DEF Answers
<1>6. "ok" \in Rcs
    BY Zenon DEF Rcs
<1>7. [rc |-> "ok", ips |-> own, ttl |-> 0] \in Answers
    BY <1>4, <1>6, AnswerOf, Zenon
<1> QED
    BY <1>3, <1>5, <1>7, Zenon

\* The steps of a query before its end.
LEMMA QueryKeeps ==
    ASSUME DnsAlgConstants, Inv, NEW c \in Calls,
           qStart(c) \/ qp(c) \/ querySecondary(c) \/ secondaryTimeout(c) \/ qErr(c)
    PROVE  Inv'
<1>0. /\ MapsOK /\ calls \in [Calls -> Queries \cup {Nil}]
      /\ calls[c] # Nil => calls[c] \in Queries /\ CallOK(calls[c])
      /\ Nil \notin Tids /\ Nil # BlockAll /\ BlockAll # FixedTid
    BY Zenon DEF Inv, CallsOK, DnsAlgConstants
<1>1. CASE qStart(c)
    <2> DEFINE algd(a) == a.uid # MyUid /\ a.tun /\ mod
               usefixed(a) == ~usePreset(a) /\ algd(a) /\ a.t1 = FixedTid
               t1(a) == IF a.t1 = FixedTid THEN a.t2 ELSE a.t1
               synth(a) == usePreset(a) \/ usefixed(a)
               t2(a) == IF synth(a) THEN Nil ELSE a.t2
               preset(a) == IF usefixed(a) THEN FixedIps ELSE a.preset
               dontalg(a) == ~usefixed(a) /\ (usePreset(a) \/ skipInternalCache({a.t1, a.t2}))
               call(a) == [ask |-> a, at |-> now, mod |-> algd(a), uid |-> effUid(a.uid),
                           t1 |-> t1(a), t2 |-> t2(a), fixed |-> usefixed(a),
                           preset |-> preset(a), dontalg |-> dontalg(a),
                           id |-> Nil, pri |-> Nil, sec |-> Nil, pc |-> "query"]
    <2>1. PICK a \in Asks : calls' = [calls EXCEPT ![c] = IF t1(a) = Nil
                                        THEN [call(a) EXCEPT !.pc = "err"] ELSE call(a)]
        BY <1>1, Zenon DEF qStart
    <2>2. AskOK(a)
        BY Zenon DEF DnsAlgConstants
    <2>3. algd(a) \in BOOLEAN /\ usefixed(a) \in BOOLEAN /\ dontalg(a) \in BOOLEAN
        BY Zenon
    <2>4. effUid(a.uid) \in Uids /\ now \in Nat
        BY <1>0, <2>2, Zenon DEF effUid, AskOK, DnsAlgConstants, MapsOK
    <2>5. t1(a) \in Tids \cup {BlockAll, Nil} /\ t2(a) \in Tids \cup {BlockAll, Nil}
        BY <2>2, Zenon DEF AskOK
    <2>6. preset(a) \in SUBSET Ips
        BY <2>2, Zenon DEF AskOK, DnsAlgConstants
    <2>7. algd(a) => a.uid # MyUid
        BY Zenon
    <2>8. t1(a) # Nil => (t1(a) \in Tids \/ dontalg(a))
        BY <2>2, <1>0, Zenon DEF AskOK, skipInternalCache
    <2> DEFINE q == IF t1(a) = Nil THEN [call(a) EXCEPT !.pc = "err"] ELSE call(a)
               pc == IF t1(a) = Nil THEN "err" ELSE "query"
               m == algd(a)
               fx == usefixed(a)
               da == dontalg(a)
               uid == effUid(a.uid)
               x == t1(a)
               y == t2(a)
               pre == preset(a)
    <2>9. q = [ask |-> a, at |-> now, mod |-> m, uid |-> uid, t1 |-> x, t2 |-> y, fixed |-> fx,
               preset |-> pre, dontalg |-> da, id |-> Nil, pri |-> Nil, sec |-> Nil, pc |-> pc]
        BY Zenon
    <2>10. pc \in {"query", "err"} /\ (pc = "query" => x # Nil)
        BY Zenon
    <2>11. calls' = [calls EXCEPT ![c] = q]
        BY <2>1, Zenon
    <2> HIDE DEF q, pc, m, fx, da, uid, x, y, pre
    <2>12. q \in Queries
        BY <2>3, <2>4, <2>5, <2>6, <2>9, <2>10, Zenon DEF Queries, m, fx, da, uid, x, y, pre
    <2>13. CallOK(q)
        BY <2>7, <2>8, <2>9, <2>10, Zenon DEF CallOK, m, da, x
    <2> QED
        BY <1>1, <2>11, <2>12, <2>13, CallStep, Zenon DEF qStart
<1>2. CASE qp(c)
    <2> DEFINE call == calls[c]
               hit == fromInternalCache(call.ask, call.t1, call.uid, "real")
               made == call.ask.typ \in {"a", "aaaa"}
                       /\ FamilyOf(call.preset, IF call.ask.typ = "a" THEN 4 ELSE 6) # {}
               id == IF call.preset # {} /\ made THEN Preset
                     ELSE IF call.preset # {} /\ call.ask.typ = "svcb" THEN svcbId(call)
                     ELSE IF call.preset = {} /\ hit # NoAnswer THEN call.t1
                     ELSE IF call.t1 \in Tids THEN IdOf[call.t1] ELSE call.t1
               pri(r) == IF call.preset # {} THEN synthesize(call, r) ELSE r
    <2>1. PICK r \in Replies(call.ask) \cup {hit} :
            calls' = [calls EXCEPT ![c].id = id, ![c].pri = pri(r)]
        BY <1>2, Zenon DEF qp
    <2>2. call \in Queries /\ CallOK(call) /\ call.pc = "query"
        BY <1>0, <1>2, Zenon DEF qp
    <2>3. call.ask \in Asks /\ call.preset \subseteq Ips /\ call.t1 \in Tids \cup {BlockAll, Nil}
        BY <2>2, Zenon DEF Queries
    <2>4. r \in Answers
        <3>1. hit \in Answers
            BY <1>0, <2>3, CacheIs, Zenon
        <3>2. Replies(call.ask) \subseteq Answers
            BY <2>3, RepliesAre, Zenon
        <3> QED
            BY <3>1, <3>2, Zenon
    <2>5. pri(r) \in Answers
        BY <2>3, <2>4, SynthesizeIs, Zenon
    <2>6. id \in Tids \cup {BlockAll, Nil} /\ (call.t1 \in Tids => id \in Tids)
        BY <2>3, Zenon DEF DnsAlgConstants, svcbId
    <2> DEFINE x == pri(r)
               q == [call EXCEPT !.id = id, !.pri = x]
    <2> HIDE DEF id, x
    <2>7. calls' = [calls EXCEPT ![c] = q]
        BY <2>1, <1>0, Zenon DEF x
    <2>8. q \in Queries
        BY <2>2, <2>5, <2>6, ZenonT(60) DEF Queries, x
    <2>9. CallOK(q)
        BY <2>2, <2>6, ZenonT(60) DEF Queries, CallOK
    <2> HIDE DEF q
    <2> QED
        BY <1>2, <2>7, <2>8, <2>9, CallStep, Zenon DEF qp
<1>3. CASE querySecondary(c) \/ secondaryTimeout(c)
    <2> DEFINE call == calls[c]
    <2>1. call \in Queries /\ CallOK(call)
        BY <1>0, <1>3, Zenon DEF querySecondary, secondaryTimeout
    <2>2. PICK s \in Secs : calls' = [calls EXCEPT ![c].sec = s]
        <3>1. NoSec \in Secs
            <4>1. FALSE \in BOOLEAN
                BY Zenon
            <4> QED
                BY <4>1, Zenon DEF NoSec, Secs
        <3>2. ASSUME NEW S \in SUBSET Ips, NEW b \in BOOLEAN
              PROVE  [ips |-> S, lists |-> b] \in Secs
            BY Zenon DEF Secs
        <3>3. CASE secondaryTimeout(c)
            BY <3>1, <3>3, Zenon DEF secondaryTimeout
        <3>4. CASE querySecondary(c)
            <4> DEFINE hit == fromInternalCache(call.ask, call.t2, call.uid, "sec")
                       svcb == IF call.ask.typ = "svcb" THEN {} ELSE {AnyIp}
            <4>1. PICK r \in Replies(call.ask) \cup {hit} \cup (IF call.pri = Nil THEN {} ELSE {call.pri}) :
                    \E blockQ \in BOOLEAN, blockA \in BOOLEAN :
                      calls' = [calls EXCEPT ![c].sec =
                         IF call.ask.typ = "txt" THEN NoSec
                         ELSE IF blockQ THEN [ips |-> svcb, lists |-> TRUE]
                         ELSE IF r.rc # "ok" \/ r.ips = {} THEN NoSec
                         ELSE IF blockA THEN [ips |-> {AnyIp}, lists |-> TRUE]
                         ELSE IF AnyIp \in r.ips THEN [ips |-> {AnyIp}, lists |-> FALSE]
                         ELSE [ips |-> r.ips, lists |-> FALSE]]
                BY <3>4, Zenon DEF querySecondary
            <4>2. r \in Answers
                <5>1. call.ask \in Asks /\ call.pri \in Answers \cup {Nil}
                    BY <2>1, Zenon DEF Queries
                <5>2. hit \in Answers /\ Replies(call.ask) \subseteq Answers
                    BY <1>0, <5>1, CacheIs, RepliesAre, Zenon
                <5> QED
                    BY <5>1, <5>2, Zenon
            <4>3. r.ips \in SUBSET Ips /\ {AnyIp} \in SUBSET Ips /\ svcb \in SUBSET Ips
                BY <4>2, Zenon DEF Answers, Ips
            <4> DEFINE x == [ips |-> svcb, lists |-> TRUE]
                       y == [ips |-> {AnyIp}, lists |-> TRUE]
                       z == [ips |-> {AnyIp}, lists |-> FALSE]
                       w == [ips |-> r.ips, lists |-> FALSE]
            <4> HIDE DEF svcb
            <4>4. x \in Secs /\ y \in Secs /\ z \in Secs /\ w \in Secs
                BY <3>2, <4>3, Zenon
            <4> HIDE DEF x, y, z, w
            <4>5. \E s \in {NoSec, x, y, z, w} : calls' = [calls EXCEPT ![c].sec = s]
                BY <4>1, Zenon DEF x, y, z, w
            <4> QED
                BY <3>1, <4>4, <4>5, Zenon
        <3> QED
            BY <1>3, <3>3, <3>4, Zenon
    <2> DEFINE q == [call EXCEPT !.sec = s]
    <2>3. calls' = [calls EXCEPT ![c] = q]
        BY <2>2, <1>0, Zenon
    <2>4. q \in Queries
        BY <2>1, Zenon DEF Queries
    <2>5. CallOK(q)
        BY <2>1, Zenon DEF Queries, CallOK
    <2> HIDE DEF q
    <2> QED
        BY <1>3, <2>3, <2>4, <2>5, CallStep, Zenon DEF querySecondary, secondaryTimeout
<1>5. CASE qErr(c)
    <2>1. calls' = [calls EXCEPT ![c] = Nil]
        BY <1>5, Zenon DEF qErr
    <2> QED
        BY <1>5, <2>1, CallStep, Zenon DEF qErr
<1> QED
    BY <1>1, <1>2, <1>3, <1>5, Zenon

\* The maps and what was told of them are the same: a change of settings.
LEMMA SettingsKeep ==
    ASSUME DnsAlgConstants, Inv, (\E m \in Modes : translate(m[1], m[2])) \/ splitTunnel
    PROVE  Inv'
<1>1. UNCHANGED <<now, alg, nat, ptr, calls, stopped, told>>
    BY Zenon DEF translate, splitTunnel
<1>2. mod' \in BOOLEAN /\ fix' \in BOOLEAN /\ split' \in BOOLEAN
    <2>1. mod \in BOOLEAN /\ fix \in BOOLEAN /\ split \in BOOLEAN
        BY Zenon DEF Inv, MapsOK
    <2>2. CASE splitTunnel
        BY <2>1, <2>2, Zenon DEF splitTunnel
    <2>3. CASE \E m \in Modes : translate(m[1], m[2])
        <3>1. PICK m \in Modes : translate(m[1], m[2])
            BY <2>3, Zenon
        <3>2. m[1] \in BOOLEAN /\ m[2] \in BOOLEAN
            BY Zenon DEF DnsAlgConstants
        <3>3. mod' = m[1] /\ fix' = m[2] /\ split' = split
            BY <3>1, Zenon DEF translate
        <3> QED
            BY <2>1, <3>2, <3>3, Zenon
    <2> QED
        BY <2>2, <2>3, Zenon
<1>3. MapsOK'
    <2>1. NatMatchesAlg' /\ \A k \in Keys : alg'[k] # Nil => ListedIn(k, alg'[k].ips, ptr')
        BY <1>1, Zenon DEF Inv, MapsOK, NatMatchesAlg, ListedIn
    <2>2. /\ now' \in Nat \ {0} /\ now' <= MaxNow /\ alg' \in [Keys -> Algans \cup {Nil}]
          /\ nat' \in [AlgIps -> Keys \cup {Nil}] /\ ptr' \in [Ips -> SUBSET Keys]
        BY <1>1, Zenon DEF Inv, MapsOK
    <2> QED
        BY <1>2, <2>1, <2>2, Zenon DEF MapsOK
<1>4. CallsOK' /\ StoppedOK' /\ ToldOK'
    BY <1>1, Zenon DEF Inv, CallsOK, StoppedOK, ToldOK
<1> QED
    BY <1>3, <1>4, Zenon DEF Inv

LEMMA StopKeeps ==
    ASSUME DnsAlgConstants, Inv, stop
    PROVE  Inv'
<1>1. /\ alg' = [k \in Keys |-> Nil] /\ nat' = [i \in AlgIps |-> Nil]
      /\ ptr' = [i \in Ips |-> {}] /\ stopped' = {} /\ told' = {}
      /\ UNCHANGED <<now, mod, fix, split, calls>>
    BY Zenon DEF stop
<1>2. MapsOK'
    <2>1. NatMatchesAlg' /\ \A k \in Keys : alg'[k] # Nil => ListedIn(k, alg'[k].ips, ptr')
        BY <1>1, Zenon DEF NatMatchesAlg
    <2>2. /\ alg' \in [Keys -> Algans \cup {Nil}]
          /\ nat' \in [AlgIps -> Keys \cup {Nil}] /\ ptr' \in [Ips -> SUBSET Keys]
        BY <1>1, Zenon
    <2>3. /\ now' \in Nat \ {0} /\ now' <= MaxNow
          /\ mod' \in BOOLEAN /\ fix' \in BOOLEAN /\ split' \in BOOLEAN
        BY <1>1, Zenon DEF Inv, MapsOK
    <2> QED
        BY <2>1, <2>2, <2>3, Zenon DEF MapsOK
<1>3. CallsOK' /\ StoppedOK' /\ ToldOK'
    BY <1>1, Zenon DEF Inv, CallsOK, StoppedOK, ToldOK
<1> QED
    BY <1>2, <1>3, Zenon DEF Inv

LEMMA TickKeeps ==
    ASSUME DnsAlgConstants, Inv, Tick
    PROVE  Inv'
<1>1. /\ now' = now + 1 /\ now < MaxNow /\ told' \subseteq told
      /\ UNCHANGED <<mod, fix, split, alg, nat, ptr, calls, stopped>>
    BY Zenon DEF Tick
<1>2. now \in Nat \ {0} /\ MaxNow \in Nat /\ StaleThres \in Nat
    BY Zenon DEF Inv, MapsOK, DnsAlgConstants
<1>3. MapsOK'
    <2>1. NatMatchesAlg' /\ \A k \in Keys : alg'[k] # Nil => ListedIn(k, alg'[k].ips, ptr')
        BY <1>1, Zenon DEF Inv, MapsOK, NatMatchesAlg, ListedIn
    <2>2. /\ alg' \in [Keys -> Algans \cup {Nil}]
          /\ nat' \in [AlgIps -> Keys \cup {Nil}] /\ ptr' \in [Ips -> SUBSET Keys]
          /\ mod' \in BOOLEAN /\ fix' \in BOOLEAN /\ split' \in BOOLEAN
        BY <1>1, Zenon DEF Inv, MapsOK
    <2>3. now' \in Nat \ {0} /\ now' <= MaxNow
        BY <1>1, <1>2, SMTT(60)
    <2> QED
        BY <2>1, <2>2, <2>3, Zenon DEF MapsOK
<1>4. CallsOK' /\ StoppedOK'
    BY <1>1, Zenon DEF Inv, CallsOK, StoppedOK
<1>5. ASSUME NEW e \in told'
      PROVE  e \in Tellings /\ KeptBy(e, alg'[e.key], now')
    <2>1. e \in Tellings /\ KeptBy(e, alg[e.key], now)
        BY <1>1, <1>5, Zenon DEF Inv, ToldOK
    <2>2. e.at \in Nat /\ e.ttl \in Nat
        BY <2>1, ZenonT(60) DEF Tellings
    <2>3. KeptBy(e, alg[e.key], now + 1)
        BY <1>2, <2>1, <2>2, SMTT(60) DEF KeptBy
    <2> QED
        BY <1>1, <2>1, <2>3, Zenon
<1> QED
    BY <1>3, <1>4, <1>5, Zenon DEF Inv, ToldOK

\* What toldEnds ends is still of type, and the rest is as it was.
LEMMA ToldEndsIs ==
    ASSUME NEW tid, told \subseteq Tellings, NEW e \in toldEnds(tid)
    PROVE  \E o \in told :
             /\ e \in Tellings /\ e.key = o.key /\ e.algip = o.algip /\ e.real = o.real
             /\ e.blocked = o.blocked /\ e.tid = o.tid /\ e.uid = o.uid /\ e.app = o.app
             /\ e.at = o.at /\ e.ttl = o.ttl /\ e.given = o.given
             /\ ~e.ended => ~o.ended /\ ~HasPrefix(<<o.tid, o.uid>>, tid)
<1>1. PICK o \in told : e = IF HasPrefix(<<o.tid, o.uid>>, tid) THEN [o EXCEPT !.ended = TRUE] ELSE o
    BY Zenon DEF toldEnds
<1>2. o \in Tellings
    BY Zenon
<1>3. CASE HasPrefix(<<o.tid, o.uid>>, tid)
    <2>1. e = [o EXCEPT !.ended = TRUE]
        BY <1>1, <1>3, Zenon
    <2>2. e \in Tellings
        BY <1>2, <2>1, Zenon DEF Tellings
    <2> QED
        BY <1>2, <2>1, <2>2, Zenon DEF Tellings
<1>4. CASE ~HasPrefix(<<o.tid, o.uid>>, tid)
    BY <1>1, <1>2, <1>4, Zenon
<1> QED
    BY <1>3, <1>4, Zenon

LEMMA OnStoppedKeeps ==
    ASSUME DnsAlgConstants, Inv, NEW tid \in StopTids, onStopped(tid)
    PROVE  Inv'
<1>1. /\ told' = toldEnds(tid) /\ UNCHANGED <<now, mod, fix, split, alg, nat, ptr, calls>>
    BY Zenon DEF onStopped
<1>2. MapsOK' /\ CallsOK'
    BY <1>1, Zenon DEF Inv, MapsOK, NatMatchesAlg, ListedIn, CallsOK
<1>3. StoppedOK'
    BY <1>1, SMTT(60) DEF Inv, StoppedOK, onStopped
<1>4. ASSUME NEW e \in told'
      PROVE  e \in Tellings /\ KeptBy(e, alg'[e.key], now')
    <2>1. told \subseteq Tellings /\ \A o \in told : KeptBy(o, alg[o.key], now)
        BY Zenon DEF Inv, ToldOK
    <2>2. PICK o \in told :
             /\ e \in Tellings /\ e.key = o.key /\ e.algip = o.algip /\ e.real = o.real
             /\ e.blocked = o.blocked /\ e.tid = o.tid /\ e.uid = o.uid /\ e.app = o.app
             /\ e.at = o.at /\ e.ttl = o.ttl /\ e.given = o.given
             /\ ~e.ended => ~o.ended /\ ~HasPrefix(<<o.tid, o.uid>>, tid)
        BY <1>1, <1>4, <2>1, ToldEndsIs, Zenon
    <2>3. KeptBy(o, alg[o.key], now)
        BY <2>1, Zenon
    <2>4. KeptBy(e, alg[e.key], now)
        BY <2>2, <2>3, Zenon DEF KeptBy
    <2> QED
        BY <1>1, <2>2, <2>4, Zenon
<1> QED
    BY <1>2, <1>3, <1>4, Zenon DEF Inv, ToldOK

\* The entry b is a without what transport tid has: what others hold, and what
\* is recent, stays.
Dropped(a, b, tid, n) ==
    /\ b \in Algans /\ b.algip = a.algip /\ b.ttl = a.ttl
    /\ \A t \in Tids : t # tid => b.ips.pri[t] = a.ips.pri[t]
    /\ \A k \in AuxKeys : ~HasPrefix(k, tid) => /\ b.ips.aux[k] = a.ips.aux[k]
                                                /\ b.domains.pri[k] = a.domains.pri[k]
    /\ \A S : \A t \in Tids, at \in 1 .. n :
         (n - at <= StaleThres /\ Recent(a.ips, t, S, at)) => Recent(b.ips, t, S, at)
    /\ \A k, P : ListedIn(k, a.ips, P) => ListedIn(k, b.ips, P)

LEMMA RmvKeeps ==
    ASSUME StaleThres \in Nat, NEW n \in Nat \ {0}, NEW a \in Algans, NEW tid \in Tids, NEW b,
           \/ b = [a EXCEPT !.ips = xipsRmv(@, tid, n)]
           \/ b = [a EXCEPT !.domains = domainsRmv(@, tid, n)]
    PROVE  Dropped(a, b, tid, n)
<1>0. a.ips \in Xips /\ a.domains \in Xdomains
    BY Zenon DEF Algans
<1>1. CASE b = [a EXCEPT !.ips = xipsRmv(@, tid, n)]
    <2> DEFINE p == a.ips
               r == xipsRmv(p, tid, n)
    <2>1. /\ r \in Xips
          /\ \A t \in Tids :
               /\ r.pri[t].val = p.pri[t].val /\ r.pri[t].dob = p.pri[t].dob
               /\ t # tid => r.pri[t] = p.pri[t]
               /\ r.past[t].val \subseteq p.past[t].val \cup p.pri[t].val
               /\ withinStaleThres(p.past[t], n) => /\ p.past[t].val \subseteq r.past[t].val
                                                    /\ r.past[t].dob >= p.past[t].dob
          /\ \A k \in AuxKeys : /\ r.aux[k].val = p.aux[k].val
                                /\ ~HasPrefix(k, tid) => r.aux[k] = p.aux[k]
        BY <1>0, XipsRmvIs, SMTT(60)
    <2> HIDE DEF r
    <2>2. b.ips = r /\ b.domains = a.domains /\ b.algip = a.algip /\ b.ttl = a.ttl /\ b \in Algans
        BY <1>1, <2>1, Zenon DEF Algans, r
    <2>3. ASSUME NEW t \in Tids, NEW S, NEW at \in 1 .. n, n - at <= StaleThres, Recent(p, t, S, at)
          PROVE  Recent(r, t, S, at)
        <3>1. p.past[t].dob \in Nat /\ r.past[t].dob \in Nat
            BY <1>0, <2>1, Zenon DEF Xips, Exp
        <3>2. p.past[t].dob >= at => withinStaleThres(p.past[t], n)
            BY <3>1, <2>3, SMTT(60) DEF withinStaleThres
        <3>3. ASSUME NEW i \in S
              PROVE  \/ i \in r.pri[t].val /\ r.pri[t].dob >= at
                     \/ i \in r.past[t].val /\ r.past[t].dob >= at
            <4>1. CASE i \in p.pri[t].val /\ p.pri[t].dob >= at
                BY <4>1, <2>1, Zenon
            <4>2. CASE i \in p.past[t].val /\ p.past[t].dob >= at
                BY <4>2, <3>1, <3>2, <2>1, SMTT(60)
            <4> QED
                BY <4>1, <4>2, <2>3, <3>3, Zenon DEF Recent
        <3> QED
            BY <3>3, Zenon DEF Recent
    <2>4. \A k, P : ListedIn(k, p, P) => ListedIn(k, r, P)
        BY <2>1, Zenon DEF ListedIn
    <2> QED
        BY <2>1, <2>2, <2>3, <2>4, Zenon DEF Dropped
<1>2. CASE b = [a EXCEPT !.domains = domainsRmv(@, tid, n)]
    <2> DEFINE r == domainsRmv(a.domains, tid, n)
    <2>1. r \in Xdomains /\ \A k \in AuxKeys : ~HasPrefix(k, tid) => r.pri[k] = a.domains.pri[k]
        BY <1>0, DomainsRmvIs, SMTT(60)
    <2> HIDE DEF r
    <2>2. b.ips = a.ips /\ b.domains = r /\ b.algip = a.algip /\ b.ttl = a.ttl /\ b \in Algans
        BY <1>2, <2>1, Zenon DEF Algans, r
    <2> QED
        BY <2>1, <2>2, Zenon DEF Dropped
<1> QED
    BY <1>1, <1>2, Zenon

LEMMA OnStoppedRmvKeeps ==
    ASSUME DnsAlgConstants, Inv, NEW s \in stopped, onStoppedRmv(s)
    PROVE  Inv'
<1> DEFINE tid == s.tid
           drop(a) == IF s.ips # {} THEN [a EXCEPT !.ips = xipsRmv(@, tid, now)]
                      ELSE [a EXCEPT !.domains = domainsRmv(@, tid, now)]
           rest(k) == IF s.ips # {} THEN [s EXCEPT !.ips = @ \ {k}] ELSE [s EXCEPT !.doms = @ \ {k}]
<1>1. PICK k \in IF s.ips # {} THEN s.ips ELSE s.doms :
        /\ alg' = [alg EXCEPT ![k] = drop(alg[k])]
        /\ stopped' = (stopped \ {s}) \cup (IF rest(k).doms = {} THEN {} ELSE {rest(k)})
    BY Zenon DEF onStoppedRmv
<1>2. told' = toldEnds(tid) /\ UNCHANGED <<now, mod, fix, split, nat, ptr, calls>>
    BY Zenon DEF onStoppedRmv
<1>3. /\ s \in [tid : StopTids, ips : SUBSET Keys, doms : SUBSET Keys] /\ tid \in Tids
      /\ k \in Keys /\ alg[k] # Nil /\ now \in Nat \ {0} /\ StaleThres \in Nat
      /\ alg \in [Keys -> Algans \cup {Nil}] /\ Nil \notin Algans
    BY Zenon DEF Inv, StoppedOK, MapsOK, DnsAlgConstants
<1> DEFINE a == alg[k]
           b == drop(a)
           n == now
<1>4. Dropped(a, b, tid, n)
    <2>1. /\ a \in Algans /\ n \in Nat \ {0} /\ tid \in Tids
          /\ \/ b = [a EXCEPT !.ips = xipsRmv(@, tid, n)]
             \/ b = [a EXCEPT !.domains = domainsRmv(@, tid, n)]
        BY <1>3, Zenon
    <2> HIDE DEF a, b, n, tid
    <2> QED
        BY <1>3, <2>1, RmvKeeps, Zenon
<1> HIDE DEF drop
<1>5. \A y \in Keys : alg'[y] = IF y = k THEN b ELSE alg[y]
    BY <1>1, <1>3, Zenon
<1>6. alg' \in [Keys -> Algans \cup {Nil}] /\ \A y \in Keys : alg[y] # Nil => alg'[y] # Nil
    BY <1>1, <1>3, <1>4, Zenon DEF Dropped
<1>7. MapsOK'
    <2>1. NatMatchesAlg'
        <3>1. NatMatchesAlg /\ nat \in [AlgIps -> Keys \cup {Nil}]
            BY ZenonT(60) DEF Inv, MapsOK
        <3>2. \A y \in Keys : (alg'[y] = Nil) = (alg[y] = Nil) /\ (alg[y] # Nil => alg'[y].algip = alg[y].algip)
            BY <1>3, <1>4, <1>5, SMTT(60) DEF Dropped
        <3>3. \A y \in Keys : alg'[y] # Nil => nat'[alg'[y].algip] = y
            BY <3>1, <3>2, <1>2, Zenon DEF NatMatchesAlg
        <3>4. \A i \in AlgIps : nat'[i] # Nil => alg'[nat'[i]] # Nil /\ alg'[nat'[i]].algip = i
            BY <3>1, <3>2, <1>2, Zenon DEF NatMatchesAlg
        <3> QED
            BY <3>3, <3>4, Zenon DEF NatMatchesAlg
    <2>2. \A y \in Keys : alg'[y] # Nil => ListedIn(y, alg'[y].ips, ptr')
        <3>1. \A y \in Keys : alg[y] # Nil => ListedIn(y, alg[y].ips, ptr)
            BY Zenon DEF Inv, MapsOK
        <3> QED
            BY <3>1, <1>2, <1>3, <1>4, <1>5, Zenon DEF Dropped
    <2>3. /\ now' \in Nat \ {0} /\ now' <= MaxNow
          /\ mod' \in BOOLEAN /\ fix' \in BOOLEAN /\ split' \in BOOLEAN
          /\ nat' \in [AlgIps -> Keys \cup {Nil}] /\ ptr' \in [Ips -> SUBSET Keys]
        BY <1>2, Zenon DEF Inv, MapsOK
    <2> QED
        BY <1>6, <2>1, <2>2, <2>3, Zenon DEF MapsOK
<1>8. CallsOK'
    BY <1>2, Zenon DEF Inv, CallsOK
<1>9. StoppedOK'
    <2>1. /\ rest(k) \in [tid : StopTids, ips : SUBSET Keys, doms : SUBSET Keys]
          /\ rest(k).ips \subseteq s.ips /\ rest(k).doms \subseteq s.doms
        BY <1>3, Zenon
    <2> HIDE DEF rest
    <2>2. stopped' \subseteq stopped \cup {rest(k)}
        BY <1>1, Zenon
    <2>3. ASSUME NEW u \in stopped'
          PROVE  u \in [tid : StopTids, ips : SUBSET Keys, doms : SUBSET Keys]
                 /\ \A y \in u.ips \cup u.doms : alg'[y] # Nil
        <3>1. CASE u \in stopped
            BY <3>1, <1>6, Zenon DEF Inv, StoppedOK
        <3>2. CASE u = rest(k)
            BY <3>2, <2>1, <1>3, <1>6, Zenon DEF Inv, StoppedOK
        <3> QED
            BY <2>2, <2>3, <3>1, <3>2, Zenon
    <2> QED
        BY <2>3, Zenon DEF StoppedOK
<1>10. ASSUME NEW e \in told'
       PROVE  e \in Tellings /\ KeptBy(e, alg'[e.key], now')
    <2>1. told \subseteq Tellings /\ \A o \in told : KeptBy(o, alg[o.key], now)
        BY Zenon DEF Inv, ToldOK
    <2>2. PICK o \in told :
             /\ e \in Tellings /\ e.key = o.key /\ e.algip = o.algip /\ e.real = o.real
             /\ e.blocked = o.blocked /\ e.tid = o.tid /\ e.uid = o.uid /\ e.app = o.app
             /\ e.at = o.at /\ e.ttl = o.ttl /\ e.given = o.given
             /\ ~e.ended => ~o.ended /\ ~HasPrefix(<<o.tid, o.uid>>, tid)
        BY <1>2, <1>10, <2>1, ToldEndsIs, Zenon
    <2>3. KeptBy(o, alg[o.key], now)
        BY <2>1, Zenon
    <2>4. KeptBy(e, alg[e.key], now)
        BY <2>2, <2>3, Zenon DEF KeptBy
    <2>5. CASE e.key # k
        BY <2>2, <2>4, <2>5, <1>2, <1>5, Zenon DEF Tellings
    <2>6. CASE e.key = k
        <3>1. /\ e.tid \in Tids /\ <<e.tid, e.uid>> \in AuxKeys /\ e.at \in 1 .. n /\ alg'[e.key] = b
              /\ b # Nil
            <4>1. e.tid \in Tids /\ <<e.tid, e.uid>> \in AuxKeys /\ e.at \in Nat
                BY <2>2, Zenon DEF Tellings, AuxKeys
            <4>2. alg'[e.key] = b /\ b # Nil
                BY <2>6, <1>3, <1>4, <1>5, Zenon DEF Dropped
            <4>3. 1 <= e.at /\ e.at <= n /\ n \in Nat
                BY <2>4, <1>4, Zenon DEF KeptBy, Dropped, Inv, MapsOK
            <4> HIDE DEF a, b, n
            <4> QED
                BY <4>1, <4>2, <4>3, SMTT(60)
        <3>2. ~e.ended => /\ b.ips.pri[e.tid] = a.ips.pri[e.tid]
                          /\ b.ips.aux[<<e.tid, e.uid>>] = a.ips.aux[<<e.tid, e.uid>>]
                          /\ b.domains.pri[<<e.tid, e.uid>>] = a.domains.pri[<<e.tid, e.uid>>]
            <4>1. SUFFICES ASSUME ~e.ended
                           PROVE  /\ b.ips.pri[e.tid] = a.ips.pri[e.tid]
                                  /\ b.ips.aux[<<e.tid, e.uid>>] = a.ips.aux[<<e.tid, e.uid>>]
                                  /\ b.domains.pri[<<e.tid, e.uid>>] = a.domains.pri[<<e.tid, e.uid>>]
                BY Zenon
            <4>2. ~HasPrefix(<<e.tid, e.uid>>, tid) /\ e.tid # tid
                BY <2>2, <4>1, Zenon DEF HasPrefix
            <4> HIDE DEF a, b, tid
            <4> QED
                BY <1>4, <3>1, <4>2, Zenon DEF Dropped
        <3>3. n - e.at <= StaleThres => Recent(b.ips, e.tid, e.real, e.at)
            <4>1. n - e.at <= StaleThres => Recent(a.ips, e.tid, e.real, e.at)
                BY <2>4, <2>6, Zenon DEF KeptBy
            <4> HIDE DEF a, b, n, tid
            <4> QED
                BY <1>4, <3>1, <4>1, Zenon DEF Dropped
        <3>4. KeptBy(e, a, n) /\ b.algip = a.algip /\ b.ttl = a.ttl
            BY <2>4, <2>6, <1>4, Zenon DEF Dropped
        <3> HIDE DEF a, b, n
        <3>5. KeptBy(e, b, n)
            BY <3>1, <3>2, <3>3, <3>4, Zenon DEF KeptBy
        <3> QED
            BY <2>2, <3>1, <3>5, <1>2, ZenonT(60) DEF n
    <2> QED
        BY <2>5, <2>6, Zenon
<1> QED
    BY <1>7, <1>8, <1>9, <1>10, Zenon DEF Inv, ToldOK

\* The maps of the gateway agree with each other and with what apps were told.
THEOREM GatewayInvariant ==
    ASSUME DnsAlgConstants
    PROVE  Spec => []Inv
<1>1. Init => Inv
    BY InitInv, Zenon
<1>2. Inv /\ [Next]_vars => Inv'
    <2> SUFFICES ASSUME Inv, [Next]_vars
                 PROVE  Inv'
        BY Zenon
    <2>1. CASE UNCHANGED vars
        <3>1. UNCHANGED <<now, mod, fix, split, alg, nat, ptr, calls, stopped, told>>
            BY <2>1, Zenon DEF vars
        <3>2. MapsOK'
            BY <3>1, Zenon DEF Inv, MapsOK, NatMatchesAlg, ListedIn
        <3>3. CallsOK' /\ StoppedOK' /\ ToldOK'
            BY <3>1, Zenon DEF Inv, CallsOK, StoppedOK, ToldOK
        <3> QED
            BY <3>2, <3>3, Zenon DEF Inv
    <2>2. CASE Next
        <3>1. ASSUME NEW c \in Calls, \/ qStart(c) \/ qp(c) \/ querySecondary(c) \/ secondaryTimeout(c)
                                      \/ qErr(c)
              PROVE  Inv'
            BY <3>1, QueryKeeps, Zenon
        <3>2. ASSUME NEW c \in Calls, qEnd(c)
              PROVE  Inv'
            BY <3>2, QEndKeeps, Zenon
        <3>3. CASE (\E m \in Modes : translate(m[1], m[2])) \/ splitTunnel
            BY <3>3, SettingsKeep, Zenon
        <3>4. CASE \E tid \in StopTids : onStopped(tid)
            BY <3>4, OnStoppedKeeps, Zenon
        <3>5. CASE \E s \in stopped : onStoppedRmv(s)
            BY <3>5, OnStoppedRmvKeeps, Zenon
        <3>6. CASE stop
            BY <3>6, StopKeeps, Zenon
        <3>7. CASE Tick
            BY <3>7, TickKeeps, Zenon
        <3> QED
            BY <2>2, <3>1, <3>2, <3>3, <3>4, <3>5, <3>6, <3>7, Zenon DEF Next
    <2> QED
        BY <2>1, <2>2, Zenon
<1> QED
    BY <1>1, <1>2, PTL DEF Spec

\* A live telling: its entry is there, found by nat, and holds the answer yet.
LEMMA LiveTelling ==
    ASSUME DnsAlgConstants, Inv, NEW e \in told
    PROVE  /\ e \in Tellings /\ e.key \in Keys /\ alg[e.key] \in Algans /\ alg[e.key] # Nil
           /\ e.algip \in AlgIps /\ nat[e.algip] = e.key /\ nat[e.algip] # Nil
           /\ alg[e.key].algip = e.algip /\ <<e.tid, e.uid>> \in AuxKeys
           /\ e.given => e.app # MyUid
           /\ live(e) => /\ isFresh(alg[e.key])
                         /\ e.real # {} => /\ fresh(alg[e.key].ips.pri[e.tid], now)
                                           /\ e.real \subseteq alg[e.key].ips.pri[e.tid].val
                         /\ e.blocked => LET x == alg[e.key].ips.aux[<<e.tid, e.uid>>]
                                         IN  fresh(x, now) /\ AnyIp \in x.val
                         /\ LET x == alg[e.key].domains.pri[<<e.tid, e.uid>>]
                            IN  fresh(x, now) /\ e.key[1] \in x.val
<1>1. /\ e \in Tellings /\ KeptBy(e, alg[e.key], now) /\ e.key \in Keys
      /\ <<e.tid, e.uid>> \in AuxKeys /\ e.tid \in Tids /\ e.at \in Nat /\ e.ttl \in Nat
    BY Zenon DEF Inv, ToldOK, Tellings, AuxKeys
<1> DEFINE a == alg[e.key]
           u == e.at + e.ttl
           k == <<e.tid, e.uid>>
<1>2. a \in Algans /\ a # Nil /\ a.algip = e.algip /\ a.ttl >= u /\ (e.given => e.app # MyUid)
    BY <1>1, ZenonT(60) DEF KeptBy, Inv, MapsOK
<1>3. e.algip \in AlgIps /\ nat[e.algip] = e.key /\ nat[e.algip] # Nil
    BY <1>1, <1>2, SMTT(60) DEF Inv, MapsOK, NatMatchesAlg, DnsAlgConstants, Tellings
<1>4. now \in Nat
    BY Zenon DEF Inv, MapsOK
<1>5. ASSUME live(e)
      PROVE  /\ isFresh(a)
             /\ e.real # {} => fresh(a.ips.pri[e.tid], now) /\ e.real \subseteq a.ips.pri[e.tid].val
             /\ e.blocked => fresh(a.ips.aux[k], now) /\ AnyIp \in a.ips.aux[k].val
             /\ fresh(a.domains.pri[k], now) /\ e.key[1] \in a.domains.pri[k].val
    <2>1. u > now /\ ~e.ended /\ u \in Nat
        BY <1>1, <1>5, SMTT(60) DEF live
    <2>2. /\ Holds(a.ips.pri[e.tid], e.real, u)
          /\ e.blocked => Holds(a.ips.aux[k], {AnyIp}, u)
          /\ Holds(a.domains.pri[k], {e.key[1]}, u)
        BY <1>1, <2>1, Zenon DEF KeptBy
    <2>3. /\ a.ttl \in Nat /\ a.ips.pri[e.tid].ttl \in Nat /\ a.ips.aux[k].ttl \in Nat
          /\ a.domains.pri[k].ttl \in Nat
        <3>1. a.ips \in Xips /\ a.domains \in Xdomains /\ a.ttl \in Nat
            BY <1>2, Zenon DEF Algans
        <3>2. /\ a.ips.pri[e.tid] \in Exp(Ips) /\ a.ips.aux[k] \in Exp(Ips)
              /\ a.domains.pri[k] \in Exp(Domains)
            BY <1>1, <3>1, Zenon DEF Xips, Xdomains
        <3> QED
            BY <3>1, <3>2, Zenon DEF Exp
    <2> HIDE DEF u, a, k
    <2>4. isFresh(a)
        BY <1>2, <1>4, <2>1, <2>3, SMTT(60) DEF isFresh
    <2>5. e.real # {} => fresh(a.ips.pri[e.tid], now) /\ e.real \subseteq a.ips.pri[e.tid].val
        BY <1>4, <2>1, <2>2, <2>3, SMTT(60) DEF Holds, fresh
    <2>6. e.blocked => fresh(a.ips.aux[k], now) /\ AnyIp \in a.ips.aux[k].val
        BY <1>4, <2>1, <2>2, <2>3, SMTT(60) DEF Holds, fresh
    <2>7. fresh(a.domains.pri[k], now) /\ e.key[1] \in a.domains.pri[k].val
        BY <1>4, <2>1, <2>2, <2>3, SMTT(60) DEF Holds, fresh
    <2> QED
        BY <2>4, <2>5, <2>6, <2>7, Zenon
<1> QED
    BY <1>1, <1>2, <1>3, <1>5, Zenon

LEMMA InvTypes ==
    ASSUME DnsAlgConstants, Inv
    PROVE  TypeOK
<1>1. /\ now \in 1 .. MaxNow /\ nat \in [AlgIps -> Keys \cup {Nil}] /\ ptr \in [Ips -> SUBSET Keys]
    BY SMTT(60) DEF Inv, MapsOK, DnsAlgConstants
<1>2. {mod, fix, split} \subseteq BOOLEAN
    <2>1. mod \in BOOLEAN /\ fix \in BOOLEAN /\ split \in BOOLEAN
        BY Zenon DEF Inv, MapsOK
    <2> QED
        BY <2>1, Zenon
<1>3. \A k \in Keys : alg[k] # Nil => alg[k].algip \in AlgIps /\ alg[k].ttl \in Nat
    BY Zenon DEF Inv, MapsOK, Algans
<1> QED
    BY <1>1, <1>2, <1>3, Zenon DEF TypeOK

LEMMA InvUndoes ==
    ASSUME DnsAlgConstants, Inv
    PROVE  UndoGivesAnswer
<1> SUFFICES ASSUME NEW e \in told, e.given, live(e), e.real # {}
             PROVE  LET r == X(e.algip, e.app)
                    IN  \/ e.real \subseteq r
                        \/ r # {} /\ r \subseteq Ip4 /\ undoNat64(e.real) \subseteq r
    BY Zenon DEF UndoGivesAnswer
<1> DEFINE uid == effUid(e.app)
           s == IF ~mod THEN "all" ELSE "alive"
           p == alg[e.key].ips
           keys == IF uid = MyUid THEN {}
                   ELSE IF e.algip \in AlgIps /\ nat[e.algip] # Nil THEN {nat[e.algip]}
                   ELSE IF e.algip \in Ips THEN ptr[e.algip] ELSE {}
           real == UNION {realips(alg[k].ips, uid, s, now) : k \in keys}
           un == undoNat64(IF real = {} THEN {e.algip} ELSE real)
<1>1. X(e.algip, e.app) =
        IF un # {} THEN un ELSE IF real = {} /\ keys = {} THEN {e.algip} ELSE real
    BY Zenon DEF X, xLocked
<1>2. /\ e.tid \in Tids /\ e.app # MyUid /\ e.algip \in AlgIps
      /\ nat[e.algip] = e.key /\ nat[e.algip] # Nil
      /\ fresh(p.pri[e.tid], now) /\ e.real \subseteq p.pri[e.tid].val
    BY LiveTelling, Zenon DEF Tellings
<1>3. uid # MyUid
    BY <1>2, Zenon DEF effUid, DnsAlgConstants
<1> HIDE DEF uid
<1>4. keys = {e.key}
    BY <1>2, <1>3, Zenon
<1> HIDE DEF keys
<1>5. e.real \subseteq realips(p, uid, s, now)
    <2>1. e.real \subseteq get(p.pri[e.tid], s, now)
        BY <1>2, Zenon DEF get
    <2> HIDE DEF s, p
    <2>2. get(p.pri[e.tid], s, now) \subseteq allips(p, "pri", s, now)
        BY <1>2, Zenon DEF allips
    <2> QED
        BY <2>1, <2>2, Zenon DEF realips
<1>6. real = realips(p, uid, s, now)
    BY <1>4, Zenon
<1>7. e.real \subseteq real /\ real # {}
    BY <1>5, <1>6, Zenon
<1> HIDE DEF real
<1>8. un = undoNat64(real)
    BY <1>7, Zenon
<1>9. undoNat64(real) \subseteq Ip4 /\ undoNat64(e.real) \subseteq undoNat64(real)
    BY <1>7, Zenon DEF undoNat64, DnsAlgConstants
<1> QED
    BY <1>1, <1>7, <1>8, <1>9, Zenon

LEMMA InvBlocks ==
    ASSUME DnsAlgConstants, Inv
    PROVE  BlocksAreKept
<1> SUFFICES ASSUME NEW e \in told, e.blocked, live(e)
             PROVE  zz(alg[e.key].ips, e.uid, now)
    BY Zenon DEF BlocksAreKept
<1> DEFINE p == alg[e.key].ips
           k == <<e.tid, e.uid>>
<1>1. k \in AuxKeys /\ fresh(p.aux[k], now) /\ AnyIp \in p.aux[k].val
    BY LiveTelling, Zenon
<1>2. HasSuffix(k, e.uid)
    BY Zenon DEF HasSuffix
<1>3. AnyIp \in get(p.aux[k], "alive", now)
    BY <1>1, Zenon DEF get
<1> HIDE DEF p, k
<1>4. AnyIp \in UNION {get(p.aux[y], "alive", now) : y \in {y \in AuxKeys : HasSuffix(y, e.uid)}}
    BY <1>1, <1>2, <1>3, Zenon
<1>5. zz(p, e.uid, now)
    BY <1>4, Zenon DEF zz, secipsFor, ipsFor
<1> QED
    BY <1>5, Zenon DEF p

LEMMA InvRecent ==
    ASSUME DnsAlgConstants, Inv
    PROVE  RecentIpsAreKept
<1> SUFFICES ASSUME NEW e \in told, now - e.at <= StaleThres, NEW i \in e.real
             PROVE  i \in allips(alg[e.key].ips, "pri", "all", now)
    BY Zenon DEF RecentIpsAreKept
<1> DEFINE p == alg[e.key].ips
<1>1. e \in Tellings /\ KeptBy(e, alg[e.key], now) /\ alg[e.key] \in Algans
    BY LiveTelling, Zenon DEF Inv, ToldOK
<1>2. /\ e.tid \in Tids /\ e.at \in Nat /\ 1 <= e.at /\ Recent(p, e.tid, e.real, e.at) /\ p \in Xips
      /\ now \in Nat
    BY <1>1, ZenonT(60) DEF KeptBy, Tellings, Algans, Inv, MapsOK
<1>3. p.past[e.tid].dob \in Nat
    BY <1>2, Zenon DEF Xips, Exp
<1> HIDE DEF p
<1> DEFINE A == allips(p, "pri", "all", now)
<1>4. \A t \in Tids : p.pri[t].val \subseteq A
    BY Zenon DEF allips, get
<1>5. \A t \in Tids : withinStaleThres(p.past[t], now) => p.past[t].val \subseteq A
    BY Zenon DEF allips
<1> HIDE DEF A
<1>6. p.past[e.tid].dob >= e.at => withinStaleThres(p.past[e.tid], now)
    BY <1>2, <1>3, SMTT(60) DEF withinStaleThres, DnsAlgConstants
<1>7. \/ i \in p.pri[e.tid].val
      \/ i \in p.past[e.tid].val /\ p.past[e.tid].dob >= e.at
    BY <1>2, Zenon DEF Recent
<1>8. i \in A
    BY <1>2, <1>4, <1>5, <1>6, <1>7, Zenon
<1> QED
    BY <1>8, Zenon DEF A, p

LEMMA InvPtr ==
    ASSUME Inv
    PROVE  PtrFindsAll
<1> SUFFICES ASSUME NEW k \in Keys, alg[k] # Nil, NEW i \in each(alg[k].ips)
             PROVE  k \in ptr[i]
    BY Zenon DEF PtrFindsAll
<1> DEFINE p == alg[k].ips
<1>1. ListedIn(k, p, ptr)
    BY Zenon DEF Inv, MapsOK
<1> HIDE DEF p
<1>2. ASSUME NEW j \in each(p)
      PROVE  \/ \E t \in Tids : j \in p.pri[t].val \cup p.past[t].val
             \/ \E y \in AuxKeys : j \in p.aux[y].val
    BY ZenonT(60) DEF each, allips, get
<1>3. i \in each(p)
    BY Zenon DEF p
<1> QED
    BY <1>1, <1>2, <1>3, Zenon DEF ListedIn

LEMMA InvNames ==
    ASSUME DnsAlgConstants, Inv
    PROVE  NamesAreKept
<1> SUFFICES ASSUME NEW e \in told, e.given, live(e), e.uid = effUid(e.app)
             PROVE  /\ e.key[1] \in PTR(e.algip, e.app, NoTransport, FALSE)
                    /\ mod => e.algip \in RESOLV(e.key[1], e.app, Nil)
    BY Zenon DEF NamesAreKept
<1> DEFINE k == e.key
           d == alg[k].domains
           y == <<e.tid, e.uid>>
<1>1. /\ k \in Keys /\ alg[k] # Nil /\ alg[k].algip = e.algip /\ isFresh(alg[k]) /\ y \in AuxKeys
      /\ e.algip \in AlgIps /\ nat[e.algip] = k /\ nat[e.algip] # Nil
      /\ fresh(d.pri[y], now) /\ k[1] \in d.pri[y].val
    BY LiveTelling, Zenon
<1>2. k[1] \in PTR(e.algip, e.app, NoTransport, FALSE)
    <2>1. HasSuffix(y, e.uid) /\ k[1] \in get(d.pri[y], "alive", now)
        BY <1>1, Zenon DEF HasSuffix, get
    <2> HIDE DEF d, y
    <2>2. k[1] \in domainsFor(d, NoTransport, e.uid, "alive", now)
        BY <1>1, <2>1, Zenon DEF domainsFor
    <2>3. k[1] \in UNION {domainsFor(alg[l].domains, NoTransport, e.uid, "alive", now) : l \in {nat[e.algip]}}
        BY <1>1, <2>2, Zenon DEF d
    <2> DEFINE own == UNION {domainsFor(alg[l].domains, NoTransport, e.uid, "alive", now) : l \in {nat[e.algip]}}
    <2> HIDE DEF own
    <2>4. own # {} /\ k[1] \in own
        BY <2>3, Zenon DEF own
    <2>5. ptrLocked(e.algip, NoTransport, e.uid, ~mod \/ FALSE) = own
        BY <1>1, <2>4, Zenon DEF ptrLocked, own
    <2> QED
        BY <2>4, <2>5, Zenon DEF PTR
<1>3. mod => e.algip \in RESOLV(k[1], e.app, Nil)
    <2>1. k = <<k[1], k[2]>> /\ k[2] \in {4, 6}
        BY <1>1, SMTT(60) DEF Keys
    <2>2. ASSUME NEW t, NEW u
          PROVE  resolvLocked(<<k[1], k[2]>>, "alg", t, u) = {e.algip}
        BY <1>1, <2>1, Zenon DEF resolvLocked
    <2> QED
        BY <2>1, <2>2, SMTT(60) DEF RESOLV
<1> QED
    BY <1>2, <1>3, Zenon

\* However hashes collide and answers merge: an alg ip stands for one name.
THEOREM AlgIpsStandForOneName ==
    ASSUME DnsAlgConstants
    PROVE  Spec => [](TypeOK /\ NatMatchesAlg)
<1>1. Inv => TypeOK /\ NatMatchesAlg
    BY InvTypes, Zenon DEF Inv, MapsOK
<1> QED
    BY <1>1, GatewayInvariant, PTL

\* While an answer is live X undoes its alg ip to it, and zz knows of its block.
THEOREM LiveAnswersAreUndone ==
    ASSUME DnsAlgConstants
    PROVE  Spec => [](UndoGivesAnswer /\ BlocksAreKept)
<1>1. Inv => UndoGivesAnswer /\ BlocksAreKept
    BY InvUndoes, InvBlocks, Zenon
<1> QED
    BY <1>1, GatewayInvariant, PTL

\* No ip answered within the stale threshold is lost, and ptr lists them all.
THEOREM RecentIpsAreFound ==
    ASSUME DnsAlgConstants
    PROVE  Spec => [](RecentIpsAreKept /\ PtrFindsAll)
<1>1. Inv => RecentIpsAreKept /\ PtrFindsAll
    BY InvRecent, InvPtr, Zenon
<1> QED
    BY <1>1, GatewayInvariant, PTL

\* While an answer is live PTR and RESOLV lead from its alg ip to its name and back.
THEOREM LiveNamesAreFound ==
    ASSUME DnsAlgConstants
    PROVE  Spec => []NamesAreKept
<1>1. Inv => NamesAreKept
    BY InvNames, Zenon
<1> QED
    BY <1>1, GatewayInvariant, PTL

(***************************************************************************)
(* However names collide, answers merge, transports stop and entries go    *)
(* stale: an alg ip handed to an app is undone, to its name, to the ips of *)
(* its answer while that is live, and to a secondary's block.              *)
(***************************************************************************)
THEOREM AlgStaysUndone ==
    ASSUME DnsAlgConstants
    PROVE  Spec => []AlgIsUndone
<1>1. Inv => AlgIsUndone
    BY InvUndoes, InvBlocks, InvRecent, InvPtr, InvNames, Zenon DEF Inv, MapsOK, AlgIsUndone
<1> QED
    BY <1>1, GatewayInvariant, PTL
=============================================================================
