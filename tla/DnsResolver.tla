----------------------------- MODULE DnsResolver -----------------------------
(***************************************************************************)
(* The DNS resolver (intra/dnsx/transport.go, rank.go): the table of       *)
(* transports, how a query's preferences pick one or two of them, and the  *)
(* life of a query from OnPrequery to its summary.                         *)
(*                                                                         *)
(* A transport id is [ct, n]: ct tells "CT"+n, the caching transport in    *)
(* front of n.  A transport object is an id with a generation, so that a   *)
(* replaced transport differs from its replacement.                        *)
(***************************************************************************)
EXTENDS Integers, FiniteSets, Sequences

CONSTANTS
    Added,          \* names Add is called with
    Gens,           \* objects Add may bring, per name
    DNSCrypts,      \* the names of type DNSCrypt (stopped by DcMulti)
    Prefs,          \* what OnQuery / OnUpstreamAnswer may answer
    Askers,         \* queries: [conn, chosen, name, rank, retry, force6]
    Queries,        \* the query goroutines, positive; -q is the AAAA of q
    Conns,          \* stub connections: [proto] of "udp" | "tcp"
    Settings,       \* [firewall, fallback, loopingback] choices
    SmmCap,         \* capacity of smms
    MaxOps,         \* bound: calls of Add and Remove
    Nil

VARIABLES
    transports,     \* resolver.transports: id -> object
    stopped,        \* objects whose Stop was called
    stopping,       \* goroutines of stopIfExistsLocked, [id, t]
    forgotten,      \* ids the gateway was told of with onStopped
    adding,         \* Adds past their closed check
    closed,         \* resolver.closed and resolver.ctx
    stopall,        \* where StopAll is: "no" "on" "smms" "end"
    clearing,       \* its goroutine: "no" "run" or the clone it stops
    smms,           \* [open, n] the summary channel
    laststatus,     \* resolver.laststatus
    queries,        \* query -> its record, or Nil
    conns,          \* conn -> [open, reading] of reply / accept
    settings,       \* the settings read on the way
    nocts,          \* generation of the next caching transport
    listed,         \* objects the table has ever held
    ops

vars == <<transports, stopped, stopping, forgotten, adding, closed, stopall,
          clearing, smms, laststatus, queries, conns, settings, nocts, listed, ops>>
-----------------------------------------------------------------------------
\* Transport ids and what they may be replaced with.

Reserved == {"Default", "System", "Goos", "Local", "Preferred", "BlockFree",
             "BlockAll", "Fixed", "Alg", "Plus"}
Id(n) == [ct |-> FALSE, n |-> n]
CT(i) == [ct |-> TRUE, n |-> i.n]
Ids == [ct : BOOLEAN, n : Reserved \cup Added]
Objects == [ct : BOOLEAN, n : Reserved \cup Added, g : Nat]
idstr(t) == [ct |-> t.ct, n |-> t.n]

isTransportID(n, ids) == \E i \in ids : i # Nil /\ i.n = n
isAnyBlockAll(ids) == isTransportID("BlockAll", ids)
isAnyBlockFree(ids) == isTransportID("BlockFree", ids)
isAnyFixed(ids) == isTransportID("Fixed", ids)
isAnyLocal(ids) == isTransportID("Local", ids)
isAnyDefault(ids) == isTransportID("Default", ids)
isPlus(i) == i # Nil /\ i.n = "Plus"

canUseDefaultDNS(i) ==
    i.n \in {"Alg", "Preferred", "Plus", "BlockFree"} /\ settings.fallback

\* Ended and paused transports are not active; only Stop ends them here.
hasNotEnded(t) == t \notin stopped
activeTransport(t) == hasNotEnded(t)

at(i) == IF i = Nil \/ i \notin DOMAIN transports THEN Nil ELSE transports[i]

\* The id looked up first and the one after it (determineTransport's id0, id1).
substitutes(i) ==
    CASE i.n = "Local"  -> <<Id("Local"), Nil>>
      [] i = Id("Alg")  -> IF settings.firewall
                           THEN <<CT(Id("BlockFree")), CT(Id("Preferred"))>>
                           ELSE <<CT(Id("Preferred")), Nil>>
      [] i.n \in {"System", "Goos"} -> <<[i EXCEPT !.n = "System"],
                                         [i EXCEPT !.n = "Goos"]>>
      [] i.n = "Plus"   -> <<Id("Plus"), Nil>>
      [] i.n = "BlockFree" /\ settings.fallback -> <<i, [i EXCEPT !.n = "Preferred"]>>
      [] OTHER          -> <<i, Nil>>

determineTransport(i) ==
    IF i = Nil THEN Nil
    ELSE IF i.n \in {"Default", "Fixed"} THEN at(Id(i.n))
    ELSE LET ids == substitutes(i)
             t0 == at(ids[1])
             t1 == at(ids[2])
             tf == at(Id("Default"))
             may == canUseDefaultDNS(ids[1])
         IN  IF t0 # Nil /\ (t1 = Nil \/ ~may \/ activeTransport(t0)) THEN t0
             ELSE IF t1 # Nil /\ (~may \/ activeTransport(t1)) THEN t1
             ELSE IF may \/ isAnyDefault({ids[1], ids[2]}) THEN tf
             ELSE Nil
-----------------------------------------------------------------------------
\* Preferences.  A preference is [x, xx, pid, ips, noblock]: x and xx the ids
\* of TIDCSV and TIDSECCSV, pid the proxy given with both, ips the preset
\* answers of IPCSV ("none", "set" or "zero").

\* Categorize keeps the ended transports out; the choice among the others
\* depends on their latency and health, which is left open.
Categorize(ids) == {i \in ids : at(i) # Nil /\ activeTransport(at(i))}

chooseOne(ids) ==
    IF ids = {} THEN {Nil}
    ELSE IF Cardinality(ids) = 1 THEN ids
    ELSE LET live == Categorize(ids)
             plus == {i \in ids : isPlus(i) /\ at(i) # Nil}
         IN  IF plus # {} THEN live \cup {Id("Plus")}
             ELSE IF live = {} THEN {Nil} ELSE live

requiresGoosOrLocal(a) ==
    CASE a.name = "mdns"        -> Id("Local")
      [] a.name = "undelegated" -> Id("Goos")
      [] OTHER                  -> Nil

\* The pair of ids the preference asks for, before presets and blocks.
wanted(a, s, c1, c2) ==
    IF a.chosen # <<>> THEN
        IF (isPlus(c1) \/ isPlus(c2)) /\ isAnyDefault({a.chosen[k] : k \in DOMAIN a.chosen})
        THEN <<Id("Plus"), Nil>>
        ELSE <<a.chosen[1], IF Len(a.chosen) > 1 THEN a.chosen[2] ELSE Nil>>
    ELSE IF requiresGoosOrLocal(a) # Nil THEN <<requiresGoosOrLocal(a), Nil>>
    ELSE IF isAnyFixed(s.x \cup s.xx) THEN
        LET sec == IF isAnyFixed({c1}) THEN c2 ELSE c1
        IN  <<Id("Fixed"), IF sec = Nil THEN Id("Preferred") ELSE sec>>
    ELSE <<c1, c2>>

overrideProxyIfNeeded(pid, ids) ==
    LET fixed == {"Goos", "Local", "System", "Default"}
        first == SelectSeq(ids, LAMBDA i : i # Nil /\ i.n \in fixed)
    IN  IF first = <<>> THEN pid
        ELSE CASE first[1].n \in {"Goos", "Local"} -> "Exit"
               [] first[1].n = "System"            -> "Base"
               [] OTHER -> IF settings.loopingback THEN pid ELSE "Base"

\* preferencesFrom: every outcome it may have, as [id, sid, pid, noblock].
preferencesFrom(a, s) ==
    { LET w     == wanted(a, s, c[1], c[2])
          pre   == s.ips # "none"
          w2    == IF pre THEN Nil ELSE w[2]
          one   == isAnyLocal({w[1], w2})
          id1   == IF one THEN Id("Local") ELSE w[1]
          id2   == IF one THEN Nil ELSE w2
          free  == isAnyBlockFree({id1, id2})
          block == ~free /\ (s.ips = "zero" \/ isAnyBlockAll({id1, id2})
                                           \/ isAnyBlockAll(s.x \cup s.xx))
          p1    == IF block THEN Id("BlockAll") ELSE id1
          p2    == IF block THEN Nil ELSE id2
      IN  [id |-> p1, sid |-> p2, noblock |-> s.noblock \/ pre \/ free,
           pid |-> IF s.pid # Nil /\ {p1, p2} \cap s.x # {}
                   THEN overrideProxyIfNeeded(s.pid, <<p1, p2>>) ELSE "Base"]
      : c \in IF s.x = {} THEN {<<Nil, Nil>>}
              ELSE chooseOne(s.x) \X chooseOne(s.xx) }

\* Whether rank and blocklist blocks are skipped for these transports.
skipBlock(t, t2) ==
    LET known(u) == u # Nil /\ u.n \in {"BlockFree", "Alg", "Default"}
        says(u) == u.n # "Default" \/ settings.loopingback
    IN  IF known(t) THEN says(t) ELSE known(t2) /\ says(t2)

\* resolveRank's verdicts: no thresholds, thresholds met, not met or unknown.
resolveRank(a) == a.rank = "bad"
skipRankBlock(p, s, t, t2) == p.noblock \/ s.ips # "none" \/ skipBlock(t, t2)
-----------------------------------------------------------------------------
\* Queries run under core.Gx: a panic in one of them ends the process.
Goroutines == Queries \cup {-q : q \in Queries}
crashed == \E q \in Goroutines : queries[q] # Nil /\ queries[q].pc = "panicked"

Init ==
    /\ transports = [i \in {Id("Default"), CT(Id("Default"))} |-> [ct |-> i.ct, n |-> "Default", g |-> 0]]
    /\ stopped = {} /\ stopping = {} /\ forgotten = {} /\ adding = {}
    /\ closed = FALSE /\ stopall = "no" /\ clearing = "no"
    /\ smms = [open |-> TRUE, n |-> 0]
    /\ laststatus = "start"
    /\ queries = [q \in Goroutines |-> Nil]
    /\ conns = [c \in DOMAIN Conns |-> [open |-> TRUE, reading |-> TRUE]]
    /\ settings \in Settings
    /\ nocts = 0 /\ ops = 0 /\ listed = {}

without(f, S) == [i \in DOMAIN f \ S |-> f[i]]

\* stopIfExistsLocked(id) for each id of S: the table forgets it and a
\* goroutine is left to stop it.
stopIfExistsLocked(S) ==
    stopping' = stopping \cup {[id |-> i, t |-> transports[i]]
                               : i \in S \cap DOMAIN transports}

\* Add reads closed, and takes the lock later.
Add(t) ==
    /\ ~closed /\ ops < MaxOps /\ ops' = ops + 1
    /\ t.n # "Default"
    /\ t \notin stopped
    /\ adding' = adding \cup {t}
    /\ UNCHANGED <<transports, stopped, stopping, forgotten, closed, stopall,
                   clearing, smms, laststatus, queries, conns, settings, nocts, listed>>

\* The transport and a new caching transport in front of it enter the table;
\* those they replace are stopped, except DNSCrypt's.
addLocked(t) ==
    LET i == idstr(t)
        ct == [ct |-> TRUE, n |-> t.n, g |-> nocts]
        gone == IF t.n \in DNSCrypts THEN {}
                ELSE IF at(i) = t THEN {CT(i)} ELSE {i, CT(i)}
    IN  /\ stopIfExistsLocked(gone)
        /\ transports' = [j \in DOMAIN transports \cup {i, CT(i)} |->
              IF j = i THEN t ELSE IF j = CT(i) THEN ct ELSE transports[j]]
        /\ nocts' = nocts + 1
        /\ listed' = listed \cup {t, ct}
        /\ stopped' = IF closed THEN stopped \cup {ct} ELSE stopped

AddLocked(t) ==
    /\ t \in adding
    /\ addLocked(t)
    /\ adding' = adding \ {t}
    /\ UNCHANGED <<forgotten, closed, stopall, clearing, smms,
                   laststatus, queries, conns, settings, ops>>

Remove(n) ==
    /\ ~closed /\ ops < MaxOps /\ ops' = ops + 1
    /\ Id(n) \in DOMAIN transports
    /\ stopIfExistsLocked({Id(n), CT(Id(n))})
    /\ transports' = without(transports, {Id(n), CT(Id(n))})
    /\ UNCHANGED <<stopped, forgotten, adding, closed, stopall, clearing, smms,
                   laststatus, queries, conns, settings, nocts, listed>>

\* The goroutine of stopIfExistsLocked.
stopTid(s) ==
    /\ s \in stopping
    /\ stopping' = stopping \ {s}
    /\ IF hasNotEnded(s.t)
       THEN stopped' = stopped \cup {s.t} /\ forgotten' = forgotten \cup {s.id}
       ELSE UNCHANGED <<stopped, forgotten>>
    /\ UNCHANGED <<transports, adding, closed, stopall, clearing, smms,
                   laststatus, queries, conns, settings, nocts, listed, ops>>

\* StopAll: closed and the context first (which ends every caching transport),
\* the goroutine that empties the table, the summary channel, the status.
StopAll ==
    /\ stopall = "no"
    /\ stopall' = "on" /\ closed' = TRUE /\ clearing' = "run"
    /\ stopped' = stopped \cup {transports[i] : i \in {j \in DOMAIN transports : j.ct}}
    /\ UNCHANGED <<transports, stopping, forgotten, adding, smms, laststatus,
                   queries, conns, settings, nocts, listed, ops>>

stopAllTransports ==
    /\ clearing = "run"
    /\ clearing' = "done"
    /\ stopped' = stopped \cup {transports[i] : i \in DOMAIN transports}
    /\ transports' = without(transports, DOMAIN transports)
    /\ UNCHANGED <<stopping, forgotten, adding, closed, stopall, smms,
                   laststatus, queries, conns, settings, nocts, listed, ops>>

closeSmms ==
    \/ /\ stopall = "on" /\ stopall' = "smms"
       /\ smms' = [smms EXCEPT !.open = FALSE]
       /\ UNCHANGED laststatus
    \/ /\ stopall = "smms" /\ stopall' = "end"
       /\ laststatus' = "end"
       /\ UNCHANGED smms

StopAllEnd ==
    /\ closeSmms
    /\ UNCHANGED <<transports, stopped, stopping, forgotten, adding, closed,
                   clearing, queries, conns, settings, nocts, listed, ops>>

\* sendSummaries hands one summary to the listener.
sendSummaries ==
    /\ smms.n > 0
    /\ smms' = [smms EXCEPT !.n = @ - 1]
    /\ UNCHANGED <<transports, stopped, stopping, forgotten, adding, closed,
                   stopall, clearing, laststatus, queries, conns, settings, nocts, listed, ops>>
-----------------------------------------------------------------------------
\* A query.  pc: "prequery" "onquery" "run" "gw" "answer" "smm" "queue" "reply"
\* "done" "panicked"; told counts its summaries that entered smms, lost those
\* that queueSummary dropped, run its runs, out its outcome.

queryOnly == UNCHANGED <<transports, stopped, stopping, forgotten, adding,
                         closed, stopall, clearing, smms, laststatus, conns,
                         settings, nocts, listed, ops>>
step(q, pc) == queries' = [queries EXCEPT ![q].pc = pc]
finish(q, out) == queries' = [queries EXCEPT ![q].pc = "smm", ![q].out = out]

newQuery(a) == [pc |-> "prequery", ask |-> a, pref |-> Nil, got |-> Nil, t |-> Nil,
                t2 |-> Nil, run |-> 0, told |-> 0, lost |-> 0, out |-> Nil]

\* reply and accept read a query and leave it to a goroutine; forward turns
\* a packet without a question away with a summary of its own, and runs a
\* second forwardInner for the AAAA of an A when PtMode forces translation and
\* the name requires Goos or Local: no one waits for it.
Serve(q, a) ==
    /\ ~crashed
    /\ queries[q] = Nil
    /\ a.conn # Nil => conns[a.conn].reading /\ conns[a.conn].open
    /\ a.conn = Nil => ~closed
    /\ queries' = [queries EXCEPT ![q] =
          IF a.name = "none" THEN [newQuery(a) EXCEPT !.pc = "smm", !.out = "badquery"]
          ELSE newQuery(a),
                               ![-q] =
          IF a.force6 /\ requiresGoosOrLocal(a) # Nil
          THEN newQuery([a EXCEPT !.conn = Nil, !.force6 = FALSE]) ELSE Nil]
    /\ queryOnly

OnPrequery(q) ==
    /\ queries[q] # Nil /\ queries[q].pc = "prequery"
    /\ \/ step(q, "onquery")
       \/ finish(q, "clienterror")
    /\ queryOnly

OnQuery(q) ==
    /\ queries[q] # Nil /\ queries[q].pc = "onquery"
    /\ \/ \E s \in Prefs : queries' = [queries EXCEPT ![q].pc = "run", ![q].pref = s]
       \/ finish(q, "clienterror")
    /\ queryOnly

\* One run of forwardInner up to the gateway.
forwardInner(q) ==
    /\ queries[q] # Nil /\ queries[q].pc = "run"
    /\ \E p \in preferencesFrom(queries[q].ask, queries[q].pref) :
         LET d1 == determineTransport(p.id)
             d2 == determineTransport(p.sid)
             t == IF d1 = Nil THEN d2 ELSE d1
             t2 == IF d1 = Nil THEN Nil ELSE d2
             r == [queries[q] EXCEPT !.run = @ + 1, !.got = p, !.t = t, !.t2 = t2,
                                     !.pref.noblock = p.noblock]
             blocked == resolveRank(r.ask) /\ ~skipRankBlock(p, r.pref, t, t2)
         IN  queries' = [queries EXCEPT ![q] =
               IF t = Nil THEN [r EXCEPT !.pc = "smm", !.out = "notransport"]
               ELSE IF blocked THEN [r EXCEPT !.pc = "smm", !.out = "blocked"]
               ELSE [r EXCEPT !.pc = "gw"]]
    /\ queryOnly

\* blockQ and blockA: rdns blocklists may block the query or its answer,
\* unless the transports or NOBLOCK say otherwise.
blockQA(q) ==
    /\ queries[q] # Nil /\ queries[q].pc = "gw"
    /\ ~queries[q].pref.noblock
    /\ ~skipBlock(queries[q].t, queries[q].t2)
    /\ finish(q, "blocked")
    /\ queryOnly

\* The gateway answers, or fails, over t and t2.
gatewayQ(q) ==
    /\ queries[q] # Nil /\ queries[q].pc = "gw"
    /\ \/ finish(q, "noanswer")
       \/ IF queries[q].run = 1 THEN step(q, "answer") ELSE finish(q, "complete")
    /\ queryOnly

\* The listener may change the primary transports, once.
OnUpstreamAnswer(q) ==
    /\ queries[q] # Nil /\ queries[q].pc = "answer"
    /\ \/ finish(q, "clienterror")
       \/ finish(q, "complete")
       \/ \E s \in Prefs : /\ s.x # {} /\ s.x # queries[q].pref.x
                           /\ queries' = [queries EXCEPT ![q].pc = "run",
                                                         ![q].pref = s]
    /\ queryOnly

\* queueSummary looks at the context, then sends without blocking.
queueSummary(q) ==
    /\ queries[q] # Nil /\ queries[q].pc = "smm"
    /\ IF closed THEN queries' = [queries EXCEPT ![q].pc = "reply", ![q].lost = @ + 1]
       ELSE step(q, "queue")
    /\ queryOnly

\* The inner select: it sends when there is room; it drops when smms is full or
\* the context is done; and when StopAll closed smms since, it may choose the
\* send, which panics, over the context.
sendSmm(q) ==
    /\ queries[q] # Nil /\ queries[q].pc = "queue"
    /\ \/ /\ smms.open /\ smms.n < SmmCap
          /\ queries' = [queries EXCEPT ![q].pc = "reply", ![q].told = @ + 1]
          /\ smms' = [smms EXCEPT !.n = @ + 1]
          /\ laststatus' = "smm"
       \/ /\ closed \/ smms.n = SmmCap
          /\ queries' = [queries EXCEPT ![q].pc = "reply", ![q].lost = @ + 1]
          /\ UNCHANGED <<smms, laststatus>>
       \/ /\ ~smms.open
          /\ step(q, "panicked")
          /\ UNCHANGED <<smms, laststatus>>
    /\ UNCHANGED <<transports, stopped, stopping, forgotten, adding, closed,
                   stopall, clearing, conns, settings, nocts, listed, ops>>

\* dnsudp writes the answer, if any; dnstcp closes its connection when there
\* is none; lookupinternal tries Goos after a failed Default that is system DNS.
respond(q) ==
    LET r == queries[q]
        c == r.ask.conn
        failed == r.out \notin {"complete", "blocked"}
        retry == c = Nil /\ r.ask.retry /\ failed /\ ~settings.loopingback
                 /\ r.ask.chosen = <<Id("Default")>>
    IN  /\ queries[q] # Nil /\ r.pc = "reply"
        /\ queries' = [queries EXCEPT ![q] =
             IF retry THEN newQuery([r.ask EXCEPT !.chosen = <<Id("Goos")>>])
             ELSE [r EXCEPT !.pc = "done"]]
        /\ conns' = IF c # Nil /\ failed /\ Conns[c] = "tcp"
                    THEN [conns EXCEPT ![c].open = FALSE] ELSE conns
        /\ UNCHANGED <<transports, stopped, stopping, forgotten, adding, closed,
                       stopall, clearing, smms, laststatus, settings, nocts, listed, ops>>

ofConn(c) == {q \in Goroutines : queries[q] # Nil /\ queries[q].ask.conn = c}

\* The read loop ends (the stub hung up, or the connection was closed) ...
readDone(c) ==
    /\ conns[c].reading
    /\ conns' = [conns EXCEPT ![c].reading = FALSE]
    /\ UNCHANGED <<transports, stopped, stopping, forgotten, adding, closed,
                   stopall, clearing, smms, laststatus, queries, settings, nocts, listed, ops>>

\* ... and wg.Wait lets every query of the connection finish before clos(c).
waitAndClose(c) ==
    /\ ~conns[c].reading /\ conns[c].open
    /\ \A q \in ofConn(c) : queries[q].pc = "done"
    /\ conns' = [conns EXCEPT ![c].open = FALSE]
    /\ UNCHANGED <<transports, stopped, stopping, forgotten, adding, closed,
                   stopall, clearing, smms, laststatus, queries, settings, nocts, listed, ops>>

Query(q) == /\ ~crashed
            /\ \/ OnPrequery(q) \/ OnQuery(q) \/ forwardInner(q) \/ blockQA(q)
               \/ gatewayQ(q) \/ OnUpstreamAnswer(q) \/ queueSummary(q)
               \/ sendSmm(q) \/ respond(q)

Background == /\ ~crashed
              /\ \/ \E s \in stopping : stopTid(s)
                 \/ \E t \in adding : AddLocked(t)
                 \/ stopAllTransports \/ StopAllEnd \/ sendSummaries

Client == /\ ~crashed
          /\ \/ \E n \in Added, g \in Gens : Add([ct |-> FALSE, n |-> n, g |-> g])
             \/ \E n \in Added : Remove(n)
             \/ StopAll

Stub(c) == ~crashed /\ (readDone(c) \/ waitAndClose(c))
Closes(c) == ~crashed /\ waitAndClose(c)

Next ==
    \/ Client
    \/ Background
    \/ \E q \in Queries, a \in Askers : Serve(q, a)
    \/ \E q \in Goroutines : Query(q)
    \/ \E c \in DOMAIN Conns : Stub(c)

Spec == Init /\ [][Next]_vars
-----------------------------------------------------------------------------
TypeOK ==
    /\ DOMAIN transports \subseteq Ids
    /\ \A i \in DOMAIN transports : transports[i] \in Objects
    /\ closed \in BOOLEAN
    /\ smms.n \in 0..SmmCap
    /\ \A q \in Goroutines : queries[q] # Nil => queries[q].run \in 0..2

\* Every object in the table answers to the id it is found under, and a
\* caching transport is there only together with what it caches.
TableIsPaired ==
    \A i \in DOMAIN transports :
        /\ idstr(transports[i]) = i
        /\ i.ct => Id(i.n) \in DOMAIN transports

\* Whatever the table lost and the preferences say, a question for an mdns
\* name goes over Local alone and one for an undelegated name over System or
\* Goos alone, unless it is blocked: neither leaks to a user's transport or to
\* the default one, in either run, nor does the AAAA forward asks by itself.
\* (A caller that chose a transport overrides this.)
NamesStayLocal ==
    \A q \in Goroutines :
        LET r == queries[q]
            over(S) == r.t.n \in S \cup {"BlockAll"} /\ r.t2 = Nil
        IN  (r # Nil /\ r.t # Nil /\ r.ask.chosen = <<>>) =>
               /\ r.ask.name = "mdns" => over({"Local"})
               /\ r.ask.name = "undelegated" => over({"System", "Goos"})

\* A query is answered over BlockAll alone whenever its preference names it
\* (or presets the unspecified ip) and does not end up on BlockFree, in the
\* second run as in the first; if BlockAll is missing it has no transport.
BlockAllPrevails ==
    \A q \in Goroutines :
        LET r == queries[q]
        IN  (r # Nil /\ r.t # Nil /\ r.got # Nil
                /\ (isAnyBlockAll(r.pref.x \cup r.pref.xx) \/ r.pref.ips = "zero")
                /\ r.pc \in {"gw", "answer"})
            => isAnyBlockAll({idstr(r.t)}) \/ isAnyBlockFree({r.got.id, r.got.sid})

\* forward accounts for each query exactly once, whichever way it ends (a timed
\* out callback, no transport, a block, two runs): its one summary enters smms,
\* or is dropped as smms is full or the resolver closing; only a query that
\* panicked on the closed smms has none.
OneSummary ==
    \A q \in Goroutines :
        LET r == queries[q]
        IN  r # Nil => r.told + r.lost = (IF r.pc \in {"reply", "done"} THEN 1 ELSE 0)

\* A transport the table no longer holds, replaced or removed, is stopped in
\* the end, and so is the cache in front of it (DNSCrypt's are DcMulti's).
ReplacedIsStopped ==
    LET left == {t \in listed : at(idstr(t)) # t /\ t \notin stopped /\ t.n \notin DNSCrypts}
    IN  left # {} ~> (crashed \/ left = {})

\* Every query read is answered or dropped, and every connection whose reader
\* is done is closed, unless the process ends in the panic of sendSmm.
QueriesEnd ==
    /\ \A q \in Goroutines : (queries[q] # Nil) ~>
                                (crashed \/ (queries[q] # Nil /\ queries[q].pc = "done"))
    /\ \A c \in DOMAIN Conns : (~conns[c].reading) ~> (crashed \/ ~conns[c].open)
=============================================================================
