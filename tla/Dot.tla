-------------------------------- MODULE Dot ---------------------------------
(* The dns transports over a proxied connection: DoT (dns53/dot.go), which     *)
(* pools its connections and tries encrypted client hello first, and plain     *)
(* DNS (dns53/upstream.go), which dials udp and then tcp.  A thread is a       *)
(* query: it asks the status, finds a proxy, takes a conn from the pool or     *)
(* dials one, exchanges, gives the conn back and stores the outcome as the     *)
(* transport's status.                                                         *)
(*                                                                             *)
(* The pool of idle connections it keeps per proxy (core/connpool.go):         *)
(* MultConnPool maps an id to a ConnPool, a bounded channel of aging conns.    *)
(* Get runs a worker under a timeout (Grx, core/async.go), Put may spawn a     *)
(* scrub of every pool, and a pool that is quit is cleaned by a goroutine of   *)
(* its own.  Ids do not interact, so there is one; its pool may be quit and    *)
(* made anew, up to the set Pools.  A query is in the pool's code from pc      *)
(* "get" or "put" to "miss", "got" or "fin".  A closed conn is Nil again: its  *)
(* slot is free for the next dial.                                             *)
EXTENDS Integers, Sequences, TLAPS

CONSTANTS Threads, Conns, Pools, Cap, MaxAttempts, MaxIdle, MaxNow, Nil,
          UsePool,     \* DoT pools, plain DNS does not (usepool)
          UseEch,      \* DoT tries ech
          Relay,       \* the transport is tied to a relay proxy
          SysKinds,    \* do conns expose a raw socket: a set of BOOLEANs
          MaxQueries

(* What the proofs take for granted of the constants: Nil is none of the       *)
(* things it stands in for.                                                    *)
DotConstants ==
    /\ SysKinds \subseteq BOOLEAN
    /\ Nil \notin Conns /\ Nil \notin Pools
    /\ Nil \notin [dob : Nat, sys : BOOLEAN, ready : BOOLEAN, dl : Threads \cup {Nil}]

VARIABLES m,          \* the pool mapped to the id, or Nil
          pool,       \* pool instances
          conn,       \* open conns
          thr,        \* callers
          wk,         \* the Grx worker of each caller
          outer,      \* superpool.scrub goroutines that wait for the lock
          now, scrubtime,
          ctxdone,    \* the multi-pool's context is done
          status, relaySt, ech, echAt, asked, stopped

poolvars == <<m, pool, conn, thr, wk, outer, now, scrubtime, ctxdone>>
dotvars == <<status, relaySt, ech, echAt, asked, stopped>>
vars == <<poolvars, status, relaySt, ech, echAt, asked, stopped>>

Unmade == [made |-> FALSE, p |-> <<>>, closed |-> FALSE, done |-> FALSE,
           clean |-> "no", sw |-> "idle", staged |-> <<>>]
NoWork == [pc |-> "idle", q |-> Nil, c |-> Nil, n |-> 0, live |-> FALSE]
IdleThread == [pc |-> "idle", q |-> Nil, c |-> Nil, res |-> "none"]

InitPool ==
    /\ m = Nil
    /\ pool = [k \in Pools |-> Unmade]
    /\ conn = [c \in Conns |-> Nil]
    /\ thr = [t \in Threads |-> IdleThread]
    /\ wk = [t \in Threads |-> NoWork]
    /\ outer = 0 /\ now = 0 /\ scrubtime = 0 /\ ctxdone = FALSE

-----------------------------------------------------------------------------
(* fresh: younger than a minute (one tick); old: idle past poolmaxidle.  A     *)
(* conn with a raw socket is ok while nothing is there to read.                *)
fresh(c) == now - conn[c].dob < 1
old(c) == now - conn[c].dob > MaxIdle
ok(c) == IF conn[c].sys THEN ~conn[c].ready ELSE fresh(c)

(* ConnPool.Get: nothing on a closed or empty pool, else the worker starts and *)
(* the caller waits.                                                           *)
Get(t) ==
    /\ thr[t].pc = "get" /\ wk[t].pc = "idle"
    /\ IF m = Nil \/ (m # Nil /\ (pool[m].closed \/ pool[m].p = <<>>))
       THEN /\ thr' = [thr EXCEPT ![t].pc = "miss"]
            /\ UNCHANGED wk
       ELSE /\ thr' = [thr EXCEPT ![t].pc = "wait"]
            /\ wk' = [wk EXCEPT ![t] = [pc |-> "take", q |-> m, c |-> Nil,
                                        n |-> 0, live |-> TRUE]]
    /\ UNCHANGED <<m, pool, conn, outer, now, scrubtime, ctxdone>>

(* The worker's loop: take the next conn; a bad one is closed.                 *)
workTake(t) ==
    LET w == wk[t] q == w.q IN
    /\ w.pc = "take" /\ w.n < MaxAttempts /\ pool[q].p # <<>>
    /\ LET c == Head(pool[q].p) IN
       /\ pool' = [pool EXCEPT ![q].p = Tail(@)]
       /\ IF ok(c)
          THEN /\ wk' = [wk EXCEPT ![t].pc = "send", ![t].c = c]
               /\ UNCHANGED conn
          ELSE /\ wk' = [wk EXCEPT ![t].n = @ + 1]
               /\ conn' = [conn EXCEPT ![c] = Nil]
    /\ UNCHANGED <<m, thr, outer, now, scrubtime, ctxdone>>

workStop(t) ==
    LET w == wk[t] IN
    /\ w.pc = "take"
    /\ (w.n < MaxAttempts /\ w.live) => pool[w.q].p = <<>>
    /\ wk' = [wk EXCEPT ![t].pc = "send"]
    /\ UNCHANGED <<m, pool, conn, thr, outer, now, scrubtime, ctxdone>>

(* Grx: the result goes to the waiting caller; one that is late is dropped     *)
(* with the conn in it.                                                        *)
workSend(t) ==
    /\ wk[t].pc = "send"
    /\ IF wk[t].live
       THEN thr' = [thr EXCEPT ![t].pc = IF wk[t].c = Nil THEN "miss" ELSE "got",
                               ![t].c = wk[t].c]
       ELSE UNCHANGED thr
    /\ wk' = [wk EXCEPT ![t] = NoWork]
    /\ UNCHANGED <<m, pool, conn, outer, now, scrubtime, ctxdone>>

getTimeout(t) ==
    /\ thr[t].pc = "wait" /\ wk[t].live
    /\ thr' = [thr EXCEPT ![t].pc = "miss"]
    /\ wk' = [wk EXCEPT ![t].live = FALSE]
    /\ UNCHANGED <<m, pool, conn, outer, now, scrubtime, ctxdone>>

-----------------------------------------------------------------------------
(* MultConnPool.Put: find or make the pool ...                                 *)
putLookup(t) ==
    /\ thr[t].pc = "put"
    /\ IF m # Nil
       THEN /\ thr' = [thr EXCEPT ![t].pc = "putscrub", ![t].q = m]
            /\ UNCHANGED <<m, pool>>
       ELSE \E k \in {j \in Pools : ~pool[j].made} :
            /\ m' = k
            /\ pool' = [pool EXCEPT ![k].made = TRUE, ![k].done = ctxdone,
                        ![k].clean = IF ctxdone THEN "due" ELSE "no"]
            /\ thr' = [thr EXCEPT ![t].pc = "putscrub", ![t].q = k]
    /\ UNCHANGED <<conn, wk, outer, now, scrubtime, ctxdone>>

(* ... scrub if it is time ...                                                 *)
putScrub(t) ==
    /\ thr[t].pc = "putscrub"
    /\ thr' = [thr EXCEPT ![t].pc = "putconn"]
    /\ IF now - scrubtime < 1
       THEN UNCHANGED <<outer, scrubtime>>
       ELSE /\ scrubtime' = now
            /\ outer' = IF ctxdone THEN outer ELSE outer + 1
    /\ UNCHANGED <<m, pool, conn, wk, now, ctxdone>>

(* ... and ConnPool.Put: a pool that is closed, or a conn that is not ok,      *)
(* closes the conn.                                                            *)
putConn(t) ==
    LET c == thr[t].c q == thr[t].q IN
    /\ thr[t].pc = "putconn"
    /\ IF pool[q].closed \/ Len(pool[q].p) > Cap
              \/ (conn[c].sys /\ conn[c].ready)
       THEN /\ thr' = [thr EXCEPT ![t].pc = "fin", ![t].c = Nil]
            /\ conn' = [conn EXCEPT ![c] = Nil]
       ELSE /\ thr' = [thr EXCEPT ![t].pc = "putsend"]
            /\ conn' = [conn EXCEPT ![c].dob = now, ![c].dl = Nil]
    /\ UNCHANGED <<m, pool, wk, outer, now, scrubtime, ctxdone>>

\* Mutant: a deferred Close runs though the conn was put.
putSendCloses(t) ==
    LET c == thr[t].c q == thr[t].q IN
    /\ thr[t].pc = "putsend"
    /\ Len(pool[q].p) < Cap
    /\ pool' = [pool EXCEPT ![q].p = Append(@, c)]
    /\ conn' = [conn EXCEPT ![c] = Nil]
    /\ thr' = [thr EXCEPT ![t].pc = "putka"]
    /\ UNCHANGED <<m, wk, outer, now, scrubtime, ctxdone>>

putSend(t) ==
    LET c == thr[t].c q == thr[t].q IN
    /\ thr[t].pc = "putsend"
    /\ Len(pool[q].p) < Cap
    /\ pool' = [pool EXCEPT ![q].p = Append(@, c)]
    /\ thr' = [thr EXCEPT ![t].pc = "putka"]
    /\ UNCHANGED <<m, conn, wk, outer, now, scrubtime, ctxdone>>

putRefused(t) ==
    LET c == thr[t].c q == thr[t].q IN
    /\ thr[t].pc = "putsend"
    /\ ~pool[q].done => Len(pool[q].p) >= Cap
    /\ conn' = [conn EXCEPT ![c] = Nil]
    /\ thr' = [thr EXCEPT ![t].pc = "fin", ![t].c = Nil]
    /\ UNCHANGED <<m, pool, wk, outer, now, scrubtime, ctxdone>>

(* keepalive(true) clears the deadline, of a conn that is already in the pool. *)
putKeepalive(t) ==
    LET c == thr[t].c IN
    /\ thr[t].pc = "putka"
    /\ conn' = IF conn[c] = Nil THEN conn ELSE [conn EXCEPT ![c].dl = Nil]
    /\ thr' = [thr EXCEPT ![t].pc = "fin", ![t].c = Nil]
    /\ UNCHANGED <<m, pool, wk, outer, now, scrubtime, ctxdone>>

-----------------------------------------------------------------------------
(* MultConnPool.scrub's goroutine, under the lock: drop a closed pool, quit    *)
(* and drop an empty one, scrub the others (one scrub of a pool at a time).    *)
superscrub ==
    /\ outer > 0 /\ outer' = outer - 1
    /\ IF m = Nil THEN UNCHANGED <<m, pool>>
       ELSE IF pool[m].closed THEN m' = Nil /\ UNCHANGED pool
       ELSE IF pool[m].p = <<>>
            THEN /\ m' = Nil
                 /\ pool' = [pool EXCEPT ![m].done = TRUE, ![m].clean =
                                IF pool[m].clean = "no" THEN "due" ELSE @]
            ELSE /\ pool[m].sw = "idle"
                 /\ pool' = [pool EXCEPT ![m].sw = "start"]
                 /\ UNCHANGED m
    /\ UNCHANGED <<conn, thr, wk, now, scrubtime, ctxdone>>

(* ConnPool.scrub: empty the channel, staging what is good, then put it back.  *)
sweepStart(k) ==
    /\ pool[k].sw = "start"
    /\ pool' = [pool EXCEPT ![k].sw = IF pool[k].closed THEN "idle" ELSE "take"]
    /\ UNCHANGED <<m, conn, thr, wk, outer, now, scrubtime, ctxdone>>

sweepTake(k) ==
    /\ pool[k].sw = "take" /\ pool[k].p # <<>>
    /\ LET c == Head(pool[k].p) IN
       IF old(c) \/ ~ok(c)
       THEN /\ pool' = [pool EXCEPT ![k].p = Tail(@)]
            /\ conn' = [conn EXCEPT ![c] = Nil]
       ELSE /\ pool' = [pool EXCEPT ![k].p = Tail(@),
                        ![k].staged = Append(@, c)]
            /\ UNCHANGED conn
    /\ UNCHANGED <<m, thr, wk, outer, now, scrubtime, ctxdone>>

sweepTaken(k) ==
    /\ pool[k].sw = "take"
    /\ ~pool[k].done => pool[k].p = <<>>
    /\ pool' = [pool EXCEPT ![k].sw = "back"]
    /\ UNCHANGED <<m, conn, thr, wk, outer, now, scrubtime, ctxdone>>

sweepBack(k) ==
    /\ pool[k].sw = "back"
    /\ IF pool[k].staged = <<>>
       THEN /\ pool' = [pool EXCEPT ![k].sw = "idle"]
            /\ UNCHANGED conn
       ELSE LET c == Head(pool[k].staged)
                keep == ~pool[k].done /\ Len(pool[k].p) < Cap IN
            /\ pool' = [pool EXCEPT ![k].staged = Tail(@),
                        ![k].p = IF keep THEN Append(@, c) ELSE @]
            /\ conn' = IF keep THEN conn ELSE [conn EXCEPT ![c] = Nil]
    /\ UNCHANGED <<m, thr, wk, outer, now, scrubtime, ctxdone>>

(* ConnPool.clean, run once the pool's context is done: closed first, then     *)
(* whatever is in the channel.                                                 *)
clean(k) ==
    /\ pool[k].clean \in {"due", "run"}
    /\ IF pool[k].clean = "due"
       THEN /\ pool' = [pool EXCEPT ![k].closed = TRUE, ![k].clean = "run"]
            /\ UNCHANGED conn
       ELSE IF pool[k].p # <<>>
       THEN /\ pool' = [pool EXCEPT ![k].p = Tail(@)]
            /\ conn' = [conn EXCEPT ![Head(pool[k].p)] = Nil]
       ELSE /\ pool' = [pool EXCEPT ![k].clean = "over"]
            /\ UNCHANGED conn
    /\ UNCHANGED <<m, thr, wk, outer, now, scrubtime, ctxdone>>

(* The multi-pool's context, and with it every pool's, is done.                *)
cancelled ==
    /\ ctxdone' = TRUE
    /\ pool' = [k \in Pools |-> IF pool[k].made /\ pool[k].clean = "no"
                                THEN [pool[k] EXCEPT !.done = TRUE, !.clean = "due"]
                                ELSE pool[k]]

(* The peer sends or closes: an idle conn turns readable.  Time passes.        *)
Readable(c) ==
    /\ conn[c] # Nil /\ ~conn[c].ready
    /\ conn' = [conn EXCEPT ![c].ready = TRUE]
    /\ UNCHANGED <<m, pool, thr, wk, outer, now, scrubtime, ctxdone>>

Tick ==
    /\ now < MaxNow /\ now' = now + 1
    /\ UNCHANGED <<m, pool, conn, thr, wk, outer, scrubtime, ctxdone>>

call(t) == \/ Get(t) \/ getTimeout(t)
           \/ putLookup(t) \/ putScrub(t) \/ putConn(t) \/ putSend(t)
           \/ putRefused(t) \/ putKeepalive(t)
worker(t) == workTake(t) \/ workStop(t) \/ workSend(t)
sweep(k) == sweepStart(k) \/ sweepTake(k) \/ sweepTaken(k) \/ sweepBack(k)

NextPool == \/ \E t \in Threads : call(t) \/ worker(t)
            \/ superscrub
            \/ \E k \in Pools : sweep(k) \/ clean(k)
            \/ \E c \in Conns : Readable(c)
            \/ Tick

-----------------------------------------------------------------------------
(* Who holds c: a caller (until its Put has handed it over), a worker, a       *)
(* pool's channel, a scrub's staging area.                                     *)
Holders(c) ==
    {<<"thr", t>> : t \in {t \in Threads : thr[t].c = c /\ thr[t].pc # "putka"}}
    \cup {<<"wk", t>> : t \in {t \in Threads : wk[t].c = c}}
    \cup {<<"p", k>> : k \in {k \in Pools : \E i \in 1..Len(pool[k].p) : pool[k].p[i] = c}}
    \cup {<<"staged", k>> :
           k \in {k \in Pools : \E i \in 1..Len(pool[k].staged) : pool[k].staged[i] = c}}

-----------------------------------------------------------------------------
(* The transport *)
RelayStates == {"TUP", "TPU", "TKO", "gone"}
Statuses == {"Start", "Complete", "SendFailed", "BadResponse", "Paused",
             "Unpaused", "DEnd", "TransportError"}

Init ==
    /\ InitPool
    /\ status = "Start" /\ ech = FALSE /\ echAt = Nil /\ asked = 0
    /\ stopped = FALSE
    /\ relaySt = IF Relay THEN "TUP" ELSE "gone"

(* A live relay's status prevails; a paused transport reads as unpaused.       *)
OverrideStatusFrom == [TPU |-> "Paused", TKO |-> "TransportError", TUP |-> "Start"]
Status == IF relaySt # "gone" THEN OverrideStatusFrom[relaySt]
          ELSE IF status = "Paused" THEN "Unpaused"
          ELSE status

End(t, st) == thr' = [thr EXCEPT ![t] = [IdleThread EXCEPT !.pc = "end", !.res = st]]

(* Query: WillErr, then the proxy (ipn.ProxyFor, which may know none).         *)
Query(t) ==
    /\ thr[t].pc = "idle" /\ asked < MaxQueries
    /\ asked' = asked + 1
    /\ status' = IF relaySt = "gone" /\ status = "Paused"
                 THEN "Unpaused" ELSE status
    /\ \/ Status \in {"DEnd", "Paused"} /\ End(t, Status)
       \/ Status \notin {"DEnd", "Paused"} /\ End(t, "SendFailed")
       \/ /\ Status \notin {"DEnd", "Paused"}
          /\ thr' = [thr EXCEPT ![t].pc = IF UsePool THEN "get" ELSE "miss"]
    /\ UNCHANGED <<m, pool, conn, wk, outer, now, scrubtime, ctxdone,
                   relaySt, ech, echAt, stopped>>

(* getOrCreateEchConfigIfNeeded: one attempt per period (a tick); a caller     *)
(* that loses the swap of echlastattempt finds the period not yet over.        *)
echConfig(t) ==
    /\ thr[t].pc = "miss"
    /\ LET tryEch == UseEch /\ ~ech /\ (echAt # Nil => now - echAt >= 1) IN
       /\ thr' = [thr EXCEPT ![t].pc = IF UseEch /\ ech THEN "dialech"
                                       ELSE IF tryEch THEN "fetch" ELSE "dial"]
       /\ echAt' = IF tryEch THEN now ELSE echAt
    /\ UNCHANGED <<m, pool, conn, wk, outer, now, scrubtime, ctxdone,
                   status, relaySt, ech, asked, stopped>>

echFetch(t) ==
    /\ thr[t].pc = "fetch"
    /\ ech' \in {ech, TRUE}
    /\ thr' = [thr EXCEPT ![t].pc = IF ech' THEN "dialech" ELSE "dial"]
    /\ UNCHANGED <<m, pool, conn, wk, outer, now, scrubtime, ctxdone,
                   status, relaySt, echAt, asked, stopped>>

(* tlsdial and pxdial: with ech, then without; plain DNS on udp, then on tcp.  *)
dialed(t) ==
    /\ thr[t].pc \in {"dialech", "dial", "dialtcp"}
    /\ \E c \in {d \in Conns : conn[d] = Nil}, sys \in SysKinds :
         /\ conn' = [conn EXCEPT ![c] = [dob |-> now, sys |-> sys,
                                         ready |-> FALSE, dl |-> Nil]]
         /\ thr' = [thr EXCEPT ![t].pc = "got", ![t].c = c]
    /\ UNCHANGED <<m, pool, wk, outer, now, scrubtime, ctxdone, dotvars>>

dialFailed(t) ==
    /\ \/ thr[t].pc = "dialech" /\ thr' = [thr EXCEPT ![t].pc = "dial"]
       \/ thr[t].pc = "dial" /\ ~UsePool /\ thr' = [thr EXCEPT ![t].pc = "dialtcp"]
       \/ thr[t].pc = "dial" /\ UsePool /\ End(t, "SendFailed")
       \/ thr[t].pc = "dialtcp" /\ End(t, "SendFailed")
    /\ UNCHANGED <<m, pool, conn, wk, outer, now, scrubtime, ctxdone, dotvars>>

(* tlsdial's deferred SetDeadline (the dns client sets one for plain DNS).     *)
deadline(t) ==
    /\ thr[t].pc = "got"
    /\ thr' = [thr EXCEPT ![t].pc = "xchg"]
    /\ conn' = [conn EXCEPT ![thr[t].c].dl = t]
    /\ UNCHANGED <<m, pool, wk, outer, now, scrubtime, ctxdone, dotvars>>

(* The exchange: an error closes the conn; an answer, or none, gives it to     *)
(* the pool, or closes it where there is no pool.                              *)
exchangeErr(t) ==
    /\ thr[t].pc = "xchg"
    /\ conn' = [conn EXCEPT ![thr[t].c] = Nil]
    /\ End(t, "SendFailed")
    /\ UNCHANGED <<m, pool, wk, outer, now, scrubtime, ctxdone, dotvars>>

exchanged(t) ==
    /\ thr[t].pc = "xchg"
    /\ \E st \in {"Complete", "BadResponse"} :
         IF UsePool
         THEN /\ thr' = [thr EXCEPT ![t].pc = "put", ![t].res = st]
              /\ UNCHANGED conn
         ELSE /\ conn' = [conn EXCEPT ![thr[t].c] = Nil]
              /\ End(t, st)
    /\ UNCHANGED <<m, pool, wk, outer, now, scrubtime, ctxdone, dotvars>>

(* Query stores the outcome as the status, whatever the status is by then.     *)
finish(t) ==
    /\ thr[t].pc \in {"end", "fin"}
    /\ status' = thr[t].res
    /\ thr' = [thr EXCEPT ![t] = IdleThread]
    /\ UNCHANGED <<m, pool, conn, wk, outer, now, scrubtime, ctxdone,
                   relaySt, ech, echAt, asked, stopped>>

Stop ==
    /\ ~stopped /\ stopped' = TRUE
    /\ status' = "DEnd"
    /\ cancelled
    /\ UNCHANGED <<m, conn, thr, wk, outer, now, scrubtime, relaySt, ech,
                   echAt, asked>>

(* The relay pauses, fails, resumes or is collected (a weak reference).        *)
RelayTurns ==
    /\ relaySt # "gone"
    /\ relaySt' \in RelayStates \ {relaySt}
    /\ UNCHANGED <<poolvars, status, ech, echAt, asked, stopped>>

query(t) == \/ Query(t) \/ echConfig(t) \/ echFetch(t) \/ dialed(t)
            \/ dialFailed(t) \/ deadline(t) \/ exchangeErr(t) \/ exchanged(t)
            \/ finish(t)

Next == \/ NextPool /\ UNCHANGED dotvars
        \/ \E t \in Threads : query(t)
        \/ Stop
        \/ RelayTurns

step(t) == \/ echConfig(t) \/ echFetch(t) \/ dialFailed(t) \/ deadline(t)
           \/ exchangeErr(t) \/ finish(t)

\* A call into the pool goes on, and so does a goroutine of the pool.
poolcall(t) == call(t) /\ UNCHANGED dotvars
poolwork(t) == worker(t) /\ UNCHANGED dotvars

Spec == Init /\ [][Next]_vars

-----------------------------------------------------------------------------
TypeOK ==
    /\ m \in Pools \cup {Nil}
    /\ \A k \in Pools : Len(pool[k].p) <= Cap /\ (pool[k].closed => pool[k].done)
    /\ status \in Statuses
    /\ \A t \in Threads : thr[t].res \in Statuses \cup {"none"}

(* A conn is in one place: no two queries share one, none is in the pool while *)
(* a query uses it, and whoever holds one holds an open one: neither scrub,    *)
(* clean nor a refused Put closes a conn that was handed out                   *)
(* (core/connpool.go:244-390).                                        *)
OneOwner ==
    \A c \in Conns : /\ \A x, y \in Holders(c) : x = y
                     /\ conn[c] = Nil => Holders(c) = {}

(* Every query returns, whatever the pool, the relay or Stop do meanwhile.     *)
QueriesEnd == \A t \in Threads : (thr[t].pc # "idle") ~> (thr[t].pc = "idle")

-----------------------------------------------------------------------------
(* Proof of OneOwner *)

\* What the pool's state is made of.
ConnRec == [dob : Nat, sys : BOOLEAN, ready : BOOLEAN, dl : Threads \cup {Nil}]
PoolRec == [made : BOOLEAN, p : Seq(Conns), closed : BOOLEAN, done : BOOLEAN,
            clean : {"no", "due", "run", "over"},
            sw : {"idle", "start", "take", "back"}, staged : Seq(Conns)]
HoldingPcs == {"got", "xchg", "put", "putscrub", "putconn", "putsend", "putka"}
ThrPcs == HoldingPcs \cup {"idle", "get", "miss", "wait", "fin", "end", "fetch",
                           "dialech", "dial", "dialtcp"}
ThrRec == [pc : ThrPcs, q : Pools \cup {Nil}, c : Conns \cup {Nil}, res : Statuses \cup {"none"}]
WkRec == [pc : {"idle", "take", "send"}, q : Pools \cup {Nil}, c : Conns \cup {Nil},
          n : Nat, live : BOOLEAN]

Types ==
    /\ m \in Pools \cup {Nil}
    /\ pool \in [Pools -> PoolRec]
    /\ conn \in [Conns -> ConnRec \cup {Nil}]
    /\ thr \in [Threads -> ThrRec]
    /\ wk \in [Threads -> WkRec]
    /\ now \in Nat /\ ctxdone \in BOOLEAN

\* A query has a conn from its Get or dial until its Put; a worker has one
\* from the channel until it sends it, and its caller waits for it meanwhile.
ThreadSound(t) ==
    /\ thr[t].pc \in HoldingPcs <=> thr[t].c # Nil
    /\ thr[t].pc \in {"putscrub", "putconn", "putsend"} => thr[t].q \in Pools
    /\ wk[t].live => thr[t].pc = "wait" /\ wk[t].pc # "idle"
    /\ wk[t].pc # "send" => wk[t].c = Nil
    /\ wk[t].pc = "take" => wk[t].q \in Pools

\* The conns of a channel or of a staging area, each there once.
Elems(s) == {s[i] : i \in 1..Len(s)}
Distinct(s) == \A i, j \in 1..Len(s) : s[i] = s[j] => i = j

\* The places a conn can be in, and the conns that are there.
Places == ({"thr", "wk"} \X Threads) \cup ({"p", "staged"} \X Pools)
ThrAt == [t \in Threads |-> IF thr[t].pc = "putka" THEN {} ELSE {thr[t].c} \ {Nil}]
WkAt == [t \in Threads |-> {wk[t].c} \ {Nil}]
Hold == [x \in Places |-> CASE x[1] = "thr" -> ThrAt[x[2]]
                            [] x[1] = "wk" -> WkAt[x[2]]
                            [] x[1] = "p" -> Elems(pool[x[2]].p)
                            [] x[1] = "staged" -> Elems(pool[x[2]].staged)]

\* No conn is in two places, and one that is in a place is open.
Apart(h, g) ==
    /\ \A x, y \in Places : x # y => h[x] \cap h[y] = {}
    /\ \A x \in Places : \A c \in h[x] : c \in Conns /\ g[c] # Nil

ThreadsSound == \A t \in Threads : ThreadSound(t)
QueuesDistinct == \A k \in Pools : Distinct(pool[k].p) /\ Distinct(pool[k].staged)

Inv == Types /\ ThreadsSound /\ QueuesDistinct /\ Apart(Hold, conn)

-----------------------------------------------------------------------------
(* sequences *)

\* An empty queue holds nothing.
LEMMA EmptyQueue == Elems(<< >>) = {} /\ Distinct(<< >>)
BY DEF Elems, Distinct

\* What is added to a queue is in it, once if it was not there before.
LEMMA Added ==
    ASSUME NEW s \in Seq(Conns), NEW c \in Conns, c \notin Elems(s), Distinct(s)
    PROVE  /\ Append(s, c) \in Seq(Conns)
           /\ Elems(Append(s, c)) = Elems(s) \cup {c}
           /\ Distinct(Append(s, c))
<1> DEFINE a == Append(s, c)
<1>1. /\ a \in Seq(Conns) /\ Len(a) = Len(s) + 1
      /\ \A i \in 1..Len(s) : a[i] = s[i]
      /\ a[Len(s) + 1] = c
      /\ Len(s) \in Nat
    OBVIOUS
<1> HIDE DEF a
<1>2. 1..Len(a) = 1..Len(s) \cup {Len(s) + 1}
    BY <1>1
<1>3. Elems(a) = Elems(s) \cup {c}
    BY <1>1, <1>2 DEF Elems
<1>4. \A i \in 1..Len(s) : s[i] # c
    BY DEF Elems
<1>5. Distinct(a)
    BY <1>1, <1>2, <1>4 DEF Distinct
<1>6. QED
    BY <1>1, <1>3, <1>5 DEF a

\* What is taken out of a queue is in it no longer.
LEMMA Taken ==
    ASSUME NEW s \in Seq(Conns), s # << >>, Distinct(s)
    PROVE  /\ Head(s) \in Conns /\ Tail(s) \in Seq(Conns)
           /\ Head(s) \in Elems(s)
           /\ Elems(Tail(s)) = Elems(s) \ {Head(s)}
           /\ Distinct(Tail(s))
<1> DEFINE r == Tail(s)
<1>1. /\ Head(s) \in Conns /\ r \in Seq(Conns) /\ Len(r) = Len(s) - 1
      /\ \A i \in 1..Len(r) : r[i] = s[i + 1]
      /\ Len(s) \in Nat \ {0}
    OBVIOUS
<1>2. Head(s) = s[1]
    OBVIOUS
<1> HIDE DEF r
<1>3. 1 \in 1..Len(s) /\ \A i \in 1..Len(r) : i + 1 \in 1..Len(s) /\ i + 1 # 1
    BY <1>1
<1>4. \A k \in 1..Len(s) : k = 1 \/ (k - 1 \in 1..Len(r) /\ r[k - 1] = s[k])
    BY <1>1
<1>5. Head(s) \in Elems(s)
    BY <1>2, <1>3 DEF Elems
<1>6. Elems(r) \subseteq Elems(s) \ {Head(s)}
    BY <1>1, <1>2, <1>3 DEF Elems, Distinct
<1>7. Elems(s) \ {Head(s)} \subseteq Elems(r)
    BY <1>2, <1>4 DEF Elems
<1>8. Distinct(r)
    BY <1>1, <1>3 DEF Distinct
<1>9. QED
    BY <1>1, <1>5, <1>6, <1>7, <1>8, SMTT(60) DEF r

-----------------------------------------------------------------------------
(* places *)

\* What each place holds, before and after a step.
HoldIs ==
    /\ \A t \in Threads : Hold[<<"thr", t>>] = ThrAt[t] /\ Hold[<<"wk", t>>] = WkAt[t]
    /\ \A k \in Pools : /\ Hold[<<"p", k>>] = Elems(pool[k].p)
                        /\ Hold[<<"staged", k>>] = Elems(pool[k].staged)

\* Hold, place by place, before and after a step.
LEMMA HoldFacts == HoldIs /\ HoldIs'
<1>1. /\ \A t \in Threads : <<"thr", t>> \in Places /\ <<"wk", t>> \in Places
      /\ \A k \in Pools : <<"p", k>> \in Places /\ <<"staged", k>> \in Places
    BY DEF Places
<1>2. HoldIs
    BY <1>1 DEF HoldIs, Hold
<1>3. HoldIs'
    BY <1>1 DEF HoldIs, Hold
<1>4. QED
    BY <1>2, <1>3

\* Every place is one of a thread, of a worker or of a pool.
LEMMA PlaceKinds ==
    ASSUME NEW z \in Places
    PROVE  \/ \E t \in Threads : z = <<"thr", t>> \/ z = <<"wk", t>>
           \/ \E k \in Pools : z = <<"p", k>> \/ z = <<"staged", k>>
BY DEF Places

\* A step that changes the places in D only.
LEMMA OtherPlaces ==
    ASSUME NEW D,
           \A t \in Threads : <<"thr", t>> \notin D => ThrAt'[t] \subseteq ThrAt[t],
           \A t \in Threads : <<"wk", t>> \notin D => WkAt'[t] \subseteq WkAt[t],
           \A k \in Pools : <<"p", k>> \notin D => pool'[k].p = pool[k].p,
           \A k \in Pools : <<"staged", k>> \notin D => pool'[k].staged = pool[k].staged
    PROVE  \A z \in Places : z \notin D => Hold'[z] \subseteq Hold[z]
<1> SUFFICES ASSUME NEW z \in Places, z \notin D
             PROVE  Hold'[z] \subseteq Hold[z]
    OBVIOUS
<1>1. CASE \E t \in Threads : z = <<"thr", t>>
    <2>1. PICK t \in Threads : z = <<"thr", t>>
        BY <1>1
    <2>2. Hold[z] = ThrAt[t] /\ Hold'[z] = ThrAt'[t]
        BY <2>1, HoldFacts, Zenon DEF HoldIs
    <2>3. QED
        BY <2>1, <2>2
<1>2. CASE \E t \in Threads : z = <<"wk", t>>
    <2>1. PICK t \in Threads : z = <<"wk", t>>
        BY <1>2
    <2>2. Hold[z] = WkAt[t] /\ Hold'[z] = WkAt'[t]
        BY <2>1, HoldFacts, Zenon DEF HoldIs
    <2>3. QED
        BY <2>1, <2>2
<1>3. CASE \E k \in Pools : z = <<"p", k>>
    <2>1. PICK k \in Pools : z = <<"p", k>>
        BY <1>3
    <2>2. Hold[z] = Elems(pool[k].p) /\ Hold'[z] = Elems(pool'[k].p)
        BY <2>1, HoldFacts, Zenon DEF HoldIs
    <2>3. pool'[k].p = pool[k].p
        BY <2>1
    <2>4. QED
        BY <2>2, <2>3
<1>4. CASE \E k \in Pools : z = <<"staged", k>>
    <2>1. PICK k \in Pools : z = <<"staged", k>>
        BY <1>4
    <2>2. Hold[z] = Elems(pool[k].staged) /\ Hold'[z] = Elems(pool'[k].staged)
        BY <2>1, HoldFacts, Zenon DEF HoldIs
    <2>3. pool'[k].staged = pool[k].staged
        BY <2>1
    <2>4. QED
        BY <2>2, <2>3
<1>5. QED
    BY <1>1, <1>2, <1>3, <1>4, PlaceKinds, SMTT(60)

-----------------------------------------------------------------------------
(* steps that hand no conn over *)

\* A step after which every place has what it had, or less, and no conn is
\* closed.
Quiet ==
    /\ \A t \in Threads : ThrAt'[t] \subseteq ThrAt[t]
    /\ \A t \in Threads : WkAt'[t] \subseteq WkAt[t]
    /\ \A k \in Pools : pool'[k].p = pool[k].p /\ pool'[k].staged = pool[k].staged
    /\ \A d \in Conns : conn[d] # Nil => conn'[d] # Nil

\* A quiet step keeps the invariant.
LEMMA QuietInv ==
    ASSUME Inv, Types', ThreadsSound', Quiet
    PROVE  Inv'
<1>1. \A z \in Places : Hold'[z] \subseteq Hold[z]
    <2> DEFINE D == {}
    <2>1. /\ \A t \in Threads : <<"thr", t>> \notin D => ThrAt'[t] \subseteq ThrAt[t]
          /\ \A t \in Threads : <<"wk", t>> \notin D => WkAt'[t] \subseteq WkAt[t]
          /\ \A k \in Pools : <<"p", k>> \notin D => pool'[k].p = pool[k].p
          /\ \A k \in Pools : <<"staged", k>> \notin D => pool'[k].staged = pool[k].staged
        BY DEF Quiet
    <2>2. \A z \in Places : z \notin D
        OBVIOUS
    <2> HIDE DEF D
    <2>3. \A z \in Places : z \notin D => Hold'[z] \subseteq Hold[z]
        BY <2>1, OtherPlaces
    <2>4. QED
        BY <2>2, <2>3
<1>2. Apart(Hold', conn')
    <2>1. Apart(Hold, conn) /\ \A d \in Conns : conn[d] # Nil => conn'[d] # Nil
        BY DEF Inv, Quiet
    <2>2. QED
        BY <1>1, <2>1 DEF Apart
<1>3. QueuesDistinct'
    BY DEF Inv, Quiet, QueuesDistinct
<1>4. QED
    BY <1>2, <1>3 DEF Inv

\* A query or its worker goes on, with the conn it has or without one.
LEMMA GetInv ==
    ASSUME DotConstants, Inv, NEW t \in Threads, Get(t)
    PROVE  Inv'
<1> USE DEF Inv
<1>1. /\ thr[t].pc = "get" /\ wk[t].pc = "idle"
      /\ UNCHANGED <<m, pool, conn, now, ctxdone>>
    BY DEF Get
<1>2. CASE thr' = [thr EXCEPT ![t].pc = "miss"] /\ wk' = wk
    <2>1. Types'
        BY <1>1, <1>2 DEF Types, ThrRec, ThrPcs
    <2>2. ThreadsSound'
        BY <1>1, <1>2 DEF Types, ThreadsSound, ThreadSound, ThrRec, HoldingPcs
    <2>3. Quiet
        BY <1>1, <1>2, SMTT(60) DEF Types, Quiet, ThrAt, WkAt, ThrRec
    <2>4. QED
        BY <2>1, <2>2, <2>3, QuietInv
<1>3. CASE /\ m # Nil /\ thr' = [thr EXCEPT ![t].pc = "wait"]
           /\ wk' = [wk EXCEPT ![t] = [pc |-> "take", q |-> m, c |-> Nil, n |-> 0, live |-> TRUE]]
    <2>1. Types'
        <3>1. thr' \in [Threads -> ThrRec]
            BY <1>3, SMTT(60) DEF Types, ThrRec, ThrPcs
        <3>2. wk' \in [Threads -> WkRec]
            BY <1>3 DEF Types, WkRec
        <3>3. QED
            BY <1>1, <3>1, <3>2 DEF Types
    <2>2. ThreadsSound'
        BY <1>1, <1>3 DEF Types, ThreadsSound, ThreadSound, ThrRec, HoldingPcs, WkRec
    <2>3. Quiet
        BY <1>1, <1>3, SMTT(60) DEF Types, Quiet, ThrAt, WkAt, ThrRec, WkRec
    <2>4. QED
        BY <2>1, <2>2, <2>3, QuietInv
<1>4. QED
    BY <1>2, <1>3 DEF Get

\* The worker has found nothing ...
LEMMA workStopInv ==
    ASSUME DotConstants, Inv, NEW t \in Threads, workStop(t)
    PROVE  Inv'
<1> USE DEF Inv
<1>1. wk[t].pc = "take" /\ wk' = [wk EXCEPT ![t].pc = "send"]
      /\ UNCHANGED <<m, pool, conn, thr, now, ctxdone>>
    BY DEF workStop
<1>2. Types'
    BY <1>1, SMTT(60) DEF Types, WkRec
<1>3. ThreadsSound'
    BY <1>1 DEF Types, ThreadsSound, ThreadSound, WkRec
<1>4. Quiet
    BY <1>1, SMTT(60) DEF Types, Quiet, ThrAt, WkAt, WkRec
<1>5. QED
    BY <1>2, <1>3, <1>4, QuietInv

\* ... or its caller waits no longer.
LEMMA getTimeoutInv ==
    ASSUME DotConstants, Inv, NEW t \in Threads, getTimeout(t)
    PROVE  Inv'
<1> USE DEF Inv
<1>1. /\ thr[t].pc = "wait" /\ thr' = [thr EXCEPT ![t].pc = "miss"]
      /\ wk' = [wk EXCEPT ![t].live = FALSE]
      /\ UNCHANGED <<m, pool, conn, now, ctxdone>>
    BY DEF getTimeout
<1>2. Types'
    <2>1. thr' \in [Threads -> ThrRec]
        BY <1>1 DEF Types, ThrRec, ThrPcs
    <2>2. wk' \in [Threads -> WkRec]
        BY <1>1, ZenonT(60) DEF Types, WkRec
    <2>3. QED
        BY <1>1, <2>1, <2>2 DEF Types
<1>3. ThreadsSound'
    BY <1>1 DEF Types, ThreadsSound, ThreadSound, ThrRec, HoldingPcs, WkRec
<1>4. Quiet
    BY <1>1 DEF Types, Quiet, ThrAt, WkAt, ThrRec, WkRec
<1>5. QED
    BY <1>2, <1>3, <1>4, QuietInv

\* A query goes from one pc to another, with the conn it has.
Goes(t) ==
    /\ thr' \in [Threads -> ThrRec]
    /\ \A s \in Threads \ {t} : thr'[s] = thr[s]
    /\ thr'[t].q = thr[t].q /\ thr'[t].c = thr[t].c
    /\ thr'[t].pc \in HoldingPcs <=> thr[t].pc \in HoldingPcs
    /\ thr'[t].pc # "putka" /\ thr[t].pc # "putka" /\ thr[t].pc # "wait"
    /\ thr'[t].pc \in {"putscrub", "putconn", "putsend"} => thr[t].q \in Pools
    /\ UNCHANGED <<m, pool, wk, now, ctxdone>>
    /\ conn' \in [Conns -> ConnRec \cup {Nil}]
    /\ \A d \in Conns : conn[d] # Nil => conn'[d] # Nil

\* A query that goes on with the conn it has keeps the invariant.
LEMMA GoesInv ==
    ASSUME DotConstants, Inv, NEW t \in Threads, Goes(t)
    PROVE  Inv'
<1> USE DEF Inv
<1>1. Types'
    BY DEF Goes, Types
<1>2. ThreadsSound'
    BY DEF Goes, ThreadsSound, ThreadSound
<1>3. Quiet
    BY DEF Goes, Quiet, ThrAt, WkAt
<1>4. QED
    BY <1>1, <1>2, <1>3, QuietInv

\* A query that has no conn ends, or is made anew.
LEMMA EndsInv ==
    ASSUME DotConstants, Inv, NEW t \in Threads, NEW r \in ThrRec,
           r.pc \in {"end", "idle"}, r.c = Nil, thr' = [thr EXCEPT ![t] = r],
           thr[t].pc # "wait", UNCHANGED <<m, pool, wk, now, ctxdone, conn>>
    PROVE  Inv'
<1> USE DEF Inv
<1>1. \A s \in Threads : thr'[s] = IF s = t THEN r ELSE thr[s]
    BY DEF Types
<1>2. Types'
    BY DEF Types
<1>3. ThreadsSound'
    BY <1>1 DEF ThreadsSound, ThreadSound, HoldingPcs
<1>4. Quiet
    BY <1>1 DEF Quiet, ThrAt, WkAt
<1>5. QED
    BY <1>2, <1>3, <1>4, QuietInv, SMTT(60)

\* A change of a query's pc changes nothing else.
LEMMA OnlyPc ==
    ASSUME Types, NEW t \in Threads, NEW pc \in ThrPcs, thr' = [thr EXCEPT ![t].pc = pc]
    PROVE  /\ thr' \in [Threads -> ThrRec]
           /\ \A s \in Threads \ {t} : thr'[s] = thr[s]
           /\ thr'[t].q = thr[t].q /\ thr'[t].c = thr[t].c /\ thr'[t].pc = pc
BY SMTT(60) DEF Types, ThrRec

\* The outcome of a query that ends without a conn.
LEMMA EndIs ==
    ASSUME NEW t \in Threads, NEW st \in Statuses, End(t, st)
    PROVE  \E r \in ThrRec : r.pc = "end" /\ r.c = Nil /\ thr' = [thr EXCEPT ![t] = r]
<1> DEFINE r == [IdleThread EXCEPT !.pc = "end", !.res = st]
<1>1. IdleThread \in ThrRec /\ IdleThread.c = Nil
    BY DEF IdleThread, ThrRec, ThrPcs
<1>2. r \in ThrRec /\ r.pc = "end" /\ r.c = Nil
    BY <1>1, Zenon DEF ThrRec, ThrPcs
<1>3. thr' = [thr EXCEPT ![t] = r]
    BY DEF End
<1>4. QED
    BY <1>2, <1>3, Zenon

\* Put asks for a scrub, if it is time, and goes on.
LEMMA putScrubInv ==
    ASSUME DotConstants, Inv, NEW t \in Threads, putScrub(t)
    PROVE  Inv'
<1>1. thr[t].pc = "putscrub" /\ thr' = [thr EXCEPT ![t].pc = "putconn"]
      /\ UNCHANGED <<m, pool, conn, wk, now, ctxdone>>
    BY DEF putScrub
<1>2. thr[t].q \in Pools
    BY <1>1 DEF Inv, ThreadsSound, ThreadSound
<1>3. Goes(t)
    <2>1. /\ thr' \in [Threads -> ThrRec] /\ \A s \in Threads \ {t} : thr'[s] = thr[s]
          /\ thr'[t].q = thr[t].q /\ thr'[t].c = thr[t].c /\ thr'[t].pc = "putconn"
        BY <1>1, OnlyPc, Zenon DEF Inv, ThrPcs, HoldingPcs
    <2>2. QED
        BY <1>1, <1>2, <2>1, SMTT(60) DEF Goes, HoldingPcs, ThrPcs, Inv, Types
<1>4. QED
    BY <1>3, GoesInv

\* A query without a conn looks for an ech config ...
LEMMA echConfigInv ==
    ASSUME DotConstants, Inv, NEW t \in Threads, echConfig(t) \/ echFetch(t)
    PROVE  Inv'
<1>1. /\ thr[t].pc \in {"miss", "fetch"}
      /\ \E pc \in {"dialech", "dial", "fetch"} : thr' = [thr EXCEPT ![t].pc = pc]
      /\ UNCHANGED <<m, pool, conn, wk, now, ctxdone>>
    BY Zenon DEF echConfig, echFetch
<1>2. PICK pc \in {"dialech", "dial", "fetch"} : thr' = [thr EXCEPT ![t].pc = pc]
    BY <1>1, Zenon
<1>3. /\ thr' \in [Threads -> ThrRec] /\ \A s \in Threads \ {t} : thr'[s] = thr[s]
      /\ thr'[t].q = thr[t].q /\ thr'[t].c = thr[t].c /\ thr'[t].pc = pc
    BY <1>2, OnlyPc, Zenon DEF Inv, ThrPcs, HoldingPcs
<1>4. Goes(t)
    BY <1>1, <1>3 DEF Goes, HoldingPcs, ThrPcs, Inv, Types
<1>5. QED
    BY <1>4, GoesInv

\* ... its dial fails, and it tries the next way or ends ...
LEMMA dialFailedInv ==
    ASSUME DotConstants, Inv, NEW t \in Threads, dialFailed(t)
    PROVE  Inv'
<1>1. thr[t].pc \in {"dialech", "dial", "dialtcp"} /\ UNCHANGED <<m, pool, conn, wk, now, ctxdone>>
    BY DEF dialFailed
<1>2. CASE \E pc \in {"dial", "dialtcp"} : thr' = [thr EXCEPT ![t].pc = pc]
    <2>1. PICK pc \in {"dial", "dialtcp"} : thr' = [thr EXCEPT ![t].pc = pc]
        BY <1>2, Zenon
    <2>2. /\ thr' \in [Threads -> ThrRec] /\ \A s \in Threads \ {t} : thr'[s] = thr[s]
          /\ thr'[t].q = thr[t].q /\ thr'[t].c = thr[t].c /\ thr'[t].pc = pc
        BY <2>1, OnlyPc, Zenon DEF Inv, ThrPcs, HoldingPcs
    <2>3. Goes(t)
        BY <1>1, <2>2 DEF Goes, HoldingPcs, ThrPcs, Inv, Types
    <2>4. QED
        BY <2>3, GoesInv
<1>3. CASE End(t, "SendFailed")
    <2>1. PICK r \in ThrRec : r.pc = "end" /\ r.c = Nil /\ thr' = [thr EXCEPT ![t] = r]
        BY <1>3, EndIs DEF Statuses
    <2>2. QED
        BY <1>1, <2>1, EndsInv, Zenon
<1>4. QED
    BY <1>2, <1>3 DEF dialFailed

\* ... it starts, or ends before it has asked for a conn ...
LEMMA QueryInv ==
    ASSUME DotConstants, Inv, NEW t \in Threads, Query(t)
    PROVE  Inv'
<1>1. thr[t].pc = "idle" /\ UNCHANGED <<m, pool, conn, wk, now, ctxdone>>
    BY DEF Query
<1>2. CASE \E st \in {"DEnd", "Paused", "SendFailed"} : End(t, st)
    <2>1. PICK r \in ThrRec : r.pc = "end" /\ r.c = Nil /\ thr' = [thr EXCEPT ![t] = r]
        BY <1>2, EndIs, SMTT(60) DEF Statuses
    <2>2. QED
        BY <1>1, <2>1, EndsInv, ZenonT(60)
<1>3. CASE thr' = [thr EXCEPT ![t].pc = IF UsePool THEN "get" ELSE "miss"]
    <2> DEFINE pc == IF UsePool THEN "get" ELSE "miss"
    <2>1. pc \in {"get", "miss"}
        OBVIOUS
    <2>2. thr' = [thr EXCEPT ![t].pc = pc]
        BY <1>3
    <2> HIDE DEF pc
    <2>3. /\ thr' \in [Threads -> ThrRec] /\ \A s \in Threads \ {t} : thr'[s] = thr[s]
          /\ thr'[t].q = thr[t].q /\ thr'[t].c = thr[t].c /\ thr'[t].pc = pc
        BY <2>1, <2>2, OnlyPc, Zenon DEF Inv, ThrPcs, HoldingPcs
    <2>4. Goes(t)
        BY <1>1, <2>1, <2>3, SMTT(60) DEF Goes, HoldingPcs, ThrPcs, Inv, Types
    <2>5. QED
        BY <2>4, GoesInv
<1>4. QED
    BY <1>2, <1>3 DEF Query

\* ... and it is over: its outcome is the status.
LEMMA finishInv ==
    ASSUME DotConstants, Inv, NEW t \in Threads, finish(t)
    PROVE  Inv'
<1>1. IdleThread \in ThrRec /\ IdleThread.pc = "idle" /\ IdleThread.c = Nil
    BY DEF IdleThread, ThrRec, ThrPcs
<1>2. thr[t].pc \in {"end", "fin"} /\ thr' = [thr EXCEPT ![t] = IdleThread]
      /\ UNCHANGED <<m, pool, wk, now, ctxdone, conn>>
    BY DEF finish
<1>3. QED
    BY <1>1, <1>2, EndsInv, Zenon

\* A query that holds a conn finds it open.
LEMMA HeldIsOpen ==
    ASSUME DotConstants, Inv, NEW t \in Threads, thr[t].pc \in HoldingPcs \ {"putka"}
    PROVE  /\ thr[t].c \in Conns /\ thr[t].c \in Hold[<<"thr", t>>]
           /\ conn[thr[t].c] \in ConnRec /\ <<"thr", t>> \in Places
<1>1. thr[t].c \in Conns
    BY DEF Inv, ThreadsSound, ThreadSound, Types, ThrRec
<1>2. <<"thr", t>> \in Places
    BY DEF Places
<1>3. thr[t].c \in Hold[<<"thr", t>>]
    <2>1. ThrAt[t] = {thr[t].c} \ {Nil}
        BY DEF ThrAt
    <2>2. QED
        BY <1>1, <2>1, HoldFacts, ZenonT(60) DEF HoldIs, DotConstants
<1>4. conn[thr[t].c] # Nil
    BY <1>2, <1>3 DEF Inv, Apart
<1>5. QED
    BY <1>1, <1>2, <1>3, <1>4, SMTT(60) DEF Inv, Types

\* The deadline is set on the conn the query holds, which is open.
LEMMA deadlineInv ==
    ASSUME DotConstants, Inv, NEW t \in Threads, deadline(t)
    PROVE  Inv'
<1> DEFINE c == thr[t].c
<1>1. thr[t].pc = "got" /\ thr' = [thr EXCEPT ![t].pc = "xchg"]
      /\ conn' = [conn EXCEPT ![c].dl = t] /\ UNCHANGED <<m, pool, wk, now, ctxdone>>
    BY DEF deadline
<1>2. c \in Conns /\ conn[c] \in ConnRec
    BY <1>1, HeldIsOpen, Zenon DEF HoldingPcs
<1> HIDE DEF c
<1>3. conn' \in [Conns -> ConnRec \cup {Nil}] /\ conn'[c] \in ConnRec
      /\ \A d \in Conns \ {c} : conn'[d] = conn[d]
    BY <1>1, <1>2 DEF Inv, Types, ConnRec
<1>4. \A d \in Conns : conn[d] # Nil => conn'[d] # Nil
    BY <1>3 DEF DotConstants, ConnRec
<1>5. /\ thr' \in [Threads -> ThrRec] /\ \A s \in Threads \ {t} : thr'[s] = thr[s]
      /\ thr'[t].q = thr[t].q /\ thr'[t].c = thr[t].c /\ thr'[t].pc = "xchg"
    BY <1>1, OnlyPc, Zenon DEF Inv, ThrPcs, HoldingPcs
<1>6. Goes(t)
    BY <1>1, <1>3, <1>4, <1>5, SMTT(60) DEF Goes, HoldingPcs, ThrPcs
<1>7. QED
    BY <1>6, GoesInv

\* A pool's flags, or the table, change.
LEMMA FlagsInv ==
    ASSUME Inv, m' \in Pools \cup {Nil}, pool' \in [Pools -> PoolRec],
           \A k \in Pools : pool'[k].p = pool[k].p /\ pool'[k].staged = pool[k].staged,
           UNCHANGED <<conn, thr, wk>>, now' \in Nat, ctxdone' \in BOOLEAN
    PROVE  Inv'
<1>1. Types' /\ ThreadsSound'
    BY DEF Inv, Types, ThreadsSound, ThreadSound
<1>2. Quiet
    BY DEF Quiet, ThrAt, WkAt
<1>3. QED
    BY <1>1, <1>2, QuietInv, SMTT(60)

\* The scrub of all pools drops or quits a pool, or starts its scrub.
LEMMA superscrubInv ==
    ASSUME DotConstants, Inv, superscrub
    PROVE  Inv'
<1>1. UNCHANGED <<conn, thr, wk, now, ctxdone>> /\ m \in Pools \cup {Nil} /\ now \in Nat /\ ctxdone \in BOOLEAN
      /\ pool \in [Pools -> PoolRec]
    BY DEF superscrub, Inv, Types
<1>2. CASE pool' = pool /\ m' \in {m, Nil}
    BY <1>1, <1>2, FlagsInv
<1>3. CASE /\ m # Nil /\ m' = Nil
           /\ pool' = [pool EXCEPT ![m].done = TRUE,
                                   ![m].clean = IF pool[m].clean = "no" THEN "due" ELSE @]
    <2> DEFINE cl == IF pool[m].clean = "no" THEN "due" ELSE pool[m].clean
    <2>1. m \in Pools /\ cl \in {"no", "due", "run", "over"}
        BY <1>1, <1>3 DEF PoolRec
    <2>2. pool' = [pool EXCEPT ![m].done = TRUE, ![m].clean = cl]
        BY <1>3
    <2> HIDE DEF cl
    <2>3. pool' \in [Pools -> PoolRec]
          /\ \A k \in Pools : pool'[k].p = pool[k].p /\ pool'[k].staged = pool[k].staged
        <3> DEFINE r == [pool[m] EXCEPT !.done = TRUE, !.clean = cl]
        <3>1. r \in PoolRec /\ r.p = pool[m].p /\ r.staged = pool[m].staged
            BY <1>1, <2>1, Zenon DEF PoolRec
        <3>2. pool' = [pool EXCEPT ![m] = r]
            BY <2>2, Zenon
        <3> HIDE DEF r
        <3>3. QED
            BY <1>1, <2>1, <3>1, <3>2
    <2>4. QED
        BY <1>1, <1>3, <2>3, FlagsInv, SMTT(60)
<1>4. CASE m # Nil /\ m' = m /\ pool' = [pool EXCEPT ![m].sw = "start"]
    <2>1. pool' \in [Pools -> PoolRec]
          /\ \A k \in Pools : pool'[k].p = pool[k].p /\ pool'[k].staged = pool[k].staged
        BY <1>1, <1>4, ZenonT(60) DEF PoolRec
    <2>2. QED
        BY <1>1, <1>4, <2>1, FlagsInv, SMTT(60)
<1>5. QED
    BY <1>2, <1>3, <1>4, Zenon DEF superscrub

\* A pool's scrub starts, or has emptied the channel.
LEMMA sweepGoesOnInv ==
    ASSUME DotConstants, Inv, NEW k \in Pools, sweepStart(k) \/ sweepTaken(k)
    PROVE  Inv'
<1>1. PICK sw \in {"idle", "take", "back"} : pool' = [pool EXCEPT ![k].sw = sw]
    BY DEF sweepStart, sweepTaken
<1>2. UNCHANGED <<m, conn, thr, wk, now, ctxdone>> /\ m \in Pools \cup {Nil} /\ now \in Nat /\ ctxdone \in BOOLEAN
      /\ pool \in [Pools -> PoolRec]
    BY DEF sweepStart, sweepTaken, Inv, Types
<1>3. pool' \in [Pools -> PoolRec]
      /\ \A j \in Pools : pool'[j].p = pool[j].p /\ pool'[j].staged = pool[j].staged
    BY <1>1, <1>2, ZenonT(60) DEF PoolRec
<1>4. QED
    BY <1>2, <1>3, FlagsInv

\* Stop cancels every pool; what they hold stays there.
LEMMA cancelledInv ==
    ASSUME DotConstants, Inv, cancelled, UNCHANGED <<m, conn, thr, wk, now>>
    PROVE  Inv'
<1>1. pool \in [Pools -> PoolRec] /\ m \in Pools \cup {Nil} /\ now \in Nat
    BY DEF Inv, Types
<1>2. \A k \in Pools : /\ pool'[k] \in PoolRec
                       /\ pool'[k].p = pool[k].p /\ pool'[k].staged = pool[k].staged
    <2> SUFFICES ASSUME NEW k \in Pools
                 PROVE  /\ pool'[k] \in PoolRec
                        /\ pool'[k].p = pool[k].p /\ pool'[k].staged = pool[k].staged
        OBVIOUS
    <2>1. pool[k] \in PoolRec
        BY <1>1
    <2>2. CASE pool'[k] = [pool[k] EXCEPT !.done = TRUE, !.clean = "due"]
        BY <2>1, <2>2, Zenon DEF PoolRec
    <2>3. CASE pool'[k] = pool[k]
        BY <2>1, <2>3
    <2>4. QED
        BY <2>2, <2>3, Zenon DEF cancelled
<1>3. pool' \in [Pools -> PoolRec] /\ ctxdone' \in BOOLEAN
    BY <1>2, Zenon DEF cancelled
<1>4. QED
    BY <1>1, <1>2, <1>3, FlagsInv

\* Time passes, or a conn turns readable.
LEMMA TickInv ==
    ASSUME DotConstants, Inv, Tick
    PROVE  Inv'
<1>1. UNCHANGED <<m, pool, conn, thr, wk, ctxdone>> /\ now' = now + 1
    BY DEF Tick
<1>2. m \in Pools \cup {Nil} /\ pool \in [Pools -> PoolRec] /\ now \in Nat /\ ctxdone \in BOOLEAN
    BY DEF Inv, Types
<1>3. QED
    BY <1>1, <1>2, FlagsInv

\* A conn turns readable; it stays open and where it is.
LEMMA ReadableInv ==
    ASSUME DotConstants, Inv, NEW c \in Conns, Readable(c)
    PROVE  Inv'
<1>1. conn[c] # Nil /\ conn' = [conn EXCEPT ![c].ready = TRUE]
      /\ UNCHANGED <<m, pool, thr, wk, now, ctxdone>>
    BY DEF Readable
<1>2. conn' \in [Conns -> ConnRec \cup {Nil}] /\ conn'[c] \in ConnRec
      /\ \A d \in Conns \ {c} : conn'[d] = conn[d]
    BY <1>1, ZenonT(60) DEF Inv, Types, ConnRec
<1>3. \A d \in Conns : conn[d] # Nil => conn'[d] # Nil
    BY <1>2 DEF DotConstants, ConnRec
<1>4. Types' /\ ThreadsSound'
    BY <1>1, <1>2 DEF Inv, Types, ThreadsSound, ThreadSound
<1>5. Quiet
    BY <1>1, <1>3 DEF Quiet, ThrAt, WkAt
<1>6. QED
    BY <1>4, <1>5, QuietInv

\* Put finds its pool, or makes one that is empty.
LEMMA putLookupInv ==
    ASSUME DotConstants, Inv, NEW t \in Threads, putLookup(t)
    PROVE  Inv'
<1>1. thr[t].pc = "put" /\ UNCHANGED <<conn, wk, now, ctxdone>>
    BY Zenon DEF putLookup
<1>2. PICK k \in Pools :
        /\ m' = k /\ thr' = [thr EXCEPT ![t].pc = "putscrub", ![t].q = k]
        /\ \/ pool' = pool
           \/ pool' = [pool EXCEPT ![k].made = TRUE, ![k].done = ctxdone,
                                   ![k].clean = IF ctxdone THEN "due" ELSE "no"]
    BY Zenon DEF putLookup, Inv, Types
<1>3. pool' \in [Pools -> PoolRec]
      /\ \A j \in Pools : pool'[j].p = pool[j].p /\ pool'[j].staged = pool[j].staged
    <2> DEFINE cl == IF ctxdone THEN "due" ELSE "no"
    <2>1. cl \in {"no", "due", "run", "over"}
        OBVIOUS
    <2>2. \/ pool' = pool
          \/ pool' = [pool EXCEPT ![k].made = TRUE, ![k].done = ctxdone, ![k].clean = cl]
        BY <1>2, Zenon
    <2>3. pool \in [Pools -> PoolRec] /\ ctxdone \in BOOLEAN
        BY DEF Inv, Types
    <2> HIDE DEF cl
    <2>4. CASE pool' = pool
        BY <2>3, <2>4
    <2>5. CASE pool' = [pool EXCEPT ![k].made = TRUE, ![k].done = ctxdone, ![k].clean = cl]
        <3> DEFINE r == [pool[k] EXCEPT !.made = TRUE, !.done = ctxdone, !.clean = cl]
        <3>1. r \in PoolRec /\ r.p = pool[k].p /\ r.staged = pool[k].staged
            BY <2>1, <2>3, Zenon DEF PoolRec
        <3>2. pool' = [pool EXCEPT ![k] = r]
            BY <2>5, Zenon
        <3> HIDE DEF r
        <3>3. QED
            BY <2>3, <3>1, <3>2
    <2>6. QED
        BY <2>2, <2>4, <2>5, Zenon
<1>4. /\ thr' \in [Threads -> ThrRec] /\ \A s \in Threads \ {t} : thr'[s] = thr[s]
      /\ thr'[t].pc = "putscrub" /\ thr'[t].q = k /\ thr'[t].c = thr[t].c
    <2>1. thr \in [Threads -> ThrRec] /\ "putscrub" \in ThrPcs
        BY DEF Inv, Types, ThrPcs, HoldingPcs
    <2>2. QED
        BY <1>2, <2>1, ZenonT(60) DEF ThrRec
<1>5. Types'
    BY <1>1, <1>2, <1>3, <1>4 DEF Inv, Types
<1>6. ThreadsSound'
    BY <1>1, <1>4 DEF Inv, ThreadsSound, ThreadSound, HoldingPcs
<1>7. Quiet
    BY <1>1, <1>3, <1>4, SMTT(60) DEF Quiet, ThrAt, WkAt
<1>8. QED
    BY <1>5, <1>6, <1>7, QuietInv, SMTT(60)

\* keepalive(true), for a conn the query does not have any more.
LEMMA putKeepaliveInv ==
    ASSUME DotConstants, Inv, NEW t \in Threads, putKeepalive(t)
    PROVE  Inv'
<1> DEFINE c == thr[t].c
<1>1. /\ thr[t].pc = "putka" /\ thr' = [thr EXCEPT ![t].pc = "fin", ![t].c = Nil]
      /\ UNCHANGED <<m, pool, wk, now, ctxdone>>
      /\ conn' = IF conn[c] = Nil THEN conn ELSE [conn EXCEPT ![c].dl = Nil]
    BY DEF putKeepalive
<1>2. c \in Conns
    BY <1>1 DEF Inv, ThreadsSound, ThreadSound, Types, ThrRec, HoldingPcs
<1> HIDE DEF c
<1>3. /\ conn' \in [Conns -> ConnRec \cup {Nil}]
      /\ \A d \in Conns : conn[d] # Nil => conn'[d] # Nil
    <2>1. CASE conn[c] = Nil
        BY <1>1, <2>1 DEF Inv, Types
    <2>2. CASE conn[c] # Nil
        <3>1. conn' \in [Conns -> ConnRec \cup {Nil}] /\ conn'[c] \in ConnRec
              /\ \A d \in Conns \ {c} : conn'[d] = conn[d]
            BY <1>1, <1>2, <2>2, SMTT(60) DEF Inv, Types, ConnRec
        <3>2. QED
            BY <3>1 DEF DotConstants, ConnRec
    <2>3. QED
        BY <2>1, <2>2
<1>4. /\ thr' \in [Threads -> ThrRec] /\ \A s \in Threads \ {t} : thr'[s] = thr[s]
      /\ thr'[t].pc = "fin" /\ thr'[t].c = Nil
    BY <1>1, ZenonT(60) DEF Inv, Types, ThrRec, ThrPcs
<1>5. Types'
    BY <1>1, <1>3, <1>4 DEF Inv, Types
<1>6. ThreadsSound'
    BY <1>1, <1>4 DEF Inv, ThreadsSound, ThreadSound, HoldingPcs
<1>7. Quiet
    BY <1>1, <1>3, <1>4 DEF Quiet, ThrAt, WkAt
<1>8. QED
    BY <1>5, <1>6, <1>7, QuietInv, SMTT(60)

-----------------------------------------------------------------------------
(* steps of a query that close its conn *)

\* A query closes the conn it has, and has none.
LEMMA ThreadCloses ==
    ASSUME DotConstants, Inv, NEW t \in Threads,
           thr[t].pc \in HoldingPcs \ {"putka"},
           conn' = [conn EXCEPT ![thr[t].c] = Nil],
           thr' \in [Threads -> ThrRec], \A s \in Threads \ {t} : thr'[s] = thr[s],
           thr'[t].pc \in {"fin", "end"}, thr'[t].c = Nil,
           UNCHANGED <<m, pool, wk, now, ctxdone>>
    PROVE  Inv'
<1> DEFINE c == thr[t].c
           x == <<"thr", t>>
<1>1. c \in Conns /\ c \in Hold[x] /\ x \in Places
    BY HeldIsOpen, SMTT(60)
<1>2. Types'
    BY <1>1, SMTT(60) DEF Inv, Types
<1>3. ThreadsSound'
    BY DEF Inv, ThreadsSound, ThreadSound, HoldingPcs
<1>4. QueuesDistinct'
    BY DEF Inv, QueuesDistinct
<1>5. Hold'[x] \subseteq Hold[x] \ {c}
    BY HoldFacts, ZenonT(60) DEF HoldIs, ThrAt
<1>6. \A z \in Places : z # x => Hold'[z] \subseteq Hold[z]
    <2> DEFINE D == {x}
    <2>1. \A s \in Threads : <<"thr", s>> \notin D => ThrAt'[s] \subseteq ThrAt[s]
        BY DEF ThrAt
    <2>2. \A s \in Threads : <<"wk", s>> \notin D => WkAt'[s] \subseteq WkAt[s]
        BY SMTT(60) DEF WkAt
    <2> HIDE DEF D
    <2>3. \A z \in Places : z \notin D => Hold'[z] \subseteq Hold[z]
        BY <2>1, <2>2, OtherPlaces, SMTT(60)
    <2>4. QED
        BY <2>3 DEF D
<1>7. \A d \in Conns : d # c /\ conn[d] # Nil => conn'[d] # Nil
    BY SMTT(60) DEF Inv, Types
<1> HIDE DEF c, x
<1>8. Apart(Hold', conn')
    <2>1. Apart(Hold, conn)
        BY SMTT(60) DEF Inv
    <2>2. QED
        BY <1>1, <1>5, <1>6, <1>7, <2>1, SMTT(60) DEF Apart
<1>9. QED
    BY <1>2, <1>3, <1>4, <1>8, SMTT(60) DEF Inv

\* ConnPool.Put closes a conn it will not keep, or dates it.
LEMMA putConnInv ==
    ASSUME DotConstants, Inv, NEW t \in Threads, putConn(t)
    PROVE  Inv'
<1> DEFINE c == thr[t].c
<1>1. thr[t].pc = "putconn" /\ UNCHANGED <<m, pool, wk, now, ctxdone>>
    BY DEF putConn
<1>2. CASE thr' = [thr EXCEPT ![t].pc = "fin", ![t].c = Nil] /\ conn' = [conn EXCEPT ![c] = Nil]
    <2>1. /\ thr' \in [Threads -> ThrRec] /\ \A s \in Threads \ {t} : thr'[s] = thr[s]
          /\ thr'[t].pc = "fin" /\ thr'[t].c = Nil
        BY <1>2, ZenonT(60) DEF Inv, Types, ThrRec, ThrPcs
    <2>2. QED
        BY <1>1, <1>2, <2>1, ThreadCloses, Zenon DEF HoldingPcs
<1>3. CASE thr' = [thr EXCEPT ![t].pc = "putsend"] /\ conn' = [conn EXCEPT ![c].dob = now, ![c].dl = Nil]
    <2>1. c \in Conns /\ conn[c] \in ConnRec
        BY <1>1, HeldIsOpen, Zenon DEF HoldingPcs
    <2> HIDE DEF c
    <2>2. conn' \in [Conns -> ConnRec \cup {Nil}] /\ conn'[c] \in ConnRec
          /\ \A d \in Conns \ {c} : conn'[d] = conn[d]
        BY <1>3, <2>1, Zenon DEF Inv, Types, ConnRec
    <2>3. \A d \in Conns : conn[d] # Nil => conn'[d] # Nil
        BY <2>2 DEF DotConstants, ConnRec
    <2>4. /\ thr' \in [Threads -> ThrRec] /\ \A s \in Threads \ {t} : thr'[s] = thr[s]
          /\ thr'[t].q = thr[t].q /\ thr'[t].c = thr[t].c /\ thr'[t].pc = "putsend"
        BY <1>3, OnlyPc, Zenon DEF Inv, ThrPcs, HoldingPcs
    <2>5. thr[t].q \in Pools
        BY <1>1, SMTT(60) DEF Inv, ThreadsSound, ThreadSound
    <2>6. Goes(t)
        BY <1>1, <2>2, <2>3, <2>4, <2>5, SMTT(60) DEF Goes, HoldingPcs
    <2>7. QED
        BY <2>6, GoesInv
<1>4. QED
    BY <1>2, <1>3, SMTT(60) DEF putConn

\* A Put that the full or quit channel refuses closes its conn.
LEMMA putRefusedInv ==
    ASSUME DotConstants, Inv, NEW t \in Threads, putRefused(t)
    PROVE  Inv'
<1>1. thr[t].pc = "putsend" /\ UNCHANGED <<m, pool, wk, now, ctxdone>>
      /\ thr' = [thr EXCEPT ![t].pc = "fin", ![t].c = Nil] /\ conn' = [conn EXCEPT ![thr[t].c] = Nil]
    BY DEF putRefused
<1>2. /\ thr' \in [Threads -> ThrRec] /\ \A s \in Threads \ {t} : thr'[s] = thr[s]
      /\ thr'[t].pc = "fin" /\ thr'[t].c = Nil
    BY <1>1, ZenonT(60) DEF Inv, Types, ThrRec, ThrPcs
<1>3. QED
    BY <1>1, <1>2, ThreadCloses, Zenon DEF HoldingPcs

\* An exchange that ends closes its conn, or keeps it for the pool.
LEMMA exchangeInv ==
    ASSUME DotConstants, Inv, NEW t \in Threads, exchangeErr(t) \/ exchanged(t)
    PROVE  Inv'
<1>1. thr[t].pc = "xchg" /\ UNCHANGED <<m, pool, wk, now, ctxdone>>
    BY DEF exchangeErr, exchanged, dotvars
<1>2. CASE /\ \E st \in Statuses : End(t, st)
           /\ conn' = [conn EXCEPT ![thr[t].c] = Nil]
    <2>1. PICK r \in ThrRec : r.pc = "end" /\ r.c = Nil /\ thr' = [thr EXCEPT ![t] = r]
        BY <1>2, EndIs, SMTT(60)
    <2>2. /\ thr' \in [Threads -> ThrRec] /\ \A s \in Threads \ {t} : thr'[s] = thr[s]
          /\ thr'[t].pc = "end" /\ thr'[t].c = Nil
        BY <2>1 DEF Inv, Types
    <2>3. QED
        BY <1>1, <1>2, <2>2, ThreadCloses, Zenon DEF HoldingPcs
<1>3. CASE conn' = conn /\ \E st \in Statuses : thr' = [thr EXCEPT ![t].pc = "put", ![t].res = st]
    <2>1. /\ thr' \in [Threads -> ThrRec] /\ \A s \in Threads \ {t} : thr'[s] = thr[s]
          /\ thr'[t].q = thr[t].q /\ thr'[t].c = thr[t].c /\ thr'[t].pc = "put"
        <3>1. PICK st \in Statuses : thr' = [thr EXCEPT ![t].pc = "put", ![t].res = st]
            BY <1>3, Zenon
        <3>2. thr \in [Threads -> ThrRec] /\ "put" \in ThrPcs
            BY DEF Inv, Types, ThrPcs, HoldingPcs
        <3>3. QED
            BY <3>1, <3>2, Zenon DEF ThrRec
    <2>2. Goes(t)
        BY <1>1, <1>3, <2>1, SMTT(60) DEF Goes, HoldingPcs, Inv, Types
    <2>3. QED
        BY <2>2, GoesInv
<1>4. QED
    BY <1>2, <1>3 DEF exchangeErr, exchanged, Statuses

-----------------------------------------------------------------------------
(* steps that hand a conn over *)

\* The conn at the head of a pool's channel is held there, open; what is left
\* of the channel does not have it.
LEMMA ChannelHead ==
    ASSUME Inv, NEW k \in Pools, pool[k].p # << >>
    PROVE  /\ Head(pool[k].p) \in Conns /\ conn[Head(pool[k].p)] \in ConnRec
           /\ <<"p", k>> \in Places /\ Head(pool[k].p) \in Hold[<<"p", k>>]
           /\ Tail(pool[k].p) \in Seq(Conns) /\ Distinct(Tail(pool[k].p))
           /\ Elems(Tail(pool[k].p)) = Hold[<<"p", k>>] \ {Head(pool[k].p)}
<1> DEFINE s == pool[k].p
           c == Head(s)
<1>1. s \in Seq(Conns) /\ Distinct(s)
    BY SMTT(60) DEF Inv, Types, PoolRec, QueuesDistinct
<1> HIDE DEF s
<1>2. /\ c \in Conns /\ Tail(s) \in Seq(Conns) /\ c \in Elems(s)
      /\ Elems(Tail(s)) = Elems(s) \ {c} /\ Distinct(Tail(s))
    BY <1>1, Taken, SMTT(60) DEF s
<1> HIDE DEF c
<1>3. Hold[<<"p", k>>] = Elems(s) /\ <<"p", k>> \in Places
    BY HoldFacts, Zenon DEF HoldIs, s, Places
<1>4. conn[c] # Nil
    BY <1>2, <1>3, SMTT(60) DEF Inv, Apart
<1>5. conn[c] \in ConnRec
    BY <1>2, <1>4, SMTT(60) DEF Inv, Types
<1>6. QED
    BY <1>2, <1>3, <1>5, SMTT(60) DEF s, c

\* So is the conn at the head of a staging area.
LEMMA StagedHead ==
    ASSUME Inv, NEW k \in Pools, pool[k].staged # << >>
    PROVE  /\ Head(pool[k].staged) \in Conns /\ conn[Head(pool[k].staged)] \in ConnRec
           /\ <<"staged", k>> \in Places /\ Head(pool[k].staged) \in Hold[<<"staged", k>>]
           /\ Tail(pool[k].staged) \in Seq(Conns) /\ Distinct(Tail(pool[k].staged))
           /\ Elems(Tail(pool[k].staged)) = Hold[<<"staged", k>>] \ {Head(pool[k].staged)}
<1> DEFINE s == pool[k].staged
           c == Head(s)
<1>1. s \in Seq(Conns) /\ Distinct(s)
    BY DEF Inv, Types, PoolRec, QueuesDistinct
<1> HIDE DEF s
<1>2. /\ c \in Conns /\ Tail(s) \in Seq(Conns) /\ c \in Elems(s)
      /\ Elems(Tail(s)) = Elems(s) \ {c} /\ Distinct(Tail(s))
    BY <1>1, Taken, SMTT(60) DEF s
<1> HIDE DEF c
<1>3. Hold[<<"staged", k>>] = Elems(s) /\ <<"staged", k>> \in Places
    BY HoldFacts, Zenon DEF HoldIs, s, Places
<1>4. conn[c] # Nil
    BY <1>2, <1>3, SMTT(60) DEF Inv, Apart
<1>5. conn[c] \in ConnRec
    BY <1>2, <1>4, SMTT(60) DEF Inv, Types
<1>6. QED
    BY <1>2, <1>3, <1>5, SMTT(60) DEF s, c

\* A conn that is held in another place can be added to a channel or to a
\* staging area.
LEMMA Joins ==
    ASSUME Inv, NEW k \in Pools, NEW x \in Places, NEW c \in Conns, c \in Hold[x]
    PROVE  /\ x # <<"p", k>> =>
                /\ Append(pool[k].p, c) \in Seq(Conns) /\ Distinct(Append(pool[k].p, c))
                /\ Elems(Append(pool[k].p, c)) = Hold[<<"p", k>>] \cup {c}
           /\ x # <<"staged", k>> =>
                /\ Append(pool[k].staged, c) \in Seq(Conns) /\ Distinct(Append(pool[k].staged, c))
                /\ Elems(Append(pool[k].staged, c)) = Hold[<<"staged", k>>] \cup {c}
<1>1. /\ pool[k].p \in Seq(Conns) /\ Distinct(pool[k].p)
      /\ pool[k].staged \in Seq(Conns) /\ Distinct(pool[k].staged)
    BY SMTT(60) DEF Inv, Types, PoolRec, QueuesDistinct
<1>2. /\ Hold[<<"p", k>>] = Elems(pool[k].p) /\ <<"p", k>> \in Places
      /\ Hold[<<"staged", k>>] = Elems(pool[k].staged) /\ <<"staged", k>> \in Places
    BY HoldFacts, SMTT(60) DEF HoldIs, Places
<1>3. /\ x # <<"p", k>> => c \notin Elems(pool[k].p)
      /\ x # <<"staged", k>> => c \notin Elems(pool[k].staged)
    BY <1>2, SMTT(60) DEF Inv, Apart
<1>4. QED
    BY <1>1, <1>2, <1>3, Added, SMTT(60)

\* Only the channel and the staging area of pool k change.
LEMMA OnePool ==
    ASSUME Inv, NEW k \in Pools, NEW r, pool' = [pool EXCEPT ![k] = r], r \in PoolRec,
           Distinct(r.p), Distinct(r.staged)
    PROVE  /\ pool' \in [Pools -> PoolRec] /\ pool'[k] = r
           /\ \A j \in Pools \ {k} : pool'[j] = pool[j]
           /\ QueuesDistinct'
           /\ Hold'[<<"p", k>>] = Elems(r.p) /\ Hold'[<<"staged", k>>] = Elems(r.staged)
<1>1. pool' \in [Pools -> PoolRec] /\ pool'[k] = r /\ \A j \in Pools \ {k} : pool'[j] = pool[j]
    BY SMTT(60) DEF Inv, Types
<1>2. QueuesDistinct'
    BY <1>1, SMTT(60) DEF Inv, QueuesDistinct
<1>3. Hold'[<<"p", k>>] = Elems(r.p) /\ Hold'[<<"staged", k>>] = Elems(r.staged)
    BY <1>1, HoldFacts, SMTT(60) DEF HoldIs
<1>4. QED
    BY <1>1, <1>2, <1>3, SMTT(60)

\* A conn goes from one place to another.
LEMMA HandedOver ==
    ASSUME Inv, Types', ThreadsSound', QueuesDistinct',
           NEW x \in Places, NEW y \in Places, x # y, NEW c \in Hold[x],
           Hold'[x] \subseteq Hold[x] \ {c}, Hold'[y] \subseteq Hold[y] \cup {c},
           \A z \in Places : z # x /\ z # y => Hold'[z] \subseteq Hold[z],
           conn' = conn
    PROVE  Inv'
<1>1. Apart(Hold, conn)
    BY DEF Inv
<1>2. c \in Conns /\ conn[c] # Nil
    BY <1>1 DEF Apart
<1>3. \A z \in Places : z # y => Hold'[z] \subseteq Hold[z] \ {c}
    BY <1>1, SMTT(60) DEF Apart
<1>4. \A z, w \in Places : z # w => Hold'[z] \cap Hold'[w] = {}
    BY <1>1, <1>3, SMTT(60) DEF Apart
<1>5. \A z \in Places : \A d \in Hold'[z] : d \in Conns /\ conn'[d] # Nil
    BY <1>1, <1>2, <1>3, SMTT(60) DEF Apart
<1>6. QED
    BY <1>4, <1>5, SMTT(60) DEF Inv, Apart

\* A conn is closed and is in no place any more.
LEMMA ClosedOne ==
    ASSUME Inv, Types', ThreadsSound', QueuesDistinct',
           NEW x \in Places, NEW c \in Hold[x],
           Hold'[x] \subseteq Hold[x] \ {c},
           \A z \in Places : z # x => Hold'[z] \subseteq Hold[z],
           conn' = [conn EXCEPT ![c] = Nil]
    PROVE  Inv'
<1>1. Apart(Hold, conn) /\ conn \in [Conns -> ConnRec \cup {Nil}]
    BY DEF Inv, Types
<1>2. \A z \in Places : Hold'[z] \subseteq Hold[z] \ {c}
    BY <1>1, SMTT(60) DEF Apart
<1>3. \A z, w \in Places : z # w => Hold'[z] \cap Hold'[w] = {}
    BY <1>1, <1>2, SMTT(60) DEF Apart
<1>4. \A z \in Places : \A d \in Hold'[z] : d \in Conns /\ conn'[d] # Nil
    BY <1>1, <1>2, SMTT(60) DEF Apart
<1>5. QED
    BY <1>3, <1>4, SMTT(60) DEF Inv, Apart

\* A caller's conn goes into the channel.
LEMMA putSendInv ==
    ASSUME DotConstants, Inv, NEW t \in Threads, putSend(t)
    PROVE  Inv'
<1> DEFINE c == thr[t].c
           q == thr[t].q
           x == <<"thr", t>>
           y == <<"p", q>>
           r == [pool[q] EXCEPT !.p = Append(pool[q].p, c)]
<1>1. /\ thr[t].pc = "putsend" /\ UNCHANGED <<m, conn, wk, now, ctxdone>>
      /\ pool' = [pool EXCEPT ![q].p = Append(@, c)] /\ thr' = [thr EXCEPT ![t].pc = "putka"]
    BY SMTT(60) DEF putSend
<1>2. q \in Pools
    BY <1>1, SMTT(60) DEF Inv, ThreadsSound, ThreadSound
<1>3. c \in Conns /\ c \in Hold[x] /\ x \in Places
    BY <1>1, HeldIsOpen, SMTT(60) DEF HoldingPcs
<1>4. x # y /\ y \in Places
    BY <1>2, SMTT(60) DEF Places
<1>5. /\ Append(pool[q].p, c) \in Seq(Conns) /\ Distinct(Append(pool[q].p, c))
      /\ Elems(Append(pool[q].p, c)) = Hold[y] \cup {c}
    BY <1>2, <1>3, <1>4, Joins, ZenonT(60)
<1>6. r \in PoolRec /\ r.p = Append(pool[q].p, c) /\ r.staged = pool[q].staged
    <2>1. pool[q] \in PoolRec
        BY <1>2, SMTT(60) DEF Inv, Types
    <2>2. QED
        BY <1>5, <2>1, Zenon DEF PoolRec
<1>7. pool' = [pool EXCEPT ![q] = r]
    BY <1>1, SMTT(60)
<1>8. /\ thr' \in [Threads -> ThrRec] /\ \A s \in Threads \ {t} : thr'[s] = thr[s]
      /\ thr'[t].q = thr[t].q /\ thr'[t].c = thr[t].c /\ thr'[t].pc = "putka"
    BY <1>1, OnlyPc, Zenon DEF Inv, ThrPcs, HoldingPcs
<1> HIDE DEF c, q, r
<1>9. /\ pool' \in [Pools -> PoolRec] /\ QueuesDistinct' /\ pool'[q] = r
      /\ \A j \in Pools \ {q} : pool'[j] = pool[j]
      /\ Hold'[y] = Hold[y] \cup {c}
    <2>1. Distinct(r.p) /\ Distinct(r.staged)
        BY <1>2, <1>5, <1>6, SMTT(60) DEF Inv, QueuesDistinct
    <2>2. r \in PoolRec
        BY <1>6
    <2>3. /\ pool' \in [Pools -> PoolRec] /\ QueuesDistinct' /\ pool'[q] = r
          /\ \A j \in Pools \ {q} : pool'[j] = pool[j]
          /\ Hold'[<<"p", q>>] = Elems(r.p)
        BY <1>2, <1>7, <2>1, <2>2, OnePool, Zenon
    <2>4. QED
        BY <1>5, <1>6, <2>3, SMTT(60)
<1>10. Types'
    BY <1>1, <1>8, <1>9, SMTT(60) DEF Inv, Types
<1>11. ThreadsSound'
    BY <1>1, <1>8 DEF Inv, ThreadsSound, ThreadSound, HoldingPcs
<1>12. Hold'[x] \subseteq Hold[x] \ {c}
    BY <1>8, HoldFacts, Zenon DEF HoldIs, ThrAt
<1>13. \A z \in Places : z # x /\ z # y => Hold'[z] \subseteq Hold[z]
    <2> DEFINE D == {x, y}
    <2>1. \A s \in Threads : <<"thr", s>> \notin D => ThrAt'[s] \subseteq ThrAt[s]
        BY <1>8 DEF ThrAt
    <2>2. \A s \in Threads : <<"wk", s>> \notin D => WkAt'[s] \subseteq WkAt[s]
        BY <1>1 DEF WkAt
    <2>3. \A k \in Pools : <<"p", k>> \notin D => pool'[k].p = pool[k].p
        BY <1>9, SMTT(60)
    <2>4. \A k \in Pools : <<"staged", k>> \notin D => pool'[k].staged = pool[k].staged
        BY <1>6, <1>9, SMTT(60)
    <2> HIDE DEF D
    <2>5. \A z \in Places : z \notin D => Hold'[z] \subseteq Hold[z]
        BY <2>1, <2>2, <2>3, <2>4, OtherPlaces, SMTT(60)
    <2>6. QED
        BY <2>5, SMTT(60) DEF D
<1>14. conn' = conn
    BY <1>1
<1> HIDE DEF x, y
<1>15. QED
    BY <1>3, <1>4, <1>9, <1>10, <1>11, <1>12, <1>13, <1>14, HandedOver, SMTT(60)

\* A pool's channel loses the conn at its head.
LEMMA ChannelTaken ==
    ASSUME Inv, NEW k \in Pools, pool[k].p # << >>,
           pool' = [pool EXCEPT ![k].p = Tail(@)]
    PROVE  /\ pool' \in [Pools -> PoolRec] /\ QueuesDistinct'
           /\ \A j \in Pools : j # k => pool'[j].p = pool[j].p
           /\ \A j \in Pools : pool'[j].staged = pool[j].staged
           /\ Hold'[<<"p", k>>] = Hold[<<"p", k>>] \ {Head(pool[k].p)}
<1> DEFINE r == [pool[k] EXCEPT !.p = Tail(pool[k].p)]
<1>1. /\ Tail(pool[k].p) \in Seq(Conns) /\ Distinct(Tail(pool[k].p))
      /\ Elems(Tail(pool[k].p)) = Hold[<<"p", k>>] \ {Head(pool[k].p)}
    BY ChannelHead
<1>2. r \in PoolRec /\ r.p = Tail(pool[k].p) /\ r.staged = pool[k].staged
    <2>1. pool[k] \in PoolRec
        BY DEF Inv, Types
    <2>2. QED
        BY <1>1, <2>1, Zenon DEF PoolRec
<1>3. pool' = [pool EXCEPT ![k] = r]
    OBVIOUS
<1> HIDE DEF r
<1>4. Distinct(r.p) /\ Distinct(r.staged) /\ r \in PoolRec
    BY <1>1, <1>2 DEF Inv, QueuesDistinct
<1>5. /\ pool' \in [Pools -> PoolRec] /\ QueuesDistinct' /\ pool'[k] = r
      /\ \A j \in Pools \ {k} : pool'[j] = pool[j]
      /\ Hold'[<<"p", k>>] = Elems(r.p)
    BY <1>3, <1>4, OnePool, ZenonT(60)
<1>6. QED
    BY <1>1, <1>2, <1>5, SMTT(60)

\* The worker takes the next conn, or closes it.
LEMMA workTakeInv ==
    ASSUME DotConstants, Inv, NEW t \in Threads, workTake(t)
    PROVE  Inv'
<1> DEFINE q == wk[t].q
           c == Head(pool[q].p)
           x == <<"p", q>>
           y == <<"wk", t>>
<1>1. /\ wk[t].pc = "take" /\ pool[q].p # << >> /\ UNCHANGED <<m, thr, now, ctxdone>>
      /\ pool' = [pool EXCEPT ![q].p = Tail(@)]
      /\ \/ conn' = conn /\ wk' = [wk EXCEPT ![t].pc = "send", ![t].c = c]
         \/ conn' = [conn EXCEPT ![c] = Nil] /\ wk' = [wk EXCEPT ![t].n = @ + 1]
    BY SMTT(60) DEF workTake
<1>2. q \in Pools
    BY <1>1, SMTT(60) DEF Inv, ThreadsSound, ThreadSound
<1>3. c \in Conns /\ x \in Places /\ c \in Hold[x]
    BY <1>1, <1>2, ChannelHead, Zenon
<1>4. x # y /\ y \in Places
    BY SMTT(60) DEF Places
<1>5. pool' \in [Pools -> PoolRec] /\ QueuesDistinct' /\ Hold'[x] = Hold[x] \ {c}
    BY <1>1, <1>2, ChannelTaken, ZenonT(60)
<1>6. /\ \A k \in Pools : k # q => pool'[k].p = pool[k].p
      /\ \A k \in Pools : pool'[k].staged = pool[k].staged
    BY <1>1, <1>2, ChannelTaken, Zenon
<1> HIDE DEF c, q
<1>7. CASE conn' = conn /\ wk' = [wk EXCEPT ![t].pc = "send", ![t].c = c]
    <2>1. /\ wk' \in [Threads -> WkRec] /\ \A s \in Threads \ {t} : wk'[s] = wk[s]
          /\ wk'[t].pc = "send" /\ wk'[t].c = c /\ wk'[t].live = wk[t].live
        BY <1>3, <1>7, ZenonT(60) DEF Inv, Types, WkRec
    <2>2. Types'
        BY <1>1, <1>5, <1>7, <2>1 DEF Inv, Types
    <2>3. ThreadsSound'
        BY <1>1, <2>1 DEF Inv, ThreadsSound, ThreadSound
    <2>4. Hold'[y] \subseteq Hold[y] \cup {c}
        BY <2>1, HoldFacts, Zenon DEF HoldIs, WkAt
    <2>5. \A z \in Places : z # x /\ z # y => Hold'[z] \subseteq Hold[z]
        <3> DEFINE D == {x, y}
        <3>1. \A s \in Threads : <<"thr", s>> \notin D => ThrAt'[s] \subseteq ThrAt[s]
            BY <1>1, SMTT(60) DEF ThrAt
        <3>2. \A s \in Threads : <<"wk", s>> \notin D => WkAt'[s] \subseteq WkAt[s]
            BY <2>1, SMTT(60) DEF WkAt
        <3>3. \A k \in Pools : <<"p", k>> \notin D => pool'[k].p = pool[k].p
            BY <1>6, SMTT(60)
        <3> HIDE DEF D
        <3>4. \A z \in Places : z \notin D => Hold'[z] \subseteq Hold[z]
            BY <1>6, <3>1, <3>2, <3>3, OtherPlaces, SMTT(60)
        <3>5. QED
            BY <3>4 DEF D
    <2> HIDE DEF x, y
    <2>6. QED
        BY <1>3, <1>4, <1>5, <1>7, <2>2, <2>3, <2>4, <2>5, HandedOver, SMTT(60)
<1>8. CASE conn' = [conn EXCEPT ![c] = Nil] /\ wk' = [wk EXCEPT ![t].n = @ + 1]
    <2>1. /\ wk' \in [Threads -> WkRec] /\ \A s \in Threads \ {t} : wk'[s] = wk[s]
          /\ wk'[t].pc = wk[t].pc /\ wk'[t].c = wk[t].c /\ wk'[t].live = wk[t].live
          /\ wk'[t].q = wk[t].q
        BY <1>8, SMTT(60) DEF Inv, Types, WkRec
    <2>2. Types'
        BY <1>1, <1>3, <1>5, <1>8, <2>1, SMTT(60) DEF Inv, Types
    <2>3. ThreadsSound'
        BY <1>1, <2>1, SMTT(60) DEF Inv, ThreadsSound, ThreadSound
    <2>4. \A z \in Places : z # x => Hold'[z] \subseteq Hold[z]
        <3> DEFINE D == {x}
        <3>1. \A s \in Threads : <<"thr", s>> \notin D => ThrAt'[s] \subseteq ThrAt[s]
            BY <1>1, SMTT(60) DEF ThrAt
        <3>2. \A s \in Threads : <<"wk", s>> \notin D => WkAt'[s] \subseteq WkAt[s]
            BY <2>1, SMTT(60) DEF WkAt
        <3>3. \A k \in Pools : <<"p", k>> \notin D => pool'[k].p = pool[k].p
            BY <1>6, SMTT(60)
        <3> HIDE DEF D
        <3>4. \A z \in Places : z \notin D => Hold'[z] \subseteq Hold[z]
            BY <1>6, <3>1, <3>2, <3>3, OtherPlaces
        <3>5. QED
            BY <3>4, SMTT(60) DEF D
    <2> HIDE DEF x, y
    <2>5. QED
        BY <1>3, <1>5, <1>8, <2>2, <2>3, <2>4, ClosedOne, Zenon
<1>9. QED
    BY <1>1, <1>7, <1>8, SMTT(60)

\* The worker hands its conn, if it has one, to a caller that waits, and
\* drops it if none does.
LEMMA workSendInv ==
    ASSUME DotConstants, Inv, NEW t \in Threads, workSend(t)
    PROVE  Inv'
<1> DEFINE c == wk[t].c
           x == <<"wk", t>>
           y == <<"thr", t>>
           pc == IF c = Nil THEN "miss" ELSE "got"
<1>1. /\ wk[t].pc = "send" /\ UNCHANGED <<m, pool, conn, now, ctxdone>>
      /\ wk' = [wk EXCEPT ![t] = NoWork]
      /\ \/ wk[t].live /\ thr' = [thr EXCEPT ![t].pc = pc, ![t].c = c]
         \/ ~wk[t].live /\ thr' = thr
    BY DEF workSend
<1>2. /\ wk' \in [Threads -> WkRec] /\ \A s \in Threads \ {t} : wk'[s] = wk[s]
      /\ wk'[t].pc = "idle" /\ wk'[t].c = Nil /\ ~wk'[t].live
    <2>1. NoWork \in WkRec /\ NoWork.pc = "idle" /\ NoWork.c = Nil /\ ~NoWork.live
        BY DEF NoWork, WkRec
    <2>2. QED
        BY <1>1, <2>1, SMTT(60) DEF Inv, Types
<1>3. c \in Conns \cup {Nil}
    BY DEF Inv, Types, WkRec
<1>4. QueuesDistinct'
    BY <1>1, SMTT(60) DEF Inv, QueuesDistinct
<1>5. CASE thr' = thr
    <2>1. Types'
        BY <1>1, <1>2, <1>5, SMTT(60) DEF Inv, Types
    <2>2. ThreadsSound'
        BY <1>2, <1>5, SMTT(60) DEF Inv, ThreadsSound, ThreadSound
    <2>3. Quiet
        BY <1>1, <1>2, <1>5, SMTT(60) DEF Quiet, ThrAt, WkAt
    <2>4. QED
        BY <2>1, <2>2, <2>3, QuietInv
<1>6. CASE wk[t].live /\ thr' = [thr EXCEPT ![t].pc = pc, ![t].c = c]
    <2>1. pc \in ThrPcs /\ (pc \in HoldingPcs <=> c # Nil) /\ pc \in {"miss", "got"}
        BY DEF ThrPcs, HoldingPcs
    <2> HIDE DEF pc
    <2>2. /\ thr' \in [Threads -> ThrRec] /\ \A s \in Threads \ {t} : thr'[s] = thr[s]
          /\ thr'[t].pc = pc /\ thr'[t].c = c
        BY <1>3, <1>6, <2>1, ZenonT(60) DEF Inv, Types, ThrRec
    <2>3. Types'
        BY <1>1, <1>2, <2>2 DEF Inv, Types
    <2>4. ThreadsSound'
        BY <1>2, <2>1, <2>2, SMTT(60) DEF Inv, ThreadsSound, ThreadSound
    <2>5. CASE c = Nil
        <3>1. Quiet
            BY <1>1, <1>2, <2>2, <2>5, SMTT(60) DEF Quiet, ThrAt, WkAt
        <3>2. QED
            BY <2>3, <2>4, <3>1, QuietInv
    <2>6. CASE c # Nil
        <3>1. x \in Places /\ y \in Places /\ x # y
            BY SMTT(60) DEF Places
        <3>2. c \in Hold[x] /\ Hold'[x] \subseteq Hold[x] \ {c} /\ Hold'[y] \subseteq Hold[y] \cup {c}
            <4>1. Hold[x] = {c} \ {Nil} /\ Hold'[x] = {wk'[t].c} \ {Nil}
                BY HoldFacts, Zenon DEF HoldIs, WkAt
            <4>2. Hold'[y] \subseteq {thr'[t].c}
                BY HoldFacts, Zenon DEF HoldIs, ThrAt
            <4> HIDE DEF c, x, y
            <4>3. QED
                BY <1>2, <2>2, <2>6, <4>1, <4>2, SMTT(60)
        <3>3. \A z \in Places : z # x /\ z # y => Hold'[z] \subseteq Hold[z]
            <4> DEFINE D == {x, y}
            <4>1. \A s \in Threads : <<"thr", s>> \notin D => ThrAt'[s] \subseteq ThrAt[s]
                BY <2>2 DEF ThrAt
            <4>2. \A s \in Threads : <<"wk", s>> \notin D => WkAt'[s] \subseteq WkAt[s]
                BY <1>2 DEF WkAt
            <4> HIDE DEF D
            <4>3. \A z \in Places : z \notin D => Hold'[z] \subseteq Hold[z]
                BY <1>1, <4>1, <4>2, OtherPlaces, SMTT(60)
            <4>4. QED
                BY <4>3, SMTT(60) DEF D
        <3>4. conn' = conn
            BY <1>1
        <3> HIDE DEF c, x, y
        <3>5. QED
            BY <1>4, <2>3, <2>4, <3>1, <3>2, <3>3, <3>4, HandedOver, SMTT(60)
    <2>7. QED
        BY <2>5, <2>6, SMTT(60)
<1>7. QED
    BY <1>1, <1>5, <1>6, SMTT(60)

\* A scrub or a clean closes the conn at the head of a channel.
LEMMA ChannelCloses ==
    ASSUME DotConstants, Inv, NEW k \in Pools, pool[k].p # << >>,
           pool' = [pool EXCEPT ![k].p = Tail(@)],
           conn' = [conn EXCEPT ![Head(pool[k].p)] = Nil],
           UNCHANGED <<m, thr, wk, now, ctxdone>>
    PROVE  Inv'
<1> DEFINE c == Head(pool[k].p)
           x == <<"p", k>>
<1>1. c \in Conns /\ x \in Places /\ c \in Hold[x]
    BY ChannelHead
<1>2. pool' \in [Pools -> PoolRec] /\ QueuesDistinct' /\ Hold'[x] = Hold[x] \ {c}
    BY ChannelTaken, Zenon
<1>3. /\ \A j \in Pools : j # k => pool'[j].p = pool[j].p
      /\ \A j \in Pools : pool'[j].staged = pool[j].staged
    BY ChannelTaken
<1>4. conn' = [conn EXCEPT ![c] = Nil]
    OBVIOUS
<1> HIDE DEF c
<1>5. Types'
    BY <1>1, <1>2, <1>4, Zenon DEF Inv, Types
<1>6. ThreadsSound'
    BY DEF Inv, ThreadsSound, ThreadSound
<1>7. \A z \in Places : z # x => Hold'[z] \subseteq Hold[z]
    <2> DEFINE D == {x}
    <2>1. /\ \A s \in Threads : <<"thr", s>> \notin D => ThrAt'[s] \subseteq ThrAt[s]
          /\ \A s \in Threads : <<"wk", s>> \notin D => WkAt'[s] \subseteq WkAt[s]
        BY DEF ThrAt, WkAt
    <2>2. \A j \in Pools : <<"p", j>> \notin D => pool'[j].p = pool[j].p
        BY <1>3
    <2> HIDE DEF D
    <2>3. \A z \in Places : z \notin D => Hold'[z] \subseteq Hold[z]
        BY <1>3, <2>1, <2>2, OtherPlaces, SMTT(60)
    <2>4. QED
        BY <2>3 DEF D
<1> HIDE DEF x
<1>8. QED
    BY <1>1, <1>2, <1>4, <1>5, <1>6, <1>7, ClosedOne, Zenon

\* A scrub takes the next conn and closes or stages it.
LEMMA sweepTakeInv ==
    ASSUME DotConstants, Inv, NEW k \in Pools, sweepTake(k)
    PROVE  Inv'
<1> DEFINE c == Head(pool[k].p)
           x == <<"p", k>>
           y == <<"staged", k>>
           r == [pool[k] EXCEPT !.p = Tail(pool[k].p), !.staged = Append(pool[k].staged, c)]
<1>1. /\ pool[k].p # << >> /\ UNCHANGED <<m, thr, wk, now, ctxdone>>
      /\ \/ /\ pool' = [pool EXCEPT ![k].p = Tail(@)]
            /\ conn' = [conn EXCEPT ![Head(pool[k].p)] = Nil]
         \/ pool' = [pool EXCEPT ![k] = r] /\ conn' = conn
    BY Zenon DEF sweepTake
<1>2. CASE pool' = [pool EXCEPT ![k].p = Tail(@)] /\ conn' = [conn EXCEPT ![Head(pool[k].p)] = Nil]
    BY <1>1, <1>2, ChannelCloses, Zenon
<1>3. CASE pool' = [pool EXCEPT ![k] = r] /\ conn' = conn
    <2>1. /\ c \in Conns /\ x \in Places /\ c \in Hold[x]
          /\ Tail(pool[k].p) \in Seq(Conns) /\ Distinct(Tail(pool[k].p))
          /\ Elems(Tail(pool[k].p)) = Hold[x] \ {c}
        BY <1>1, ChannelHead
    <2>2. x # y /\ y \in Places
        BY DEF Places
    <2>3. /\ Append(pool[k].staged, c) \in Seq(Conns) /\ Distinct(Append(pool[k].staged, c))
          /\ Elems(Append(pool[k].staged, c)) = Hold[y] \cup {c}
        BY <2>1, <2>2, Joins, SMTT(60)
    <2>4. r \in PoolRec /\ r.p = Tail(pool[k].p) /\ r.staged = Append(pool[k].staged, c)
        <3>1. pool[k] \in PoolRec
            BY DEF Inv, Types
        <3>2. QED
            BY <2>1, <2>3, <3>1, Zenon DEF PoolRec
    <2> HIDE DEF r
    <2>5. /\ pool' \in [Pools -> PoolRec] /\ QueuesDistinct'
          /\ \A j \in Pools \ {k} : pool'[j] = pool[j]
          /\ Hold'[<<"p", k>>] = Elems(r.p) /\ Hold'[<<"staged", k>>] = Elems(r.staged)
        <3>1. Distinct(r.p) /\ Distinct(r.staged) /\ r \in PoolRec
            BY <2>1, <2>3, <2>4
        <3>2. QED
            BY <1>3, <3>1, OnePool, ZenonT(60)
    <2>6. Hold'[x] = Hold[x] \ {c} /\ Hold'[y] = Hold[y] \cup {c}
        BY <2>1, <2>3, <2>4, <2>5, Zenon
    <2>7. Types'
        BY <1>1, <1>3, <2>5, SMTT(60) DEF Inv, Types
    <2>8. ThreadsSound'
        BY <1>1, SMTT(60) DEF Inv, ThreadsSound, ThreadSound
    <2>9. \A z \in Places : z # x /\ z # y => Hold'[z] \subseteq Hold[z]
        <3> DEFINE D == {x, y}
        <3>1. /\ \A s \in Threads : <<"thr", s>> \notin D => ThrAt'[s] \subseteq ThrAt[s]
              /\ \A s \in Threads : <<"wk", s>> \notin D => WkAt'[s] \subseteq WkAt[s]
            BY <1>1 DEF ThrAt, WkAt
        <3>2. /\ \A j \in Pools : <<"p", j>> \notin D => pool'[j].p = pool[j].p
              /\ \A j \in Pools : <<"staged", j>> \notin D => pool'[j].staged = pool[j].staged
            BY <2>5, SMTT(60)
        <3> HIDE DEF D
        <3>3. \A z \in Places : z \notin D => Hold'[z] \subseteq Hold[z]
            BY <3>1, <3>2, OtherPlaces, SMTT(60)
        <3>4. QED
            BY <3>3 DEF D
    <2> HIDE DEF c, x, y
    <2>10. QED
        BY <1>3, <2>1, <2>2, <2>5, <2>6, <2>7, <2>8, <2>9, HandedOver, SMTT(60)
<1>4. QED
    BY <1>1, <1>2, <1>3, SMTT(60)

\* A scrub puts the next staged conn back, or closes it.
LEMMA sweepBackInv ==
    ASSUME DotConstants, Inv, NEW k \in Pools, sweepBack(k)
    PROVE  Inv'
<1> DEFINE c == Head(pool[k].staged)
           x == <<"staged", k>>
           y == <<"p", k>>
           kept == [pool[k] EXCEPT !.staged = Tail(pool[k].staged), !.p = Append(pool[k].p, c)]
           gone == [pool[k] EXCEPT !.staged = Tail(pool[k].staged)]
<1>1. UNCHANGED <<m, thr, wk, now, ctxdone>>
    BY DEF sweepBack
<1>2. pool[k] \in PoolRec /\ pool \in [Pools -> PoolRec]
    BY DEF Inv, Types
<1>3. \/ pool' = [pool EXCEPT ![k].sw = "idle"] /\ conn' = conn
      \/ pool[k].staged # << >> /\ pool' = [pool EXCEPT ![k] = kept] /\ conn' = conn
      \/ /\ pool[k].staged # << >> /\ pool' = [pool EXCEPT ![k] = gone]
         /\ conn' = [conn EXCEPT ![c] = Nil]
    <2>1. CASE pool[k].staged = << >>
        BY <2>1 DEF sweepBack
    <2>2. CASE pool[k].staged # << >> /\ ~pool[k].done /\ Len(pool[k].p) < Cap
        BY <2>2, Zenon DEF sweepBack
    <2>3. CASE pool[k].staged # << >> /\ ~(~pool[k].done /\ Len(pool[k].p) < Cap)
        <3>1. /\ pool' = [pool EXCEPT ![k].staged = Tail(@), ![k].p = @]
              /\ conn' = [conn EXCEPT ![c] = Nil]
            BY <2>3, SMTT(60) DEF sweepBack
        <3>2. [pool[k] EXCEPT !.staged = Tail(pool[k].staged), !.p = pool[k].p] = gone
            BY <1>2, Zenon DEF PoolRec
        <3>3. pool' = [pool EXCEPT ![k] = [pool[k] EXCEPT !.staged = Tail(pool[k].staged), !.p = pool[k].p]]
            BY <3>1, Zenon
        <3>4. QED
            BY <2>3, <3>1, <3>2, <3>3, Zenon
    <2>4. QED
        BY <2>1, <2>2, <2>3
<1>4. CASE pool' = [pool EXCEPT ![k].sw = "idle"] /\ conn' = conn
    <2>1. pool' \in [Pools -> PoolRec]
          /\ \A j \in Pools : pool'[j].p = pool[j].p /\ pool'[j].staged = pool[j].staged
        BY <1>2, <1>4, Zenon DEF PoolRec
    <2>2. QED
        BY <1>1, <1>4, <2>1, FlagsInv, SMTT(60) DEF Inv, Types
<1>5. CASE pool[k].staged # << >>
    <2>1. /\ c \in Conns /\ x \in Places /\ c \in Hold[x]
          /\ Tail(pool[k].staged) \in Seq(Conns) /\ Distinct(Tail(pool[k].staged))
          /\ Elems(Tail(pool[k].staged)) = Hold[x] \ {c}
        BY <1>5, StagedHead
    <2>2. x # y /\ y \in Places
        BY SMTT(60) DEF Places
    <2>3. /\ Append(pool[k].p, c) \in Seq(Conns) /\ Distinct(Append(pool[k].p, c))
          /\ Elems(Append(pool[k].p, c)) = Hold[y] \cup {c}
        BY <2>1, <2>2, Joins, SMTT(60)
    <2>4. /\ kept \in PoolRec /\ kept.staged = Tail(pool[k].staged)
          /\ kept.p = Append(pool[k].p, c)
        BY <1>2, <2>1, <2>3, Zenon DEF PoolRec
    <2>5. gone \in PoolRec /\ gone.staged = Tail(pool[k].staged) /\ gone.p = pool[k].p
        BY <1>2, <2>1, Zenon DEF PoolRec
    <2>6. Distinct(pool[k].p)
        BY SMTT(60) DEF Inv, QueuesDistinct
    <2>7. ThreadsSound'
        BY <1>1, SMTT(60) DEF Inv, ThreadsSound, ThreadSound
    <2> HIDE DEF kept, gone
    <2>8. CASE pool' = [pool EXCEPT ![k] = kept] /\ conn' = conn
        <3>1. Distinct(kept.p) /\ Distinct(kept.staged) /\ kept \in PoolRec
            BY <2>1, <2>3, <2>4, SMTT(60)
        <3>2. /\ pool' \in [Pools -> PoolRec] /\ QueuesDistinct'
              /\ \A j \in Pools \ {k} : pool'[j] = pool[j]
              /\ Hold'[<<"p", k>>] = Elems(kept.p) /\ Hold'[<<"staged", k>>] = Elems(kept.staged)
            BY <2>8, <3>1, OnePool, Zenon
        <3>3. Hold'[x] = Hold[x] \ {c} /\ Hold'[y] = Hold[y] \cup {c}
            BY <2>1, <2>3, <2>4, <3>2, ZenonT(60)
        <3>4. Types'
            BY <1>1, <2>8, <3>2, SMTT(60) DEF Inv, Types
        <3>5. \A z \in Places : z # x /\ z # y => Hold'[z] \subseteq Hold[z]
            <4> DEFINE D == {x, y}
            <4>1. /\ \A s \in Threads : <<"thr", s>> \notin D => ThrAt'[s] \subseteq ThrAt[s]
                  /\ \A s \in Threads : <<"wk", s>> \notin D => WkAt'[s] \subseteq WkAt[s]
                BY <1>1, SMTT(60) DEF ThrAt, WkAt
            <4>2. /\ \A j \in Pools : <<"p", j>> \notin D => pool'[j].p = pool[j].p
                  /\ \A j \in Pools : <<"staged", j>> \notin D => pool'[j].staged = pool[j].staged
                BY <3>2, SMTT(60)
            <4> HIDE DEF D
            <4>3. \A z \in Places : z \notin D => Hold'[z] \subseteq Hold[z]
                BY <4>1, <4>2, OtherPlaces
            <4>4. QED
                BY <4>3, SMTT(60) DEF D
        <3> HIDE DEF c, x, y
        <3>6. QED
            BY <2>1, <2>2, <2>7, <2>8, <3>2, <3>3, <3>4, <3>5, HandedOver, SMTT(60)
    <2>9. CASE pool' = [pool EXCEPT ![k] = gone] /\ conn' = [conn EXCEPT ![c] = Nil]
        <3>1. Distinct(gone.p) /\ Distinct(gone.staged) /\ gone \in PoolRec
            BY <2>1, <2>5, <2>6, SMTT(60)
        <3>2. /\ pool' \in [Pools -> PoolRec] /\ QueuesDistinct' /\ pool'[k] = gone
              /\ \A j \in Pools \ {k} : pool'[j] = pool[j]
              /\ Hold'[<<"staged", k>>] = Elems(gone.staged)
            BY <2>9, <3>1, OnePool, Zenon
        <3>3. Hold'[x] = Hold[x] \ {c}
            BY <2>1, <2>5, <3>2, SMTT(60)
        <3>4. Types'
            <4>1. conn' \in [Conns -> ConnRec \cup {Nil}]
                BY <2>1, <2>9, SMTT(60) DEF Inv, Types
            <4>2. QED
                BY <1>1, <3>2, <4>1, SMTT(60) DEF Inv, Types
        <3>5. \A z \in Places : z # x => Hold'[z] \subseteq Hold[z]
            <4> DEFINE D == {x}
            <4>1. /\ \A s \in Threads : <<"thr", s>> \notin D => ThrAt'[s] \subseteq ThrAt[s]
                  /\ \A s \in Threads : <<"wk", s>> \notin D => WkAt'[s] \subseteq WkAt[s]
                BY <1>1, SMTT(60) DEF ThrAt, WkAt
            <4>2. /\ \A j \in Pools : <<"p", j>> \notin D => pool'[j].p = pool[j].p
                  /\ \A j \in Pools : <<"staged", j>> \notin D => pool'[j].staged = pool[j].staged
                BY <2>5, <3>2, SMTT(60)
            <4> HIDE DEF D
            <4>3. \A z \in Places : z \notin D => Hold'[z] \subseteq Hold[z]
                BY <4>1, <4>2, OtherPlaces
            <4>4. QED
                BY <4>3, SMTT(60) DEF D
        <3> HIDE DEF c, x, y
        <3>6. QED
            BY <2>1, <2>7, <2>9, <3>2, <3>3, <3>4, <3>5, ClosedOne, Zenon
    <2>10. QED
        BY <1>3, <1>4, <2>8, <2>9, SMTT(60)
<1>6. QED
    BY <1>3, <1>4, <1>5, SMTT(60)

\* The clean goroutine marks its pool, closes its conns one by one, and ends.
LEMMA cleanInv ==
    ASSUME DotConstants, Inv, NEW k \in Pools, clean(k)
    PROVE  Inv'
<1>1. /\ UNCHANGED <<m, thr, wk, now, ctxdone>> /\ m \in Pools \cup {Nil} /\ now \in Nat
      /\ ctxdone \in BOOLEAN /\ pool \in [Pools -> PoolRec]
    BY DEF clean, Inv, Types
<1>2. CASE conn' = conn /\ pool' = [pool EXCEPT ![k].closed = TRUE, ![k].clean = "run"]
    <2> DEFINE r == [pool[k] EXCEPT !.closed = TRUE, !.clean = "run"]
    <2>1. r \in PoolRec /\ r.p = pool[k].p /\ r.staged = pool[k].staged
        BY <1>1, Zenon DEF PoolRec
    <2>2. pool' = [pool EXCEPT ![k] = r]
        BY <1>2, Zenon
    <2> HIDE DEF r
    <2>3. pool' \in [Pools -> PoolRec]
          /\ \A j \in Pools : pool'[j].p = pool[j].p /\ pool'[j].staged = pool[j].staged
        BY <1>1, <2>1, <2>2, SMTT(60)
    <2>4. QED
        BY <1>1, <1>2, <2>3, FlagsInv, SMTT(60)
<1>3. CASE /\ pool[k].p # << >> /\ pool' = [pool EXCEPT ![k].p = Tail(@)]
           /\ conn' = [conn EXCEPT ![Head(pool[k].p)] = Nil]
    BY <1>1, <1>3, ChannelCloses, Zenon
<1>4. CASE conn' = conn /\ pool' = [pool EXCEPT ![k].clean = "over"]
    <2>1. pool' \in [Pools -> PoolRec]
          /\ \A j \in Pools : pool'[j].p = pool[j].p /\ pool'[j].staged = pool[j].staged
        BY <1>1, <1>4, ZenonT(60) DEF PoolRec
    <2>2. QED
        BY <1>1, <1>4, <2>1, FlagsInv, SMTT(60)
<1>5. QED
    BY <1>2, <1>3, <1>4, Zenon DEF clean

\* A query dials a conn: one that was not open, and so was nowhere.
LEMMA dialedInv ==
    ASSUME DotConstants, Inv, NEW t \in Threads, dialed(t)
    PROVE  Inv'
<1>1. PICK c \in Conns, sys \in SysKinds :
         /\ conn[c] = Nil
         /\ conn' = [conn EXCEPT ![c] = [dob |-> now, sys |-> sys, ready |-> FALSE, dl |-> Nil]]
         /\ thr' = [thr EXCEPT ![t].pc = "got", ![t].c = c]
    BY Zenon DEF dialed
<1>2. thr[t].pc \in {"dialech", "dial", "dialtcp"} /\ UNCHANGED <<m, pool, wk, now, ctxdone>>
    BY DEF dialed
<1> DEFINE x == <<"thr", t>>
           r == [dob |-> now, sys |-> sys, ready |-> FALSE, dl |-> Nil]
<1>3. r \in ConnRec
    BY DEF DotConstants, ConnRec, Inv, Types
<1>4. conn' = [conn EXCEPT ![c] = r]
    BY <1>1
<1> HIDE DEF r
<1>5. conn' \in [Conns -> ConnRec \cup {Nil}] /\ \A d \in Conns : conn[d] # Nil \/ d = c => conn'[d] # Nil
    <2>1. r # Nil
        BY <1>3 DEF DotConstants, ConnRec
    <2>2. QED
        BY <1>3, <1>4, <2>1, SMTT(60) DEF Inv, Types
<1>6. /\ thr' \in [Threads -> ThrRec] /\ \A s \in Threads \ {t} : thr'[s] = thr[s]
      /\ thr'[t].pc = "got" /\ thr'[t].c = c
    <2>1. thr \in [Threads -> ThrRec] /\ "got" \in ThrPcs
        BY DEF Inv, Types, ThrPcs, HoldingPcs
    <2>2. QED
        BY <1>1, <2>1, ZenonT(60) DEF ThrRec
<1>7. Types'
    BY <1>2, <1>5, <1>6 DEF Inv, Types
<1>8. ThreadsSound'
    BY <1>2, <1>6, SMTT(60) DEF Inv, ThreadsSound, ThreadSound, HoldingPcs, DotConstants
<1>9. QueuesDistinct'
    BY <1>2 DEF Inv, QueuesDistinct
<1>10. Hold'[x] \subseteq {c} /\ x \in Places
    BY <1>6, HoldFacts, ZenonT(60) DEF HoldIs, ThrAt, Places
<1>11. \A z \in Places : z # x => Hold'[z] \subseteq Hold[z]
    <2> DEFINE D == {x}
    <2>1. /\ \A s \in Threads : <<"thr", s>> \notin D => ThrAt'[s] \subseteq ThrAt[s]
          /\ \A s \in Threads : <<"wk", s>> \notin D => WkAt'[s] \subseteq WkAt[s]
        BY <1>2, <1>6, SMTT(60) DEF ThrAt, WkAt
    <2> HIDE DEF D
    <2>2. \A z \in Places : z \notin D => Hold'[z] \subseteq Hold[z]
        BY <1>2, <2>1, OtherPlaces, SMTT(60)
    <2>3. QED
        BY <2>2, SMTT(60) DEF D
<1> HIDE DEF x
<1>12. Apart(Hold', conn')
    <2>1. Apart(Hold, conn)
        BY DEF Inv
    <2>2. \A z \in Places : c \notin Hold[z]
        BY <1>1, <2>1, SMTT(60) DEF Apart
    <2>3. \A z, w \in Places : z # w => Hold'[z] \cap Hold'[w] = {}
        BY <1>10, <1>11, <2>1, <2>2, SMTT(60) DEF Apart
    <2>4. \A z \in Places : \A d \in Hold'[z] : d \in Conns /\ conn'[d] # Nil
        BY <1>5, <1>10, <1>11, <2>1, SMTT(60) DEF Apart
    <2>5. QED
        BY <2>3, <2>4, SMTT(60) DEF Apart
<1>13. QED
    BY <1>7, <1>8, <1>9, <1>12 DEF Inv

-----------------------------------------------------------------------------
(* the invariant *)

\* At first nothing is open.
LEMMA InitInv ==
    ASSUME DotConstants, Init
    PROVE  Inv
<1>1. /\ m = Nil /\ pool = [k \in Pools |-> Unmade] /\ conn = [c \in Conns |-> Nil]
      /\ thr = [t \in Threads |-> IdleThread] /\ wk = [t \in Threads |-> NoWork]
      /\ now = 0 /\ ctxdone = FALSE
    BY DEF Init, InitPool
<1>2. << >> \in Seq(Conns)
    OBVIOUS
<1>3. Unmade \in PoolRec /\ Unmade.p = << >> /\ Unmade.staged = << >>
    BY <1>2, SMTT(60) DEF Unmade, PoolRec
<1>4. IdleThread \in ThrRec /\ IdleThread.pc = "idle" /\ IdleThread.c = Nil
    BY DEF IdleThread, ThrRec, ThrPcs
<1>5. NoWork \in WkRec /\ NoWork.pc = "idle" /\ NoWork.c = Nil /\ ~NoWork.live
    BY DEF NoWork, WkRec
<1>6. Types
    BY <1>1, <1>3, <1>4, <1>5, Zenon DEF Types
<1>7. ThreadsSound
    BY <1>1, <1>4, <1>5, SMTT(60) DEF ThreadsSound, ThreadSound, HoldingPcs
<1>8. QueuesDistinct
    BY <1>1, <1>3, EmptyQueue, SMTT(60) DEF QueuesDistinct
<1>9. \A z \in Places : Hold[z] = {}
    <2>1. \A t \in Threads : ThrAt[t] = {} /\ WkAt[t] = {}
        BY <1>1, <1>4, <1>5, SMTT(60) DEF ThrAt, WkAt
    <2>2. \A k \in Pools : Elems(pool[k].p) = {} /\ Elems(pool[k].staged) = {}
        BY <1>1, <1>3, EmptyQueue, SMTT(60)
    <2> SUFFICES ASSUME NEW z \in Places
                 PROVE  Hold[z] = {}
        OBVIOUS
    <2>3. CASE \E t \in Threads : z = <<"thr", t>> \/ z = <<"wk", t>>
        BY <2>1, <2>3, HoldFacts, ZenonT(60) DEF HoldIs
    <2>4. CASE \E k \in Pools : z = <<"p", k>> \/ z = <<"staged", k>>
        BY <2>2, <2>4, HoldFacts, ZenonT(60) DEF HoldIs
    <2>5. QED
        BY <2>3, <2>4, PlaceKinds, SMTT(60)
<1>10. Apart(Hold, conn)
    BY <1>9 DEF Apart
<1>11. QED
    BY <1>6, <1>7, <1>8, <1>10, SMTT(60) DEF Inv

\* Every step keeps the invariant.
LEMMA NextInv ==
    ASSUME DotConstants, Inv, [Next]_vars
    PROVE  Inv'
<1>1. CASE \E t \in Threads : call(t)
    BY <1>1, GetInv, getTimeoutInv, putLookupInv, putScrubInv, putConnInv, putSendInv,
       putRefusedInv, putKeepaliveInv, SMTT(60) DEF call
<1>2. CASE \E t \in Threads : worker(t)
    BY <1>2, workTakeInv, workStopInv, workSendInv, SMTT(60) DEF worker
<1>3. CASE superscrub
    BY <1>3, superscrubInv
<1>4. CASE \E k \in Pools : sweep(k) \/ clean(k)
    BY <1>4, sweepGoesOnInv, sweepTakeInv, sweepBackInv, cleanInv, SMTT(60) DEF sweep
<1>5. CASE Tick \/ \E c \in Conns : Readable(c)
    BY <1>5, TickInv, ReadableInv, SMTT(60)
<1>6. CASE \E t \in Threads : query(t)
    BY <1>6, QueryInv, echConfigInv, dialedInv, dialFailedInv, deadlineInv, exchangeInv,
       finishInv, SMTT(60) DEF query
<1>7. CASE Stop
    BY <1>7, cancelledInv DEF Stop
<1>8. CASE RelayTurns \/ UNCHANGED vars
    <2>1. UNCHANGED <<m, pool, conn, thr, wk, now, ctxdone>>
        BY <1>8, SMTT(60) DEF RelayTurns, poolvars, vars
    <2>2. Types' /\ ThreadsSound'
        BY <2>1, SMTT(60) DEF Inv, Types, ThreadsSound, ThreadSound
    <2>3. Quiet
        BY <2>1 DEF Quiet, ThrAt, WkAt
    <2>4. QED
        BY <2>2, <2>3, QuietInv, SMTT(60)
<1>9. QED
    BY <1>1, <1>2, <1>3, <1>4, <1>5, <1>6, <1>7, <1>8, SMTT(60) DEF Next, NextPool

\* Conns stay in one place, open, whatever the queries, the workers, the
\* scrubs, the cleans and Stop do (core/connpool.go:244-390).
THEOREM PoolInvariant ==
    ASSUME DotConstants
    PROVE  Spec => []Inv
<1>1. Init => Inv
    BY InitInv
<1>2. Inv /\ [Next]_vars => Inv'
    BY NextInv, SMTT(60)
<1>3. QED
    BY <1>1, <1>2, PTL DEF Spec

\* Whoever has c is a place that holds it.
LEMMA HoldersOf ==
    ASSUME DotConstants, NEW c \in Conns, NEW x \in Holders(c)
    PROVE  x \in Places /\ c \in Hold[x]
<1>1. /\ \A t \in Threads : thr[t].c = c /\ thr[t].pc # "putka" => c \in ThrAt[t]
      /\ \A t \in Threads : wk[t].c = c => c \in WkAt[t]
    BY DEF ThrAt, WkAt, DotConstants
<1>2. /\ \A k \in Pools : (\E i \in 1..Len(pool[k].p) : pool[k].p[i] = c) => c \in Elems(pool[k].p)
      /\ \A k \in Pools :
           (\E i \in 1..Len(pool[k].staged) : pool[k].staged[i] = c) => c \in Elems(pool[k].staged)
    BY DEF Elems
<1>3. /\ \A t \in Threads : <<"thr", t>> \in Places /\ <<"wk", t>> \in Places
      /\ \A k \in Pools : <<"p", k>> \in Places /\ <<"staged", k>> \in Places
    BY DEF Places
<1>4. \/ \E t \in Threads : x = <<"thr", t>> /\ thr[t].c = c /\ thr[t].pc # "putka"
      \/ \E t \in Threads : x = <<"wk", t>> /\ wk[t].c = c
      \/ \E k \in Pools : x = <<"p", k>> /\ \E i \in 1..Len(pool[k].p) : pool[k].p[i] = c
      \/ \E k \in Pools : x = <<"staged", k>> /\ \E i \in 1..Len(pool[k].staged) : pool[k].staged[i] = c
    BY DEF Holders
<1>5. QED
    BY <1>1, <1>2, <1>3, <1>4, HoldFacts, ZenonT(60) DEF HoldIs

\* OneOwner: no two queries share a conn, none is in the pool while a query
\* uses it, and whoever holds one holds an open one.
THEOREM ConnsHaveOneOwner ==
    ASSUME DotConstants
    PROVE  Spec => []OneOwner
<1>1. Inv => OneOwner
    <2> SUFFICES ASSUME Inv, NEW c \in Conns
                 PROVE  /\ \A x, y \in Holders(c) : x = y
                        /\ conn[c] = Nil => Holders(c) = {}
        BY DEF OneOwner
    <2>1. \A x \in Holders(c) : x \in Places /\ c \in Hold[x]
        BY HoldersOf
    <2>2. QED
        BY <2>1 DEF Inv, Apart
<1>2. QED
    BY <1>1, PoolInvariant, PTL
=============================================================================
