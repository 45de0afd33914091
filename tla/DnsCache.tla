------------------------------- MODULE DnsCache ------------------------------
(***************************************************************************)
(* The caching transport (intra/dnsx/cacher.go) in front of one transport: *)
(* a bucket of answers with their expiry, the barrier that coalesces       *)
(* upstream requests, the hangover clock of failed sends (core/hangover),  *)
(* and Clear, which may run between any two steps of a query.              *)
(*                                                                         *)
(* Clear drops the bucket from the store; queries under way keep theirs,   *)
(* so buckets carry a number and the store holds the latest one.           *)
(***************************************************************************)
EXTENDS Integers

CONSTANTS
    Keys,           \* qname:qtype:do
    Uncacheable,    \* keys of .onion and undelegated names
    Callers,        \* query goroutines and background refreshes
    Answers,        \* upstream outcomes: [ok, ttl, fail, ad]
    Ttl,            \* cb.ttl, the least time an answer is cached
    Halflife,       \* cb.halflife
    Bumps,          \* cb.bumps
    Battl, Httl,    \* life of a barrier's result; hangover threshold
    MaxNow, MaxClear,  \* bounds: time, calls of Clear
    MaxQueries,     \* bound: calls of Query
    Nil

VARIABLES
    buckets,        \* bucket number -> key -> cres or Nil
    store,          \* number of the bucket in ctransport.store, or Nil
    made,           \* buckets made
    flights,        \* reqbarrier: key -> [by, res, at] or Nil
    hangover,       \* time of the first failed send, or Nil
    calls,          \* caller -> its record, or Nil
    cleared,        \* time order: requests sent so far, and at the last Clear
    now, clears, asked

vars == <<buckets, store, made, flights, hangover, calls, cleared, now, clears,
          asked>>

Init ==
    /\ buckets = [b \in 0..MaxClear |-> [k \in Keys |-> Nil]]
    /\ store = Nil /\ made = 0
    /\ flights = [k \in Keys |-> Nil]
    /\ hangover = Nil
    /\ calls = [c \in Callers |-> Nil]
    /\ cleared = [sent |-> 0, upto |-> 0]
    /\ now = 0 /\ clears = 0 /\ asked = 0
-----------------------------------------------------------------------------
\* core.Hangover.
Note == hangover' = IF hangover = Nil THEN now ELSE hangover
Break == hangover' = Nil
Within(d) == hangover = Nil \/ now - hangover <= d

hangoverCheckpoint(a) == IF a.fail THEN Note ELSE Break

alive(v) == now <= v.expiry

\* Mutant: one bump too many.
bumpOnce(v) ==
    LET n == v.bumps * Halflife
        more == alive(v) /\ now < v.expiry - n
    IN  IF v.bumps > Bumps THEN v
        ELSE [v EXCEPT !.bumps = @ + 1,
                       !.expiry = IF more THEN @ + n ELSE @]

\* freshCopy lengthens the life of the shared entry on each read.
bump(v) ==
    LET n == v.bumps * Halflife
        more == alive(v) /\ now < v.expiry - n
    IN  IF v.bumps >= Bumps THEN v
        ELSE [v EXCEPT !.bumps = @ + 1,
                       !.expiry = IF more THEN @ + n ELSE @]

\* The entry read is fresh while alive, if it was read little or by chance.
freshOutcomes(v) ==
    IF ~alive(v) THEN {FALSE} ELSE IF v.bumps <= 2 THEN {TRUE} ELSE {TRUE, FALSE}

freshCopy(b, k) ==
    buckets' = [buckets EXCEPT ![b][k] = IF @ = Nil THEN Nil ELSE bump(@)]

\* put keeps successful answers of cacheable names at least Ttl long.
cacheable(k, a) == a.ok /\ k \notin Uncacheable

lifetime(a) == IF a.ttl < Ttl THEN Ttl ELSE a.ttl + Halflife

entry(a, n) == [expiry |-> now + lifetime(a), bumps |-> 0, born |-> now,
                life |-> lifetime(a), req |-> n, ad |-> a.ad]

put(b, k, a, n) ==
    buckets' = [buckets EXCEPT ![b][k] = IF cacheable(k, a) THEN entry(a, n) ELSE @]

\* A stale answer that DNSSEC authenticated is not served.
asResponse(v, fresh) == fresh \/ ~v.ad
-----------------------------------------------------------------------------
\* Query finds or makes the bucket.
Query(c, k) ==
    /\ calls[c] = Nil /\ asked < MaxQueries /\ asked' = asked + 1
    /\ store' = IF store = Nil THEN made ELSE store
    /\ made' = IF store = Nil THEN made + 1 ELSE made
    /\ calls' = [calls EXCEPT ![c] =
          [key |-> k, b |-> store', pc |-> "fetch", res |-> Nil, stale |-> FALSE]]
    /\ UNCHANGED <<buckets, flights, hangover, cleared, now, clears>>

done(c, stale) ==
    calls' = [calls EXCEPT ![c].pc = IF stale THEN "send" ELSE "done", ![c].stale = stale]

\* fetch: a hit is answered from the cache, a stale one refreshed behind it;
\* otherwise, or when sends have been failing for long, upstream is asked.
fetch(c) ==
    LET k == calls[c].key
        b == calls[c].b
        read == Within(Httl) /\ k \notin Uncacheable
        v == buckets[b][k]
    IN  /\ calls[c] # Nil /\ calls[c].pc = "fetch"
        /\ IF read /\ v # Nil
           THEN /\ freshCopy(b, k)
                /\ \E fresh \in freshOutcomes(v) :
                     IF asResponse(v, fresh) THEN done(c, ~fresh)
                     ELSE calls' = [calls EXCEPT ![c].pc = "send"]
           ELSE calls' = [calls EXCEPT ![c].pc = "send"] /\ UNCHANGED buckets
        /\ UNCHANGED <<store, made, flights, hangover, cleared, now, clears, asked>>

valid(f) == f # Nil /\ (f.res = Nil \/ now - f.at <= Battl)

\* sendRequest: the first caller sends, the others wait for its result.
sendRequest(c) ==
    LET k == calls[c].key
    IN  /\ calls[c] # Nil /\ calls[c].pc = "send"
        /\ IF valid(flights[k])
           THEN calls' = [calls EXCEPT ![c].pc = "wait"] /\ UNCHANGED <<flights, cleared>>
           ELSE /\ flights' = [flights EXCEPT ![k] = [by |-> c, res |-> Nil, at |-> now]]
                /\ cleared' = [cleared EXCEPT !.sent = @ + 1]
                /\ calls' = [calls EXCEPT ![c].pc = "sent"]
        /\ UNCHANGED <<buckets, store, made, hangover, now, clears, asked>>

\* The upstream transport answers the sender, which caches the answer.
onAnswer(c) ==
    LET k == calls[c].key
    IN  /\ calls[c] # Nil /\ calls[c].pc = "sent"
        /\ \E a \in Answers :
             /\ hangoverCheckpoint(a)
             /\ put(calls[c].b, k, a, cleared.sent)
             /\ flights' = [flights EXCEPT ![k].res = a, ![k].at = now]
        /\ calls' = [calls EXCEPT ![c].pc = "wait"]
        /\ UNCHANGED <<store, made, cleared, now, clears, asked>>

\* The result is taken from the cache if it is there, else from the barrier;
\* in hangover nothing is returned.
onResult(c) ==
    LET k == calls[c].key
        b == calls[c].b
        f == flights[k]
        v == buckets[b][k]
        got == v # Nil \/ f.res.ok
    IN  /\ calls[c] # Nil /\ calls[c].pc = "wait"
        /\ f.res # Nil
        /\ freshCopy(b, k)
        /\ calls' = [calls EXCEPT ![c].pc = "done",
              ![c].res = IF Within(Httl) /\ got THEN "ans" ELSE "err"]
        /\ UNCHANGED <<store, made, flights, hangover, cleared, now, clears, asked>>

\* The caller goes away.
Return(c) ==
    /\ calls[c] # Nil /\ calls[c].pc = "done"
    /\ calls' = [calls EXCEPT ![c] = Nil]
    /\ UNCHANGED <<buckets, store, made, flights, hangover, cleared, now, clears,
                   asked>>

\* Mutant: the bucket is emptied but stays in the store.
ClearInPlace ==
    /\ clears < MaxClear /\ clears' = clears + 1
    /\ store # Nil
    /\ buckets' = [buckets EXCEPT ![store] = [k \in Keys |-> Nil]]
    /\ cleared' = [cleared EXCEPT !.upto = cleared.sent]
    /\ UNCHANGED <<store, made, flights, hangover, calls, now, asked>>

\* Clear (also run when Stop cancels the context): every bucket is emptied
\* and the store forgets it.
Clear ==
    /\ clears < MaxClear /\ clears' = clears + 1
    /\ buckets' = [b \in DOMAIN buckets |-> IF b = store THEN [k \in Keys |-> Nil] ELSE buckets[b]]
    /\ store' = Nil
    /\ cleared' = [cleared EXCEPT !.upto = cleared.sent]
    /\ UNCHANGED <<made, flights, hangover, calls, now, asked>>

\* scrubCache, run by some puts, evicts expired entries under high load.
scrubCache(k) ==
    /\ store # Nil
    /\ buckets[store][k] # Nil /\ ~alive(buckets[store][k])
    /\ buckets' = [buckets EXCEPT ![store][k] = Nil]
    /\ UNCHANGED <<store, made, flights, hangover, calls, cleared, now, clears,
                   asked>>

Tick ==
    /\ now < MaxNow /\ now' = now + 1
    /\ UNCHANGED <<buckets, store, made, flights, hangover, calls, cleared,
                   clears, asked>>

Step(c) == fetch(c) \/ sendRequest(c) \/ onAnswer(c) \/ onResult(c)

Next == \/ \E c \in Callers : (\E k \in Keys : Query(c, k)) \/ Step(c) \/ Return(c)
        \/ Clear \/ Tick
        \/ \E k \in Keys : scrubCache(k)

Spec == Init /\ [][Next]_vars
-----------------------------------------------------------------------------
TypeOK ==
    /\ store \in 0..MaxClear \cup {Nil} /\ made \in 0..MaxClear + 1
    /\ \A b \in DOMAIN buckets, k \in Keys :
          buckets[b][k] # Nil => buckets[b][k].bumps \in 0..Bumps

\* Reads may keep a popular answer alive, but for no longer than the sum of
\* its bumps: an answer has a last moment, however often it is asked for.
LifeIsBounded ==
    \A b \in DOMAIN buckets, k \in Keys :
        LET v == buckets[b][k]
        IN  v # Nil => v.expiry <= v.born + v.life + Halflife * ((v.bumps * (v.bumps - 1)) \div 2)

\* What the cache holds after a Clear was asked for after it: a request that
\* was under way fills the bucket that was dropped, not the new one.
ClearedStaysCleared ==
    \A k \in Keys : (store # Nil /\ buckets[store][k] # Nil)
        => buckets[store][k].req > cleared.upto

\* A caller that got a stale answer leaves a refresh behind, which ends.
CallsEnd == \A c \in Callers :
    (calls[c] # Nil) ~> (calls[c] = Nil \/ calls[c].pc = "done")
=============================================================================
