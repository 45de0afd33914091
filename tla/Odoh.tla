-------------------------------- MODULE Odoh -------------------------------
(***************************************************************************)
(* The oblivious half of the DoH transport (intra/doh/odoh.go): queries    *)
(* are sealed to a public key of the target, which the transport fetches   *)
(* from DNS or from a well-known url, keeps until it expires, and drops    *)
(* when the target refuses a query.                                        *)
(*                                                                         *)
(* A key is a number; the target replaces its key by the next one at any   *)
(* time and answers a query sealed to another with a client error. The     *)
(* lock omu covers each read and each write of the cached config, but not  *)
(* the read that returns it (odoh.go:171).                                 *)
(***************************************************************************)
EXTENDS Integers

CONSTANTS Threads,      \* goroutines that run Query
          MaxKey,       \* bound: keys of the target
          MaxNow,       \* bound: clock
          Ttl,          \* life of a fetched config
          Nil

VARIABLES key,          \* the target's key
          cfg, exp,     \* odohConfig, odohConfigExpiry
          preferWK,     \* try the well-known url first
          q, now

vars == <<key, cfg, exp, preferWK, q, now>>

Keys == 1..MaxKey
Idle == [pc |-> "idle", key |-> Nil, exp |-> 0, tried |-> 0, res |-> Nil]

Query == [pc : {"idle", "cached", "refresh", "keep", "build", "send", "drop"},
          key : Keys \cup {Nil}, exp : 0..(MaxNow + Ttl), tried : 0..1,
          res : {"answer", "servfail", "internal", Nil}]

TypeOK ==
  /\ key \in Keys /\ cfg \in Keys \cup {Nil} /\ exp \in 0..(MaxNow + Ttl)
  /\ preferWK \in BOOLEAN /\ q \in [Threads -> Query] /\ now \in 0..MaxNow

Init ==
  /\ key = 1 /\ cfg = Nil /\ exp = 0 /\ preferWK = FALSE /\ now = 0
  /\ q = [t \in Threads |-> Idle]

\* A query ends with an answer, a SERVFAIL or an internal error.
End(t, res) == q' = [q EXCEPT ![t] = [Idle EXCEPT !.res = res]]

\* fetchTargetConfig looks, under the lock, whether a live config is cached.
fetchTargetConfig(t) ==
  /\ q[t].pc = "idle"
  /\ q' = [q EXCEPT ![t] = [Idle EXCEPT
                              !.pc = IF cfg # Nil /\ now < exp THEN "cached" ELSE "refresh"]]
  /\ UNCHANGED <<key, cfg, exp, preferWK, now>>

\* It returns the cached config without the lock: by then it may be gone.
cached(t) ==
  /\ q[t].pc = "cached"
  /\ q' = [q EXCEPT ![t].pc = "build", ![t].key = cfg]
  /\ UNCHANGED <<key, cfg, exp, preferWK, now>>

\* refresh tries one source of the key and then the other; a failure of the
\* first swaps which is preferred. The config learnt from DNS lives as long as
\* its record, the other for an hour.
refreshOk(t) ==
  /\ q[t].pc = "refresh"
  /\ q' = [q EXCEPT ![t].pc = "keep", ![t].key = key, ![t].exp = now + Ttl, ![t].tried = 0]
  /\ UNCHANGED <<key, cfg, exp, preferWK, now>>

refreshFails(t) ==
  /\ q[t].pc = "refresh"
  /\ IF q[t].tried = 0
     THEN /\ preferWK' = ~preferWK
          /\ q' = [q EXCEPT ![t].tried = 1]
     ELSE /\ q' = [q EXCEPT ![t].pc = "keep", ![t].tried = 0]
          /\ UNCHANGED preferWK
  /\ UNCHANGED <<key, cfg, exp, now>>

\* What was fetched is kept, a failure too: it clears the cache.
keep(t) ==
  /\ q[t].pc = "keep"
  /\ cfg' = q[t].key /\ exp' = q[t].exp
  /\ IF q[t].key = Nil
     THEN End(t, "internal")
     ELSE q' = [q EXCEPT ![t].pc = "build", ![t].exp = 0]
  /\ UNCHANGED <<key, preferWK, now>>

\* buildTargetQuery seals the query to the config it was given, if any.
buildTargetQuery(t) ==
  /\ q[t].pc = "build"
  /\ IF q[t].key = Nil
     THEN End(t, "internal")
     ELSE q' = [q EXCEPT ![t].pc = "send"]
  /\ UNCHANGED <<key, cfg, exp, preferWK, now>>

\* doOdoh: the target opens what is sealed to its key and refuses the rest
\* with a client error; a request may also fail on the way.
doOdoh(t) ==
  /\ q[t].pc = "send"
  /\ \/ q[t].key = key /\ End(t, "answer")
     \/ q[t].key # key /\ q' = [q EXCEPT ![t].pc = "drop", ![t].key = Nil]
     \/ End(t, "servfail")
  /\ UNCHANGED <<key, cfg, exp, preferWK, now>>

\* A client error drops the cached config.
dropConfig(t) ==
  /\ q[t].pc = "drop"
  /\ cfg' = Nil /\ exp' = now
  /\ End(t, "servfail")
  /\ UNCHANGED <<key, preferWK, now>>

rotate == /\ key < MaxKey /\ key' = key + 1
          /\ UNCHANGED <<cfg, exp, preferWK, q, now>>

tick == /\ now < MaxNow /\ now' = now + 1
        /\ UNCHANGED <<key, cfg, exp, preferWK, q>>

queryNext(t) ==
  \/ fetchTargetConfig(t) \/ cached(t) \/ refreshOk(t) \/ refreshFails(t) \/ keep(t)
  \/ buildTargetQuery(t) \/ doOdoh(t) \/ dropConfig(t)

Next == rotate \/ tick \/ \E t \in Threads : queryNext(t)

Spec == Init /\ [][Next]_vars

-----------------------------------------------------------------------------
(* Properties *)

\* odoh.go:164-171: the cached config is read after the lock is released, and
\* another query may have dropped it in between; no query is sealed to the
\* config that is no longer there.
SealedToAKey == \A t \in Threads : q[t].pc = "send" => q[t].key # Nil

\* odoh.go:72-82: after the target has replaced its key, the queries that it
\* refuses drop the old one, and no refresh that was under way then brings it
\* back for good.
OldKeyIsDropped == <>[](cfg # Nil => cfg = key)

-----------------------------------------------------------------------------
(* what the proofs need *)

\* What the constants are.
OdohConstants ==
  MaxKey \in Nat \ {0} /\ MaxNow \in Nat /\ Ttl \in Nat /\ Nil \notin Keys

Inv == TypeOK /\ SealedToAKey
=============================================================================
