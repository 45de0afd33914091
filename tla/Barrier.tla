------------------------------ MODULE Barrier ------------------------------
(***************************************************************************)
(* core.Barrier (intra/core/barrier.go): duplicate suppression with a      *)
(* time-to-live.  A call looks its key up under the mutex; it either joins *)
(* the V it finds or adds a V of its own, runs the work in a goroutine and *)
(* publishes what the work returns, or a timeout, to everyone who joined.  *)
(*                                                                         *)
(* A call is made once and creates at most one V, so the V is named after  *)
(* the call that owns it.  Calls are numbered in the order in which they   *)
(* get the mutex.  Time is a counter of ticks.                             *)
(***************************************************************************)
EXTENDS Integers, FiniteSets, TLAPS

CONSTANTS
    Keys,           \* the keys of m
    Calls,          \* every call of Do, Do1 or Go in a behaviour
    NoCall,         \* no V, no lock holder
    Ops,            \* the entry points used, a subset of {"Do", "Go"}
    Outcomes,       \* what the work may do: a subset of {"ok", "fail", "panic"}
    TTL,            \* ba.ttl, which is also ba.to
    Neg,            \* ba.neg: time-to-live of a V with an error
    ReapThreshold,  \* least time between two scrubs
    MaxReapIter,    \* entries a scrub looks at, less one
    MaxNow          \* bound on the clock when no timer is pending

ASSUME BarrierAssumption ==
    /\ Calls \subseteq Nat
    /\ NoCall \notin Calls
    /\ Ops \subseteq {"Do", "Go"}
    /\ Outcomes \subseteq {"ok", "fail", "panic"}
    /\ TTL \in Nat \ {0}
    /\ Neg \in Nat \ {0}
    /\ ReapThreshold \in Nat
    /\ MaxReapIter \in Nat
    /\ MaxNow \in Nat

VARIABLES
    now,        \* time.Now()
    closed,     \* ba.closed, set without the mutex
    cleared,    \* the callback on the context's end has emptied m
    mu,         \* the call that holds ba.mu between two of its steps
    m,          \* key -> the V cached for it
    lastscrub,  \* ba.lastscrub
    scrubs,     \* scrub goroutines that wait for the mutex
    call,       \* call -> where it is, what it asked for, the V it returns
    v,          \* call -> the V it owns
    work        \* call -> its goroutine running the work

vars == <<now, closed, cleared, mu, m, lastscrub, scrubs, call, v, work>>

\* Where a call can be: "add" holds the mutex and has found no V; "own" waits
\* for the work or the timer; "wrote" has set Val and Err but not called
\* wg.Done; "wait" is in wg.Wait; "dead" is a goroutine the panic of its work ended.
Where == {"idle", "add", "own", "wrote", "wait", "ret", "dead"}

\* "none" is a V whose Val and Err are not set; the last two have Err # nil.
Results == {"none", "ok", "fail", "timeout"}

CallStates == [pc : Where, op : Ops, key : Keys, ret : Calls \cup {NoCall}]

Vs == [dob : Nat, res : Results, done : BOOLEAN]

TypeOK ==
    /\ now \in Nat
    /\ closed \in BOOLEAN
    /\ cleared \in BOOLEAN
    /\ mu \in Calls \cup {NoCall}
    /\ m \in [Keys -> Calls \cup {NoCall}]
    /\ lastscrub \in Nat
    /\ scrubs \in Nat
    /\ call \in [Calls -> CallStates]
    /\ v \in [Calls -> Vs]
    /\ work \in [Calls -> {"none", "running"} \cup Outcomes]

Init ==
    /\ now = 0
    /\ closed = FALSE
    /\ cleared = FALSE
    /\ mu = NoCall
    /\ m = [k \in Keys |-> NoCall]
    /\ lastscrub = 0
    /\ scrubs = 0
    /\ call \in [Calls -> [pc : {"idle"}, op : Ops, key : Keys, ret : {NoCall}]]
    /\ v = [c \in Calls |-> [dob |-> 0, res |-> "none", done |-> FALSE]]
    /\ work = [c \in Calls |-> "none"]

-----------------------------------------------------------------------------

\* Err is read here under the mutex, and set by the owner without it.
Errored(c) == v[c].res \in {"fail", "timeout"}

\* Mutant: the time-to-live is not added to the date of birth.
ExpiredAtBirth(c) == now - v[c].dob > 0

Expired(c) == now - (v[c].dob + (IF Errored(c) THEN Neg ELSE TTL)) > 0

\* getLocked defers this on every path but the closed one.
maybeScrubLocked ==
    IF now - lastscrub < ReapThreshold
      THEN UNCHANGED <<lastscrub, scrubs>>
      ELSE lastscrub' = now /\ scrubs' = scrubs + 1

\* c gets the mutex, which no other step of a call holds.
Lock(c) ==
    /\ call[c].pc = "idle"
    /\ mu = NoCall
    /\ \A d \in Calls : d < c => call[d].pc # "idle"

\* Do, Do1, Go: mu.Lock; getLocked says there is nothing; the mutex is kept.
GetMiss(c) ==
    LET k == call[c].key IN
    /\ Lock(c)
    /\ IF closed
         THEN UNCHANGED <<m, lastscrub, scrubs>>
         ELSE /\ m[k] # NoCall => Expired(m[k])
              /\ m' = [m EXCEPT ![k] = NoCall]
              /\ maybeScrubLocked
    /\ mu' = c
    /\ call' = [call EXCEPT ![c].pc = "add"]
    /\ UNCHANGED <<now, closed, cleared, v, work>>

\* Do, Do1, Go: getLocked finds a V; the call unlocks and waits on it.
GetHit(c) ==
    LET e == m[call[c].key] IN
    /\ Lock(c)
    /\ ~closed
    /\ e # NoCall
    /\ ~Expired(e)
    /\ maybeScrubLocked
    /\ call' = [call EXCEPT ![c].pc = "wait", ![c].ret = e]
    /\ UNCHANGED <<now, closed, cleared, mu, m, v, work>>

\* Mutant: the V is stored whether or not the barrier is closed.
addLockedUnchecked(c) ==
    /\ call[c].pc = "add"
    /\ v' = [v EXCEPT ![c].dob = now]
    /\ m' = [m EXCEPT ![call[c].key] = c]
    /\ mu' = NoCall
    /\ call' = [call EXCEPT ![c].pc = "own", ![c].ret = c]
    /\ work' = [work EXCEPT ![c] = "running"]
    /\ UNCHANGED <<now, closed, cleared, lastscrub, scrubs>>

\* addLocked, mu.Unlock, and the start of the work.
addLocked(c) ==
    /\ call[c].pc = "add"
    /\ v' = [v EXCEPT ![c].dob = now]
    /\ m' = IF closed THEN m ELSE [m EXCEPT ![call[c].key] = c]
    /\ mu' = NoCall
    /\ call' = [call EXCEPT ![c].pc = "own", ![c].ret = c]
    /\ work' = [work EXCEPT ![c] = "running"]
    /\ UNCHANGED <<now, closed, cleared, lastscrub, scrubs>>

\* once() returns or panics, however late.  Under Do a panic ends the worker
\* alone; under Go the work runs in the goroutine that is to call wg.Done.
Finish(c, out) ==
    /\ work[c] = "running"
    /\ work' = [work EXCEPT ![c] = out]
    /\ call' = IF call[c].op = "Go" /\ out = "panic"
                 THEN [call EXCEPT ![c].pc = "dead"] ELSE call
    /\ UNCHANGED <<now, closed, cleared, mu, m, lastscrub, scrubs, v>>

\* Mutant: the worker writes to the V itself, late or not.
ReceiveLate(c) ==
    /\ call[c].pc \in {"own", "wrote", "ret"}
    /\ work[c] \in {"ok", "fail"}
    /\ v' = [v EXCEPT ![c].res = work[c]]
    /\ call' = [call EXCEPT ![c].pc = IF @ = "own" THEN "wrote" ELSE @]
    /\ UNCHANGED <<now, closed, cleared, mu, m, lastscrub, scrubs, work>>

\* The owner receives what the work returned and sets Val and Err.
Receive(c) ==
    /\ call[c].pc = "own"
    /\ work[c] \in {"ok", "fail"}
    /\ v' = [v EXCEPT ![c].res = work[c]]
    /\ call' = [call EXCEPT ![c].pc = "wrote"]
    /\ UNCHANGED <<now, closed, cleared, mu, m, lastscrub, scrubs, work>>

\* time.After(ba.to) fires first; the work goes on, its result is dropped.
Timeout(c) ==
    /\ call[c].pc = "own"
    /\ call[c].op = "Do"
    /\ now >= v[c].dob + TTL
    /\ v' = [v EXCEPT ![c].res = "timeout"]
    /\ call' = [call EXCEPT ![c].pc = "wrote"]
    /\ UNCHANGED <<now, closed, cleared, mu, m, lastscrub, scrubs, work>>

\* Mutant: an early return on an error skips wg.Done.
DoneIfOk(c) ==
    /\ call[c].pc = "wrote"
    /\ v' = [v EXCEPT ![c].done = ~Errored(c)]
    /\ call' = [call EXCEPT ![c].pc = "ret"]
    /\ UNCHANGED <<now, closed, cleared, mu, m, lastscrub, scrubs, work>>

\* wg.Done: the owner returns Anew.
Done(c) ==
    /\ call[c].pc = "wrote"
    /\ v' = [v EXCEPT ![c].done = TRUE]
    /\ call' = [call EXCEPT ![c].pc = "ret"]
    /\ UNCHANGED <<now, closed, cleared, mu, m, lastscrub, scrubs, work>>

\* wg.Wait returns: the duplicate returns Shared.
Share(c) ==
    /\ call[c].pc = "wait"
    /\ v[call[c].ret].done
    /\ call' = [call EXCEPT ![c].pc = "ret"]
    /\ UNCHANGED <<now, closed, cleared, mu, m, lastscrub, scrubs, v, work>>

\* A scrub goroutine gets the mutex and ranges over m, in Go's arbitrary order.
Scrub ==
    LET cached == {k \in Keys : m[k] # NoCall} IN
    /\ scrubs > 0
    /\ mu = NoCall
    /\ \E seen \in SUBSET cached :
         /\ Cardinality(seen) = MaxReapIter + 1 \/ seen = cached
         /\ Cardinality(seen) <= MaxReapIter + 1
         /\ m' = [k \in Keys |-> IF k \in seen /\ Expired(m[k]) THEN NoCall ELSE m[k]]
    /\ scrubs' = scrubs - 1
    /\ UNCHANGED <<now, closed, cleared, mu, lastscrub, call, v, work>>

\* The context ends: its callback marks the barrier closed ...
CtxDone ==
    /\ ~closed
    /\ closed' = TRUE
    /\ UNCHANGED <<now, cleared, mu, m, lastscrub, scrubs, call, v, work>>

\* ... and then takes the mutex and clears m.
Clear ==
    /\ closed
    /\ ~cleared
    /\ mu = NoCall
    /\ m' = [k \in Keys |-> NoCall]
    /\ cleared' = TRUE
    /\ UNCHANGED <<now, closed, mu, lastscrub, scrubs, call, v, work>>

\* The clock is bounded, but never stops short of a timer an owner waits for.
Tick ==
    /\ \/ now < MaxNow
       \/ \E c \in Calls : call[c].pc = "own" /\ now < v[c].dob + TTL
    /\ now' = now + 1
    /\ UNCHANGED <<closed, cleared, mu, m, lastscrub, scrubs, call, v, work>>

\* What the runtime schedules once a call has begun; neither the work, nor the
\* arrival of calls, nor the end of the context is owed to anyone.
Step(c) == addLocked(c) \/ Receive(c) \/ Timeout(c) \/ Done(c) \/ Share(c)

Next ==
    \/ \E c \in Calls :
         \/ GetMiss(c)
         \/ GetHit(c)
         \/ addLocked(c)
         \/ \E out \in Outcomes : Finish(c, out)
         \/ Receive(c)
         \/ Timeout(c)
         \/ Done(c)
         \/ Share(c)
    \/ Scrub
    \/ CtxDone
    \/ Clear
    \/ Tick

Spec == Init /\ [][Next]_vars

Fairness == WF_vars(Tick) /\ \A c \in Calls : WF_vars(Step(c))
LiveSpec == Spec /\ Fairness

\* The same, with work that always returns or panics.
WorkSpec == LiveSpec /\ \A c \in Calls : WF_vars(\E out \in Outcomes : Finish(c, out))

-----------------------------------------------------------------------------

Running(c) == work[c] = "running"

(***************************************************************************)
(* What suppression amounts to in the presence of timeouts: while the      *)
(* barrier is open, two executions for one key are in flight together only *)
(* if the second began a full TTL or more after the first.  An execution   *)
(* that outlives its owner's timeout (Do's select on time.After) or its    *)
(* entry (getLocked's expiry) is the only kind that can be overtaken.      *)
(***************************************************************************)
BoundedOverlap ==
    ~closed =>
      \A c, d \in Calls :
        (c # d /\ Running(c) /\ Running(d) /\ call[c].key = call[d].key)
          => \/ v[d].dob >= v[c].dob + TTL
             \/ v[c].dob >= v[d].dob + TTL

(***************************************************************************)
(* The callback sets closed before it takes the mutex and addLocked reads  *)
(* closed under it, so once m is cleared no racing call puts a V back that *)
(* nobody would ever evict.                                                *)
(***************************************************************************)
ClearedStaysEmpty == cleared => \A k \in Keys : m[k] = NoCall

(***************************************************************************)
(* Once wg.Done has been called the result everyone shares never changes:  *)
(* a work that returns after its owner's timeout leaves the V alone, and   *)
(* no V loses its done mark.                                               *)
(***************************************************************************)
PublishedIsFinal ==
    [][\A c \in Calls : v[c].done => v'[c] = v[c]]_vars

(***************************************************************************)
(* Do always returns, to owner and duplicate alike, whether or not the     *)
(* work it runs ever does: the owner's timer stands in for the work.  What *)
(* waits for an execution that Go began has no such timer.                 *)
(***************************************************************************)
Owner(c) == IF call[c].ret = NoCall THEN c ELSE call[c].ret

DoReturns ==
    \A c \in Calls :
      (call[c].pc # "idle" /\ call[Owner(c)].op = "Do") ~> (call[c].pc = "ret")

(***************************************************************************)
(* Do's comment: "the duplicate caller waits for the original to complete  *)
(* and receives the same results", which Go is to honour too.              *)
(***************************************************************************)
DuplicateReturns ==
    \A c \in Calls : (call[c].pc = "wait") ~> (call[c].pc = "ret")

-----------------------------------------------------------------------------
(* Proofs, for every set of keys and calls and all values of the            *)
(* times-to-live.                                                           *)

\* An entry of m is a V whose owner has been through addLocked for that key.
EntriesOwned ==
    \A k \in Keys : m[k] # NoCall =>
        call[m[k]].key = k /\ call[m[k]].pc \notin {"idle", "add"}

\* Only a call that got past addLocked has work running.
WorkersOwned ==
    \A c \in Calls : Running(c) => call[c].pc \notin {"idle", "add", "wait"}

\* A V whose owner has not set it yet is not done, and the work's result is
\* the only way but the timer to set it: a V set while its work still runs is
\* one that timed out, hence at least TTL old.
UnsetUntilWritten ==
    \A c \in Calls :
        /\ call[c].pc \in {"idle", "add", "own"} => v[c].res = "none" /\ ~v[c].done
        /\ call[c].pc = "wrote" => ~v[c].done
        /\ Running(c) /\ v[c].res # "none" => now >= v[c].dob + TTL

\* While the barrier is open, an execution in flight is still the one cached
\* for its key, or is at least TTL old.
CachedOrAged ==
    ~closed => \A c \in Calls :
        Running(c) => m[call[c].key] = c \/ now >= v[c].dob + TTL

\* Between getLocked and addLocked the call holds the mutex, and what it has
\* seen still holds: there is no entry for its key.
AddHoldsMutex ==
    \A c \in Calls : call[c].pc = "add" =>
        mu = c /\ (~closed => m[call[c].key] = NoCall)

\* The callback clears m only after it has set closed.
ClearedIsClosed == cleared => closed

Inv ==
    /\ TypeOK
    /\ EntriesOwned
    /\ WorkersOwned
    /\ UnsetUntilWritten
    /\ CachedOrAged
    /\ AddHoldsMutex
    /\ ClearedIsClosed
    /\ ClearedStaysEmpty
    /\ BoundedOverlap
-----------------------------------------------------------------------------

\* Records updated in two fields, or in a Boolean one, keep their type.
LEMMA CallUpdated ==
    ASSUME NEW r \in CallStates, NEW e \in Calls, NEW x \in Where
    PROVE  [r EXCEPT !.pc = x, !.ret = e] \in CallStates
  BY Zenon DEF CallStates

\* A call that moves stays a call.
LEMMA CallMoves ==
    ASSUME call \in [Calls -> CallStates], NEW c \in Calls, NEW x \in Where
    PROVE  [call EXCEPT ![c].pc = x] \in [Calls -> CallStates]
<1>1. [call[c] EXCEPT !.pc = x] \in CallStates
  BY DEF CallStates
<1> QED
  BY <1>1

\* A V that is done stays a V.
LEMMA VDone == ASSUME NEW r \in Vs PROVE [r EXCEPT !.done = TRUE] \in Vs
  BY Zenon DEF Vs

\* The initial state has no V, no execution and an open, empty barrier.
LEMMA InitInv == Init => Inv
<1> SUFFICES ASSUME Init PROVE Inv
  OBVIOUS
<1>1. TypeOK
  <2>1. call \in [Calls -> CallStates]
    BY DEF Init, CallStates, Where
  <2>2. v \in [Calls -> Vs]
    BY DEF Init, Vs, Results
  <2>3. QED
    BY <2>1, <2>2, Zenon DEF Init, TypeOK
<1>2. QED
  BY <1>1, BarrierAssumption DEF Init, Inv, EntriesOwned, WorkersOwned, UnsetUntilWritten,
     CachedOrAged, AddHoldsMutex, ClearedIsClosed, ClearedStaysEmpty, BoundedOverlap, Running

\* Every step of the code, and a stutter, preserves the inductive invariant.
LEMMA NextInv == Inv /\ [Next]_vars => Inv'
<1> SUFFICES ASSUME Inv, [Next]_vars PROVE Inv'
  OBVIOUS
<1> USE BarrierAssumption DEF Where, Results, CallStates, Vs
<1>1. ASSUME NEW c \in Calls, GetMiss(c) PROVE Inv'
  <2>1. TypeOK'
    <3>1. call' \in [Calls -> CallStates]
      <4> HIDE DEF CallStates, Vs
      <4> QED
        BY <1>1, CallMoves, Zenon DEF Inv, TypeOK, GetMiss
    <3>2. v' \in [Calls -> Vs]
      BY <1>1 DEF Inv, TypeOK, GetMiss, Lock
    <3>3. QED
      BY <1>1, <3>1, <3>2 DEF Inv, TypeOK, GetMiss, Lock, maybeScrubLocked
  <2>2. EntriesOwned'
    BY <1>1, SMTT(60) DEF Inv, EntriesOwned, TypeOK, GetMiss, Lock, maybeScrubLocked, Expired, Errored
  <2>3. WorkersOwned'
    BY <1>1 DEF Inv, WorkersOwned, Running, TypeOK, GetMiss, Lock, maybeScrubLocked, Expired, Errored
  <2>4. UnsetUntilWritten'
    BY <1>1 DEF Inv, UnsetUntilWritten, Running, WorkersOwned, TypeOK, GetMiss, Lock, maybeScrubLocked, Expired, Errored
  <2>5. CachedOrAged'
    BY <1>1 DEF Inv, CachedOrAged, Running, WorkersOwned, UnsetUntilWritten, AddHoldsMutex, TypeOK, GetMiss, Lock, maybeScrubLocked, Expired, Errored
  <2>6. AddHoldsMutex'
    BY <1>1 DEF Inv, AddHoldsMutex, TypeOK, GetMiss, Lock, maybeScrubLocked, Expired, Errored
  <2>7. ClearedIsClosed'
    BY <1>1 DEF Inv, ClearedIsClosed, GetMiss, Lock, maybeScrubLocked, Expired, Errored
  <2>8. ClearedStaysEmpty'
    BY <1>1 DEF Inv, ClearedStaysEmpty, ClearedIsClosed, TypeOK, GetMiss, Lock, maybeScrubLocked, Expired, Errored
  <2>9. BoundedOverlap'
    BY <1>1 DEF Inv, BoundedOverlap, Running, WorkersOwned, CachedOrAged, AddHoldsMutex, TypeOK, GetMiss, Lock, maybeScrubLocked, Expired, Errored
  <2> QED  BY <2>1, <2>2, <2>3, <2>4, <2>5, <2>6, <2>7, <2>8, <2>9 DEF Inv
<1>2. ASSUME NEW c \in Calls, GetHit(c) PROVE Inv'
  <2>1. TypeOK'
    <3>1. call' \in [Calls -> CallStates]
      <4>1. m[call[c].key] \in Calls
        BY <1>2, SMTT(60) DEF Inv, TypeOK, GetHit, Lock
      <4> HIDE DEF CallStates, Vs
      <4>2. [call[c] EXCEPT !.pc = "wait", !.ret = m[call[c].key]] \in CallStates
        BY <4>1, CallUpdated, Zenon DEF Inv, TypeOK
      <4>3. QED
        BY <1>2, <4>2 DEF Inv, TypeOK, GetHit, Lock
    <3>2. v' \in [Calls -> Vs]
      BY <1>2 DEF Inv, TypeOK, GetHit, Lock
    <3>3. QED
      BY <1>2, <3>1, <3>2 DEF Inv, TypeOK, GetHit, Lock, maybeScrubLocked
  <2>2. EntriesOwned'
    BY <1>2 DEF Inv, EntriesOwned, TypeOK, GetHit, Lock, maybeScrubLocked
  <2>3. WorkersOwned'
    BY <1>2 DEF Inv, WorkersOwned, Running, TypeOK, GetHit, Lock, maybeScrubLocked
  <2>4. UnsetUntilWritten'
    BY <1>2 DEF Inv, UnsetUntilWritten, Running, WorkersOwned, TypeOK, GetHit, Lock, maybeScrubLocked
  <2>5. CachedOrAged'
    BY <1>2 DEF Inv, CachedOrAged, Running, WorkersOwned, UnsetUntilWritten, AddHoldsMutex, TypeOK, GetHit, Lock, maybeScrubLocked
  <2>6. AddHoldsMutex'
    BY <1>2 DEF Inv, AddHoldsMutex, TypeOK, GetHit, Lock, maybeScrubLocked
  <2>7. ClearedIsClosed'
    BY <1>2 DEF Inv, ClearedIsClosed, GetHit, Lock, maybeScrubLocked
  <2>8. ClearedStaysEmpty'
    BY <1>2 DEF Inv, ClearedStaysEmpty, ClearedIsClosed, TypeOK, GetHit, Lock, maybeScrubLocked
  <2>9. BoundedOverlap'
    BY <1>2 DEF Inv, BoundedOverlap, Running, WorkersOwned, CachedOrAged, AddHoldsMutex, TypeOK, GetHit, Lock, maybeScrubLocked
  <2> QED  BY <2>1, <2>2, <2>3, <2>4, <2>5, <2>6, <2>7, <2>8, <2>9 DEF Inv
<1>3. ASSUME NEW c \in Calls, addLocked(c) PROVE Inv'
  <2>1. TypeOK'
    <3>1. call' \in [Calls -> CallStates]
      <4> HIDE DEF CallStates, Vs
      <4>1. [call[c] EXCEPT !.pc = "own", !.ret = c] \in CallStates
        BY <1>3, CallUpdated, Zenon DEF Inv, TypeOK, addLocked
      <4>2. QED
        BY <1>3, <4>1, SMTT(60) DEF Inv, TypeOK, addLocked
    <3>2. v' \in [Calls -> Vs]
      BY <1>3, SMTT(60) DEF Inv, TypeOK, addLocked
    <3>3. QED
      BY <1>3, <3>1, <3>2 DEF Inv, TypeOK, addLocked
  <2>2. EntriesOwned'
    BY <1>3 DEF Inv, EntriesOwned, TypeOK, addLocked
  <2>3. WorkersOwned'
    BY <1>3 DEF Inv, WorkersOwned, Running, TypeOK, addLocked
  <2>4. UnsetUntilWritten'
    BY <1>3 DEF Inv, UnsetUntilWritten, Running, WorkersOwned, TypeOK, addLocked
  <2>5. CachedOrAged'
    BY <1>3 DEF Inv, CachedOrAged, Running, WorkersOwned, UnsetUntilWritten, AddHoldsMutex, TypeOK, addLocked
  <2>6. AddHoldsMutex'
    BY <1>3 DEF Inv, AddHoldsMutex, TypeOK, addLocked
  <2>7. ClearedIsClosed'
    BY <1>3 DEF Inv, ClearedIsClosed, addLocked
  <2>8. ClearedStaysEmpty'
    BY <1>3 DEF Inv, ClearedStaysEmpty, ClearedIsClosed, TypeOK, addLocked
  <2>9. BoundedOverlap'
    BY <1>3 DEF Inv, BoundedOverlap, Running, WorkersOwned, CachedOrAged, AddHoldsMutex, TypeOK, addLocked
  <2> QED  BY <2>1, <2>2, <2>3, <2>4, <2>5, <2>6, <2>7, <2>8, <2>9 DEF Inv
<1>4. ASSUME NEW c \in Calls, NEW out \in Outcomes, Finish(c, out) PROVE Inv'
  <2>1. TypeOK'
    <3>1. call' \in [Calls -> CallStates]
      <4> HIDE DEF CallStates, Vs
      <4> QED
        BY <1>4, CallMoves, Zenon DEF Inv, TypeOK, Finish
    <3>2. work' \in [Calls -> {"none", "running"} \cup Outcomes]
      BY <1>4 DEF Inv, TypeOK, Finish
    <3>3. QED
      BY <1>4, <3>1, <3>2 DEF Inv, TypeOK, Finish
  <2>2. EntriesOwned'
    BY <1>4 DEF Inv, EntriesOwned, TypeOK, Finish
  <2>3. WorkersOwned'
    BY <1>4 DEF Inv, WorkersOwned, Running, TypeOK, Finish
  <2>4. UnsetUntilWritten'
    BY <1>4 DEF Inv, UnsetUntilWritten, Running, WorkersOwned, TypeOK, Finish
  <2>5. CachedOrAged'
    BY <1>4 DEF Inv, CachedOrAged, Running, WorkersOwned, UnsetUntilWritten, AddHoldsMutex, TypeOK, Finish
  <2>6. AddHoldsMutex'
    BY <1>4 DEF Inv, AddHoldsMutex, TypeOK, Finish
  <2>7. ClearedIsClosed'
    BY <1>4 DEF Inv, ClearedIsClosed, Finish
  <2>8. ClearedStaysEmpty'
    BY <1>4 DEF Inv, ClearedStaysEmpty, ClearedIsClosed, TypeOK, Finish
  <2>9. BoundedOverlap'
    BY <1>4 DEF Inv, BoundedOverlap, Running, WorkersOwned, CachedOrAged, AddHoldsMutex, TypeOK, Finish
  <2> QED  BY <2>1, <2>2, <2>3, <2>4, <2>5, <2>6, <2>7, <2>8, <2>9 DEF Inv
<1>5. ASSUME NEW c \in Calls, Receive(c) PROVE Inv'
  <2>1. TypeOK'
    <3>1. call' \in [Calls -> CallStates]
      <4> HIDE DEF CallStates, Vs
      <4> QED
        BY <1>5, CallMoves, Zenon DEF Inv, TypeOK, Receive
    <3>2. v' \in [Calls -> Vs]
      BY <1>5 DEF Inv, TypeOK, Receive
    <3>3. QED
      BY <1>5, <3>1, <3>2 DEF Inv, TypeOK, Receive
  <2>2. EntriesOwned'
    BY <1>5 DEF Inv, EntriesOwned, TypeOK, Receive
  <2>3. WorkersOwned'
    BY <1>5 DEF Inv, WorkersOwned, Running, TypeOK, Receive
  <2>4. UnsetUntilWritten'
    BY <1>5 DEF Inv, UnsetUntilWritten, Running, WorkersOwned, TypeOK, Receive
  <2>5. CachedOrAged'
    BY <1>5 DEF Inv, CachedOrAged, Running, WorkersOwned, UnsetUntilWritten, AddHoldsMutex, TypeOK, Receive
  <2>6. AddHoldsMutex'
    BY <1>5 DEF Inv, AddHoldsMutex, TypeOK, Receive
  <2>7. ClearedIsClosed'
    BY <1>5 DEF Inv, ClearedIsClosed, Receive
  <2>8. ClearedStaysEmpty'
    BY <1>5 DEF Inv, ClearedStaysEmpty, ClearedIsClosed, TypeOK, Receive
  <2>9. BoundedOverlap'
    BY <1>5 DEF Inv, BoundedOverlap, Running, WorkersOwned, CachedOrAged, AddHoldsMutex, TypeOK, Receive
  <2> QED  BY <2>1, <2>2, <2>3, <2>4, <2>5, <2>6, <2>7, <2>8, <2>9 DEF Inv
<1>6. ASSUME NEW c \in Calls, Timeout(c) PROVE Inv'
  <2>1. TypeOK'
    <3>1. call' \in [Calls -> CallStates]
      <4> HIDE DEF CallStates, Vs
      <4> QED
        BY <1>6, CallMoves, Zenon DEF Inv, TypeOK, Timeout
    <3>2. v' \in [Calls -> Vs]
      BY <1>6 DEF Inv, TypeOK, Timeout
    <3>3. QED
      BY <1>6, <3>1, <3>2 DEF Inv, TypeOK, Timeout
  <2>2. EntriesOwned'
    BY <1>6 DEF Inv, EntriesOwned, TypeOK, Timeout
  <2>3. WorkersOwned'
    BY <1>6 DEF Inv, WorkersOwned, Running, TypeOK, Timeout
  <2>4. UnsetUntilWritten'
    BY <1>6 DEF Inv, UnsetUntilWritten, Running, WorkersOwned, TypeOK, Timeout
  <2>5. CachedOrAged'
    BY <1>6 DEF Inv, CachedOrAged, Running, WorkersOwned, UnsetUntilWritten, AddHoldsMutex, TypeOK, Timeout
  <2>6. AddHoldsMutex'
    BY <1>6 DEF Inv, AddHoldsMutex, TypeOK, Timeout
  <2>7. ClearedIsClosed'
    BY <1>6 DEF Inv, ClearedIsClosed, Timeout
  <2>8. ClearedStaysEmpty'
    BY <1>6 DEF Inv, ClearedStaysEmpty, ClearedIsClosed, TypeOK, Timeout
  <2>9. BoundedOverlap'
    BY <1>6 DEF Inv, BoundedOverlap, Running, WorkersOwned, CachedOrAged, AddHoldsMutex, TypeOK, Timeout
  <2> QED  BY <2>1, <2>2, <2>3, <2>4, <2>5, <2>6, <2>7, <2>8, <2>9 DEF Inv
<1>7. ASSUME NEW c \in Calls, Done(c) PROVE Inv'
  <2>1. TypeOK'
    <3>1. call' \in [Calls -> CallStates]
      <4> HIDE DEF CallStates, Vs
      <4> QED
        BY <1>7, CallMoves, Zenon DEF Inv, TypeOK, Done
    <3>2. v' \in [Calls -> Vs]
      <4> HIDE DEF CallStates, Vs
      <4>1. [v[c] EXCEPT !.done = TRUE] \in Vs
        BY <1>7, VDone DEF Inv, TypeOK, Done
      <4>2. QED
        BY <1>7, <4>1 DEF Inv, TypeOK, Done
    <3>3. QED
      BY <1>7, <3>1, <3>2 DEF Inv, TypeOK, Done
  <2>2. EntriesOwned'
    BY <1>7 DEF Inv, EntriesOwned, TypeOK, Done
  <2>3. WorkersOwned'
    BY <1>7 DEF Inv, WorkersOwned, Running, TypeOK, Done
  <2>4. UnsetUntilWritten'
    BY <1>7 DEF Inv, UnsetUntilWritten, Running, WorkersOwned, TypeOK, Done
  <2>5. CachedOrAged'
    BY <1>7 DEF Inv, CachedOrAged, Running, WorkersOwned, UnsetUntilWritten, AddHoldsMutex, TypeOK, Done
  <2>6. AddHoldsMutex'
    BY <1>7 DEF Inv, AddHoldsMutex, TypeOK, Done
  <2>7. ClearedIsClosed'
    BY <1>7 DEF Inv, ClearedIsClosed, Done
  <2>8. ClearedStaysEmpty'
    BY <1>7 DEF Inv, ClearedStaysEmpty, ClearedIsClosed, TypeOK, Done
  <2>9. BoundedOverlap'
    BY <1>7 DEF Inv, BoundedOverlap, Running, WorkersOwned, CachedOrAged, AddHoldsMutex, TypeOK, Done
  <2> QED  BY <2>1, <2>2, <2>3, <2>4, <2>5, <2>6, <2>7, <2>8, <2>9 DEF Inv
<1>8. ASSUME NEW c \in Calls, Share(c) PROVE Inv'
  <2>1. TypeOK'
    <3> HIDE DEF CallStates, Vs
    <3> QED
      BY <1>8, CallMoves, Zenon DEF Inv, TypeOK, Share
  <2>2. EntriesOwned'
    BY <1>8 DEF Inv, EntriesOwned, TypeOK, Share
  <2>3. WorkersOwned'
    BY <1>8 DEF Inv, WorkersOwned, Running, TypeOK, Share
  <2>4. UnsetUntilWritten'
    BY <1>8 DEF Inv, UnsetUntilWritten, Running, WorkersOwned, TypeOK, Share
  <2>5. CachedOrAged'
    BY <1>8 DEF Inv, CachedOrAged, Running, WorkersOwned, UnsetUntilWritten, AddHoldsMutex, TypeOK, Share
  <2>6. AddHoldsMutex'
    BY <1>8 DEF Inv, AddHoldsMutex, TypeOK, Share
  <2>7. ClearedIsClosed'
    BY <1>8 DEF Inv, ClearedIsClosed, Share
  <2>8. ClearedStaysEmpty'
    BY <1>8 DEF Inv, ClearedStaysEmpty, ClearedIsClosed, TypeOK, Share
  <2>9. BoundedOverlap'
    BY <1>8 DEF Inv, BoundedOverlap, Running, WorkersOwned, CachedOrAged, AddHoldsMutex, TypeOK, Share
  <2> QED  BY <2>1, <2>2, <2>3, <2>4, <2>5, <2>6, <2>7, <2>8, <2>9 DEF Inv
<1>9. CASE Scrub
  <2>1. TypeOK'
    BY <1>9 DEF Inv, TypeOK, Scrub, Expired, Errored
  <2>2. EntriesOwned'
    BY <1>9 DEF Inv, EntriesOwned, TypeOK, Scrub, Expired, Errored
  <2>3. WorkersOwned'
    BY <1>9 DEF Inv, WorkersOwned, Running, TypeOK, Scrub, Expired, Errored
  <2>4. UnsetUntilWritten'
    BY <1>9 DEF Inv, UnsetUntilWritten, Running, WorkersOwned, TypeOK, Scrub, Expired, Errored
  <2>5. CachedOrAged'
    BY <1>9 DEF Inv, CachedOrAged, Running, WorkersOwned, UnsetUntilWritten, AddHoldsMutex, TypeOK, Scrub, Expired, Errored
  <2>6. AddHoldsMutex'
    BY <1>9 DEF Inv, AddHoldsMutex, TypeOK, Scrub, Expired, Errored
  <2>7. ClearedIsClosed'
    BY <1>9 DEF Inv, ClearedIsClosed, Scrub, Expired, Errored
  <2>8. ClearedStaysEmpty'
    BY <1>9 DEF Inv, ClearedStaysEmpty, ClearedIsClosed, TypeOK, Scrub, Expired, Errored
  <2>9. BoundedOverlap'
    BY <1>9 DEF Inv, BoundedOverlap, Running, WorkersOwned, CachedOrAged, AddHoldsMutex, TypeOK, Scrub, Expired, Errored
  <2> QED  BY <2>1, <2>2, <2>3, <2>4, <2>5, <2>6, <2>7, <2>8, <2>9 DEF Inv
<1>10. CASE CtxDone
  <2>1. TypeOK'
    BY <1>10 DEF Inv, TypeOK, CtxDone
  <2>2. EntriesOwned'
    BY <1>10 DEF Inv, EntriesOwned, TypeOK, CtxDone
  <2>3. WorkersOwned'
    BY <1>10 DEF Inv, WorkersOwned, Running, TypeOK, CtxDone
  <2>4. UnsetUntilWritten'
    BY <1>10 DEF Inv, UnsetUntilWritten, Running, WorkersOwned, TypeOK, CtxDone
  <2>5. CachedOrAged'
    BY <1>10 DEF Inv, CachedOrAged, Running, WorkersOwned, UnsetUntilWritten, AddHoldsMutex, TypeOK, CtxDone
  <2>6. AddHoldsMutex'
    BY <1>10 DEF Inv, AddHoldsMutex, TypeOK, CtxDone
  <2>7. ClearedIsClosed'
    BY <1>10 DEF Inv, ClearedIsClosed, CtxDone
  <2>8. ClearedStaysEmpty'
    BY <1>10 DEF Inv, ClearedStaysEmpty, ClearedIsClosed, TypeOK, CtxDone
  <2>9. BoundedOverlap'
    BY <1>10 DEF Inv, BoundedOverlap, Running, WorkersOwned, CachedOrAged, AddHoldsMutex, TypeOK, CtxDone
  <2> QED  BY <2>1, <2>2, <2>3, <2>4, <2>5, <2>6, <2>7, <2>8, <2>9 DEF Inv
<1>11. CASE Clear
  <2>1. TypeOK'
    BY <1>11 DEF Inv, TypeOK, Clear
  <2>2. EntriesOwned'
    BY <1>11 DEF Inv, EntriesOwned, TypeOK, Clear
  <2>3. WorkersOwned'
    BY <1>11 DEF Inv, WorkersOwned, Running, TypeOK, Clear
  <2>4. UnsetUntilWritten'
    BY <1>11 DEF Inv, UnsetUntilWritten, Running, WorkersOwned, TypeOK, Clear
  <2>5. CachedOrAged'
    BY <1>11 DEF Inv, CachedOrAged, Running, WorkersOwned, UnsetUntilWritten, AddHoldsMutex, TypeOK, Clear
  <2>6. AddHoldsMutex'
    BY <1>11 DEF Inv, AddHoldsMutex, TypeOK, Clear
  <2>7. ClearedIsClosed'
    BY <1>11 DEF Inv, ClearedIsClosed, Clear
  <2>8. ClearedStaysEmpty'
    BY <1>11 DEF Inv, ClearedStaysEmpty, ClearedIsClosed, TypeOK, Clear
  <2>9. BoundedOverlap'
    BY <1>11 DEF Inv, BoundedOverlap, Running, WorkersOwned, CachedOrAged, AddHoldsMutex, TypeOK, Clear
  <2> QED  BY <2>1, <2>2, <2>3, <2>4, <2>5, <2>6, <2>7, <2>8, <2>9 DEF Inv
<1>12. CASE Tick
  <2>1. TypeOK'
    BY <1>12 DEF Inv, TypeOK, Tick
  <2>2. EntriesOwned'
    BY <1>12 DEF Inv, EntriesOwned, TypeOK, Tick
  <2>3. WorkersOwned'
    BY <1>12 DEF Inv, WorkersOwned, Running, TypeOK, Tick
  <2>4. UnsetUntilWritten'
    BY <1>12 DEF Inv, UnsetUntilWritten, Running, WorkersOwned, TypeOK, Tick
  <2>5. CachedOrAged'
    BY <1>12 DEF Inv, CachedOrAged, Running, WorkersOwned, UnsetUntilWritten, AddHoldsMutex, TypeOK, Tick
  <2>6. AddHoldsMutex'
    BY <1>12 DEF Inv, AddHoldsMutex, TypeOK, Tick
  <2>7. ClearedIsClosed'
    BY <1>12 DEF Inv, ClearedIsClosed, Tick
  <2>8. ClearedStaysEmpty'
    BY <1>12 DEF Inv, ClearedStaysEmpty, ClearedIsClosed, TypeOK, Tick
  <2>9. BoundedOverlap'
    BY <1>12 DEF Inv, BoundedOverlap, Running, WorkersOwned, CachedOrAged, AddHoldsMutex, TypeOK, Tick
  <2> QED  BY <2>1, <2>2, <2>3, <2>4, <2>5, <2>6, <2>7, <2>8, <2>9 DEF Inv
<1>13. CASE UNCHANGED vars
  BY <1>13 DEF vars, Inv, TypeOK, EntriesOwned, WorkersOwned, UnsetUntilWritten, CachedOrAged,
     AddHoldsMutex, ClearedIsClosed, ClearedStaysEmpty, BoundedOverlap, Running
<1> QED  BY <1>1, <1>2, <1>3, <1>4, <1>5, <1>6, <1>7, <1>8, <1>9, <1>10, <1>11, <1>12, <1>13 DEF Next

\* The inductive invariant holds throughout every behaviour of a barrier.
THEOREM BarrierInvariant == Spec => []Inv
  BY InitInv, NextInv, PTL DEF Spec

\* Two executions for one key overlap only if they began TTL apart (getLocked,
\* addLocked and the timer of Do), however many keys and calls there are.
THEOREM OverlapBounded == Spec => []BoundedOverlap
  BY BarrierInvariant, PTL DEF Inv

\* After the context's callback has cleared m, no call puts a V back.
THEOREM ClosedBarrierStaysEmpty == Spec => []ClearedStaysEmpty
  BY BarrierInvariant, PTL DEF Inv

\* No step, and in particular no late result, changes a V after wg.Done.
THEOREM PublishedVsAreFinal == Spec => PublishedIsFinal
<1>1. Inv /\ [Next]_vars => [\A c \in Calls : v[c].done => v'[c] = v[c]]_vars
  <2> SUFFICES ASSUME Inv, Next, NEW c \in Calls, v[c].done PROVE v'[c] = v[c]
    BY DEF vars
  <2>1. call[c].pc \notin {"add", "own", "wrote"}
    BY DEF Inv, UnsetUntilWritten
  <2>2. ASSUME NEW d \in Calls, addLocked(d) \/ Receive(d) \/ Timeout(d) \/ Done(d)
        PROVE  v'[c] = v[c]
    BY <2>1, <2>2 DEF addLocked, Receive, Timeout, Done, Inv, TypeOK
  <2>3. QED
    BY <2>2, Zenon DEF Next, GetMiss, GetHit, Finish, Share, Scrub, CtxDone, Clear, Tick
<1>2. QED  BY <1>1, BarrierInvariant, PTL DEF Spec, PublishedIsFinal
=============================================================================
