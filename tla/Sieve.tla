------------------------------- MODULE Sieve --------------------------------
(* Sieve2K (core/expiringsieve.go): an outer map from k1 to an inner map whose *)
(* keys expire (core/expiringmap.go).  Each inner map has a reaper goroutine,  *)
(* woken by writes, that purges what has expired and, through its clearall     *)
(* hook, reclaims the outer entry of a map it left empty.  One k1; its inner   *)
(* map may be reclaimed and made anew, up to the set Inners.                   *)
EXTENDS Integers, FiniteSets

CONSTANTS Threads, Keys, Inners, Life, ReapThreshold, MaxNow, MaxOps, Nil

VARIABLES m,        \* the inner map of k1, or Nil
          d,        \* whose cancel function is kept for k1, or Nil
          inner,    \* inner maps
          thr, now, ops

vars == <<m, d, inner, thr, now, ops>>

Unmade == [made |-> FALSE, e |-> [k \in Keys |-> Nil], lastreap |-> 0,
           done |-> FALSE, reaper |-> "none"]
IdleCall == [op |-> "idle", pc |-> "none", k |-> Nil, i |-> Nil]

Init == /\ m = Nil /\ d = Nil
        /\ inner = [i \in Inners |-> Unmade]
        /\ thr = [t \in Threads |-> IdleCall]
        /\ now = 0 /\ ops = 0

Len2K(i) == Cardinality({k \in Keys : inner[i].e[k] # Nil})
Expired(i, k) == inner[i].e[k] # Nil /\ now > inner[i].e[k]

(* Put: look up the inner map under the read lock.                             *)
Put(t, k) ==
    /\ thr[t].op = "idle" /\ ops < MaxOps
    /\ ops' = ops + 1
    /\ thr' = [thr EXCEPT ![t] = [op |-> "put", k |-> k, i |-> m,
                                  pc |-> IF m = Nil THEN "make" ELSE "store"]]
    /\ UNCHANGED <<m, d, inner, now>>

(* Put, no inner map found: look again and make one, under the write lock.     *)
putMake(t) ==
    /\ thr[t].op = "put" /\ thr[t].pc = "make"
    /\ IF m # Nil
       THEN /\ thr' = [thr EXCEPT ![t].i = m, ![t].pc = "store"]
            /\ UNCHANGED <<m, d, inner>>
       ELSE \E i \in {j \in Inners : ~inner[j].made} :
            /\ inner' = [inner EXCEPT ![i].made = TRUE, ![i].lastreap = now,
                                      ![i].reaper = "wait"]
            /\ m' = i /\ d' = i
            /\ thr' = [thr EXCEPT ![t].i = i, ![t].pc = "store"]
    /\ UNCHANGED <<now, ops>>

(* upsert: the expiry only moves forward; the reaper is signalled, and hears   *)
(* it only when it waits.                                                      *)
upsert(t) ==
    LET i == thr[t].i  k == thr[t].k  e == inner[i].e[k]  n == now + Life IN
    /\ thr[t].op = "put" /\ thr[t].pc = "store"
    /\ \E r \in IF inner[i].reaper = "wait" THEN {"wait", "reap"}
                ELSE {inner[i].reaper} :
         inner' = [inner EXCEPT
                     ![i].e[k] = IF e = Nil \/ (e # Nil /\ n > e) THEN n ELSE e,
                     ![i].reaper = r]
    /\ thr' = [thr EXCEPT ![t] = IdleCall]
    /\ UNCHANGED <<m, d, now, ops>>

(* Del: delete in the inner map under the read lock ...                        *)
Del(t, k) ==
    /\ thr[t].op = "idle" /\ ops < MaxOps
    /\ ops' = ops + 1
    /\ inner' = IF m = Nil THEN inner ELSE [inner EXCEPT ![m].e[k] = Nil]
    /\ LET empty == m = Nil \/ (m # Nil /\ \A j \in Keys \ {k} : inner[m].e[j] = Nil)
       IN thr' = IF empty
                 THEN [thr EXCEPT ![t] = [IdleCall EXCEPT !.op = "del"]]
                 ELSE thr
    /\ UNCHANGED <<m, d, now>>

\* Mutant: the inner map is dropped but not cancelled.
delOuterRunning(t) ==
    /\ thr[t].op = "del"
    /\ thr' = [thr EXCEPT ![t] = IdleCall]
    /\ m # Nil /\ Len2K(m) = 0 /\ m' = Nil /\ d' = Nil
    /\ UNCHANGED <<inner, now, ops>>

(* ... then, if that left it empty, drop it under the write lock.              *)
delOuter(t) ==
    /\ thr[t].op = "del"
    /\ thr' = [thr EXCEPT ![t] = IdleCall]
    /\ IF m = Nil \/ (m # Nil /\ Len2K(m) = 0)
       THEN /\ m' = Nil /\ d' = Nil
            /\ inner' = IF d = Nil THEN inner ELSE [inner EXCEPT ![d].done = TRUE]
       ELSE UNCHANGED <<m, d, inner>>
    /\ UNCHANGED <<now, ops>>

Clear ==
    /\ ops < MaxOps /\ ops' = ops + 1
    /\ m # Nil
    /\ inner' = [inner EXCEPT ![m] = [@ EXCEPT !.e = [k \in Keys |-> Nil]],
                              ![d].done = TRUE]
    /\ m' = Nil /\ d' = Nil
    /\ UNCHANGED <<thr, now>>

-----------------------------------------------------------------------------
(* The reaper: purge what has expired, at most once in a threshold ...         *)
reap(i) ==
    /\ inner[i].reaper = "reap"
    /\ LET due == now - (inner[i].lastreap + ReapThreshold) > 0
           old == {k \in Keys : Expired(i, k)}
           left == [k \in Keys |-> IF k \in old THEN Nil ELSE inner[i].e[k]] IN
       IF due
       THEN inner' = [inner EXCEPT
              ![i].e = left,
              ![i].lastreap = IF old = {} THEN @ ELSE now,
              ![i].reaper = IF \A k \in Keys : left[k] = Nil THEN "hook" ELSE "wait"]
       ELSE inner' = [inner EXCEPT ![i].reaper = "wait"]
    /\ UNCHANGED <<m, d, thr, now, ops>>

(* ... when the context is done, clear the map and run the hook once more.     *)
reaperDone(i) ==
    /\ inner[i].reaper = "wait" /\ inner[i].done
    /\ inner' = [inner EXCEPT ![i].e = [k \in Keys |-> Nil], ![i].reaper = "bye"]
    /\ UNCHANGED <<m, d, thr, now, ops>>

(* reclaimIfEmpty(k1), the hook: drops whatever inner map k1 now has, if it is *)
(* empty.                                                                      *)
reclaimIfEmpty(i) ==
    /\ inner[i].reaper \in {"hook", "bye"}
    /\ LET next == [inner EXCEPT ![i].reaper =
                      IF inner[i].reaper = "bye" THEN "ended" ELSE "wait"] IN
       IF m = Nil \/ (m # Nil /\ Len2K(m) = 0)
       THEN /\ m' = Nil /\ d' = Nil
            /\ inner' = IF d = Nil THEN next ELSE [next EXCEPT ![d].done = TRUE]
       ELSE inner' = next /\ UNCHANGED <<m, d>>
    /\ UNCHANGED <<thr, now, ops>>

Tick == /\ now < MaxNow /\ now' = now + 1
        /\ UNCHANGED <<m, d, inner, thr, ops>>

reaper(i) == reap(i) \/ reaperDone(i) \/ reclaimIfEmpty(i)
step(t) == putMake(t) \/ upsert(t) \/ delOuter(t)

Next == \/ \E t \in Threads, k \in Keys : Put(t, k) \/ Del(t, k)
        \/ \E t \in Threads : step(t)
        \/ Clear
        \/ \E i \in Inners : reaper(i)
        \/ Tick

Spec == Init /\ [][Next]_vars

-----------------------------------------------------------------------------
TypeOK == /\ m \in Inners \cup {Nil} /\ d \in Inners \cup {Nil}
          /\ \A i \in Inners, k \in Keys : inner[i].e[k] \in Nat \cup {Nil}
          /\ \A i \in Inners : inner[i].reaper \in
                {"none", "wait", "reap", "hook", "bye", "ended"}

(* An inner map the outer map let go of has been cancelled: its reaper does    *)
(* not wait for ever (core/expiringsieve.go:159-240).                 *)
NoReaperLeak == /\ d = m
                /\ \A i \in Inners : inner[i].made /\ i # m => inner[i].done

(* A reaper whose map was let go of ends.                                      *)
ReapersEnd == \A i \in Inners : inner[i].done ~> inner[i].reaper = "ended"
=============================================================================
