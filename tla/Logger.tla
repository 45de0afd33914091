------------------------------- MODULE Logger -------------------------------
(***************************************************************************)
(* The logger (intra/log/logger.go, ring.go, logpool.go). writelog asks    *)
(* the spam clock about its call site, counts and now and then reports     *)
(* what it skipped, and hands its message to the console's queue, which    *)
(* one dispatcher empties. Messages are written into pooled slabs, and so  *)
(* are the recent errors kept in a ring. The model follows one level and   *)
(* one bucket of call sites (the calls of the others only tick the level   *)
(* clock), and the number of slabs in each place.                          *)
(***************************************************************************)
EXTENDS Integers, Sequences, FiniteSets

CONSTANTS Threads,     \* goroutines that log
          Width,       \* 2^8: the width of the clocks
          Shift,       \* spammsgThreshold is 256 >> Shift at the level modelled
          Norm,        \* the level is one of VVERBOSE..INFO (else WARN, ERROR)
          QCap,        \* consoleChSize
          RCap,        \* qSize
          MaxErrs,     \* slabs of ring lines
          MaxSkips     \* bound: skips not reported

VARIABLES l1, l2,      \* the level clock, and that of the bucket
          skips,       \* spammy messages not yet reported
          th,          \* each goroutine
          q,           \* messages in cmsgC
          disp,        \* consoleDispatcher: ready, busy (with one message), done
          console,     \* a console is set
          cskips,      \* some console messages were dropped
          slabs,       \* messages whose slabs are not in the pool
          rb, head, tail, inC,   \* the ring's cells, indices and input channel
          pool         \* slabs of ring lines in the pool

clocks == <<l1, l2, skips>>
queue == <<q, disp, console, cskips, slabs>>
ring == <<rb, head, tail, inC, pool>>
vars == <<clocks, th, queue, ring>>

Idle == [pc |-> "idle", n |-> 0, spam |-> FALSE]
Lines == 1..MaxErrs

TypeOK ==
  /\ l1 \in 0..Width-1 /\ l2 \in 0..Width /\ skips \in Nat
  /\ \A x \in Threads : th[x].pc \in {"idle", "count", "report", "queue"}
  /\ q \in 0..QCap /\ disp \in {"ready", "busy", "done"} /\ slabs \in Nat
  /\ rb \in [0..RCap-1 -> Lines \cup {0}] /\ head \in 0..RCap-1 /\ tail \in 0..RCap-1
  /\ inC \in Seq(Lines) /\ pool \subseteq Lines

Init ==
  /\ l1 = 0 /\ l2 = 0 /\ skips = 0 /\ th = [x \in Threads |-> Idle]
  /\ q = 0 /\ disp = "ready" /\ console \in BOOLEAN /\ cskips = FALSE /\ slabs = 0
  /\ rb = [i \in 0..RCap-1 |-> 0] /\ head = 0 /\ tail = 0 /\ inC = <<>> /\ pool = Lines

-----------------------------------------------------------------------------
(* The spam clock *)

\* The share of t ticks that one bucket may have.
tolerable(t) ==
  CASE t < Width \div 16 -> (t * 70) \div 100
    [] t >= Width \div 16 /\ t < Width \div 8 -> (t * 60) \div 100
    [] t >= Width \div 8 /\ t < Width \div 4 -> (t * 50) \div 100
    [] t >= Width \div 4 /\ t < Width \div 2 -> (t * 40) \div 100
    [] OTHER -> (t * 30) \div 100

\* uatom.cas: the whole word is compared.
cas(word, old, new) == IF word = old THEN new ELSE word

\* One pass of spammy from "top": the clock reads t and the bucket v. A bucket
\* ahead of the clock is to be reset; if that fails spammy tries again.
resync(t, word) == word % Width > t /\ cas(word, t, 0) = word

\* The clock at the last of up to four passes.
passes(t0, word) ==
  LET at(k) == (t0 + k) % Width IN
    IF \A k \in 1..4 : resync(at(k), word) THEN 4
    ELSE CHOOSE k \in 1..4 : ~resync(at(k), word) /\ \A j \in 1..k-1 : resync(at(j), word)

spammy(x) ==
  LET k == passes(l1, l2)
      t == (l1 + k) % Width
      v == l2 % Width
      ahead == v > t
      y == ~ahead /\ v > tolerable(t)
  IN /\ l1' = t
     /\ l2' = IF resync(t, l2) THEN l2                       \* given up
              ELSE IF ahead THEN cas(l2, t, 0) + 1
              ELSE IF y THEN l2 ELSE l2 + 1
     /\ skips' = IF y THEN skips + 1 ELSE skips
     /\ th' = [th EXCEPT ![x] = [pc |-> "count", n |-> 0, spam |-> y]]

\* writelog of the bucket modelled.
writelog(x) ==
  /\ th[x].pc = "idle" /\ skips < MaxSkips
  /\ spammy(x)
  /\ UNCHANGED <<queue, ring>>

\* writelog of another bucket: the level clock ticks.
writelogOther ==
  /\ l1' = (l1 + 1) % Width
  /\ UNCHANGED <<l2, skips, th, queue, ring>>

-----------------------------------------------------------------------------
(* Messages *)

spammsgThreshold == Width \div 2^Shift

\* Mutant: a message that does not fit keeps its slabs.
consoleQueueLeaks ==
  /\ q' = IF q < QCap THEN q + 1 ELSE q
  /\ slabs' = slabs + 1

\* consoleQueue: a message that does not fit gives its slabs back.
consoleQueue ==
  IF q < QCap THEN q' = q + 1 /\ slabs' = slabs + 1 ELSE UNCHANGED <<q, slabs>>

countSkips(x) ==
  /\ th[x].pc = "count"
  /\ th' = [th EXCEPT ![x].n = skips,
                      ![x].pc = IF skips > spammsgThreshold THEN "report" ELSE "queue"]
  /\ UNCHANGED <<clocks, queue, ring>>

\* Whoever swaps the count to 0 reports it.
reportSkips(x) ==
  /\ th[x].pc = "report"
  /\ skips' = cas(skips, th[x].n, 0)
  /\ IF skips = th[x].n THEN consoleQueue ELSE UNCHANGED <<q, slabs>>
  /\ th' = [th EXCEPT ![x].pc = "queue"]
  /\ UNCHANGED <<l1, l2, disp, console, cskips, ring>>

queueMsg(x) ==
  /\ th[x].pc = "queue"
  /\ IF th[x].spam THEN UNCHANGED <<q, slabs>> ELSE consoleQueue
  /\ th' = [th EXCEPT ![x] = Idle]
  /\ UNCHANGED <<clocks, disp, console, cskips, ring>>

load == (q * 100) \div QCap

take ==
  /\ disp = "ready" /\ q > 0
  /\ q' = q - 1
  /\ disp' = "busy"
  /\ UNCHANGED <<clocks, th, console, cskips, slabs, ring>>

\* The dispatcher logs the message unless the load is high or there is no
\* console, and gives its slabs back in any case.
dispatch ==
  /\ disp = "busy"
  /\ LET logged == console /\ load < (IF Norm THEN 95 ELSE 99) IN
       cskips' = IF ~logged THEN TRUE
                 ELSE IF ~Norm /\ load < 5 THEN FALSE ELSE cskips
  /\ slabs' = slabs - 1
  /\ disp' = "ready"
  /\ UNCHANGED <<clocks, th, q, console, ring>>

\* The dispatcher finds its context done with a message in hand.
dispatcherEnds ==
  /\ disp = "busy"
  /\ disp' = "done"
  /\ UNCHANGED <<clocks, th, q, console, cskips, slabs, ring>>

SetConsole ==
  /\ console' = ~console
  /\ UNCHANGED <<clocks, th, q, disp, cskips, slabs, ring>>

-----------------------------------------------------------------------------
(* The ring of recent errors *)

\* push: a line is copied to a slab; a full channel gives it back.
push ==
  /\ pool # {}
  /\ LET s == CHOOSE s \in pool : \A r \in pool : s <= r IN
       IF Len(inC) < RCap \div 2 THEN inC' = Append(inC, s) /\ pool' = pool \ {s}
       ELSE UNCHANGED <<inC, pool>>
  /\ UNCHANGED <<clocks, th, queue, rb, head, tail>>

\* Mutant: the head does not wrap around.
processUnwrapped ==
  /\ inC # <<>>
  /\ inC' = Tail(inC)
  /\ rb' = [rb EXCEPT ![head] = Head(inC)]
  /\ head' = head + 1
  /\ IF head' = tail
     THEN /\ pool' = pool \cup {rb'[tail]}
          /\ tail' = (tail + 1) % RCap
     ELSE UNCHANGED <<pool, tail>>
  /\ UNCHANGED <<clocks, th, queue>>

\* process: the line is stored; when the ring is full the oldest is evicted,
\* and its slab given back.
process ==
  /\ inC # <<>>
  /\ inC' = Tail(inC)
  /\ rb' = [rb EXCEPT ![head] = Head(inC)]
  /\ head' = (head + 1) % RCap
  /\ IF head' = tail
     THEN /\ pool' = pool \cup {rb'[tail]}
          /\ tail' = (tail + 1) % RCap
     ELSE UNCHANGED <<pool, tail>>
  /\ UNCHANGED <<clocks, th, queue>>

\* All: the cells from tail to head.
All == {rb[i] : i \in IF head >= tail THEN tail..head-1 ELSE (tail..RCap-1) \cup (0..head-1)}

-----------------------------------------------------------------------------

Next ==
  \/ \E x \in Threads : writelog(x) \/ countSkips(x) \/ reportSkips(x) \/ queueMsg(x)
  \/ writelogOther
  \/ take \/ dispatch \/ dispatcherEnds \/ SetConsole
  \/ push \/ process

Spec == Init /\ [][Next]_vars

-----------------------------------------------------------------------------
(* Properties *)

\* Each message's slabs are given back exactly once: those out of the pool are in
\* the queue, or in the dispatcher's hands (for good, if it ends with them).
SlabsAreReturned == slabs = q + (IF disp = "ready" THEN 0 ELSE 1)

\* No cell of the ring holds a line whose slab is in the pool, and no slab is lost.
\* It speaks of the ring under its lock (ring.go): queued and Hist walk a copy of the
\* cells after the lock is let go, and may meet a slab that is recycled by then, as
\* logger.go:578 says ("yolo: possible 'a' points to a recycled byte").
RingIsLive ==
  LET busy == All \cup {inC[i] : i \in DOMAIN inC} IN
    pool \cap busy = {} /\ pool \cup busy = Lines
=============================================================================
