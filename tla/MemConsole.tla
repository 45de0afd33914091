----------------------------- MODULE MemConsole -----------------------------
(***************************************************************************)
(* The double-buffered log console (intra/log/memconsole.go). Lines go     *)
(* into the slots of the active buffer. A full buffer is swapped with the  *)
(* other one and drained by the reader in another goroutine, unless the    *)
(* other one is still being drained: then the writer waits once, and after *)
(* that starts the active buffer over. A one-shot ticker, started by a     *)
(* write, drains a buffer that does not fill up; Flush, a stack trace and  *)
(* Close drain it at once.                                                 *)
(*                                                                         *)
(* A line is its number; a message has one or more lines. Time is          *)
(* abstract: the ticker finds the last swap recent if one came after the   *)
(* ticker was started.                                                     *)
(***************************************************************************)
EXTENDS Integers, Sequences, FiniteSets

CONSTANTS Writers,     \* goroutines that log
          Slots,       \* memNumSlots
          MaxMsg,      \* the longest message, in slots
          MaxLines,    \* bound: lines written in all
          Traces,      \* writers that log stack traces
          Nil

VARIABLES buf,         \* the active buffer's slots
          active,      \* 0 or 1
          draining,    \* draining[i]
          drains,      \* Drain calls in progress: the buffer, its lines, for whom
          reader,      \* a reader is installed
          closed, mapped,
          mu,          \* who holds mc.mu
          w,           \* each writer
          ticking,     \* mc.ticking
          tick,        \* the ticker: none, timer, drain, store
          recent,      \* swapped since the ticker was started
          other,       \* Flush and Close: idle, drain; open, wait, drain, done, or a panic
          count        \* lines written, dropped, unread, consumed; the last one

vars == <<buf, active, draining, drains, reader, closed, mapped, mu, w, ticking, tick,
          recent, other, count>>

Idle == [pc |-> "idle", left |-> 0, waited |-> FALSE]

TypeOK ==
  /\ buf \in Seq(1..MaxLines) /\ Len(buf) <= Slots
  /\ active \in 0..1 /\ draining \in [0..1 -> BOOLEAN]
  /\ \A d \in drains : d.i \in 0..1 /\ d.lines \in Seq(1..MaxLines)
  /\ {reader, closed, mapped, ticking, recent} \subseteq BOOLEAN
  /\ mu \in Writers \cup {Nil}
  /\ \A x \in Writers : w[x].pc \in {"idle", "top", "fill", "drain", "end", "trace", "last"}
  /\ tick \in {"none", "timer", "drain", "store"}
  /\ other.flush \in {"idle", "drain"} /\ other.close \in {"open", "wait", "drain", "done", "panicked"}
  /\ count.written \in 0..MaxLines

Init ==
  /\ buf = <<>> /\ active = 0 /\ draining = [i \in 0..1 |-> FALSE] /\ drains = {}
  /\ reader = FALSE /\ closed = FALSE /\ mapped = TRUE /\ mu = Nil
  /\ w = [x \in Writers |-> Idle]
  /\ ticking = FALSE /\ tick = "none" /\ recent = FALSE
  /\ other = [flush |-> "idle", close |-> "open"]
  /\ count = [written |-> 0, drops |-> 0, consumed |-> 0, unread |-> 0, last |-> 0, ordered |-> TRUE]

-----------------------------------------------------------------------------

full == Len(buf) >= Slots

\* swapBuffersLocked, and a Drain call for the buffer that was active.
swapBuffersLocked(by) ==
  IF buf = <<>> THEN UNCHANGED <<buf, active, draining, drains, recent>>
  ELSE /\ drains' = drains \cup {[i |-> active, lines |-> buf, by |-> by, r |-> reader]}
       /\ draining' = [draining EXCEPT ![active] = TRUE]
       /\ active' = 1 - active
       /\ buf' = <<>>
       /\ recent' = TRUE

otherDraining == draining[1 - active]

\* write takes the mutex and drops what comes after Close.
writeStart(x) ==
  /\ w[x].pc = "idle" /\ mu = Nil /\ ~closed
  /\ \E k \in 1..MaxMsg :
       /\ count.written + k <= MaxLines
       /\ w' = [w EXCEPT ![x] = [pc |-> "top", left |-> k, waited |-> FALSE]]
  /\ mu' = x
  /\ UNCHANGED <<buf, active, draining, drains, reader, closed, mapped, ticking, tick, recent,
                 other, count>>

\* rollover: a full buffer is swapped and drained (here and now for a stack
\* trace); if the other is still being drained the writer sleeps once and looks
\* again, and then overwrites the buffer.
rollover(x) ==
  /\ w[x].pc = "top"
  /\ CASE ~full ->
            /\ w' = [w EXCEPT ![x].pc = "fill"]
            /\ UNCHANGED <<buf, active, draining, drains, recent, count>>
       [] full /\ ~otherDraining ->
            /\ swapBuffersLocked(IF x \in Traces THEN x ELSE "async")
            /\ w' = [w EXCEPT ![x].pc = IF x \in Traces THEN "drain" ELSE "fill"]
            /\ UNCHANGED count
       [] full /\ otherDraining /\ ~w[x].waited ->
            /\ w' = [w EXCEPT ![x].waited = TRUE]
            /\ UNCHANGED <<buf, active, draining, drains, recent, count>>
       [] OTHER ->
            /\ count' = [count EXCEPT !.drops = @ + Len(buf)]
            /\ buf' = <<>>
            /\ w' = [w EXCEPT ![x].pc = "fill"]
            /\ UNCHANGED <<active, draining, drains, recent>>
  /\ UNCHANGED <<reader, closed, mapped, mu, ticking, tick, other>>

\* The slots are filled; what does not fit goes through rollover again.
fill(x) ==
  /\ w[x].pc = "fill"
  /\ LET k == IF w[x].left < Slots - Len(buf) THEN w[x].left ELSE Slots - Len(buf) IN
       /\ buf' = buf \o [j \in 1..k |-> count.written + j]
       /\ count' = [count EXCEPT !.written = @ + k]
       /\ w' = [w EXCEPT ![x].left = @ - k,
                         ![x].pc = IF w[x].left > k THEN "top"
                                   ELSE IF x \in Traces THEN "trace" ELSE "end"]
  /\ UNCHANGED <<active, draining, drains, reader, closed, mapped, mu, ticking, tick, recent, other>>

\* A stack trace is drained before write returns, if the other buffer becomes
\* free; after many tries it is left to the ticker.
trace(x) ==
  /\ w[x].pc = "trace"
  /\ IF otherDraining
     THEN /\ w' = [w EXCEPT ![x].pc = "end"]
          /\ UNCHANGED <<buf, active, draining, drains, recent, mu>>
     ELSE /\ swapBuffersLocked(x)
          /\ w' = [w EXCEPT ![x].pc = "last"]
          /\ mu' = Nil
  /\ UNCHANGED <<reader, closed, mapped, ticking, tick, other, count>>

\* The ticker is started for a buffer that has lines and is not full.
needTicker == buf # <<>> /\ ~full /\ ~closed /\ ~ticking

writeEnd(x) ==
  /\ w[x].pc = "end"
  /\ IF needTicker THEN ticking' = TRUE /\ tick' = "timer" /\ recent' = FALSE
     ELSE UNCHANGED <<ticking, tick, recent>>
  /\ mu' = Nil /\ w' = [w EXCEPT ![x] = Idle]
  /\ UNCHANGED <<buf, active, draining, drains, reader, closed, mapped, other, count>>

-----------------------------------------------------------------------------

\* consume: the reader's Drain returns (without a reader the lines are lost, as
\* memconsole.go:391-393 says); whoever waits for it goes on. It resets the count
\* in the buffer's header, and panics if Close has unmapped it meanwhile.
consume(d) == IF ~mapped
  THEN /\ other' = [other EXCEPT !.close = "panicked"]
       /\ UNCHANGED <<buf, active, draining, drains, reader, closed, mapped, mu, w, ticking,
                      tick, recent, count>>
  ELSE
  /\ drains' = drains \ {d}
  /\ draining' = [draining EXCEPT ![d.i] = FALSE]
  /\ count' = IF ~d.r THEN [count EXCEPT !.unread = @ + Len(d.lines)]
              ELSE [count EXCEPT !.consumed = @ + Len(d.lines),
                                 !.ordered = @ /\ count.last < d.lines[1],
                                 !.last = d.lines[Len(d.lines)]]
  /\ w' = [x \in Writers |->
             CASE d.by = x /\ w[x].pc = "drain" -> [w[x] EXCEPT !.pc = "fill"]
               [] d.by = x /\ w[x].pc = "last"  -> Idle
               [] OTHER -> w[x]]
  /\ tick' = IF d.by = "ticker" THEN "store" ELSE tick
  /\ other' = [flush |-> IF d.by = "flush" THEN "idle" ELSE other.flush,
               close |-> other.close]
  /\ UNCHANGED <<buf, active, reader, closed, mapped, mu, ticking, recent>>

\* The ticker fires: periodicFlush. Nothing to drain, or a recent swap: it
\* returns. The other buffer is being drained: it starts another ticker if none
\* is ticking.
periodicFlush ==
  /\ tick = "timer" /\ mu = Nil
  /\ IF closed \/ buf = <<>> \/ recent \/ otherDraining
     THEN /\ tick' = IF otherDraining /\ ~recent /\ ~closed /\ buf # <<>> /\ ~ticking
                     THEN "timer" ELSE "store"
          /\ UNCHANGED <<buf, active, draining, drains, recent>>
     ELSE swapBuffersLocked("ticker") /\ tick' = "drain"
  /\ UNCHANGED <<reader, closed, mapped, mu, w, ticking, other, count>>

tickerEnd ==
  /\ tick = "store"
  /\ tick' = "none" /\ ticking' = FALSE
  /\ UNCHANGED <<buf, active, draining, drains, reader, closed, mapped, mu, w, recent, other, count>>

SetReader ==
  /\ mu = Nil /\ ~reader /\ reader' = TRUE
  /\ UNCHANGED <<buf, active, draining, drains, closed, mapped, mu, w, ticking, tick, recent, other,
                 count>>

Flush ==
  /\ other.flush = "idle" /\ mu = Nil /\ ~closed /\ buf # <<>> /\ ~otherDraining
  /\ swapBuffersLocked("flush")
  /\ other' = [other EXCEPT !.flush = "drain"]
  /\ UNCHANGED <<reader, closed, mapped, mu, w, ticking, tick, count>>

\* Close: with lines to drain it waits for the Drain of the other buffer and for
\* the ones that write started, and drains the active buffer; without, it waits for
\* none. Then it unmaps both.
Close ==
  /\ other.close = "open" /\ mu = Nil
  /\ closed' = TRUE
  /\ IF buf # <<>> THEN /\ other' = [other EXCEPT !.close = "wait"]
                        /\ UNCHANGED <<reader>>
     ELSE other' = [other EXCEPT !.close = "drain"] /\ reader' = FALSE
  /\ UNCHANGED <<buf, active, draining, drains, mapped, mu, w, ticking, tick, recent, count>>

closeWaited ==
  /\ other.close = "wait" /\ mu = Nil
  /\ ~otherDraining /\ \A d \in drains : d.by # "async"
  /\ swapBuffersLocked("close")
  /\ reader' = FALSE
  /\ other' = [other EXCEPT !.close = "drain"]
  /\ UNCHANGED <<closed, mapped, mu, w, ticking, tick, count>>

closeEnd ==
  /\ other.close = "drain" /\ \A d \in drains : d.by # "close"
  /\ mapped' = FALSE
  /\ other' = [other EXCEPT !.close = "done"]
  /\ UNCHANGED <<buf, active, draining, drains, reader, closed, mu, w, ticking, tick, recent, count>>

-----------------------------------------------------------------------------

write(x) == rollover(x) \/ fill(x) \/ trace(x) \/ writeEnd(x)

crashed == other.close = "panicked"

Next ==
  /\ ~crashed
  /\ \/ \E x \in Writers : writeStart(x) \/ write(x)
     \/ \E d \in drains : consume(d)
     \/ periodicFlush \/ tickerEnd
     \/ SetReader \/ Flush \/ Close \/ closeWaited \/ closeEnd

Spec == Init /\ [][Next]_vars

-----------------------------------------------------------------------------
(* Properties *)

\* The reader never reads a buffer that a writer fills: the active buffer is
\* not being drained, and one buffer is drained at a time.
ReaderIsAlone ==
  /\ ~closed => ~draining[active]
  /\ \A d, e \in drains : d.i = e.i => d = e

\* The reader gets lines in the order in which they were written, none twice.
LinesInOrder == count.ordered

\* memconsole.go:435 "written - Drops ~= consumed + buffered": exactly so, but for
\* the lines that consume loses while no reader is installed.
LinesAreAccounted ==
  count.written - count.drops - count.unread =
    count.consumed + Len(buf) + (IF drains = {} THEN 0 ELSE Len((CHOOSE d \in drains : TRUE).lines))

\* A write returns, and Close ends, whatever drains are in progress, unless one of
\* these panics in a buffer that Close unmapped.
WritesReturn ==
  /\ \A x \in Writers : w[x].pc # "idle" ~> (w[x].pc = "idle" \/ crashed)
  /\ closed ~> ~mapped

\* memconsole.go:462-464: "Close drains any pending data, waits for any concurrent
\* Drain call to return, calls Close(), then unmaps the shared-memory regions".
DrainsEndFirst == mapped \/ drains = {}
=============================================================================
