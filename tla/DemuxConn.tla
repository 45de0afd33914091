----------------------------- MODULE DemuxConn ------------------------------
(***************************************************************************)
(* One demuxed conn (intra/udpmux.go): the packets that the muxer's reader *)
(* queues for it, the flow that reads them, and its halves being closed.   *)
(* A packet is a pooled buffer and a size; what is left of one after a     *)
(* short read goes through overflowCh, with the same recycler.             *)
(***************************************************************************)
EXTENDS Integers, Sequences

CONSTANTS
    Bufs,           \* pooled 16K buffers
    Nil,
    MaxSize,        \* packets and reads are of 1..MaxSize units
    MaxInFlight,    \* capacity of inCh
    MaxOverflow     \* capacity of overflowCh

\* What the constants are, for the proofs.
DemuxConnConstants ==
    /\ Nil \notin Bufs
    /\ MaxSize \in Nat \ {0} /\ MaxInFlight \in Nat /\ MaxOverflow \in Nat

Slices == [b : Bufs, from : 0..MaxSize]
NoSlice == [b |-> Nil, from |-> 0]

\* Who closes: the two halves, and drain, a failed vend or a plain Close.
Closers == {"CloseRead", "CloseWrite", "Close"}

VARIABLES
    pool,           \* buffers free to be allocated
    size,           \* buffer -> size of the packet in it
    routed,         \* the muxer still routes to this conn
    arrived,        \* the packet readers() has a route for, or Nil
    inCh,
    overflowCh,
    rd,             \* the flow in Read: where it is, its slice and len(p)
    got,            \* buffer -> units of its packet that Read has returned
    closed, readClosed, writeClosed,
    once,           \* where c.once.Do is
    closer          \* closer -> where it is

vars == <<pool, size, routed, arrived, inCh, overflowCh, rd, got, closed,
          readClosed, writeClosed, once, closer>>

TypeOK ==
    /\ pool \subseteq Bufs
    /\ size \in [Bufs -> 1..MaxSize]
    /\ routed \in BOOLEAN
    /\ arrived \in Bufs \cup {Nil}
    /\ inCh \in Seq(Slices) /\ Len(inCh) <= MaxInFlight
    /\ overflowCh \in Seq(Slices) /\ Len(overflowCh) <= MaxOverflow
    /\ rd \in [pc : {"idle", "select", "io", "close"}, sx : Slices \cup {NoSlice}, sz : 1..MaxSize]
    /\ got \in [Bufs -> 0..MaxSize]
    /\ closed \in BOOLEAN /\ readClosed \in BOOLEAN /\ writeClosed \in BOOLEAN
    /\ once \in {"idle", "closed", "readClosed", "drain", "done"}
    /\ closer \in [Closers -> {"idle", "load", "close", "ret"}]

Init ==
    /\ pool = Bufs
    /\ size = [b \in Bufs |-> 1]
    /\ routed = TRUE
    /\ arrived = Nil
    /\ inCh = << >>
    /\ overflowCh = << >>
    /\ rd = [pc |-> "idle", sx |-> NoSlice, sz |-> 1]
    /\ got = [b \in Bufs |-> 0]
    /\ closed = FALSE /\ readClosed = FALSE /\ writeClosed = FALSE
    /\ once = "idle"
    /\ closer = [p \in Closers |-> "idle"]

-----------------------------------------------------------------------------
(* readers *)

\* Alloc16, ReadFrom, and route() returns this conn.
Arrive(b, n) ==
    /\ arrived = Nil
    /\ routed
    /\ b \in pool
    /\ pool' = pool \ {b}
    /\ size' = [size EXCEPT ![b] = n]
    /\ got' = [got EXCEPT ![b] = 0]
    /\ arrived' = b
    /\ UNCHANGED <<routed, inCh, overflowCh, rd, closed, readClosed, writeClosed, once, closer>>

\* The select of readers(): any ready case, and the packet is dropped when
\* the conn is closed or its queue is full.
Deliver ==
    /\ arrived # Nil
    /\ \/ /\ Len(inCh) < MaxInFlight
          /\ inCh' = Append(inCh, [b |-> arrived, from |-> 0])
          /\ pool' = pool
       \/ /\ closed \/ Len(inCh) = MaxInFlight
          /\ pool' = pool \cup {arrived}
          /\ inCh' = inCh
    /\ arrived' = Nil
    /\ UNCHANGED <<size, routed, overflowCh, rd, got, closed, readClosed, writeClosed, once, closer>>

\* The awaiter's goroutine has seen the conn closed.
Unroute ==
    /\ closed
    /\ routed
    /\ routed' = FALSE
    /\ UNCHANGED <<pool, size, arrived, inCh, overflowCh, rd, got, closed, readClosed, writeClosed, once, closer>>

-----------------------------------------------------------------------------
(* Read *)

Read(n) ==
    /\ rd.pc = "idle"
    /\ ~readClosed
    /\ rd' = [rd EXCEPT !.pc = "select", !.sz = n]
    /\ UNCHANGED <<pool, size, routed, arrived, inCh, overflowCh, got, closed, readClosed, writeClosed, once, closer>>

ReadTimeout ==
    /\ rd.pc = "select"
    /\ rd' = [rd EXCEPT !.pc = "idle"]
    /\ UNCHANGED <<pool, size, routed, arrived, inCh, overflowCh, got, closed, readClosed, writeClosed, once, closer>>

\* case <-c.closed; the deferred Close waits for the Close under way.
ReadClosed ==
    /\ rd.pc = "select"
    /\ closed
    /\ rd' = [rd EXCEPT !.pc = "close"]
    /\ UNCHANGED <<pool, size, routed, arrived, inCh, overflowCh, got, closed, readClosed, writeClosed, once, closer>>

ReadReturns ==
    /\ rd.pc = "close"
    /\ once = "done"
    /\ rd' = [rd EXCEPT !.pc = "idle"]
    /\ UNCHANGED <<pool, size, routed, arrived, inCh, overflowCh, got, closed, readClosed, writeClosed, once, closer>>

ReadOverflow ==
    /\ rd.pc = "select"
    /\ overflowCh # << >>
    /\ rd' = [rd EXCEPT !.pc = "io", !.sx = Head(overflowCh)]
    /\ overflowCh' = Tail(overflowCh)
    /\ UNCHANGED <<pool, size, routed, arrived, inCh, got, closed, readClosed, writeClosed, once, closer>>

ReadIn ==
    /\ rd.pc = "select"
    /\ inCh # << >>
    /\ rd' = [rd EXCEPT !.pc = "io", !.sx = Head(inCh)]
    /\ inCh' = Tail(inCh)
    /\ UNCHANGED <<pool, size, routed, arrived, overflowCh, got, closed, readClosed, writeClosed, once, closer>>

\* What io copies out of the slice, and where it leaves off.
End(sx) == IF sx.from + rd.sz < size[sx.b] THEN sx.from + rd.sz ELSE size[sx.b]

\* Mutant: the buffer is given back although its rest waits in overflowCh.
ioRecycles ==
    LET sx == rd.sx IN
    /\ rd.pc = "io"
    /\ got' = [got EXCEPT ![sx.b] = End(sx)]
    /\ IF End(sx) < size[sx.b] /\ Len(overflowCh) < MaxOverflow
         THEN overflowCh' = Append(overflowCh, [sx EXCEPT !.from = End(sx)])
         ELSE overflowCh' = overflowCh
    /\ pool' = pool \cup {sx.b}
    /\ rd' = [rd EXCEPT !.pc = "idle", !.sx = NoSlice]
    /\ UNCHANGED <<size, routed, arrived, inCh, closed, readClosed, writeClosed, once, closer>>

\* io: copy, then recycle the buffer or queue the rest of it; the rest is
\* dropped when the conn is closed or overflowCh is full.
io ==
    LET sx == rd.sx IN
    /\ rd.pc = "io"
    /\ got' = [got EXCEPT ![sx.b] = End(sx)]
    /\ \/ /\ End(sx) < size[sx.b]
          /\ Len(overflowCh) < MaxOverflow
          /\ overflowCh' = Append(overflowCh, [sx EXCEPT !.from = End(sx)])
          /\ pool' = pool
       \/ /\ End(sx) = size[sx.b] \/ closed \/ Len(overflowCh) = MaxOverflow
          /\ pool' = pool \cup {sx.b}
          /\ overflowCh' = overflowCh
    /\ rd' = [rd EXCEPT !.pc = "idle", !.sx = NoSlice]
    /\ UNCHANGED <<size, routed, arrived, inCh, closed, readClosed, writeClosed, once, closer>>

-----------------------------------------------------------------------------
(* closing *)

\* The compare-and-swap of one half ...
CloseRead ==
    /\ closer["CloseRead"] = "idle"
    /\ closer' = [closer EXCEPT !["CloseRead"] = IF readClosed THEN "ret" ELSE "load"]
    /\ readClosed' = TRUE
    /\ UNCHANGED <<pool, size, routed, arrived, inCh, overflowCh, rd, got, closed, writeClosed, once>>

CloseWrite ==
    /\ closer["CloseWrite"] = "idle"
    /\ closer' = [closer EXCEPT !["CloseWrite"] = IF writeClosed THEN "ret" ELSE "load"]
    /\ writeClosed' = TRUE
    /\ UNCHANGED <<pool, size, routed, arrived, inCh, overflowCh, rd, got, closed, readClosed, once>>

\* ... and the load of the other.
Closeall(p) ==
    /\ closer[p] = "load"
    /\ LET other == IF p = "CloseRead" THEN writeClosed ELSE readClosed IN
       closer' = [closer EXCEPT ![p] = IF other THEN "close" ELSE "ret"]
    /\ UNCHANGED <<pool, size, routed, arrived, inCh, overflowCh, rd, got, closed, readClosed, writeClosed, once>>

Close ==
    /\ closer["Close"] = "idle"
    /\ closer' = [closer EXCEPT !["Close"] = "close"]
    /\ UNCHANGED <<pool, size, routed, arrived, inCh, overflowCh, rd, got, closed, readClosed, writeClosed, once>>

\* c.once.Do: the first one in closes c.closed ...
OnceClose ==
    /\ \E p \in Closers : closer[p] = "close"
    /\ once = "idle"
    /\ closed' = TRUE
    /\ once' = "closed"
    /\ UNCHANGED <<pool, size, routed, arrived, inCh, overflowCh, rd, got, readClosed, writeClosed, closer>>

\* ... then sets the two flags ...
OnceReadClosed ==
    /\ once = "closed"
    /\ readClosed' = TRUE
    /\ once' = "readClosed"
    /\ UNCHANGED <<pool, size, routed, arrived, inCh, overflowCh, rd, got, closed, writeClosed, closer>>

OnceWriteClosed ==
    /\ once = "readClosed"
    /\ writeClosed' = TRUE
    /\ once' = "drain"
    /\ UNCHANGED <<pool, size, routed, arrived, inCh, overflowCh, rd, got, closed, readClosed, closer>>

\* Mutant: Close waits until a packet comes to drain.
OnceDrainBlocks ==
    /\ once = "drain"
    /\ inCh # << >>
    /\ pool' = pool \cup {Head(inCh).b} /\ inCh' = Tail(inCh)
    /\ once' = "done"
    /\ UNCHANGED <<size, routed, arrived, overflowCh, rd, got, closed, readClosed, writeClosed, closer>>

\* ... and empties the two channels, one slice at a time.
OnceDrain ==
    /\ once = "drain"
    /\ \/ /\ inCh # << >>
          /\ pool' = pool \cup {Head(inCh).b} /\ inCh' = Tail(inCh)
          /\ UNCHANGED <<overflowCh, once>>
       \/ /\ overflowCh # << >>
          /\ pool' = pool \cup {Head(overflowCh).b} /\ overflowCh' = Tail(overflowCh)
          /\ UNCHANGED <<inCh, once>>
       \/ /\ inCh = << >> /\ overflowCh = << >>
          /\ once' = "done"
          /\ UNCHANGED <<pool, inCh, overflowCh>>
    /\ UNCHANGED <<size, routed, arrived, rd, got, closed, readClosed, writeClosed, closer>>

\* Whoever called Close returns once it is done.
CloseReturns(p) ==
    /\ closer[p] = "close"
    /\ once = "done"
    /\ closer' = [closer EXCEPT ![p] = "ret"]
    /\ UNCHANGED <<pool, size, routed, arrived, inCh, overflowCh, rd, got, closed, readClosed, writeClosed, once>>

-----------------------------------------------------------------------------

Once == OnceClose \/ OnceReadClosed \/ OnceWriteClosed \/ OnceDrain

Next ==
    \/ \E b \in Bufs, n \in 1..MaxSize : Arrive(b, n)
    \/ Deliver
    \/ Unroute
    \/ \E n \in 1..MaxSize : Read(n)
    \/ ReadTimeout
    \/ ReadClosed
    \/ ReadReturns
    \/ ReadOverflow
    \/ ReadIn
    \/ io
    \/ CloseRead
    \/ CloseWrite
    \/ Close
    \/ OnceClose
    \/ OnceReadClosed
    \/ OnceWriteClosed
    \/ OnceDrain
    \/ \E p \in Closers : Closeall(p) \/ CloseReturns(p)

Spec == Init /\ [][Next]_vars

-----------------------------------------------------------------------------

\* The places a buffer is in: slots of the channels, the pool, readers() and io.
Holders(b) ==
    {<<"inCh", i>> : i \in {i \in 1..Len(inCh) : inCh[i].b = b}}
    \cup {<<"overflowCh", i>> : i \in {i \in 1..Len(overflowCh) : overflowCh[i].b = b}}
    \cup {<<"pool", 0>> : x \in {b} \cap pool}
    \cup {<<"readers", 0>> : x \in {b} \cap {arrived}}
    \cup {<<"io", 0>> : x \in {b} \cap {rd.sx.b}}

(***************************************************************************)
(* The recycler of a buffer runs once: at any time a buffer is in one      *)
(* place only, the pool, a channel, readers() or io.  A second recycle     *)
(* would hand the memory of a queued packet to another conn.               *)
(***************************************************************************)
OneHolder == \A b \in Bufs : \A x, y \in Holders(b) : x = y

(***************************************************************************)
(* What overflowCh keeps of a packet is what Read has not returned yet:    *)
(* no part of a packet is read twice and none is skipped.                  *)
(***************************************************************************)
RestIsUnread ==
    /\ \A i \in DOMAIN overflowCh : overflowCh[i].from = got[overflowCh[i].b]
    /\ rd.pc = "io" => rd.sx.from = got[rd.sx.b]

(***************************************************************************)
(* Neither half is left to close the conn to the other: whatever way the   *)
(* two race, when both calls have returned the conn is closed or somebody  *)
(* is inside Close.                                                        *)
(***************************************************************************)
HalvesClose ==
    (closer["CloseRead"] = "ret" /\ closer["CloseWrite"] = "ret") =>
        closed \/ closer["Close"] = "close"

(***************************************************************************)
(* Close's comment: "Read() is already woken by <-c.closed so no           *)
(* goroutines are left blocked", also not on the once of a Close that      *)
(* drains while readers() goes on sending.                                 *)
(***************************************************************************)
ReadWakes == (rd.pc # "idle" /\ closed) ~> (rd.pc = "idle")

(***************************************************************************)
(* A Close, of the conn or of its second half, comes to an end.            *)
(***************************************************************************)
CloseEnds == \A p \in Closers : (closer[p] = "close") ~> (closer[p] = "ret")

-----------------------------------------------------------------------------
(* what the proofs need *)

\* The buffers of the slices in a channel, each there once, and each slice
\* starting where the reads of its packet, counted by g, have left off.
BufsOf(s) == {s[i].b : i \in 1..Len(s)}
Distinct(s) == \A i, j \in 1..Len(s) : s[i].b = s[j].b => i = j
Unread(s, g) == \A i \in 1..Len(s) : s[i].from = g[s[i].b]

ReadSound ==
    /\ rd.pc = "io" => rd.sx \in Slices /\ rd.sx.from = got[rd.sx.b]
    /\ rd.pc # "io" => rd.sx = NoSlice

\* A buffer is in one place only.
Apart ==
    /\ Distinct(inCh) /\ Distinct(overflowCh)
    /\ BufsOf(inCh) \cap BufsOf(overflowCh) = {}
    /\ (BufsOf(inCh) \cup BufsOf(overflowCh)) \cap (pool \cup {arrived, rd.sx.b}) = {}
    /\ arrived \notin pool /\ rd.sx.b \notin pool
    /\ arrived = rd.sx.b => arrived = Nil

\* What is queued is what is unread.
QueuesSound ==
    /\ Unread(inCh, got) /\ Unread(overflowCh, got)
    /\ arrived # Nil => got[arrived] = 0

\* A half that has returned has left the closing to the other half, which has
\* yet to look at the flag it set, or the conn is closed.
HalvesSound ==
    /\ once # "idle" => closed
    /\ closer["CloseRead"] # "idle" => readClosed
    /\ closer["CloseWrite"] # "idle" => writeClosed
    /\ readClosed => closed \/ closer["CloseRead"] # "idle"
    /\ writeClosed => closed \/ closer["CloseWrite"] # "idle"
    /\ closer["CloseRead"] = "ret" =>
         closed \/ ~writeClosed \/ closer["CloseWrite"] \in {"load", "close"}
    /\ closer["CloseWrite"] = "ret" =>
         closed \/ ~readClosed \/ closer["CloseRead"] \in {"load", "close"}

Inv == TypeOK /\ ReadSound /\ Apart /\ QueuesSound /\ HalvesSound
=============================================================================
