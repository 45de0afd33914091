------------------------------- MODULE Retrier ------------------------------
(***************************************************************************)
(* The retrying connection (intra/dialers/retrier.go): until the first     *)
(* bytes arrive, what the upload thread writes is also kept in tee; when   *)
(* the first read fails, the download thread dials anew, splitting the     *)
(* first segment some other way or over the next of many dialers, and      *)
(* replays tee, while the upload thread may be writing, closing or waiting *)
(* for the retry to be done.                                               *)
(*                                                                         *)
(* The upload thread writes the chunks 1, 2, .. of a stream. A connection  *)
(* records the chunks that reached the peer; it may break at any write or  *)
(* read. With LateReads a connection can fail a write (a write deadline)   *)
(* and still deliver what the peer sends.                                  *)
(***************************************************************************)
EXTENDS Naturals, Sequences, FiniteSets

CONSTANTS
    Strat, Retry,  \* dialer settings: "never" | "auto" | a split; "never" | "with" | "after"
    Dialers,       \* ids, in order; more than one: DialAny
    MaxRetries,    \* maxRetryCount, or the number of dialers
    Chunks,        \* bound: writes of the upload thread
    Reads,         \* bound: reads of the download thread
    LateReads,
    Nil

VARIABLES
    conns,       \* connections made: [got, broken, closed, rclosed, wclosed, dialer, strat]
    conn,        \* index of the current one, or 0
    idx,         \* nextDialerIdx
    tee, retryCount, retryWriteErr, retryDone,
    readDone, writeDone,
    mu,          \* is the lock held (by the download thread, through a retry)?
    up, sent,    \* upload thread; chunks it was told are written
    down, reads, \* download thread; reads it has made
    shut,        \* CloseWrite and CloseRead: "no", "flagged", "done"
    ippPin

vars == <<conns, conn, idx, tee, retryCount, retryWriteErr, retryDone, readDone, writeDone, mu,
          up, sent, down, reads, shut, ippPin>>

multidial == Len(Dialers) > 1
canRetry == multidial \/ Retry # "never"
dialerID == Dialers[IF multidial /\ idx > 0 THEN idx ELSE 1]
New(d, s) == [got |-> <<>>, broken |-> FALSE, closed |-> FALSE, rclosed |-> FALSE,
              wclosed |-> FALSE, dialer |-> d, strat |-> s]

(* dialStratLocked: how the first segment is split at attempt n, or "error". *)
dialStratLocked(n) ==
    LET split == /\ Strat # "never"
                 /\ CASE Retry = "never" -> n = 0 [] Retry = "with" -> n >= 1 [] OTHER -> n = 0
        cycle == n % MaxRetries
    IN IF multidial THEN "never"
       ELSE IF Retry = "never" /\ n >= 1 THEN "error"
       ELSE IF ~split THEN "never"
       ELSE IF Strat # "auto" THEN Strat
       ELSE IF Retry = "with" THEN (CASE cycle = 1 -> "tcp" [] cycle = 2 -> "tcptls" [] OTHER -> "desync")
       ELSE IF Retry = "after" /\ cycle = 1 THEN "tcptls" ELSE "tcp"

(* doDialLocked: the dialers that failing ones leave to try, from the next. *)
dialFrom(i, n) == IF i >= Len(Dialers) /\ n < MaxRetries THEN 0 ELSE i

---------------------------------------------------------------------------
Init ==
    /\ conns = <<New(Dialers[1], dialStratLocked(0))>> /\ conn = 1
    /\ idx = IF multidial THEN 1 ELSE 0
    /\ tee = <<>> /\ retryCount = 0 /\ retryWriteErr = FALSE /\ retryDone = FALSE
    /\ readDone = FALSE /\ writeDone = FALSE
    /\ mu = FALSE
    /\ up = [pc |-> "idle", c |-> 0] /\ sent = 0
    /\ down = [pc |-> "idle", c |-> 0, err |-> FALSE] /\ reads = 0
    /\ shut = [r |-> "no", w |-> "no"]
    /\ ippPin = Nil

uploads == <<up, sent>>
downloads == <<down, reads>>
retries == <<idx, tee, retryCount, retryWriteErr, retryDone>>
flags == <<readDone, writeDone, shut>>

writable(c) == c # 0 /\ ~conns[c].broken /\ ~conns[c].closed /\ ~conns[c].wclosed
readable(c) == c # 0 /\ ~conns[c].closed /\ ~conns[c].rclosed /\ (conns[c].broken => LateReads)

(* A write of chunk k to c: it gets there, or fails and breaks the connection. *)
Put(c, k, ok) == IF ok THEN [conns EXCEPT ![c].got = Append(@, k)] ELSE [conns EXCEPT ![c].broken = TRUE]

---------------------------------------------------------------------------
(* Write, the first check of retryDone outside the lock. *)
Write ==
    /\ up.pc = "idle" /\ sent < Chunks /\ ~writeDone
    /\ up' = [up EXCEPT !.pc = IF retryDone THEN "load" ELSE "tee"]
    /\ UNCHANGED <<conns, conn, retries, mu, sent, downloads, flags, ippPin>>

(* teedFirstWrite, under the lock: written and kept, though writing may fail. *)
teedFirstWrite(ok) ==
    /\ up.pc = "tee" /\ ~mu
    /\ IF conn = 0 \/ retryDone
       THEN up' = [up EXCEPT !.pc = "load"] /\ UNCHANGED <<conns, tee, sent>>
       ELSE /\ ok => writable(conn)
            /\ conns' = Put(conn, sent + 1, ok)
            /\ tee' = Append(tee, sent + 1)
            /\ up' = [up EXCEPT !.pc = IF ok THEN "idle" ELSE "wait"]
            /\ sent' = IF ok THEN sent + 1 ELSE sent
    /\ UNCHANGED <<conn, idx, retryCount, retryWriteErr, retryDone, mu, downloads, flags, ippPin>>

(* The write failed: wait for the retry to be done, which replays tee. *)
afterRetry ==
    /\ up.pc = "wait" /\ retryDone /\ ~mu
    /\ IF retryWriteErr \/ conn = 0 THEN up' = [up EXCEPT !.pc = "failed"] /\ UNCHANGED sent
       ELSE up' = [up EXCEPT !.pc = "idle"] /\ sent' = sent + 1
    /\ UNCHANGED <<conns, conn, retries, mu, downloads, flags, ippPin>>

(* ... but not for ever. *)
retryTimeout ==
    /\ up.pc = "wait" /\ ~retryDone
    /\ up' = [up EXCEPT !.pc = "failed"]
    /\ UNCHANGED <<conns, conn, retries, mu, sent, downloads, flags, ippPin>>

(* After the retry: the connection is final; loaded, then written to. *)
loadConn ==
    /\ up.pc = "load" /\ ~mu
    /\ up' = IF conn = 0 THEN [up EXCEPT !.pc = "failed"] ELSE [pc |-> "write", c |-> conn]
    /\ UNCHANGED <<conns, conn, retries, mu, sent, downloads, flags, ippPin>>

writeConn(ok) ==
    /\ up.pc = "write"
    /\ ok => writable(up.c)
    /\ conns' = Put(up.c, sent + 1, ok)
    /\ up' = [pc |-> IF ok THEN "idle" ELSE "failed", c |-> 0]
    /\ sent' = IF ok THEN sent + 1 ELSE sent
    /\ UNCHANGED <<conn, retries, mu, downloads, flags, ippPin>>

(* ReadFrom, once the retry is done: the dialer that worked is pinned. *)
ReadFrom ==
    /\ multidial /\ retryDone /\ conn # 0 /\ ~mu /\ ippPin = Nil
    /\ ippPin' = dialerID
    /\ UNCHANGED <<conns, conn, retries, mu, uploads, downloads, flags>>

---------------------------------------------------------------------------
(* Read: the connection as it is now, and a read of it that may block. *)
Read ==
    /\ down.pc = "idle" /\ reads < Reads /\ ~mu
    /\ down' = [pc |-> IF conn = 0 THEN "check" ELSE "read", c |-> conn, err |-> conn = 0]
    /\ reads' = reads + 1
    /\ UNCHANGED <<conns, conn, retries, mu, uploads, flags, ippPin>>

readConn(ok) ==
    /\ down.pc = "read"
    /\ ok => readable(down.c)
    /\ down' = [down EXCEPT !.pc = "check", !.err = ~ok]
    /\ UNCHANGED <<conns, conn, retries, mu, uploads, reads, flags, ippPin>>

(* The first read to get here takes the lock and is the one that retries. *)
checkRetry ==
    /\ down.pc = "check" /\ ~mu
    /\ IF retryDone THEN down' = [down EXCEPT !.pc = "idle", !.c = 0] /\ UNCHANGED mu
       ELSE down' = [down EXCEPT !.pc = "retry"] /\ mu' = TRUE
    /\ UNCHANGED <<conns, conn, retries, uploads, reads, flags, ippPin>>

\* Mutant: one retry too many.
againOnceMore == (down.c = 0 \/ down.err) /\ canRetry /\ retryCount <= MaxRetries

again == (down.c = 0 \/ down.err) /\ canRetry /\ retryCount < MaxRetries

(* dialLocked: the old connection is closed and a new one dialed: over dialer
   d, or over none. *)
dialLocked(d) ==
    LET n == retryCount + 1
        shutOld == IF conn = 0 THEN conns ELSE [conns EXCEPT ![conn].closed = TRUE]
        from == dialFrom(idx, n)
        s == dialStratLocked(n)
    IN /\ down.pc = "retry" /\ again
       /\ d = 0 \/ (s # "error" /\ (IF multidial THEN d \in (from + 1)..Len(Dialers) ELSE d = 1))
       /\ retryCount' = n
       /\ idx' = IF ~multidial THEN idx ELSE IF d = 0 THEN Len(Dialers) ELSE d
       /\ conns' = IF d = 0 THEN shutOld ELSE Append(shutOld, New(Dialers[d], s))
       /\ conn' = IF d # 0 THEN Len(conns) + 1 ELSE IF s = "error" THEN conn ELSE 0
       /\ down' = [down EXCEPT !.c = conn', !.err = TRUE, !.pc = IF d = 0 THEN "retry" ELSE "replay"]
       /\ UNCHANGED <<tee, retryWriteErr, retryDone, mu, uploads, reads, flags, ippPin>>

(* retryWriteReadLocked: tee is written, then what was closed meanwhile ... *)
replay(ok) ==
    /\ down.pc = "replay"
    /\ ok => writable(conn)
    /\ conns' = IF ok THEN [conns EXCEPT ![conn].got = tee] ELSE [conns EXCEPT ![conn].broken = TRUE]
    /\ retryWriteErr' = ~ok
    /\ down' = [down EXCEPT !.pc = IF ok THEN "closeops" ELSE "retry"]
    /\ UNCHANGED <<conn, idx, tee, retryCount, retryDone, mu, uploads, reads, flags, ippPin>>

closeOps ==
    /\ down.pc = "closeops"
    /\ conns' = [conns EXCEPT ![conn].rclosed = @ \/ readDone, ![conn].wclosed = @ \/ writeDone]
    /\ down' = [down EXCEPT !.pc = "reread"]
    /\ UNCHANGED <<conn, retries, mu, uploads, reads, flags, ippPin>>

(* ... is closed again, and the first bytes are awaited. *)
reread(ok) ==
    /\ down.pc = "reread"
    /\ ok => readable(conn)
    /\ down' = [down EXCEPT !.pc = "retry", !.err = ~ok]
    /\ UNCHANGED <<conns, conn, retries, mu, uploads, reads, flags, ippPin>>

(* Retries are over, one way or the other: tee is let go, waiters are told. *)
retried ==
    /\ down.pc = "retry" /\ ~again
    /\ tee' = <<>> /\ retryDone' = TRUE /\ mu' = FALSE
    /\ down' = [down EXCEPT !.pc = "idle", !.c = 0]
    /\ UNCHANGED <<conns, conn, idx, retryCount, retryWriteErr, uploads, reads, flags, ippPin>>

---------------------------------------------------------------------------
(* CloseRead and CloseWrite: the flag at once, the connection under the lock. *)
CloseFlag(op) ==
    /\ shut[op] = "no"
    /\ shut' = [shut EXCEPT ![op] = "flagged"]
    /\ IF op = "r" THEN readDone' = TRUE /\ UNCHANGED writeDone ELSE writeDone' = TRUE /\ UNCHANGED readDone
    /\ UNCHANGED <<conns, conn, retries, mu, uploads, downloads, ippPin>>

CloseOp(op) ==
    /\ shut[op] = "flagged" /\ ~mu
    /\ shut' = [shut EXCEPT ![op] = "done"]
    /\ conns' = IF conn = 0 THEN conns
                ELSE IF op = "r" THEN [conns EXCEPT ![conn].rclosed = TRUE]
                ELSE [conns EXCEPT ![conn].wclosed = TRUE]
    /\ UNCHANGED <<conn, retries, mu, uploads, downloads, readDone, writeDone, ippPin>>

---------------------------------------------------------------------------
upload == Write \/ afterRetry \/ retryTimeout \/ loadConn
          \/ \E ok \in BOOLEAN : teedFirstWrite(ok) \/ writeConn(ok)

retryStep == \/ \E d \in 0..Len(Dialers) : dialLocked(d)
             \/ \E ok \in BOOLEAN : replay(ok) \/ reread(ok)
             \/ closeOps \/ retried

download == Read \/ checkRetry \/ \E ok \in BOOLEAN : readConn(ok)

Next == \/ upload \/ download \/ retryStep \/ ReadFrom
        \/ \E op \in {"r", "w"} : CloseFlag(op) \/ CloseOp(op)

Spec == Init /\ [][Next]_vars

---------------------------------------------------------------------------
TypeOK ==
    /\ conn \in 0..Len(conns) /\ Len(conns) <= MaxRetries + 1
    /\ idx \in 0..Len(Dialers)
    /\ retryCount \in 0..MaxRetries
    /\ {retryWriteErr, retryDone, readDone, writeDone, mu} \subseteq BOOLEAN
    /\ up.pc \in {"idle", "tee", "wait", "load", "write", "failed"}
    /\ down.pc \in {"idle", "read", "check", "retry", "replay", "closeops", "reread"}
    /\ sent \in 0..Chunks /\ reads \in 0..Reads

(* What the peer gets over the connection in the end is the stream that the
   upload thread was told is written: nothing is missing, repeated or out of
   order, however writes, the retry and the replay of tee interleave, unless
   that connection is broken (retrier.go:604-686). *)
StreamIsIntact ==
    retryDone /\ conn # 0 /\ up.pc \in {"idle", "load", "write"}
      => LET c == conns[conn]
         IN (~c.broken /\ ~c.closed) => c.got = [k \in 1..sent |-> k]

(* Whoever closed a side of the connection has closed it on the one that is
   used in the end, even when closing raced with a retry, unless the last
   replay failed: that one keeps its sides open (retrier.go:431-447). *)
ClosesReachFinal ==
    retryDone /\ conn # 0 /\ ~retryWriteErr =>
      /\ shut.r = "done" => conns[conn].rclosed \/ conns[conn].closed
      /\ shut.w = "done" => conns[conn].wclosed \/ conns[conn].closed

(* No connection is left open but the one in use (retrier.go:325). *)
OldConnsAreClosed == \A c \in 1..Len(conns) : c # conn => conns[c].closed

(* The dialer pinned to the address is the one that made the connection. *)
PinIsOfFinal == ippPin # Nil /\ conn # 0 => conns[conn].dialer = ippPin

(* A write never hangs: the retry ends, or the wait for it does. *)
WritesReturn == (up.pc \notin {"idle", "failed"}) ~> (up.pc \in {"idle", "failed"})
=============================================================================
