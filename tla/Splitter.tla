------------------------------ MODULE Splitter ------------------------------
(***************************************************************************)
(* Connections that send their first message in two segments               *)
(* (intra/dialers/direct_split.go, op.go, split_and_desync.go), as two TCP *)
(* segments, as two TLS records, or with the first segment sent twice and  *)
(* hidden from the peer the first time by a low TTL (desync). Goroutines   *)
(* that write or copy to one connection agree on who is first through a    *)
(* SigCond.                                                                *)
(*                                                                         *)
(* A message is the range 1..Size of its bytes; the first HdrLen are a TLS *)
(* record header if the message is a hello, which says RecordLen. The wire *)
(* holds the segments sent: of whom, which bytes, and for a record made    *)
(* here the length its header says.                                        *)
(***************************************************************************)
EXTENDS Integers, Sequences, FiniteSets

CONSTANTS Writers,      \* goroutines that call Write once
          Copiers,      \* goroutines that call ReadFrom: a first message, then the rest
          Sizes,        \* lengths of messages
          RecordLens,   \* record lengths a hello may state
          HdrLen,       \* 5
          TlsSplits,    \* MIN_SPLIT..MAX_SPLIT of writeTCPOrTLSSplit
          TcpSplits,    \* min..max of splitHello
          PayloadLen,   \* len(payload) of desync
          Ttls,         \* what traceroute may measure
          NoopTtl,      \* desync_noop_ttl
          Nil

VARIABLES strat,        \* "tcp", "tcptls" or "desync"
          size, tls,    \* the message: its length, the record length it states or Nil
          used,         \* the SigCond
          ttl,          \* oc.ttl, and the ttl the cache has for the address, or Nil
          cached,
          pc,           \* each goroutine
          ret,          \* bytes each Write says it wrote
          wire,
          broken

vars == <<strat, size, tls, used, ttl, cached, pc, ret, wire, broken>>
Threads == Writers \cup Copiers

TypeOK ==
  /\ strat \in {"tcp", "tcptls", "desync"}
  /\ size \in Sizes /\ tls \in RecordLens \cup {Nil}
  /\ {used, broken} \subseteq BOOLEAN
  /\ \A x \in Threads : pc[x].at \in {"dial", "cond", "signal", "plain", "second", "wait", "rest", "done", "panicked"}
  /\ ret \in [Threads -> Nat]
  /\ \A i \in DOMAIN wire : wire[i].x \in Threads

Seg(x, a, b, hdr) == [x |-> x, a |-> a, b |-> b, hdr |-> hdr]
At(s) == [at |-> s, a |-> 0, hdr |-> Nil]

Init ==
  /\ strat \in {"tcp", "tcptls", "desync"} /\ size \in Sizes /\ tls \in RecordLens \cup {Nil}
  /\ used = FALSE /\ ttl = 0 /\ cached \in Ttls \cup {Nil}
  /\ (strat # "tcptls" => tls = Nil) /\ (strat # "desync" => cached = Nil)  \* not looked at
  /\ pc = [x \in Threads |-> At("dial")]
  /\ ret = [x \in Threads |-> 0] /\ wire = <<>> /\ broken = FALSE

-----------------------------------------------------------------------------
(* Dialing *)

\* desyncWithFixedTtl: with a ttl of no use there is to be no desync.
desyncWithFixedTtl(t) == ttl' = t /\ used' = (t <= NoopTtl)

\* desyncWithTraceroute: the ttl is measured over a connection dialed for none.
desyncWithTraceroute ==
  \E m \in Ttls :
    /\ used' = ((NoopTtl <= NoopTtl) \/ (IF m > NoopTtl THEN m ELSE NoopTtl) <= NoopTtl)
    /\ ttl' = IF m > NoopTtl THEN m ELSE NoopTtl
    /\ cached' = ttl'

dial ==
  /\ \A x \in Threads : pc[x].at = "dial"
  /\ CASE strat # "desync" -> UNCHANGED <<used, ttl, cached>>
       [] strat = "desync" /\ cached # Nil -> desyncWithFixedTtl(cached) /\ UNCHANGED cached
       [] OTHER -> desyncWithTraceroute
  /\ pc' = [x \in Threads |-> At("cond")]
  /\ UNCHANGED <<strat, size, tls, ret, wire, broken>>

-----------------------------------------------------------------------------
(* Writing *)

\* Write and ReadFrom look whether the first write was made; ReadFrom then
\* waits for it before it copies.
Cond(x) ==
  /\ pc[x].at = "cond"
  /\ pc' = [pc EXCEPT ![x] = At(IF ~used THEN "signal" ELSE IF x \in Copiers THEN "wait" ELSE "plain")]
  /\ UNCHANGED <<strat, size, tls, used, ttl, cached, ret, wire, broken>>

then(x) == At(IF x \in Copiers THEN "wait" ELSE "done")

\* A write of bytes a..b, after which x goes on to `next`; it may fail.
send(x, a, b, hdr, next) ==
  \/ /\ ~broken
     /\ wire' = IF b < a THEN wire ELSE Append(wire, Seg(x, a, b, hdr))
     /\ ret' = [ret EXCEPT ![x] = @ + (b - a + 1)]
     /\ pc' = [pc EXCEPT ![x] = next]
     /\ UNCHANGED broken
  \/ /\ broken' = TRUE
     /\ pc' = [pc EXCEPT ![x] = At("done")]
     /\ UNCHANGED <<wire, ret>>

least(a, b) == IF a <= b THEN a ELSE b

\* splitHello and writeTCPSplit: the first segment, the second to follow.
writeTCPSplit(x) ==
  \E s \in {least(c, size \div 2) : c \in TcpSplits} :
    send(x, 1, s, Nil, [at |-> "second", a |-> s + 1, hdr |-> Nil])

\* getTLSClientHelloRecordLen
getTLSClientHelloRecordLen == IF size < HdrLen THEN Nil ELSE tls

\* writeTCPOrTLSSplit: a hello becomes two records, the second with a header of
\* its own; what is not a hello, or too short, is split as TCP segments.
writeTCPOrTLSSplit(x) ==
  IF size <= 1 THEN send(x, 1, size, Nil, then(x))
  ELSE \E s \in {least(c, size \div 2) : c \in TlsSplits} :
         LET rec == getTLSClientHelloRecordLen
             one == s - HdrLen
             whole == IF rec = Nil THEN TRUE ELSE one <= 0 \/ one >= rec
         IN IF whole THEN writeTCPSplit(x)
            ELSE send(x, 1, s, one, [at |-> "second", a |-> s + 1, hdr |-> rec - one])

\* desync's first segment: sent with a low ttl and then put right, so that the
\* peer gets it when it is sent again.
overwrite(x) == send(x, 1, PayloadLen, Nil, [at |-> "second", a |-> PayloadLen + 1, hdr |-> Nil])

\* The first to signal splits. In desync one that is not first closes `await`, a
\* channel no one makes; an empty message signals nothing, a short one is sent
\* as it is, and one as long as the payload is not sent.
Signal(x) ==
  /\ pc[x].at = "signal"
  /\ used' = (used \/ (strat = "desync" => size > 0))
  /\ CASE strat = "desync" /\ size = 0 ->
            pc' = [pc EXCEPT ![x] = then(x)] /\ UNCHANGED <<wire, ret, broken>>
       [] used /\ strat = "desync" /\ size > 0 ->
            pc' = [pc EXCEPT ![x] = At("panicked")] /\ UNCHANGED <<wire, ret, broken>>
       [] used /\ strat # "desync" ->
            pc' = [pc EXCEPT ![x] = At("plain")] /\ UNCHANGED <<wire, ret, broken>>
       [] ~used /\ strat = "tcp" -> writeTCPSplit(x)
       [] ~used /\ strat = "tcptls" -> writeTCPOrTLSSplit(x)
       [] ~used /\ strat = "desync" /\ size \in 1..PayloadLen ->
            pc' = [pc EXCEPT ![x] = IF size < PayloadLen THEN At("plain") ELSE then(x)] /\ UNCHANGED <<wire, ret, broken>>
       [] OTHER -> overwrite(x)
  /\ UNCHANGED <<strat, size, tls, ttl, cached>>

writeSecond(x) ==
  /\ pc[x].at = "second"
  /\ send(x, pc[x].a, size, pc[x].hdr, then(x))
  /\ UNCHANGED <<strat, size, tls, used, ttl, cached>>

writePlain(x) ==
  /\ pc[x].at = "plain"
  /\ send(x, 1, size, Nil, then(x))
  /\ UNCHANGED <<strat, size, tls, used, ttl, cached>>

\* ReadFrom goes on once the SigCond is signalled, and copies the rest.
Wait(x) ==
  /\ pc[x].at = "wait" /\ used
  /\ pc' = [pc EXCEPT ![x] = At("rest")]
  /\ UNCHANGED <<strat, size, tls, used, ttl, cached, ret, wire, broken>>

copyRest(x) ==
  /\ pc[x].at = "rest"
  /\ send(x, size + 1, size + 1, Nil, At("done"))
  /\ UNCHANGED <<strat, size, tls, used, ttl, cached>>

Step(x) == Cond(x) \/ Signal(x) \/ writeSecond(x) \/ writePlain(x) \/ Wait(x) \/ copyRest(x)
Next == dial \/ \E x \in Threads : Step(x)

Spec == Init /\ [][Next]_vars

-----------------------------------------------------------------------------
(* Properties *)

sentBy(x) == SelectSeq(wire, LAMBDA s : s.x = x)
messageOf(x) == SelectSeq(sentBy(x), LAMBDA s : s.b <= size)

Dropped == strat = "desync" /\ ~(ttl <= NoopTtl) /\ size = PayloadLen

\* What x's message became on the wire: its first n bytes, in order, and
\* nothing else.
carries(x, n) ==
  LET m == messageOf(x) IN
    /\ \A i \in DOMAIN m : m[i].a = IF i = 1 THEN 1 ELSE m[i-1].b + 1
    /\ n = IF m = <<>> THEN 0 ELSE m[Len(m)].b

\* A Write that returns no error sent what it says it did, in order and once:
\* the whole message, or (desync's first message, exactly as long as the
\* payload) nothing at all, which it reports as 0 bytes (split_and_desync.go:
\* 415-417). Where one record became two, they carry its bytes, each as many as
\* its header says, none empty. No lock is held between two segments: what
\* another goroutine writes may come between them, and is not looked at.
SplitIsFaithful ==
  \A x \in Writers : pc[x].at = "done" /\ ~broken =>
    LET m == messageOf(x) IN
      /\ carries(x, ret[x])
      /\ ret[x] = size \/ (Dropped /\ ret[x] = 0)
      /\ (\E i \in DOMAIN m : m[i].hdr # Nil) =>
           /\ Len(m) = 2 /\ m[1].hdr > 0 /\ m[2].hdr > 0
           /\ m[1].hdr = m[1].b - HdrLen
           /\ m[1].hdr + m[2].hdr = tls

\* Every writer returns, and every copier whose reader has something to read,
\* but for those that panic: a desync's writer that finds the first write taken
\* between its look and its signal closes a channel that was never made
\* (split_and_desync.go:402).
WritesReturn ==
  \A x \in Threads : (x \in Copiers => size > 0) => <>(pc[x].at \in {"done", "panicked"})
=============================================================================
