------------------------------- MODULE WgGso -------------------------------
(***************************************************************************)
(* The batching connection of a WireGuard device (intra/ipn/wg/wgconn2.go, *)
(* gso.go): datagrams to one peer are coalesced into messages that the     *)
(* kernel cuts up again (UDP_SEGMENT), a device that cannot do so is found *)
(* out by EIO and asked no more, and received messages that the kernel     *)
(* coalesced (UDP_GRO) are split in place, within one array of messages.   *)
(*                                                                         *)
(* A datagram is its length when sent, and a sequence of bytes, each named *)
(* by its message and place, when received. The kernel is the environment: *)
(* kernelSend stands for WriteBatch; the network device is the same for    *)
(* both attempts of a send. The receive side keeps one array at a time.    *)
(***************************************************************************)
EXTENDS Naturals, Sequences, FiniteSets, SequencesExt

CONSTANTS
    Senders, Batches,  \* routines that send; sequences of lengths they send
    MaxPayload, BufCap, \* maxIPv4PayloadLen; capacity of a datagram's buffer
    MaxDatagrams,      \* udpSegmentMaxDatagrams
    MaxLen,            \* bound: length of a received message
    MaxOps,            \* bound: opens, sends and receives
    Nil

VARIABLES
    sock, hole, closed, \* family -> is it open?; blackholed?; closed?
    tx,          \* family -> is transmit offload on?
    cksum,       \* does the network device compute checksums? (else EIO)
    sends,       \* sender -> Nil or a send in progress
    rx,          \* Nil or a receive in progress
    ops

vars == <<sock, hole, closed, tx, cksum, sends, rx, ops>>

Families == {4, 6}
BatchSize == 2 * MaxDatagrams
ReadAt == BatchSize - 2
All(b) == [f \in Families |-> b]

---------------------------------------------------------------------------
Init ==
    /\ sock = All(FALSE) /\ hole = FALSE /\ closed = FALSE
    /\ tx = All(FALSE)
    /\ cksum \in BOOLEAN
    /\ sends = [s \in Senders |-> Nil]
    /\ rx = Nil
    /\ ops = 0

(* Open: the sockets for the families there are, each with its offload. *)
Open(fs, off) ==
    /\ sock = All(FALSE) /\ ops < MaxOps
    /\ sock' = [f \in Families |-> f \in fs]
    /\ tx' = [f \in Families |-> f \in fs /\ off]
    /\ closed' = FALSE
    /\ ops' = ops + 1
    /\ UNCHANGED <<hole, cksum, sends, rx>>

Pause == ~hole /\ hole' = TRUE /\ UNCHANGED <<sock, closed, tx, cksum, sends, rx, ops>>
Resume == hole /\ hole' = FALSE /\ UNCHANGED <<sock, closed, tx, cksum, sends, rx, ops>>

Close ==
    /\ ~closed
    /\ closed' = TRUE /\ hole' = FALSE
    /\ sock' = All(FALSE) /\ tx' = All(FALSE)
    /\ UNCHANGED <<cksum, sends, rx, ops>>

---------------------------------------------------------------------------
(* Send: socket and offload of the peer's family are read under the lock; a
   mapped v6 address falls back to v4. *)
Send(s, f, mapped, bufs) ==
    LET g == IF f = 6 /\ ~sock[6] /\ mapped THEN 4 ELSE f IN
    /\ sends[s] = Nil /\ ops < MaxOps
    /\ ~hole /\ sock[g]
    /\ sends' = [sends EXCEPT ![s] =
         [pc |-> IF tx[g] THEN "coalesce" ELSE "plain", fam |-> g, bufs |-> bufs, i |-> 1,
          msgs |-> <<>>, end |-> FALSE, oob |-> [k \in 1..Len(bufs) |-> 0],
          wire |-> <<>>, err |-> ""]]
    /\ ops' = ops + 1
    /\ UNCHANGED <<sock, hole, closed, tx, cksum, rx>>

At(s, pc) == sends[s] # Nil /\ sends[s].pc = pc

(* Does the datagram join the message and fit? *)
fits(k) ==
    LET len == k.bufs[k.i]
        m == k.msgs[Len(k.msgs)]
        size == FoldLeft(LAMBDA a, b : a + b, 0, m)
    IN /\ Len(k.msgs) > 0
       /\ size + len <= MaxPayload /\ len <= m[1] /\ size + len <= BufCap
       /\ Len(m) < MaxDatagrams

(* Mutant: datagrams join after a shorter one. *)
joinsShort(k) == fits(k)

joins(k) == ~k.end /\ fits(k)

(* coalesceMessages, one turn: the datagram joins the current message if it
   fits, is no longer than the first, and no shorter one has ended it. *)
coalesceMessages(s) ==
    LET k == sends[s]
        len == k.bufs[k.i]
        base == Len(k.msgs)
        m == k.msgs[base]
        setGSO == [k.oob EXCEPT ![base] = m[1]]
        next == [k EXCEPT !.i = @ + 1, !.pc = IF k.i = Len(k.bufs) THEN "gso" ELSE @]
    IN /\ At(s, "coalesce")
       /\ sends' = [sends EXCEPT ![s] =
            IF joins(k)
            THEN [next EXCEPT !.msgs = [k.msgs EXCEPT ![base] = Append(m, len)],
                              !.end = len < m[1],
                              !.oob = IF k.i = Len(k.bufs) THEN setGSO ELSE k.oob]
            ELSE [next EXCEPT !.msgs = Append(k.msgs, <<len>>), !.end = FALSE,
                              !.oob = IF base > 0 /\ Len(m) > 1 THEN setGSO ELSE k.oob]]
       /\ UNCHANGED <<sock, hole, closed, tx, cksum, rx, ops>>

(* The kernel cuts n bytes every g bytes; uncut when g is 0. *)
segment(n, g) ==
    IF g = 0 THEN <<n>>
    ELSE [j \in 1..((n + g - 1) \div g) |-> IF j * g <= n THEN g ELSE n - (j - 1) * g]

(* WriteBatch, until it fails: the datagrams of the messages before the one it
   fails at are sent. One that asks for segments where the device computes no
   checksums is refused (EIO) when it has to be cut, and may be when it need
   not; any may fail otherwise (a full buffer, no route). *)
kernelSend(lens, oob) ==
    LET eio(j) == oob[j] > 0 /\ ~cksum
        sent(n) == FlattenSeq([j \in 1..n |-> segment(lens[j], oob[j])])
        may == {n \in 0..Len(lens) : \A j \in 1..n : eio(j) => lens[j] <= oob[j]}
    IN {[wire |-> sent(n), err |-> e] : <<n, e>> \in
          {<<n, e>> \in may \X {"", "eio", "other"} :
             IF n = Len(lens) THEN e = "" ELSE IF eio(n + 1) THEN e # "" ELSE e = "other"}}

sendGso(s) ==
    LET k == sends[s]
        lens == [j \in 1..Len(k.msgs) |-> FoldLeft(LAMBDA a, b : a + b, 0, k.msgs[j])]
    IN /\ At(s, "gso")
       /\ \E out \in kernelSend(lens, k.oob) :
            sends' = [sends EXCEPT ![s] = [k EXCEPT !.wire = Append(@, out.wire), !.err = out.err,
                                                    !.pc = IF out.err = "eio" THEN "disable" ELSE "done"]]
       /\ UNCHANGED <<sock, hole, closed, tx, cksum, rx, ops>>

(* EIO: offload is off for the family from now on, and all is sent again, even
   what had gone out. *)
disable(s) ==
    LET k == sends[s] IN
    /\ At(s, "disable")
    /\ tx' = [tx EXCEPT ![k.fam] = FALSE]
    /\ sends' = [sends EXCEPT ![s].pc = "plain"]
    /\ UNCHANGED <<sock, hole, closed, cksum, rx, ops>>

(* Each datagram in a message of its own. setSrcControl leaves the control
   data alone, so what an earlier attempt put there is still there. *)
sendPlain(s) ==
    LET k == sends[s] IN
    /\ At(s, "plain")
    /\ \E out \in kernelSend(k.bufs, k.oob) :
         sends' = [sends EXCEPT ![s] = [k EXCEPT !.wire = Append(@, out.wire), !.err = out.err,
                                                 !.pc = "done"]]
    /\ UNCHANGED <<sock, hole, closed, tx, cksum, rx, ops>>

(* The messages go back to their pool, control data cleared. *)
putMessages(s) ==
    /\ At(s, "done")
    /\ sends' = [sends EXCEPT ![s] = Nil]
    /\ UNCHANGED <<sock, hole, closed, tx, cksum, rx, ops>>

---------------------------------------------------------------------------
(* receiveIP reads up to two messages into the end of the array; gso is the
   size the kernel coalesced by (0: it did not). *)
Bytes(m, n) == [j \in 1..n |-> <<m, j>>]

receiveIP(ns, gs) ==
    /\ rx = Nil /\ ops < MaxOps /\ sock # All(FALSE)
    /\ \A m \in 1..2 : gs[m] > 0 => (ns[m] + gs[m] - 1) \div gs[m] <= MaxDatagrams
    /\ rx' = [slots |-> [k \in 0..BatchSize - 1 |->
                 IF k < ReadAt THEN <<>> ELSE Bytes(k - ReadAt + 1, ns[k - ReadAt + 1])],
              gs |-> gs, ns |-> ns, i |-> ReadAt, j |-> 0, n |-> 0, msg |-> Nil, pc |-> "msg"]
    /\ ops' = ops + 1
    /\ UNCHANGED <<sock, hole, closed, tx, cksum, sends>>

(* splitCoalescedMessages takes the next message; an empty one is the last. *)
nextMessage ==
    /\ rx # Nil /\ rx.pc = "msg"
    /\ rx' = IF rx.i = BatchSize THEN [rx EXCEPT !.pc = "done"]
             ELSE IF rx.slots[rx.i] = <<>> THEN [rx EXCEPT !.pc = "done"]
             ELSE [rx EXCEPT !.pc = "split", !.j = 0, !.msg = rx.slots[rx.i]]
    /\ UNCHANGED <<sock, hole, closed, tx, cksum, sends, ops>>

(* ... and copies one piece of it to slot n, which must not lie beyond it. *)
splitCoalescedMessages ==
    LET g == rx.gs[rx.i - ReadAt + 1]
        len == Len(rx.msg)
        num == IF g > 0 THEN (len + g - 1) \div g ELSE 1
        from == rx.j * g + 1
        to == IF g = 0 \/ from + g - 1 > len THEN len ELSE from + g - 1
        last == rx.j = num - 1
        put == [rx.slots EXCEPT ![rx.n] = SubSeq(rx.msg, from, to)]
    IN /\ rx # Nil /\ rx.pc = "split"
       /\ rx' = IF rx.n > rx.i THEN [rx EXCEPT !.pc = "overflow"]
                ELSE [rx EXCEPT !.n = @ + 1, !.j = @ + 1, !.pc = IF last THEN "msg" ELSE @,
                                !.i = IF last THEN @ + 1 ELSE @,
                                !.slots = IF last /\ rx.i # rx.n THEN [put EXCEPT ![rx.i] = <<>>] ELSE put]
       /\ UNCHANGED <<sock, hole, closed, tx, cksum, sends, ops>>

deliver ==
    /\ rx # Nil /\ rx.pc \in {"done", "overflow"}
    /\ rx' = Nil
    /\ UNCHANGED <<sock, hole, closed, tx, cksum, sends, ops>>

---------------------------------------------------------------------------
Next ==
    \/ \E fs \in SUBSET Families \ {{}}, off \in BOOLEAN : Open(fs, off)
    \/ Pause \/ Resume \/ Close
    \/ \E s \in Senders : \/ \E f \in Families, m \in BOOLEAN, b \in Batches : Send(s, f, m, b)
                          \/ coalesceMessages(s) \/ sendGso(s) \/ disable(s) \/ sendPlain(s)
                          \/ putMessages(s)
    \/ \E a \in 1..MaxLen, b \in 0..MaxLen : \E g \in 0..a, h \in 0..b :
         receiveIP(<<a, b>>, <<g, h>>)
    \/ nextMessage \/ splitCoalescedMessages \/ deliver

Spec == Init /\ [][Next]_vars

---------------------------------------------------------------------------
TypeOK ==
    /\ sock \in [Families -> BOOLEAN] /\ tx \in [Families -> BOOLEAN]
    /\ {hole, closed, cksum} \subseteq BOOLEAN
    /\ \A s \in Senders : sends[s] # Nil => Len(sends[s].msgs) <= Len(sends[s].bufs)
    /\ rx # Nil => rx.n \in 0..BatchSize

(* Each attempt puts on the wire the first so many of the datagrams the device
   sent, one for one and in order, however they were coalesced and cut up, and
   the last attempt puts all of them there unless it failed: none is garbled,
   dropped or reordered without an error. Those before the message that was
   refused go out twice, and control data of the first attempt does not cut up
   a datagram of the second (wgconn2.go:772-808, 873-923). *)
WireIsAsSent ==
    \A s \in Senders : At(s, "done") =>
      LET k == sends[s] IN
      /\ \A a \in 1..Len(k.wire) : IsPrefix(k.wire[a], k.bufs)
      /\ k.err = "" => Last(k.wire) = k.bufs

(* Splitting in place never runs over a message yet to be split, and leaves
   the datagrams of all messages, cut as the kernel said, in order
   (wgconn2.go:925-967). *)
SplitIsExact ==
    rx # Nil =>
      /\ rx.pc # "overflow"
      /\ rx.pc = "done" =>
           LET sent(m) == IF rx.ns[m] = 0 THEN <<>> ELSE segment(rx.ns[m], rx.gs[m])
               got == [k \in 1..rx.n |-> rx.slots[k - 1]]
           IN /\ [k \in 1..rx.n |-> Len(got[k])] = sent(1) \o sent(2)
              /\ FlattenSeq(got) = Bytes(1, rx.ns[1]) \o Bytes(2, rx.ns[2])
=============================================================================
