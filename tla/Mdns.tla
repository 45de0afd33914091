-------------------------------- MODULE Mdns --------------------------------
(***************************************************************************)
(* One-shot multicast DNS queries (intra/dns53/mdns.go). A query binds a   *)
(* socket per IP family, starts a receiver on each and a listener that     *)
(* turns their messages into discoveries, and returns the first that has   *)
(* an address, or gives up when the listener's time is up. Discoveries are *)
(* tracked by name; SRV and CNAME records make a name another's alias.     *)
(*                                                                         *)
(* A message is the sequence of its records: [kind, name, to].             *)
(***************************************************************************)
EXTENDS Integers, Sequences, FiniteSets

CONSTANTS Names,       \* names in records
          Svc,         \* those of Names that contain the service asked for
          Messages,    \* messages that may arrive
          MaxMessages, \* bound: messages that arrive
          ChanCap,     \* of msgCh and of ansch
          Nil

Families == {4, 6}

VARIABLES use,         \* use4, use6
          status,      \* of the transport: start, complete, error, end
          q,           \* Query: idle, bind, send, await, close, done
          bound,       \* sockets bound
          closed,      \* client.closed
          recv,        \* the receiver of each family
          listen,      \* the listener: none, loop, send, done
          msgCh, ansch,
          tr,          \* tracker: name -> discovery, and the discoveries
          ans,         \* what Query returned: a discovery, or Nil
          n            \* messages arrived

vars == <<use, status, q, bound, closed, recv, listen, msgCh, ansch, tr, ans, n>>

TypeOK ==
  /\ use \subseteq Families /\ bound \subseteq Families
  /\ status \in {"start", "complete", "error", "end"}
  /\ q \in {"idle", "bind", "send", "await", "close", "done"}
  /\ closed \in BOOLEAN
  /\ recv \in [Families -> {"none", "loop", "done"}]
  /\ listen \in {"none", "loop", "send", "done"}
  /\ Len(msgCh) <= ChanCap /\ Len(ansch) <= ChanCap
  /\ tr.of \in [Names -> 0..Len(tr.ds)]
  /\ n \in 0..MaxMessages

Init ==
  /\ use \in SUBSET Families /\ status = "start" /\ q = "idle" /\ bound = {} /\ closed = FALSE
  /\ recv = [f \in Families |-> "none"] /\ listen = "none" /\ msgCh = <<>> /\ ansch = <<>>
  /\ tr = [of |-> [x \in Names |-> 0], ds |-> <<>>, disco |-> 0]
  /\ ans = Nil /\ n = 0

-----------------------------------------------------------------------------
(* The tracker *)

isTracked(t, name) == t.of[name] # 0

trackLocked(t, name) ==
  IF isTracked(t, name) THEN t
  ELSE [t EXCEPT !.ds = Append(@, [name |-> name, ip |-> FALSE, captured |-> FALSE]),
                 !.of[name] = Len(t.ds) + 1]

track(t, name) == LET u == trackLocked(t, name) IN [u EXCEPT !.disco = u.of[name]]

alias(t, src, dst) == LET u == trackLocked(t, src) IN [u EXCEPT !.of[dst] = u.of[src]]

untrack(t, name) == [t EXCEPT !.of[name] = 0]

\* listen: records of names not asked for, and not known as aliases, are ignored.
record(t, r) ==
  IF r.name \notin Svc /\ ~isTracked(t, r.name) THEN t
  ELSE CASE r.kind = "ptr"   -> track(t, r.to)
         [] r.kind = "srv"   -> track(IF r.to # r.name THEN alias(t, r.name, r.to) ELSE t, r.name)
         [] r.kind = "cname" -> alias(track(t, r.name), r.name, r.to)
         [] r.kind = "a"     -> LET u == track(t, r.name) IN [u EXCEPT !.ds[u.disco].ip = TRUE]
         [] r.kind = "txt"   -> track(t, r.name)
         [] OTHER            -> t

\* All records of message m, in order.
records(t, m) ==
  LET upto[i \in 0..Len(m)] ==
        IF i = 0 THEN [t EXCEPT !.disco = 0] ELSE record(upto[i - 1], m[i])
  IN  upto[Len(m)]

-----------------------------------------------------------------------------
(* Query *)

Query ==
  /\ q = "idle"
  /\ IF status = "end" THEN q' = "done" ELSE q' = "bind"
  /\ UNCHANGED <<use, status, bound, closed, recv, listen, msgCh, ansch, tr, ans, n>>

\* newClient: a query needs one socket at least.
newClient ==
  /\ q = "bind"
  /\ \E b \in SUBSET use :
       /\ bound' = b
       /\ IF b = {} THEN q' = "done" /\ status' = "error"
          ELSE q' = "send" /\ UNCHANGED status
  /\ UNCHANGED <<use, closed, recv, listen, msgCh, ansch, tr, ans, n>>

\* query: receivers are started, the question is sent, the listener is started;
\* if sending fails the client is closed.
query ==
  /\ q = "send"
  /\ recv' = [f \in Families |-> IF f \in bound THEN "loop" ELSE recv[f]]
  /\ \/ q' = "await" /\ listen' = "loop" /\ UNCHANGED ans
     \/ q' = "close" /\ UNCHANGED <<listen, ans>>
  /\ UNCHANGED <<use, status, bound, closed, msgCh, ansch, tr, n>>

\* oneshotQuery returns the first answer, or none when the listener has closed ansch.
await ==
  /\ q = "await"
  /\ IF ansch # <<>>
     THEN ans' = Head(ansch) /\ ansch' = Tail(ansch)
     ELSE listen = "done" /\ UNCHANGED <<ans, ansch>>
  /\ q' = "close"
  /\ UNCHANGED <<use, status, bound, closed, recv, listen, msgCh, tr, n>>

\* Mutant: the receivers are not told.
CloseSilent ==
  /\ q = "close"
  /\ closed' = closed /\ bound' = {} /\ q' = "done"
  /\ status' = IF ans # Nil THEN "complete" ELSE "error"
  /\ UNCHANGED <<use, recv, listen, msgCh, ansch, tr, ans, n>>

\* Close, and the status of the query.
Close ==
  /\ q = "close"
  /\ closed' = TRUE /\ bound' = {} /\ q' = "done"
  /\ status' = IF ans # Nil THEN "complete" ELSE "error"
  /\ UNCHANGED <<use, recv, listen, msgCh, ansch, tr, ans, n>>

Stop ==
  /\ status # "end"
  /\ status' = "end"
  /\ UNCHANGED <<use, q, bound, closed, recv, listen, msgCh, ansch, tr, ans, n>>

RefreshProto ==
  /\ \E u \in SUBSET Families : use' = u
  /\ q = "idle"
  /\ UNCHANGED <<status, q, bound, closed, recv, listen, msgCh, ansch, tr, ans, n>>

-----------------------------------------------------------------------------
(* Receivers and the listener *)

\* recv: a message goes to msgCh; if that stays full the receiver ends.
receive(f) ==
  /\ recv[f] = "loop" /\ ~closed /\ n < MaxMessages
  /\ n' = n + 1
  /\ IF Len(msgCh) < ChanCap
     THEN /\ \E m \in Messages : msgCh' = Append(msgCh, m)
          /\ UNCHANGED recv
     ELSE recv' = [recv EXCEPT ![f] = "done"] /\ UNCHANGED msgCh
  /\ UNCHANGED <<use, status, q, bound, closed, listen, ansch, tr, ans>>

receiverEnds(f) ==
  /\ recv[f] = "loop" /\ closed
  /\ recv' = [recv EXCEPT ![f] = "done"]
  /\ UNCHANGED <<use, status, q, bound, closed, listen, msgCh, ansch, tr, ans, n>>

\* listen: the last discovery of a message is sent if it has an address and was
\* not sent before, and is no longer tracked by its name.
listenMsg ==
  /\ listen = "loop" /\ msgCh # <<>>
  /\ LET t == records(tr, Head(msgCh)) IN
       IF t.disco = 0 THEN tr' = t /\ UNCHANGED <<listen, ansch>>
       ELSE LET d == t.ds[t.disco] IN
            IF ~d.ip \/ d.captured THEN tr' = t /\ UNCHANGED <<listen, ansch>>
            ELSE /\ tr' = untrack([t EXCEPT !.ds[t.disco].captured = TRUE], d.name)
                 /\ IF Len(ansch) < ChanCap THEN ansch' = Append(ansch, t.disco) /\ UNCHANGED listen
                    ELSE listen' = "send" /\ UNCHANGED ansch
  /\ msgCh' = Tail(msgCh)
  /\ UNCHANGED <<use, status, q, bound, closed, recv, ans, n>>

\* A listener that waits for room in ansch.
listenSend ==
  /\ listen = "send" /\ Len(ansch) < ChanCap
  /\ ansch' = Append(ansch, tr.disco) /\ listen' = "loop"
  /\ UNCHANGED <<use, status, q, bound, closed, recv, msgCh, tr, ans, n>>

timesup ==
  /\ listen = "loop" /\ listen' = "done"
  /\ UNCHANGED <<use, status, q, bound, closed, recv, msgCh, ansch, tr, ans, n>>

-----------------------------------------------------------------------------

caller == newClient \/ query \/ await \/ Close
listener == listenMsg \/ listenSend

Next ==
  \/ Query \/ caller \/ Stop \/ RefreshProto
  \/ \E f \in Families : receive(f) \/ receiverEnds(f)
  \/ listener \/ timesup

Spec == Init /\ [][Next]_vars

-----------------------------------------------------------------------------
(* Properties *)

\* A query answers with a discovery that has an address, of a name that contains the
\* service or that a record of such a name refers to; no other name is ever tracked.
AnswerIsAsked ==
  LET led == {m[i].to : <<m, i>> \in {x \in Messages \X (1..2) :
                  x[2] <= Len(x[1]) /\ x[1][x[2]].name \in Svc}} IN
    /\ ans # Nil => tr.ds[ans].ip /\ tr.ds[ans].captured
    /\ \A d \in 1..Len(tr.ds) : tr.ds[d].name \in Svc \cup led

\* No discovery is sent twice, though aliases and later messages lead to it again.
SentOnce ==
  \A i, j \in DOMAIN ansch : (i # j => ansch[i] # ansch[j]) /\ ansch[i] # ans

\* A query ends and closes its sockets, and its receivers end.  Its listener ends
\* too, unless more discoveries than ansch holds were made: once the query took its
\* answer nobody receives, and the bare send leaves the listener there for ever.
AllEnd ==
  (q # "idle") ~> /\ q = "done" /\ bound = {}
                  /\ \A f \in Families : recv[f] # "loop"
                  /\ listen # "loop" /\ (listen = "send" => Len(ansch) = ChanCap)
=============================================================================
