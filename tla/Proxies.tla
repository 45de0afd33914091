------------------------------ MODULE Proxies ------------------------------
(***************************************************************************)
(* The proxifier (intra/ipn/proxies.go, and the adding half of proxy.go):  *)
(* the table of proxies by id, the goroutines that carry a replaced        *)
(* proxy's hop over to its successor and stop it, removal, hops and the    *)
(* map from a hop to the origins that use it, the events queued for the    *)
(* observer, and the teardown when the context ends.                       *)
(*                                                                         *)
(* A proxy object is <<id, generation>>: a handle. Its status is reduced   *)
(* to what the proxifier asks of it: "up" (TUP/TOK/TKO/TZZ/TNT), "paused"  *)
(* (TPU), "end" (END), "none" before it is made.                           *)
(***************************************************************************)
EXTENDS Naturals, FiniteSets, Sequences

CONSTANTS
    Ids,        \* proxy ids
    Gens,       \* generations of an id: one handle each
    Immutables, \* ids that are stopped but never removed (Base, Exit, ...)
    Gateways,   \* ids whose router takes all of ip4 or all of ip6
    EventCap,   \* capacity of eventch
    MaxOps,     \* bound: calls of add, removeProxy and hop
    Nil

Objects == Ids \X Gens
idstr(o) == o[1]

VARIABLES
    p,       \* id -> object
    st,      \* object -> status
    via,     \* object -> id it hops over (a WeakRef resolved by id), or Nil
    viaUp,   \* object -> is it connected over its via?
    hp,      \* hop id -> ids of the origins that hop over it
    jobs,    \* goroutines, one slot per call
    calls,   \* calls made
    eventch, \* queued observer events
    told,    \* object -> events the observer was told of
    ctxDone, \* the proxifier's context has ended
    stopPc   \* stopProxies: "idle", "hops", "end"

vars == <<p, st, via, viaUp, hp, jobs, calls, eventch, told, ctxDone, stopPc>>

\* One for each call of add, removeProxy and hop, and slot 0 for an update.
Slots == 0..MaxOps
Kinds == {"added", "removed", "stopped", "updated"}
Job == [pc : {"via", "check", "swap", "map", "unmap", "stop", "update", "tell", "send"},
        kind : {"replace", "remove", "hop", "update"},
        old : Objects \cup {Nil}, id : Ids, via : Ids \cup {Nil},
        orig : Objects \cup {Nil}, told : Kinds]

immutable(id) == id \in Immutables

(* The slot of the next call; there are MaxOps of them. *)
free == Slots \cap {calls + 1}

(* Via: the proxy o hops over, if it is connected over it and registered. *)
Via(o) == IF via[o] # Nil /\ viaUp[o] /\ p[via[o]] # Nil THEN via[o] ELSE Nil

unmapHop(h, hop, origin) == IF hop = Nil THEN h ELSE [h EXCEPT ![hop] = @ \ {origin}]
mapHop(h, hop, origin) == [h EXCEPT ![hop] = @ \cup {origin}]

(* queueEvent: dropped when the context is done or the channel is full. *)
queueEvent(q, kind, o) ==
    IF ctxDone \/ Len(q) >= EventCap THEN q ELSE Append(q, <<kind, o>>)

Ended(s) == [jobs EXCEPT ![s] = Nil]

---------------------------------------------------------------------------
Init ==
    /\ p = [id \in Ids |-> IF immutable(id) THEN <<id, 0>> ELSE Nil]
    /\ st = [o \in Objects |-> IF immutable(o[1]) /\ o[2] = 0 THEN "up" ELSE "none"]
    /\ via = [o \in Objects |-> Nil]
    /\ viaUp = [o \in Objects |-> FALSE]
    /\ hp = [id \in Ids |-> {}]
    /\ jobs = [s \in Slots |-> Nil]
    /\ calls = 0
    /\ eventch = <<>>
    /\ told = [o \in Objects |-> {}]
    /\ ctxDone = FALSE
    /\ stopPc = "idle"

(* add, with the px lock held throughout: the new object takes the id, its
   event is queued, it starts paused if the old one was, and a goroutine is
   left to carry the hop over and stop the old one. *)
add(o) ==
    \E s \in free :
      LET id == idstr(o)
          old == p[id]
      IN /\ st[o] = "none"
         /\ \A g \in Gens : g < o[2] => st[<<id, g>>] # "none"
         /\ p' = [p EXCEPT ![id] = o]
         /\ st' = [st EXCEPT ![o] = IF old # Nil /\ st[old] = "paused" THEN "paused" ELSE "up"]
         /\ eventch' = queueEvent(eventch, "added", o)
         /\ jobs' = [jobs EXCEPT ![s] =
              IF old = Nil THEN Nil
              ELSE [pc |-> "via", kind |-> "replace", old |-> old, id |-> id,
                    via |-> Nil, orig |-> Nil, told |-> "added"]]
         /\ calls' = calls + 1
         /\ UNCHANGED <<via, viaUp, hp, told, ctxDone, stopPc>>

(* addOrUpdateProxy looks up a registered WireGuard proxy; the lock is not held
   from here on, so the proxy may be removed or replaced meanwhile ... *)
update(id) ==
    /\ p[id] # Nil /\ ~immutable(id) /\ jobs[0] = Nil
    /\ "updated" \notin told[p[id]]
    /\ jobs' = [jobs EXCEPT ![0] =
         [pc |-> "update", kind |-> "update", old |-> p[id], id |-> id, via |-> Nil,
          orig |-> Nil, told |-> "updated"]]
    /\ UNCHANGED <<calls, p, st, via, viaUp, hp, eventch, told, ctxDone, stopPc>>

(* ... and has it take the new configuration in place, of which the observer
   is then told. One that has ended or cannot is added anew, by a call of add. *)
updateInPlace(s, ok) ==
    LET j == jobs[s] IN
    /\ j # Nil /\ j.pc = "update"
    /\ ok => st[j.old] # "end"
    /\ jobs' = IF ok THEN [jobs EXCEPT ![s].pc = "tell"] ELSE Ended(s)
    /\ UNCHANGED <<calls, p, st, via, viaUp, hp, eventch, told, ctxDone, stopPc>>

(* The goroutine of add reads the old proxy's via and hops the new one over it. *)
carryHop(s) ==
    LET j == jobs[s] IN
    /\ j # Nil /\ j.pc = "via"
    /\ jobs' = [jobs EXCEPT ![s].via = Via(j.old),
                            ![s].pc = IF Via(j.old) = Nil THEN "stop" ELSE "check"]
    /\ UNCHANGED <<calls, p, st, via, viaUp, hp, eventch, told, ctxDone, stopPc>>

(* removeProxy: immutable proxies stay in the table. *)
removeProxy(id) ==
    \E s \in free :
      /\ p[id] # Nil
      /\ p' = IF immutable(id) THEN p ELSE [p EXCEPT ![id] = Nil]
      /\ jobs' = [jobs EXCEPT ![s] =
           [pc |-> "unmap", kind |-> "remove", old |-> p[id], id |-> id, via |-> Nil,
            orig |-> Nil, told |-> IF immutable(id) THEN "stopped" ELSE "removed"]]
      /\ calls' = calls + 1
      /\ UNCHANGED <<st, via, viaUp, hp, eventch, told, ctxDone, stopPc>>

unmapHopFrom(s) ==
    LET j == jobs[s] IN
    /\ j # Nil /\ j.pc = "unmap"
    /\ hp' = unmapHop(hp, Via(j.old), j.id)
    /\ jobs' = [jobs EXCEPT ![s].pc = "stop"]
    /\ UNCHANGED <<calls, p, st, via, viaUp, eventch, told, ctxDone, stopPc>>

\* Mutant: the proxy that was replaced runs on.
stopOldNot(s) ==
    LET j == jobs[s] IN
    /\ j # Nil /\ j.pc = "stop"
    /\ st' = st
    /\ jobs' = IF j.kind = "remove" THEN [jobs EXCEPT ![s].pc = "tell"] ELSE Ended(s)
    /\ UNCHANGED <<calls, p, via, viaUp, hp, eventch, told, ctxDone, stopPc>>

(* Stop of the old or removed proxy; only a removal is told to the observer. *)
stopOld(s) ==
    LET j == jobs[s] IN
    /\ j # Nil /\ j.pc = "stop"
    /\ st' = [st EXCEPT ![j.old] = "end"]
    /\ jobs' = IF j.kind = "remove" THEN [jobs EXCEPT ![s].pc = "tell"] ELSE Ended(s)
    /\ UNCHANGED <<calls, p, via, viaUp, hp, eventch, told, ctxDone, stopPc>>

(* queueEvent from a removal's goroutine or an update, which hold no lock: the
   context is looked at first and the channel is sent to afterwards. A send
   that finds the channel closed panics: a removal's goroutine recovers, but
   AddProxy ends the process (Exit11), which is left out: all has ended. *)
tellCheck(s) ==
    LET j == jobs[s] IN
    /\ j # Nil /\ j.pc = "tell"
    /\ jobs' = IF ctxDone THEN Ended(s) ELSE [jobs EXCEPT ![s].pc = "send"]
    /\ UNCHANGED <<calls, p, st, via, viaUp, hp, eventch, told, ctxDone, stopPc>>

tellSend(s) ==
    LET j == jobs[s] IN
    /\ j # Nil /\ j.pc = "send"
    /\ eventch' = IF stopPc = "end" \/ Len(eventch) >= EventCap THEN eventch
                  ELSE Append(eventch, <<j.told, j.old>>)
    /\ jobs' = Ended(s)
    /\ UNCHANGED <<calls, p, st, via, viaUp, hp, told, ctxDone, stopPc>>

---------------------------------------------------------------------------
(* Hop: asked by the client. v = Nil removes the hop. *)
Hop(v, origin) ==
    \E s \in free :
      /\ jobs' = [jobs EXCEPT ![s] =
           [pc |-> "check", kind |-> "hop", old |-> Nil, id |-> origin, via |-> v,
            orig |-> Nil, told |-> "added"]]
      /\ calls' = calls + 1
      /\ UNCHANGED <<p, st, via, viaUp, hp, eventch, told, ctxDone, stopPc>>

(* Where a goroutine goes once its hop is settled, either way. *)
afterHop(s) ==
    IF jobs[s].kind = "replace" THEN [jobs EXCEPT ![s].pc = "stop"] ELSE Ended(s)

(* May origin hop over v? (proxies.go:1012-1047) *)
mayHop(v, origin) ==
    /\ v # origin
    /\ p[v] # Nil
    /\ st[p[v]] # "end" /\ st[p[origin]] # "end"
    /\ Via(p[origin]) # v
    /\ Via(p[v]) = Nil
    /\ v \in Gateways

(* hop up to the call of origPx.Hop: the lookups, the refusals, and the old
   hop taken off the map "regardless of whether the new hop succeeds". *)
hop(s) ==
    LET j == jobs[s] IN
    /\ j # Nil /\ j.pc = "check"
    /\ IF p[j.id] = Nil
       THEN jobs' = afterHop(s) /\ UNCHANGED <<via, hp>>
       ELSE LET orig == p[j.id] IN
            IF j.via = Nil
            THEN /\ via' = [via EXCEPT ![orig] = Nil]
                 /\ hp' = unmapHop(hp, Via(orig), j.id)
                 /\ jobs' = afterHop(s)
            ELSE IF ~mayHop(j.via, j.id)
            THEN jobs' = afterHop(s) /\ UNCHANGED <<via, hp>>
            ELSE /\ hp' = unmapHop(hp, Via(orig), j.id)
                 /\ jobs' = [jobs EXCEPT ![s].pc = "swap", ![s].orig = orig]
                 /\ UNCHANGED via
    /\ UNCHANGED <<calls, p, st, viaUp, eventch, told, ctxDone, stopPc>>

(* origPx.Hop(viaRef): the via is resolved again and tested (ip family, can
   it listen, does it route the peers, the mtu): ok says whether it passed. *)
hopSwap(s, ok) ==
    LET j == jobs[s] IN
    /\ j # Nil /\ j.pc = "swap"
    /\ ok => p[j.via] # Nil /\ st[p[j.via]] # "end"
    /\ via' = IF ok THEN [via EXCEPT ![j.orig] = j.via] ELSE via
    /\ jobs' = IF ok THEN [jobs EXCEPT ![s].pc = "map"] ELSE afterHop(s)
    /\ UNCHANGED <<calls, p, st, viaUp, hp, eventch, told, ctxDone, stopPc>>

hopMap(s) ==
    LET j == jobs[s] IN
    /\ j # Nil /\ j.pc = "map"
    /\ hp' = mapHop(hp, j.via, j.id)
    /\ jobs' = afterHop(s)
    /\ UNCHANGED <<calls, p, st, via, viaUp, eventch, told, ctxDone, stopPc>>

---------------------------------------------------------------------------
(* What a proxy does by itself: dial over its via or directly (wgtun.serve),
   be paused and resumed by the client, end with the context it was made of. *)
serve(o) ==
    /\ st[o] = "up"
    /\ viaUp[o] # (via[o] # Nil /\ p[via[o]] # Nil)
    /\ viaUp' = [viaUp EXCEPT ![o] = via[o] # Nil /\ p[via[o]] # Nil]
    /\ UNCHANGED <<calls, p, st, via, hp, jobs, eventch, told, ctxDone, stopPc>>

Pause(o) ==
    /\ st[o] = "up" /\ ~immutable(idstr(o))
    /\ st' = [st EXCEPT ![o] = "paused"]
    /\ UNCHANGED <<calls, p, via, viaUp, hp, jobs, eventch, told, ctxDone, stopPc>>

Resume(o) ==
    /\ st[o] = "paused"
    /\ st' = [st EXCEPT ![o] = "up"]
    /\ UNCHANGED <<calls, p, via, viaUp, hp, jobs, eventch, told, ctxDone, stopPc>>

(* Stop, which the client may call on a proxy that stays in the table. *)
Stop(o) ==
    /\ st[o] \in {"up", "paused"}
    /\ st' = [st EXCEPT ![o] = "end"]
    /\ UNCHANGED <<calls, p, via, viaUp, hp, jobs, eventch, told, ctxDone, stopPc>>

closeOnDone(o) ==
    /\ ctxDone /\ st[o] \in {"up", "paused"}
    /\ st' = [st EXCEPT ![o] = "end"]
    /\ UNCHANGED <<calls, p, via, viaUp, hp, jobs, eventch, told, ctxDone, stopPc>>

(* The context ends; stopProxies then clears the hops under one lock and the
   table under another, and closes eventch. The proxies it found are stopped
   by goroutines; each also ends with the context (closeOnDone). *)
cancel ==
    /\ ~ctxDone
    /\ ctxDone' = TRUE
    /\ UNCHANGED <<calls, p, st, via, viaUp, hp, jobs, eventch, told, stopPc>>

stopHops ==
    /\ ctxDone /\ stopPc = "idle"
    /\ hp' = [id \in Ids |-> {}]
    /\ stopPc' = "hops"
    /\ UNCHANGED <<calls, p, st, via, viaUp, jobs, eventch, told, ctxDone>>

stopProxies ==
    /\ stopPc = "hops"
    /\ p' = [id \in Ids |-> Nil]
    /\ stopPc' = "end"
    /\ UNCHANGED <<calls, st, via, viaUp, hp, jobs, eventch, told, ctxDone>>

(* processEvents: one goroutine, in the order sent; range drains a closed
   channel before it ends. *)
processEvents ==
    /\ eventch # <<>>
    /\ told' = [told EXCEPT ![Head(eventch)[2]] = @ \cup {Head(eventch)[1]}]
    /\ eventch' = Tail(eventch)
    /\ UNCHANGED <<calls, p, st, via, viaUp, hp, jobs, ctxDone, stopPc>>

---------------------------------------------------------------------------
jobStep(s) ==
    \/ carryHop(s) \/ unmapHopFrom(s) \/ stopOld(s) \/ tellCheck(s) \/ tellSend(s)
    \/ hop(s) \/ (\E ok \in BOOLEAN : hopSwap(s, ok) \/ updateInPlace(s, ok)) \/ hopMap(s)

Next ==
    \/ \E o \in Objects : add(o) \/ serve(o) \/ Pause(o) \/ Resume(o) \/ Stop(o) \/ closeOnDone(o)
    \/ \E id \in Ids : removeProxy(id) \/ update(id)
    \/ \E v \in Ids \cup {Nil}, id \in Ids \ Immutables : Hop(v, id)
    \/ \E s \in Slots : jobStep(s)
    \/ cancel \/ stopHops \/ stopProxies \/ processEvents

Spec == Init /\ [][Next]_vars

---------------------------------------------------------------------------
TypeOK ==
    /\ p \in [Ids -> Objects \cup {Nil}]
    /\ st \in [Objects -> {"none", "up", "paused", "end"}]
    /\ via \in [Objects -> Ids \cup {Nil}]
    /\ viaUp \in [Objects -> BOOLEAN]
    /\ hp \in [Ids -> SUBSET Ids]
    /\ \A s \in Slots : jobs[s] \in Job \cup {Nil}
    /\ calls \in 0..MaxOps
    /\ Len(eventch) <= EventCap
    /\ told \in [Objects -> SUBSET Kinds]
    /\ ctxDone \in BOOLEAN
    /\ stopPc \in {"idle", "hops", "end"}

(* The observer is never told of a handle's addition after it was told of its
   removal: add queues under the lock that publishes the proxy, removal queues
   only once the proxy was found and stopped, and one goroutine delivers in
   order (proxies.go:375, 473, 1214). Of an update, which is queued without
   the lock, it may well be told after the removal (proxy.go:220). *)
RemovalIsLast ==
    [][\A o \in Objects : "removed" \in told[o] /\ "added" \notin told[o] => "added" \notin told'[o]]_vars

(* A proxy that left the table, replaced or removed or cleared, is stopped in
   the end, whatever becomes of the hop it hands over (proxies.go:384-402). *)
ReplacedIsStopped ==
    LET left == {o \in Objects : st[o] \in {"up", "paused"} /\ p[idstr(o)] # o}
    IN left # {} ~> left = {}
=============================================================================
