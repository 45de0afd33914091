-------------------------------- MODULE Auto --------------------------------
(***************************************************************************)
(* The auto proxy (intra/ipn/auto.go): it dials over whichever of its      *)
(* outbounds answers first (core.Race in intra/core/async.go), and pins an *)
(* address to the one that did; or, when not in parallel, over the healthy *)
(* ones in turn. The outbounds are exit and exit64, which are local, and   *)
(* win. Dial, Announce and Accept (here "listen") and Probe differ in who  *)
(* races, and in what each contestant asks first.                          *)
(***************************************************************************)
EXTENDS Integers, Sequences, FiniteSets

CONSTANTS Calls,       \* callers
          Ops,         \* operations they may call: "dial", "listen", "probe"
          MaxCalls,    \* bound: calls in all
          Nil

Outbounds == {"exit", "exit64", "win"}
local == {"exit", "exit64"}

VARIABLES up,          \* outbounds that are present
          remoteOnly, parallel,   \* settings
          pin,         \* exp: the index pinned to the address, or Nil
          status,      \* "up", "ok", "ko" or "end"
          call,        \* each caller
          n            \* calls begun

vars == <<up, remoteOnly, parallel, pin, status, call, n>>
settings == <<up, remoteOnly, parallel>>

Idle == [pc |-> "idle", op |-> Nil, pin |-> Nil, remote |-> FALSE, at |-> <<>>, left |-> 0,
         ans |-> Nil, done |-> FALSE, st |-> Nil]

\* Those who race, in the order of Race's functions, and the index each has itself:
\* win's is 3 in a dial, where Race knows it as 2, so that an address pinned to win
\* is dialed by nobody, and is unpinned (auto.go:224, 253).
Race(op) == IF op = "dial" THEN <<"exit", "exit64", "win">> ELSE <<"exit", "win">>
myidx(op, p) == CASE p = "exit" -> 0
                  [] p = "exit64" -> 1
                  [] OTHER -> IF op = "dial" THEN 3 ELSE 1

Contestants == {"new", "delay", "dials", "err", "unpinned", "conn", "sent", "got", "lost"}

TypeOK ==
  /\ up \subseteq Outbounds
  /\ {remoteOnly, parallel} \subseteq BOOLEAN
  /\ pin \in {Nil} \cup 0..3
  /\ status \in {"up", "ok", "ko", "end"}
  /\ \A c \in Calls :
       /\ call[c].pc \in {"idle", "race", "serial", "pin", "status"}
       /\ \A i \in DOMAIN call[c].at : call[c].at[i] \in Contestants
  /\ n \in 0..MaxCalls

Init ==
  /\ up \in {{"exit"}, {"exit", "exit64", "win"}}
  /\ remoteOnly \in BOOLEAN /\ parallel \in BOOLEAN
  /\ pin = Nil /\ status = "up"
  /\ call = [c \in Calls |-> Idle] /\ n = 0

-----------------------------------------------------------------------------

\* A call reads the settings and the pin, and races unless dials are serial.
Start(c, op) ==
  /\ call[c].pc = "idle" /\ n < MaxCalls /\ status # "end"
  /\ call' = [call EXCEPT ![c] =
                [Idle EXCEPT !.pc = IF op = "dial" /\ ~parallel THEN "serial" ELSE "race",
                             !.op = op,
                             !.pin = IF op = "dial" THEN pin ELSE Nil,
                             !.remote = remoteOnly,
                             !.at = [i \in DOMAIN Race(op) |-> "new"],
                             !.left = Len(Race(op))]]
  /\ n' = n + 1
  /\ UNCHANGED <<settings, pin, status>>

\* dialAny over the outbounds that are healthy just now (local ones always are),
\* or over all if none is.
serial(c) ==
  /\ call[c].pc = "serial"
  /\ LET may == {p \in up : call[c].remote => p \notin local}
     IN \E ok \in {s \in SUBSET may : may \cap local \subseteq s} : \E a \in (IF ok # {} THEN ok ELSE may) \cup {Nil} :
          call' = [call EXCEPT ![c].ans = a, ![c].pc = "status", ![c].st = status]
  /\ UNCHANGED <<settings, pin, status, n>>

set(c, i, s) == call' = [call EXCEPT ![c].at[i] = s]

\* Local outbounds may not be used when only remote ones are to be; Probe does not ask.
barred(x, p) == x.remote /\ p \in local /\ x.op # "probe"

\* A contestant gives up at once if its outbound is missing, local when only
\* remote ones may be used, or not the one pinned.
begin(c, i) ==
  LET p == Race(call[c].op)[i]
      x == call[c]
  IN /\ x.at # <<>> /\ x.at[i] = "new"
     /\ CASE p \notin up -> set(c, i, "err")
          [] p \in up /\ barred(x, p) -> set(c, i, "err")
          [] p \in up /\ ~barred(x, p) /\ x.pin # Nil ->
               set(c, i, IF x.pin = myidx(x.op, p) THEN "dials" ELSE "unpinned")
          [] OTHER -> set(c, i, IF p = "exit" THEN "dials" ELSE "delay")
     /\ UNCHANGED <<settings, pin, status, n>>

\* After its delay it dials, unless the race is over; if its outbound is unwell,
\* after some more time.
delayed(c, i) ==
  /\ call[c].at # <<>> /\ call[c].at[i] = "delay"
  /\ set(c, i, IF call[c].done THEN "err" ELSE "dials")
  /\ UNCHANGED <<settings, pin, status, n>>

dialed(c, i) ==
  /\ call[c].at # <<>> /\ call[c].at[i] = "dials"
  /\ \E s \in {"conn", "err"} : set(c, i, s)
  /\ UNCHANGED <<settings, pin, status, n>>

\* Its result is sent, or dropped once the race is over.
sends(c, i) ==
  /\ call[c].at # <<>> /\ call[c].at[i] \in {"conn", "err", "unpinned"}
  /\ LET x == call[c].at[i] IN
       call' = [call EXCEPT ![c].at[i] = IF call[c].done THEN "lost" ELSE IF x = "conn" THEN "sent" ELSE "got",
                            ![c].left = IF x # "conn" /\ ~call[c].done THEN @ - 1 ELSE @]
  /\ UNCHANGED <<settings, pin, status, n>>

\* The first connection wins.
wins(c, i) ==
  /\ call[c].pc = "race" /\ call[c].at[i] = "sent"
  /\ call' = [call EXCEPT ![c].at[i] = "got", ![c].done = TRUE, ![c].pc = "pin", ![c].ans = i]
  /\ UNCHANGED <<settings, pin, status, n>>

\* All failed, or the time is up.
fails(c) ==
  /\ call[c].pc = "race"
  /\ call' = [call EXCEPT ![c].done = TRUE, ![c].pc = "pin", ![c].ans = Nil]
  /\ call[c].left = 0
  /\ UNCHANGED <<settings, pin, status, n>>

timesOut(c) ==
  /\ call[c].pc = "race" /\ call[c].left > 0
  /\ \E i \in DOMAIN call[c].at : call[c].at[i] \in {"new", "delay", "dials"}
  /\ call' = [call EXCEPT ![c].done = TRUE, ![c].pc = "pin", ![c].ans = Nil]
  /\ UNCHANGED <<settings, pin, status, n>>

\* A dial pins the address to Race's index of the winner, or unpins it.
pins(c) ==
  /\ call[c].pc = "pin"
  /\ pin' = IF call[c].op # "dial" THEN pin ELSE IF call[c].ans = Nil THEN Nil ELSE call[c].ans - 1
  /\ call' = [call EXCEPT ![c].pc = "status", ![c].st = status]
  /\ UNCHANGED <<settings, status, n>>

\* localDialStatus: swapped only from what was read, unless that was the end.
localDialStatus(c) ==
  /\ call[c].pc = "status"
  /\ status' = IF call[c].st = "end" \/ status # call[c].st THEN status
               ELSE IF call[c].ans = Nil THEN "ko" ELSE "ok"
  /\ call' = [call EXCEPT ![c].pc = "idle", ![c].ans = Nil, ![c].st = Nil]
  /\ UNCHANGED <<settings, pin, n>>

Stop ==
  /\ status # "end" /\ status' = "end" /\ pin' = Nil
  /\ UNCHANGED <<settings, call, n>>

\* exp's entries expire.
expire ==
  /\ pin # Nil /\ pin' = Nil
  /\ UNCHANGED <<settings, status, call, n>>

contestant(c) ==
  \E i \in DOMAIN call[c].at : begin(c, i) \/ delayed(c, i) \/ dialed(c, i) \/ sends(c, i)

caller(c) ==
  \/ serial(c) \/ fails(c) \/ timesOut(c) \/ pins(c) \/ localDialStatus(c)
  \/ \E i \in DOMAIN call[c].at : wins(c, i)

Next ==
  \/ \E c \in Calls : caller(c) \/ contestant(c) \/ \E op \in Ops : Start(c, op)
  \/ Stop \/ expire

Spec == Init /\ [][Next]_vars

-----------------------------------------------------------------------------
(* Properties *)

\* However calls end around it, a stopped proxy stays stopped.
EndHolds == [][status = "end" => status' = "end"]_vars

\* Every call ends: the race is bounded by its timeout.
CallsEnd == \A c \in Calls : call[c].pc # "idle" ~> call[c].pc = "idle"
=============================================================================
