------------------------------ MODULE MuxTable ------------------------------
(***************************************************************************)
(* muxTable (intra/udpmux.go): the muxer each proxy and source has, shared *)
(* by the flows that associate, the muxers that dissociate when they have  *)
(* stopped, and the reset of a tunnel restart.  A muxer is seen through    *)
(* the phases of MuxerSpec.                                                *)
(***************************************************************************)
EXTENDS Integers, FiniteSets

CONSTANTS
    Slots,      \* <<proxy, source>> pairs, the two keys of e.t
    Uids,       \* owners of flows
    Calls,      \* calls of associate, each made once
    Muxers,     \* muxers a behaviour can make
    Nil,
    MaxResets   \* bound on resets

\* What the constants are, for the proofs.
MuxTableConstants == Nil \notin Muxers /\ MaxResets \in Nat

VARIABLES
    t,          \* e.t: slot -> muxer
    mux,        \* muxer -> its phase, the slot and uid it was made for
    call,       \* call -> where it is and what it works with
    resets,     \* resets so far
    tostop      \* muxers that a reset took out of the table and has yet to stop

vars == <<t, mux, call, resets, tostop>>

Phases == {"none", "open", "stopping", "drained", "gone", "forgotten"}

MuxStates == [phase : Phases, slot : Slots \cup {Nil}, uid : Uids \cup {Nil}]

CallStates ==
    [pc : {"idle", "mk", "relock", "route", "ok", "err"}, slot : Slots, uid : Uids,
     mxr : Muxers \cup {Nil}]

TypeOK ==
    /\ t \in [Slots -> Muxers \cup {Nil}]
    /\ mux \in [Muxers -> MuxStates]
    /\ call \in [Calls -> CallStates]
    /\ resets \in 0..MaxResets
    /\ tostop \subseteq Muxers

Init ==
    /\ t = [s \in Slots |-> Nil]
    /\ mux = [x \in Muxers |-> [phase |-> "none", slot |-> Nil, uid |-> Nil]]
    /\ call \in [Calls -> [pc : {"idle"}, slot : Slots, uid : Uids, mxr : {Nil}]]
    /\ resets = 0
    /\ tostop = {}

-----------------------------------------------------------------------------
(* associate *)

\* The muxer's pid is the table's key, so only the uids can disagree.
Agree(c, x) ==
    call' = [call EXCEPT ![c].mxr = x,
                         ![c].pc = IF mux'[x].uid = call[c].uid THEN "route" ELSE "err"]

\* The first look under the mutex, which is let go to dial.
Lookup(c) ==
    LET x == t[call[c].slot] IN
    /\ call[c].pc = "idle"
    /\ IF x = Nil
         THEN call' = [call EXCEPT ![c].pc = "mk"] /\ UNCHANGED mux
         ELSE UNCHANGED mux /\ Agree(c, x)
    /\ UNCHANGED <<t, resets, tostop>>

\* mk announces a socket, or fails.
Mk(c, ok) ==
    /\ call[c].pc = "mk"
    /\ call' = [call EXCEPT ![c].pc = IF ok THEN "relock" ELSE "err"]
    /\ UNCHANGED <<t, mux, resets, tostop>>

\* Mutant: the muxer made last takes the slot, whoever dialed first.
RelockOverwrites(c) ==
    LET s == call[c].slot IN
    /\ call[c].pc = "relock"
    /\ \E x \in Muxers :
         /\ mux[x].phase = "none"
         /\ mux' = [mux EXCEPT ![x] = [phase |-> "open", slot |-> s, uid |-> call[c].uid]]
         /\ t' = [t EXCEPT ![s] = x]
         /\ Agree(c, x)
    /\ UNCHANGED <<resets, tostop>>

\* The second look: use the muxer of whoever won the race, and close the
\* socket that lost it, or start a muxer on the socket.
Relock(c) ==
    LET s == call[c].slot IN
    /\ call[c].pc = "relock"
    /\ \/ t[s] # Nil /\ UNCHANGED <<mux, t>> /\ Agree(c, t[s])
       \/ /\ t[s] = Nil
          /\ \E x \in Muxers :
               /\ mux[x].phase = "none"
               /\ mux' = [mux EXCEPT ![x] = [phase |-> "open", slot |-> s, uid |-> call[c].uid]]
               /\ t' = [t EXCEPT ![s] = x]
               /\ Agree(c, x)
    /\ UNCHANGED <<resets, tostop>>

\* mxr.route without the table's mutex; a stopping muxer may or may not have a
\* conn to give, one that is drained has none.
Route(c, ok) ==
    /\ call[c].pc = "route"
    /\ mux[call[c].mxr].phase = "open" => ok
    /\ mux[call[c].mxr].phase \notin {"open", "stopping"} => ~ok
    /\ call' = [call EXCEPT ![c].pc = IF ok THEN "ok" ELSE "err"]
    /\ UNCHANGED <<t, mux, resets, tostop>>

-----------------------------------------------------------------------------
(* the life of a muxer *)

\* readers() ends, or reset gets to this muxer.
Stop(x) ==
    /\ mux[x].phase = "open"
    /\ mux' = [mux EXCEPT ![x].phase = "stopping"]
    /\ UNCHANGED <<t, call, resets, tostop>>

Drain(x) ==
    /\ mux[x].phase = "stopping"
    /\ mux' = [mux EXCEPT ![x].phase = "drained"]
    /\ UNCHANGED <<t, call, resets, tostop>>

CallBack(x) ==
    /\ mux[x].phase = "drained"
    /\ mux' = [mux EXCEPT ![x].phase = "gone"]
    /\ UNCHANGED <<t, call, resets, tostop>>

\* dissociate, in the goroutine stop started: delete whatever is in the slot
\* of the table there is by now.
dissociate(x) ==
    /\ mux[x].phase = "gone"
    /\ mux' = [mux EXCEPT ![x].phase = "forgotten"]
    /\ t' = [t EXCEPT ![mux[x].slot] = Nil]
    /\ UNCHANGED <<call, resets, tostop>>

-----------------------------------------------------------------------------
(* reset *)

\* e.t is replaced under the mutex ...
reset ==
    /\ resets < MaxResets
    /\ tostop = {}
    /\ t' = [s \in Slots |-> Nil]
    /\ tostop' = {t[s] : s \in Slots} \ {Nil}
    /\ resets' = resets + 1
    /\ UNCHANGED <<mux, call>>

\* ... and its muxers are stopped one after the other; stop returns at once,
\* or when whoever called it first is through.
ResetStop(x) ==
    /\ x \in tostop
    /\ mux[x].phase \in {"gone", "forgotten"}
    /\ tostop' = tostop \ {x}
    /\ UNCHANGED <<t, mux, call, resets>>

-----------------------------------------------------------------------------

Next ==
    \/ \E c \in Calls :
         \/ Lookup(c)
         \/ \E ok \in BOOLEAN : Mk(c, ok)
         \/ Relock(c)
         \/ \E ok \in BOOLEAN : Route(c, ok)
    \/ \E x \in Muxers :
         \/ Stop(x)
         \/ Drain(x)
         \/ CallBack(x)
         \/ dissociate(x)
         \/ ResetStop(x)
    \/ reset

Spec == Init /\ [][Next]_vars

-----------------------------------------------------------------------------

(***************************************************************************)
(* Endpoint-independent mapping: as long as the tunnel is not restarted, a *)
(* running muxer is the one the table has for its slot, so flows that race *)
(* through associate, while it lets go of the mutex to dial, and through   *)
(* dissociate, never end up on two sockets for one source.                 *)
(***************************************************************************)
RunningIsFound ==
    resets = 0 => \A x \in Muxers : mux[x].phase = "open" => t[mux[x].slot] = x

(***************************************************************************)
(* Nobody is handed a conn of a muxer that belongs to another source or    *)
(* another app, across the unlock around mk and the loss of the race.      *)
(***************************************************************************)
OwnMuxer ==
    \A c \in Calls : call[c].pc \in {"route", "ok"} =>
        mux[call[c].mxr].slot = call[c].slot /\ mux[call[c].mxr].uid = call[c].uid

(***************************************************************************)
(* reset's "closes all muxers": a muxer made before the table was replaced *)
(* does not survive into the new stack, whatever was under way just then.  *)
(***************************************************************************)
ResetStopsAll ==
    \A x \in Muxers :
      [](mux[x].phase = "open" /\ resets = 0 =>
            [](resets > 0 => <>(mux[x].phase \in {"gone", "forgotten"})))

(***************************************************************************)
(* A slot is never stuck with a muxer that can route no more.              *)
(***************************************************************************)
DeadIsReplaceable ==
    \A x \in Muxers :
      (mux[x].phase = "stopping") ~> (\A s \in Slots : t[s] # x)

(***************************************************************************)
(* reset's comment: "The dissociate callbacks of stopped muxers operate on *)
(* the replaced table and are no-ops", so they leave running muxers alone. *)
(***************************************************************************)
CallbacksSpareRunning ==
    [][\A s \in Slots :
         (t[s] # Nil /\ t'[s] = Nil /\ tostop' = tostop) => mux[t[s]].phase # "open"]_vars

-----------------------------------------------------------------------------
(* what the proofs need *)

Unstarted(x) == mux[x].phase = "none"

\* A slot has a muxer made for it; until the first reset, a muxer stays in its
\* slot from its start to its own dissociate.
SlotsSound ==
    /\ \A s \in Slots : t[s] # Nil => ~Unstarted(t[s]) /\ mux[t[s]].slot = s
    /\ \A x \in Muxers : ~Unstarted(x) => mux[x].slot \in Slots
    /\ resets = 0 => \A x \in Muxers :
         mux[x].phase \in {"open", "stopping", "drained", "gone"} => t[mux[x].slot] = x

\* A call that found a muxer found one that was started for its source and owner.
CallsSound ==
    \A c \in Calls : call[c].pc \in {"route", "ok"} =>
        /\ call[c].mxr \in Muxers
        /\ ~Unstarted(call[c].mxr)
        /\ mux[call[c].mxr].slot = call[c].slot
        /\ mux[call[c].mxr].uid = call[c].uid

Inv == TypeOK /\ SlotsSound /\ CallsSound
=============================================================================
