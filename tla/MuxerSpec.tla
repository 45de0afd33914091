----------------------------- MODULE MuxerSpec -----------------------------
(***************************************************************************)
(* What a muxer (intra/udpmux.go) promises to the flows and to the table   *)
(* that hold it: at most one connection at a time per remote address; once *)
(* told to stop it closes all it handed out in one go, hands out nothing   *)
(* after that, and only then calls back so that it can be forgotten.       *)
(***************************************************************************)
CONSTANTS Addrs, Conns

VARIABLES
    phase,  \* "open", "stopping", "drained" or "gone" (cb has been called)
    live    \* <<connection, remote address>> handed out and not closed

svars == <<phase, live>>

SInit == phase = "open" /\ live = {}

HandOut(c, a) ==
    /\ phase \in {"open", "stopping"}
    /\ \A l \in live : l[1] # c /\ l[2] # a
    /\ live' = live \cup {<<c, a>>}
    /\ UNCHANGED phase

Close(l) == live' = live \ {l} /\ UNCHANGED phase

Stop == phase = "open" /\ phase' = "stopping" /\ UNCHANGED live

Drain == phase = "stopping" /\ phase' = "drained" /\ live' = {}

CallBack == phase = "drained" /\ phase' = "gone" /\ UNCHANGED live

SNext ==
    \/ \E c \in Conns, a \in Addrs : HandOut(c, a)
    \/ \E l \in live : Close(l)
    \/ Stop
    \/ Drain
    \/ CallBack

MSpec == SInit /\ [][SNext]_svars
=============================================================================
