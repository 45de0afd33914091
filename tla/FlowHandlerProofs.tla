------------------------- MODULE FlowHandlerProofs --------------------------
(***************************************************************************)
(* The flows of a handler, for any number of flows and destinations and    *)
(* any capacity of smmch: their conns are closed when they are over, the   *)
(* tracker holds only live ones, each is summarised once, and no count of  *)
(* the loop tracker outlives the flows that made it.                       *)
(***************************************************************************)
EXTENDS FlowHandler, FiniteSetTheorems, TLAPS

\* Where a flow is, queueSummary apart: it is in there on its way to then.
In(r, ps) == r.pc \in ps \/ (r.pc \in {"outer", "inner"} /\ r.then \in ps)

Shut(r) == r.gconn # "open" /\ r.remote # "open"

\* An inbound tcp flow whose handshake has failed.
Excused(r) == r.kind = "tcpin" /\ r.verdict # "block" /\ ~r.bg

\* The steps at which flows of a kind are found.
Placed(r) ==
    /\ r.pc \in {"idle", "onflow"} => r.verdict = "none"
    /\ r.pc = "onflow" => r.kind \in AllKinds
    /\ r.pc = "establish" => r.kind \in {"udp", "tcpin", "udpin"} /\ r.verdict # "block"
    /\ r.pc = "dial" => r.kind \in {"tcp", "udp", "icmp"}
    /\ r.pc \in {"synack", "handshake"} => r.kind = "tcp"
    /\ r.pc = "probe" => r.kind = "icmp"
    /\ r.pc \in {"assoc", "unassoc"} => r.kind \notin {"tcpin", "udpin"}
    /\ r.pc \in {"outer", "inner"} => r.then \in {"over", "close", "untrack"}
    /\ r.pc \in {"outer", "inner"} /\ r.then = "untrack" => r.kind # "icmp"
    /\ r.stall # "none" => /\ r.verdict = "block"
                           /\ \/ r.pc = "over"
                              \/ r.kind = "udp" /\ r.pc \in {"outer", "inner"} /\ r.then = "over"

\* What is open at each step: what the steps still to come will close.
Sealed(r) ==
    /\ r.kind = "icmp" => r.gconn # "open"
    /\ r.kind = "error" /\ r.pc = "onflow" => Shut(r)
    /\ r.kind \in {"tcp", "udp"} /\ r.pc \in {"onflow", "establish", "synack", "dial"} =>
         r.remote # "open"
    /\ r.kind = "icmp" /\ r.pc \in {"onflow", "dial", "assoc", "probe"} => r.remote # "open"
    /\ r.kind = "tcpin" /\ r.pc \in {"onflow", "establish"} => ~r.bg
    /\ r.pc = "unassoc" => Shut(r)
    /\ In(r, {"close"}) => r.remote # "open"
    /\ r.stall # "none" => r.remote # "open"
    /\ r.stall = "over" => r.gconn # "open"
    /\ In(r, {"over"}) /\ r.stall = "none" => Shut(r) \/ Excused(r)

Sound(r) == r \in FlowStates /\ Placed(r) /\ Sealed(r)

\* A flow that the tracker may hold.
Held(r) == In(r, {"untrack"}) \/ r.pc = "pipe"

\* A flow that the loop tracker may have counted.
Counted(r) ==
    /\ r.kind \notin {"tcpin", "udpin"}
    /\ ~r.exit
    /\ In(r, {"untrack"}) \/ r.pc \in {"probe", "track", "pipe", "unassoc"}

Assoc(d) == {f \in Flows : Counted(flow[f]) /\ flow[f].dst = d}

\* A flow whose summary is still to be queued.
Due(r) ==
    \/ r.stall \in {"outer", "inner"}
    \/ r.pc \notin {"over", "close", "untrack", "unassoc"}
    \/ r.pc \in {"untrack", "unassoc"} /\ r.kind = "icmp"

\* A blocked udp flow is told of twice.
ToldTwice(r) == r.kind = "udp" /\ r.verdict = "block"

Types ==
    /\ proto \in Protos
    /\ smmch \in Seq(Flows)
    /\ looptracker \in [Dsts -> Nat]
    /\ posted \in [Flows -> Nat]
    /\ flow \in [Flows -> FlowStates]
    /\ tracked \subseteq Flows

FlowsSound == \A f \in Flows : Sound(flow[f])

TrackedHeld == \A f \in tracked : Held(flow[f])

LoopsCounted == \A d \in Dsts : looptracker[d] <= Cardinality(Assoc(d))

ToldOnce ==
    \A f \in Flows : \/ ToldTwice(flow[f])
                     \/ posted[f] + Queued(f) <= (IF Due(flow[f]) THEN 0 ELSE 1)

Inv == Types /\ FlowsSound /\ TrackedHeld /\ LoopsCounted /\ ToldOnce

\* What a step does to a flow, unless it tracks, counts or tells of it.
Step(r, s) ==
    /\ Sound(s)
    /\ s.dst = r.dst
    /\ Held(r) => Held(s)
    /\ Counted(r) => Counted(s)
    /\ Due(s) => Due(r)
    /\ ToldTwice(r) => ToldTwice(s)

-----------------------------------------------------------------------------
(* records of flows *)

\* The kinds of flows, and which a protocol has.
LEMMA KindsAre ==
    /\ AllKinds = {"tcp", "tcpin", "error", "udp", "udpin", "icmp"}
    /\ \A p \in DOMAIN Kinds : Kinds[p] \subseteq AllKinds
<1>1. \A p \in DOMAIN Kinds : Kinds[p] \subseteq AllKinds
  BY DEF AllKinds
<1>2. DOMAIN Kinds = {"tcp", "udp", "icmp"}
  BY DEF Kinds
<1>3. AllKinds = Kinds["tcp"] \cup Kinds["udp"] \cup Kinds["icmp"]
  BY <1>2 DEF AllKinds
<1>4. /\ Kinds["tcp"] = {"tcp", "tcpin", "error"}
      /\ Kinds["udp"] = {"udp", "udpin", "error"}
      /\ Kinds["icmp"] = {"icmp"}
  BY DEF Kinds
<1> QED
  BY <1>1, <1>3, <1>4

\* What the fields of a flow are.
LEMMA FieldTypes ==
    ASSUME NEW r \in FlowStates
    PROVE  /\ r.pc \in Steps
           /\ r.then \in Steps
           /\ r.bg \in BOOLEAN
           /\ r.stall \in {"none", "outer", "inner", "close", "over"}
           /\ r.kind \in AllKinds \cup {"none"}
           /\ r.verdict \in {"none", "block", "dns", "allow"}
           /\ r.gconn \in {"none", "open", "closed"}
           /\ r.remote \in {"none", "open", "closed"}
           /\ r.dst \in Dsts
           /\ r.exit \in BOOLEAN
  BY DEF FlowStates

\* Closing the conns of a flow changes nothing else of it.
LEMMA ClosedFields ==
    ASSUME NEW r \in FlowStates
    PROVE  /\ WithConnsClosed(r) \in FlowStates
           /\ WithConnsClosed(r).pc = r.pc
           /\ WithConnsClosed(r).then = r.then
           /\ WithConnsClosed(r).bg = r.bg
           /\ WithConnsClosed(r).stall = r.stall
           /\ WithConnsClosed(r).kind = r.kind
           /\ WithConnsClosed(r).verdict = r.verdict
           /\ WithConnsClosed(r).gconn = Closed(r.gconn)
           /\ WithConnsClosed(r).remote = Closed(r.remote)
           /\ WithConnsClosed(r).dst = r.dst
           /\ WithConnsClosed(r).exit = r.exit
  BY ZenonT(60) DEF FlowStates, WithConnsClosed, Closed

\* A flow that enters queueSummary keeps all but where it is.
LEMMA SummariseFields ==
    ASSUME NEW r \in FlowStates, NEW t \in Steps
    PROVE  /\ Summarise(r, t) \in FlowStates
           /\ Summarise(r, t).pc = "outer"
           /\ Summarise(r, t).then = t
           /\ Summarise(r, t).bg = r.bg
           /\ Summarise(r, t).stall = r.stall
           /\ Summarise(r, t).kind = r.kind
           /\ Summarise(r, t).verdict = r.verdict
           /\ Summarise(r, t).gconn = r.gconn
           /\ Summarise(r, t).remote = r.remote
           /\ Summarise(r, t).dst = r.dst
           /\ Summarise(r, t).exit = r.exit
<1>1. "outer" \in Steps
  BY DEF Steps
<1> QED
  BY <1>1, Zenon DEF FlowStates, Summarise

\* A sound flow may stay as it is.
LEMMA StepStutters ==
    ASSUME NEW r, Sound(r)
    PROVE  Step(r, r)
  BY DEF Step

-----------------------------------------------------------------------------
(* the summaries in the queue *)

\* A flow is in the channel a finite number of times ...
LEMMA OccursFinite ==
    ASSUME NEW s \in Seq(Flows), NEW f
    PROVE  /\ IsFiniteSet({i \in DOMAIN s : s[i] = f})
           /\ Cardinality({i \in DOMAIN s : s[i] = f}) \in Nat
<1>1. IsFiniteSet(1..Len(s))
  BY FS_Interval
<1>2. {i \in DOMAIN s : s[i] = f} \in SUBSET (1..Len(s))
  OBVIOUS
<1> QED
  BY <1>1, <1>2, FS_Subset, FS_CardinalityType

\* ... so that Queued is a number ...
LEMMA QueuedType ==
    ASSUME Types, NEW f
    PROVE  Queued(f) \in Nat
  BY OccursFinite, Zenon DEF Types, Queued

\* ... one more once its summary is sent ...
LEMMA QueuedAppend ==
    ASSUME Types, NEW f \in Flows, smmch' = Append(smmch, f), NEW g
    PROVE  Queued(g)' = IF g = f THEN Queued(g) + 1 ELSE Queued(g)
<1> DEFINE Old == {i \in DOMAIN smmch : smmch[i] = g}
           New == {i \in DOMAIN smmch' : smmch'[i] = g}
<1>1. smmch \in Seq(Flows)
  BY DEF Types
<1>2. Len(smmch) \in Nat /\ Len(smmch') = Len(smmch) + 1 /\ smmch' \in Seq(Flows)
  BY <1>1
<1>3. smmch'[Len(smmch) + 1] = f /\ \A i \in 1..Len(smmch) : smmch'[i] = smmch[i]
  BY <1>1
<1>4. DOMAIN smmch = 1..Len(smmch) /\ DOMAIN smmch' = 1..(Len(smmch) + 1)
  BY <1>1, <1>2
<1>5. New = IF g = f THEN Old \cup {Len(smmch) + 1} ELSE Old
  BY <1>2, <1>3, <1>4
<1>6. Len(smmch) + 1 \notin Old
  BY <1>2, <1>4
<1>7. IsFiniteSet(Old) /\ Cardinality(Old) \in Nat
  BY <1>1, OccursFinite, Zenon
<1>8. Cardinality(Old \cup {Len(smmch) + 1}) = Cardinality(Old) + 1
  BY <1>6, <1>7, FS_AddElement, Zenon
<1> QED
  BY <1>5, <1>8, Zenon DEF Queued

\* ... and one less once it is received.
LEMMA QueuedTail ==
    ASSUME Types, smmch # << >>, smmch' = Tail(smmch), NEW g
    PROVE  Queued(g) = IF g = Head(smmch) THEN Queued(g)' + 1 ELSE Queued(g)'
<1> DEFINE Old == {i \in DOMAIN smmch : smmch[i] = g}
           Rest == Old \ {1}
           New == {i \in DOMAIN smmch' : smmch'[i] = g}
           next == [i \in New |-> i + 1]
<1>1. smmch \in Seq(Flows) /\ smmch' \in Seq(Flows)
  BY DEF Types
<1>2. Len(smmch) \in Nat \ {0} /\ Len(smmch') = Len(smmch) - 1
  BY <1>1
<1>3. smmch[1] = Head(smmch) /\ \A i \in 1..Len(smmch') : smmch'[i] = smmch[i + 1]
  BY <1>1
<1>4. DOMAIN smmch = 1..Len(smmch) /\ DOMAIN smmch' = 1..Len(smmch')
  BY <1>1
<1>5. next \in Bijection(New, Rest)
  <2>1. next \in [New -> Rest]
    BY <1>2, <1>3, <1>4
  <2>2. \A i, j \in New : next[i] = next[j] => i = j
    BY <1>2, <1>4
  <2>3. ASSUME NEW j \in Rest
        PROVE  \E i \in New : next[i] = j
    <3>1. j - 1 \in New
      BY <1>2, <1>3, <1>4
    <3>2. next[j - 1] = j
      BY <3>1, <1>2, <1>4
    <3> QED
      BY <3>1, <3>2
  <2> QED
    BY <2>1, <2>2, <2>3 DEF Bijection, Injection, Surjection, IsInjective
<1>6. IsFiniteSet(Old) /\ Cardinality(Old) \in Nat /\ IsFiniteSet(New) /\ Cardinality(New) \in Nat
  BY <1>1, OccursFinite, Zenon
<1>7. Cardinality(Rest) = Cardinality(New)
  BY <1>5, <1>6, FS_Bijection, Zenon DEF ExistsBijection
<1>8. 1 \in Old <=> g = Head(smmch)
  BY <1>2, <1>3, <1>4
<1>9. Cardinality(Rest) = IF 1 \in Old THEN Cardinality(Old) - 1 ELSE Cardinality(Old)
  BY <1>6, FS_RemoveElement, Zenon
<1>10. Queued(g) = Cardinality(Old) /\ Queued(g)' = Cardinality(New)
  BY DEF Queued
<1>11. Cardinality(Old) = IF g = Head(smmch) THEN Cardinality(New) + 1 ELSE Cardinality(New)
  <2> HIDE DEF Old, Rest, New
  <2> QED
    BY <1>6, <1>7, <1>8, <1>9
<1> QED
  BY <1>10, <1>11, Zenon

-----------------------------------------------------------------------------
(* what is kept of the invariant by steps of flows *)

\* The flows counted for a destination are finitely many.
LEMMA AssocFinite ==
    ASSUME NEW d
    PROVE  IsFiniteSet(Assoc(d)) /\ Cardinality(Assoc(d)) \in Nat
<1>1. Assoc(d) \in SUBSET Flows
  BY DEF Assoc
<1> QED
  BY <1>1, FS_Subset, FS_CardinalityType, FlowHandlerAssumption

\* Counts that do not change stay below the flows that made them, if these stay counted.
LEMMA LoopsKept ==
    ASSUME Types, LoopsCounted, looptracker' = looptracker,
           \A g \in Flows : Counted(flow[g]) => Counted(flow[g])' /\ flow[g].dst' = flow[g].dst
    PROVE  LoopsCounted'
<1> SUFFICES ASSUME NEW d \in Dsts
             PROVE  looptracker[d] <= Cardinality(Assoc(d)')
  BY DEF LoopsCounted
<1>1. Assoc(d) \in SUBSET Assoc(d)'
  BY DEF Assoc
<1>2. Assoc(d)' \in SUBSET Flows
  BY DEF Assoc
<1>3. IsFiniteSet(Assoc(d)')
  BY <1>2, FS_Subset, FlowHandlerAssumption
<1>4. Cardinality(Assoc(d)) <= Cardinality(Assoc(d)')
  BY <1>1, <1>3, FS_Subset
<1>5. Cardinality(Assoc(d)') \in Nat /\ Cardinality(Assoc(d)) \in Nat
  BY <1>3, FS_CardinalityType, AssocFinite
<1>6. looptracker[d] \in Nat /\ looptracker[d] <= Cardinality(Assoc(d))
  BY DEF Types, LoopsCounted
<1> QED
  BY <1>4, <1>5, <1>6

\* A flow is not told of twice by a step that tells of none and makes none due.
LEMMA ToldKept ==
    ASSUME Types, ToldOnce, posted' = posted, smmch' = smmch,
           \A g \in Flows : /\ Due(flow'[g]) => Due(flow[g])
                            /\ ToldTwice(flow[g]) => ToldTwice(flow'[g])
    PROVE  ToldOnce'
<1> SUFFICES ASSUME NEW f \in Flows
             PROVE  \/ ToldTwice(flow'[f])
                    \/ posted[f] + Queued(f) <= (IF Due(flow'[f]) THEN 0 ELSE 1)
  BY DEF ToldOnce, Queued, ToldTwice, Due
<1>1. \/ ToldTwice(flow[f])
      \/ posted[f] + Queued(f) <= (IF Due(flow[f]) THEN 0 ELSE 1)
  BY DEF ToldOnce
<1>2. posted[f] + Queued(f) \in Int
  BY QueuedType DEF Types
<1> QED
  BY <1>1, <1>2

\* If every flow takes a Step, what the invariant says of flows is kept.
LEMMA StepsKeep ==
    ASSUME Inv, flow' \in [Flows -> FlowStates],
           \A g \in Flows : Step(flow[g], flow'[g])
    PROVE  /\ FlowsSound'
           /\ tracked' \subseteq tracked => TrackedHeld'
           /\ looptracker' = looptracker => LoopsCounted'
           /\ posted' = posted /\ smmch' = smmch => ToldOnce'
<1>1. FlowsSound'
  BY DEF FlowsSound, Step
<1>2. tracked' \subseteq tracked => TrackedHeld'
  BY DEF TrackedHeld, Step, Inv, Types
<1>3. looptracker' = looptracker => LoopsCounted'
  <2>1. \A g \in Flows : Counted(flow[g]) => Counted(flow[g])' /\ flow[g].dst' = flow[g].dst
    BY DEF Step, Counted, In
  <2> QED
    BY <2>1, LoopsKept DEF Inv
<1>4. ASSUME posted' = posted, smmch' = smmch
      PROVE  ToldOnce'
  BY <1>4, ToldKept DEF Inv, Step
<1> QED
  BY <1>1, <1>2, <1>3, <1>4

\* A step that moves one flow, and nothing that it shares with others.
LEMMA MoveKeeps ==
    ASSUME Inv, NEW f \in Flows, NEW r, Step(flow[f], r), Moves(f, r)
    PROVE  Inv'
<1>1. r \in FlowStates
  BY DEF Step, Sound
<1>2. flow' \in [Flows -> FlowStates] /\ \A g \in Flows : flow'[g] = IF g = f THEN r ELSE flow[g]
  BY <1>1 DEF Moves, Inv, Types
<1>3. \A g \in Flows : Step(flow[g], flow'[g])
  BY <1>2, StepStutters DEF Inv, FlowsSound
<1>4. /\ proto' = proto /\ smmch' = smmch /\ tracked' = tracked
      /\ looptracker' = looptracker /\ posted' = posted
  BY DEF Moves, hvars
<1>5. Types'
  BY <1>2, <1>4 DEF Inv, Types
<1> QED
  BY <1>2, <1>3, <1>4, <1>5, StepsKeep DEF Inv

-----------------------------------------------------------------------------
(* the steps of a flow that only move it *)

\* The steps, by name.
LEMMA StepNames ==
    /\ "idle" \in Steps /\ "onflow" \in Steps /\ "establish" \in Steps
    /\ "synack" \in Steps /\ "dns" \in Steps /\ "dial" \in Steps
    /\ "handshake" \in Steps /\ "assoc" \in Steps /\ "probe" \in Steps
    /\ "track" \in Steps /\ "pipe" \in Steps /\ "untrack" \in Steps
    /\ "unassoc" \in Steps /\ "close" \in Steps /\ "outer" \in Steps
    /\ "inner" \in Steps /\ "over" \in Steps
  BY DEF Steps

\* A flow begins.
LEMMA BeginKeeps ==
    ASSUME Inv, NEW f \in Flows, NEW k \in Kinds[proto], Begin(f, k)
    PROVE  Inv'
<1> DEFINE r == flow[f]
           s == [r EXCEPT !.pc = "onflow", !.kind = k,
                          !.bg = k \in {"icmp", "udpin"},
                          !.gconn = IF k \in {"icmp", "error"} THEN "none" ELSE "open",
                          !.remote = IF k \in {"tcpin", "udpin"} THEN "open" ELSE "none"]
<1>1. r.pc = "idle" /\ Moves(f, s)
  BY DEF Begin
<1>2. Sound(r) /\ r \in FlowStates
  BY DEF Inv, FlowsSound, Sound
<1>3. k \in AllKinds
  <2>1. proto \in DOMAIN Kinds
    BY FlowHandlerAssumption DEF Inv, Types
  <2> QED
    BY <2>1, KindsAre
<1>4. s \in FlowStates
  <2>1. "onflow" \in Steps /\ (k \in {"icmp", "udpin"}) \in BOOLEAN
    BY DEF Steps
  <2> QED
    BY <1>2, <1>3, <2>1, ZenonT(60) DEF FlowStates
<1>5. /\ s.pc = "onflow" /\ s.kind = k /\ s.stall = r.stall /\ s.verdict = r.verdict
      /\ s.then = r.then /\ s.dst = r.dst /\ s.exit = r.exit
      /\ s.bg = (k \in {"icmp", "udpin"})
      /\ s.gconn = (IF k \in {"icmp", "error"} THEN "none" ELSE "open")
      /\ s.remote = (IF k \in {"tcpin", "udpin"} THEN "open" ELSE "none")
  BY <1>2 DEF FlowStates
<1> HIDE DEF s, r
<1>6. Step(r, s)
  BY <1>1, <1>2, <1>3, <1>4, <1>5, KindsAre, Zenon
     DEF Step, Sound, Placed, Sealed, In, Shut, Held, Counted, Due, ToldTwice
<1> QED
  BY <1>1, <1>6, MoveKeeps DEF r

\* A flow that is given up: its conns are closed and a summary is on its way.
LEMMA GiveUp ==
    ASSUME NEW q, Sound(q), q.pc \in {"onflow", "establish", "synack", "dial"},
           NEW r \in FlowStates, r.kind = q.kind, r.dst = q.dst, r.stall = q.stall,
           q.pc # "onflow" => r.verdict = q.verdict
    PROVE  Step(q, Summarise(WithConnsClosed(r), "over"))
<1> DEFINE s == Summarise(WithConnsClosed(r), "over")
<1>1. /\ s \in FlowStates /\ s.pc = "outer" /\ s.then = "over" /\ s.kind = q.kind
      /\ s.dst = q.dst /\ s.stall = q.stall /\ s.verdict = r.verdict
      /\ s.gconn = Closed(r.gconn) /\ s.remote = Closed(r.remote)
  <2>1. "over" \in Steps /\ WithConnsClosed(r) \in FlowStates
    BY ClosedFields, StepNames
  <2> QED
    BY <2>1, ClosedFields, SummariseFields
<1>2. s.gconn # "open" /\ s.remote # "open"
  BY <1>1 DEF Closed
<1> HIDE DEF s
<1>3. Step(q, s)
  BY <1>1, <1>2
     DEF Step, Sound, Placed, Sealed, In, Shut, Excused, Held, Counted, Due, ToldTwice
<1> QED
  BY <1>3 DEF s

\* The listener decides on a flow.
LEMMA OnFlowKeeps ==
    ASSUME Inv, NEW f \in Flows, NEW v \in {"block", "dns", "allow"}, NEW exit \in BOOLEAN,
           OnFlow(f, v, exit)
    PROVE  Inv'
<1> DEFINE q == flow[f]
           r == [flow[f] EXCEPT !.verdict = v, !.exit = exit /\ v = "allow"]
           s == CASE r.kind = "tcp" -> TcpJudged(r)
                  [] r.kind = "udp" -> UdpJudged(r)
                  [] r.kind = "icmp" -> IcmpJudged(r)
                  [] r.kind = "tcpin" -> TcpInJudged(r)
                  [] r.kind = "udpin" -> UdpInJudged(r)
                  [] r.kind = "error" -> ErrorJudged(r)
<1>1. q.pc = "onflow" /\ Moves(f, s)
  BY Zenon DEF OnFlow
<1>2. /\ Sound(q)
      /\ r \in FlowStates
      /\ r.pc = "onflow" /\ r.verdict = v /\ r.kind = q.kind
      /\ r.dst = q.dst /\ r.bg = q.bg /\ r.then = q.then
      /\ r.gconn = q.gconn /\ r.remote = q.remote
      /\ r.stall = q.stall /\ r.stall = "none" /\ r.kind \in AllKinds
  <2>1. Sound(q) /\ q \in FlowStates
    BY DEF Inv, FlowsSound, Sound
  <2>2. (exit /\ v = "allow") \in BOOLEAN
    OBVIOUS
  <2>3. q.stall = "none" /\ q.kind \in AllKinds
    BY <1>1, <2>1 DEF Sound, Placed
  <2> QED
    BY <1>1, <2>1, <2>2, <2>3, Zenon DEF FlowStates
<1> HIDE DEF r, q
<1>3. Step(q, Summarise(WithConnsClosed(r), "over"))
  BY <1>1, <1>2, GiveUp, Zenon
<1>4. ASSUME q.kind \in {"icmp", "error"}
      PROVE  Step(q, Summarise(r, "over"))
  <2> DEFINE t == Summarise(r, "over")
  <2>1. /\ t \in FlowStates /\ t.pc = "outer" /\ t.then = "over" /\ t.kind = q.kind
        /\ t.dst = q.dst /\ t.stall = "none" /\ t.verdict = r.verdict
        /\ t.gconn = q.gconn /\ t.remote = q.remote
    <3>1. "over" \in Steps
      BY StepNames
    <3> QED
      BY <1>2, <3>1, SummariseFields
  <2> HIDE DEF t
  <2>2. Step(q, t)
    BY <1>1, <1>2, <1>4, <2>1
     DEF Step, Sound, Placed, Sealed, In, Shut, Excused, Held, Counted, Due, ToldTwice
  <2> QED
    BY <2>2 DEF t
<1>5. ASSUME q.kind \in {"tcp", "error"}, v = "block"
      PROVE  Step(q, [r EXCEPT !.pc = "over", !.stall = "outer"])
  <2> DEFINE t == [r EXCEPT !.pc = "over", !.stall = "outer"]
  <2>1. /\ t \in FlowStates /\ t.pc = "over" /\ t.stall = "outer" /\ t.kind = q.kind
        /\ t.dst = q.dst /\ t.verdict = v /\ t.remote = q.remote
    BY <1>2, StepNames, Zenon DEF FlowStates
  <2> HIDE DEF t
  <2>2. Step(q, t)
    BY <1>1, <1>2, <1>5, <2>1
     DEF Step, Sound, Placed, Sealed, In, Shut, Excused, Held, Counted, Due, ToldTwice
  <2> QED
    BY <2>2 DEF t
<1>6. ASSUME q.kind = "udp", v = "block"
      PROVE  Step(q, [Summarise(r, "over") EXCEPT !.stall = "outer"])
  <2> DEFINE t == [Summarise(r, "over") EXCEPT !.stall = "outer"]
  <2>1. /\ t \in FlowStates /\ t.pc = "outer" /\ t.then = "over" /\ t.stall = "outer"
        /\ t.kind = q.kind /\ t.dst = q.dst /\ t.verdict = v /\ t.remote = q.remote
    BY <1>2, SummariseFields, StepNames DEF FlowStates
  <2> HIDE DEF t
  <2>2. Step(q, t)
    BY <1>1, <1>2, <1>6, <2>1
     DEF Step, Sound, Placed, Sealed, In, Shut, Excused, Held, Counted, Due, ToldTwice
  <2> QED
    BY <2>2 DEF t
<1>7. ASSUME NEW p \in {"establish", "synack", "dial"},
             p = "establish" => q.kind \in {"udp", "tcpin", "udpin"} /\ v # "block",
             p = "synack" => q.kind = "tcp",
             p = "dial" => q.kind \in {"tcp", "icmp"}
      PROVE  Step(q, [r EXCEPT !.pc = p])
  <2> DEFINE t == [r EXCEPT !.pc = p]
  <2>1. /\ t \in FlowStates /\ t.pc = p /\ t.stall = "none" /\ t.kind = q.kind
        /\ t.dst = q.dst /\ t.verdict = v /\ t.remote = q.remote /\ t.gconn = q.gconn
        /\ t.bg = q.bg
    BY <1>2, StepNames DEF FlowStates
  <2> HIDE DEF t
  <2>2. Step(q, t)
    BY <1>1, <1>2, <1>7, <2>1
     DEF Step, Sound, Placed, Sealed, In, Shut, Excused, Held, Counted, Due, ToldTwice
  <2> QED
    BY <2>2 DEF t
<1>8. Step(q, s)
  <2>1. CASE q.kind = "tcp"
    BY <1>2, <1>3, <1>5, <1>7, <2>1 DEF TcpJudged
  <2>2. CASE q.kind = "udp"
    BY <1>2, <1>3, <1>6, <1>7, <2>2 DEF UdpJudged
  <2>3. CASE q.kind = "icmp"
    BY <1>2, <1>4, <1>7, <2>3 DEF IcmpJudged
  <2>4. CASE q.kind = "tcpin"
    BY <1>2, <1>3, <1>7, <2>4 DEF TcpInJudged
  <2>5. CASE q.kind = "udpin"
    BY <1>2, <1>3, <1>7, <2>5 DEF UdpInJudged
  <2>6. CASE q.kind = "error"
    BY <1>2, <1>4, <1>5, <2>6 DEF ErrorJudged
  <2> QED
    BY <1>2, <2>1, <2>2, <2>3, <2>4, <2>5, <2>6, KindsAre
<1> QED
  BY <1>1, <1>8, MoveKeeps, Zenon DEF q

\* Each flow is sound.
LEMMA FlowSound ==
    ASSUME Inv, NEW f \in Flows
    PROVE  Sound(flow[f]) /\ flow[f] \in FlowStates
  BY DEF Inv, FlowsSound, Sound

\* The conn of a udp or inbound flow is established, or not.
LEMMA EstablishKeeps ==
    ASSUME Inv, NEW f \in Flows, NEW ok \in BOOLEAN, Establish(f, ok)
    PROVE  Inv'
<1> DEFINE r == flow[f]
           p == CASE Inbound(f) -> "track"
                  [] ~Inbound(f) /\ r.verdict = "dns" -> "dns"
                  [] OTHER -> "dial"
           s == [r EXCEPT !.pc = p, !.bg = Inbound(f)]
<1>1. /\ r.pc = "establish"
      /\ \/ ok /\ Moves(f, s)
         \/ ~ok /\ r.kind = "tcpin" /\ Moves(f, Summarise(r, "over"))
         \/ ~ok /\ r.kind # "tcpin" /\ Moves(f, Summarise(WithConnsClosed(r), "over"))
  BY DEF Establish
<1>2. Sound(r) /\ r \in FlowStates
  BY FlowSound
<1>3. Step(r, s)
  <2>1. Inbound(f) \in BOOLEAN /\ p \in Steps /\ Inbound(f) = (r.kind \in {"tcpin", "udpin"})
    BY StepNames DEF Inbound
  <2>2. p = IF r.kind \in {"tcpin", "udpin"} THEN "track"
            ELSE IF r.verdict = "dns" THEN "dns" ELSE "dial"
    BY DEF Inbound
  <2> HIDE DEF p, r
  <2>3. /\ s \in FlowStates /\ s.pc = p /\ s.bg = Inbound(f) /\ s.kind = r.kind
        /\ s.stall = r.stall /\ s.verdict = r.verdict /\ s.remote = r.remote
        /\ s.gconn = r.gconn /\ s.dst = r.dst /\ s.exit = r.exit
    BY <1>2, <2>1, Zenon DEF FlowStates
  <2> HIDE DEF s
  <2> QED
    BY <1>1, <1>2, <2>1, <2>2, <2>3
       DEF Step, Sound, Placed, Sealed, In, Shut, Excused, Held, Counted, Due, ToldTwice
<1>4. ASSUME r.kind = "tcpin"
      PROVE  Step(r, Summarise(r, "over"))
  <2> DEFINE t == Summarise(r, "over")
  <2>1. "over" \in Steps
    BY StepNames
  <2>2. /\ t \in FlowStates /\ t.pc = "outer" /\ t.then = "over" /\ t.kind = r.kind
        /\ t.dst = r.dst /\ t.stall = r.stall /\ t.verdict = r.verdict /\ t.bg = r.bg
        /\ t.gconn = r.gconn /\ t.remote = r.remote
    BY <1>2, <2>1, SummariseFields
  <2> HIDE DEF t, r
  <2>3. Step(r, t)
    BY <1>1, <1>2, <1>4, <2>2
       DEF Step, Sound, Placed, Sealed, In, Shut, Excused, Held, Counted, Due, ToldTwice
  <2> QED
    BY <2>3 DEF t
<1>5. Step(r, Summarise(WithConnsClosed(r), "over"))
  BY <1>1, <1>2, GiveUp
<1> QED
  BY <1>1, <1>3, <1>4, <1>5, MoveKeeps

\* The handshake before a dns query over tcp succeeds or fails.
LEMMA SynackKeeps ==
    ASSUME Inv, NEW f \in Flows, NEW ok \in BOOLEAN, Synack(f, ok)
    PROVE  Inv'
<1> DEFINE r == flow[f]
           s == [r EXCEPT !.pc = "dns"]
<1>1. /\ r.pc = "synack"
      /\ Moves(f, s) \/ Moves(f, Summarise(WithConnsClosed(r), "over"))
  BY DEF Synack
<1>2. Sound(r) /\ r \in FlowStates
  BY FlowSound
<1>3. Step(r, s)
  <2> HIDE DEF r
  <2>1. /\ s \in FlowStates /\ s.pc = "dns" /\ s.kind = r.kind /\ s.dst = r.dst
        /\ s.stall = r.stall /\ s.verdict = r.verdict /\ s.gconn = r.gconn
    BY <1>2, StepNames DEF FlowStates
  <2> HIDE DEF s
  <2> QED
    BY <1>1, <1>2, <2>1
       DEF Step, Sound, Placed, Sealed, In, Shut, Excused, Held, Counted, Due, ToldTwice
<1>4. Step(r, Summarise(WithConnsClosed(r), "over"))
  BY <1>1, <1>2, GiveUp
<1> QED
  BY <1>1, <1>3, <1>4, MoveKeeps

\* A flow that is routed to a proxy keeps its kind, destination and conns.
LEMMA RoutedFields ==
    ASSUME NEW r \in FlowStates, NEW p \in Steps
    PROVE  LET s == [Routed(r) EXCEPT !.remote = "open", !.pc = p]
               t == [Routed(r) EXCEPT !.pc = p]
           IN  /\ s \in FlowStates /\ s.pc = p /\ s.kind = r.kind /\ s.dst = r.dst
               /\ s.stall = r.stall /\ s.verdict = r.verdict /\ s.gconn = r.gconn
               /\ t \in FlowStates /\ t.pc = p /\ t.kind = r.kind /\ t.dst = r.dst
               /\ t.stall = r.stall /\ t.verdict = r.verdict /\ t.gconn = r.gconn
               /\ t.remote = r.remote
<1>1. (r.exit \/ looptracker[r.dst] >= 1) \in BOOLEAN
  OBVIOUS
<1> QED
  BY <1>1, Zenon DEF FlowStates, Routed

\* A dial succeeds or fails.
LEMMA DialKeeps ==
    ASSUME Inv, NEW f \in Flows, NEW ok \in BOOLEAN, Dial(f, ok)
    PROVE  Inv'
<1> DEFINE r == flow[f]
<1>1. r.pc = "dial"
  BY DEF Dial
<1>2. Sound(r) /\ r \in FlowStates
  BY FlowSound
<1>3. r.kind \in {"tcp", "udp", "icmp"}
  BY <1>1, <1>2 DEF Sound, Placed
<1>4. \/ Moves(f, [Routed(r) EXCEPT !.remote = "open", !.pc = "handshake"]) /\ r.kind = "tcp"
      \/ Moves(f, [Routed(r) EXCEPT !.remote = "open", !.pc = "assoc"]) /\ r.kind = "udp"
      \/ Moves(f, [Routed(r) EXCEPT !.pc = "assoc"]) /\ r.kind = "icmp"
      \/ Moves(f, Summarise(r, "close")) /\ r.kind = "tcp"
      \/ Moves(f, Summarise(WithConnsClosed(r), "over"))
      \/ Moves(f, Summarise(r, "over")) /\ r.kind = "icmp"
  BY <1>3 DEF Dial, TcpDialed, UdpDialed, IcmpDialed
<1> HIDE DEF r
<1>5. ASSUME NEW p \in {"handshake", "assoc"}, p = "handshake" => r.kind = "tcp",
             p = "assoc" => r.kind = "udp"
      PROVE  Step(r, [Routed(r) EXCEPT !.remote = "open", !.pc = p])
  <2> DEFINE s == [Routed(r) EXCEPT !.remote = "open", !.pc = p]
  <2>1. p \in Steps
    BY StepNames
  <2>2. /\ s \in FlowStates /\ s.pc = p /\ s.kind = r.kind /\ s.dst = r.dst
        /\ s.stall = r.stall /\ s.verdict = r.verdict /\ s.gconn = r.gconn
    BY <1>2, <2>1, RoutedFields, Zenon
  <2> HIDE DEF s
  <2>3. Step(r, s)
    BY <1>1, <1>2, <1>3, <1>5, <2>2
       DEF Step, Sound, Placed, Sealed, In, Shut, Excused, Held, Counted, Due, ToldTwice
  <2> QED
    BY <2>3 DEF s
<1>6. ASSUME r.kind = "icmp"
      PROVE  Step(r, [Routed(r) EXCEPT !.pc = "assoc"])
  <2> DEFINE s == [Routed(r) EXCEPT !.pc = "assoc"]
  <2>1. "assoc" \in Steps
    BY StepNames, SMTT(60)
  <2>2. /\ s \in FlowStates /\ s.pc = "assoc" /\ s.kind = r.kind /\ s.dst = r.dst
        /\ s.stall = r.stall /\ s.verdict = r.verdict /\ s.gconn = r.gconn
        /\ s.remote = r.remote
    BY <1>2, <2>1, RoutedFields, Zenon
  <2> HIDE DEF s
  <2>3. Step(r, s)
    BY <1>1, <1>2, <1>6, <2>2
       DEF Step, Sound, Placed, Sealed, In, Shut, Excused, Held, Counted, Due, ToldTwice
  <2> QED
    BY <2>3 DEF s
<1>7. ASSUME NEW t \in {"close", "over"}, t = "close" => r.kind = "tcp",
             t = "over" => r.kind = "icmp"
      PROVE  Step(r, Summarise(r, t))
  <2> DEFINE s == Summarise(r, t)
  <2>1. t \in Steps
    BY StepNames
  <2>2. /\ s \in FlowStates /\ s.pc = "outer" /\ s.then = t /\ s.kind = r.kind
        /\ s.dst = r.dst /\ s.stall = r.stall /\ s.verdict = r.verdict
        /\ s.gconn = r.gconn /\ s.remote = r.remote
    BY <1>2, <2>1, SummariseFields
  <2> HIDE DEF s
  <2>3. Step(r, s)
    BY <1>1, <1>2, <1>3, <1>7, <2>2
       DEF Step, Sound, Placed, Sealed, In, Shut, Excused, Held, Counted, Due, ToldTwice
  <2> QED
    BY <2>3 DEF s
<1>8. Step(r, Summarise(WithConnsClosed(r), "over"))
  BY <1>1, <1>2, GiveUp
<1> QED
  BY <1>4, <1>5, <1>6, <1>7, <1>8, MoveKeeps DEF r

\* The probe of a ping opens its conn, or not.
LEMMA ProbeKeeps ==
    ASSUME Inv, NEW f \in Flows, NEW ok \in BOOLEAN, Probe(f, ok)
    PROVE  Inv'
<1> DEFINE r == flow[f]
           s == [r EXCEPT !.remote = "open", !.pc = "track"]
           t == [r EXCEPT !.pc = "unassoc"]
<1>1. r.pc = "probe" /\ (Moves(f, s) \/ Moves(f, t))
  BY DEF Probe
<1>2. Sound(r) /\ r \in FlowStates
  BY FlowSound
<1> HIDE DEF r
<1>3. Step(r, s)
  <2>1. /\ s \in FlowStates /\ s.pc = "track" /\ s.kind = r.kind /\ s.dst = r.dst
        /\ s.stall = r.stall /\ s.verdict = r.verdict /\ s.gconn = r.gconn
        /\ s.exit = r.exit
    BY <1>2, StepNames, Zenon DEF FlowStates
  <2> HIDE DEF s
  <2> QED
    BY <1>1, <1>2, <2>1
       DEF Step, Sound, Placed, Sealed, In, Shut, Excused, Held, Counted, Due, ToldTwice
<1>4. Step(r, t)
  <2>1. /\ t \in FlowStates /\ t.pc = "unassoc" /\ t.kind = r.kind /\ t.dst = r.dst
        /\ t.stall = r.stall /\ t.verdict = r.verdict /\ t.gconn = r.gconn
        /\ t.exit = r.exit /\ t.remote = r.remote
    BY <1>2, StepNames DEF FlowStates
  <2> HIDE DEF t
  <2> QED
    BY <1>1, <1>2, <2>1
       DEF Step, Sound, Placed, Sealed, In, Shut, Excused, Held, Counted, Due, ToldTwice
<1> QED
  BY <1>1, <1>3, <1>4, MoveKeeps DEF r

\* The handshake of a tcp flow succeeds or fails.
LEMMA HandshakeKeeps ==
    ASSUME Inv, NEW f \in Flows, NEW ok \in BOOLEAN, Handshake(f, ok)
    PROVE  Inv'
<1> DEFINE r == flow[f]
           s == [r EXCEPT !.pc = "assoc"]
           q == [r EXCEPT !.remote = "closed"]
           t == Summarise(q, "close")
<1>1. r.pc = "handshake" /\ (Moves(f, s) \/ Moves(f, t))
  BY DEF Handshake
<1>2. Sound(r) /\ r \in FlowStates
  BY FlowSound
<1> HIDE DEF r
<1>3. Step(r, s)
  <2>1. /\ s \in FlowStates /\ s.pc = "assoc" /\ s.kind = r.kind /\ s.dst = r.dst
        /\ s.stall = r.stall /\ s.verdict = r.verdict /\ s.gconn = r.gconn
        /\ s.exit = r.exit
    BY <1>2, StepNames DEF FlowStates
  <2> HIDE DEF s
  <2> QED
    BY <1>1, <1>2, <2>1
       DEF Step, Sound, Placed, Sealed, In, Shut, Excused, Held, Counted, Due, ToldTwice
<1>4. Step(r, t)
  <2>1. /\ q \in FlowStates /\ q.kind = r.kind /\ q.dst = r.dst /\ q.stall = r.stall
        /\ q.verdict = r.verdict /\ q.remote = "closed"
    BY <1>2 DEF FlowStates
  <2> HIDE DEF q
  <2>2. "close" \in Steps
    BY StepNames
  <2>3. /\ t \in FlowStates /\ t.pc = "outer" /\ t.then = "close" /\ t.kind = r.kind
        /\ t.dst = r.dst /\ t.stall = r.stall /\ t.verdict = r.verdict /\ t.remote = "closed"
    BY <2>1, <2>2, SummariseFields
  <2> HIDE DEF t
  <2> QED
    BY <1>1, <1>2, <2>3
       DEF Step, Sound, Placed, Sealed, In, Shut, Excused, Held, Counted, Due, ToldTwice
<1> QED
  BY <1>1, <1>3, <1>4, MoveKeeps DEF r

\* A flow closes its side of netstack and is over.
LEMMA CloseGconnKeeps ==
    ASSUME Inv, NEW f \in Flows, CloseGconn(f)
    PROVE  Inv'
<1> DEFINE r == flow[f]
           s == [r EXCEPT !.gconn = "closed", !.pc = "over"]
<1>1. r.pc = "close" /\ Moves(f, s)
  BY DEF CloseGconn
<1>2. Sound(r) /\ r \in FlowStates
  BY FlowSound
<1> HIDE DEF r
<1>3. /\ s \in FlowStates /\ s.pc = "over" /\ s.kind = r.kind /\ s.dst = r.dst
      /\ s.stall = r.stall /\ s.verdict = r.verdict /\ s.gconn = "closed"
      /\ s.remote = r.remote
  BY <1>2, StepNames, Zenon DEF FlowStates
<1> HIDE DEF s
<1>4. Step(r, s)
  BY <1>1, <1>2, <1>3
       DEF Step, Sound, Placed, Sealed, In, Shut, Excused, Held, Counted, Due, ToldTwice
<1> QED
  BY <1>1, <1>4, MoveKeeps DEF r

\* Copying ends.
LEMMA PipedKeeps ==
    ASSUME Inv, NEW f \in Flows, Piped(f)
    PROVE  Inv'
<1> DEFINE r == flow[f]
           s == [r EXCEPT !.pc = "untrack"]
           t == Summarise(WithConnsClosed(r), "untrack")
<1>1. /\ r.pc = "pipe"
      /\ \/ r.kind = "icmp" /\ Moves(f, s)
         \/ r.kind # "icmp" /\ Moves(f, t)
  BY DEF Piped
<1>2. Sound(r) /\ r \in FlowStates
  BY FlowSound
<1> HIDE DEF r
<1>3. ASSUME r.kind = "icmp"
      PROVE  Step(r, s)
  <2>1. /\ s \in FlowStates /\ s.pc = "untrack" /\ s.kind = r.kind /\ s.dst = r.dst
        /\ s.stall = r.stall /\ s.verdict = r.verdict /\ s.gconn = r.gconn
        /\ s.exit = r.exit
    BY <1>2, StepNames DEF FlowStates
  <2> HIDE DEF s
  <2> QED
    BY <1>1, <1>2, <1>3, <2>1
       DEF Step, Sound, Placed, Sealed, In, Shut, Excused, Held, Counted, Due, ToldTwice
<1>4. ASSUME r.kind # "icmp"
      PROVE  Step(r, t)
  <2>1. "untrack" \in Steps /\ WithConnsClosed(r) \in FlowStates
    BY <1>2, StepNames, ClosedFields
  <2>2. /\ t \in FlowStates /\ t.pc = "outer" /\ t.then = "untrack" /\ t.kind = r.kind
        /\ t.dst = r.dst /\ t.stall = r.stall /\ t.verdict = r.verdict /\ t.exit = r.exit
    BY <1>2, <2>1, SummariseFields, ClosedFields
  <2> HIDE DEF t
  <2> QED
    BY <1>1, <1>2, <1>4, <2>2
       DEF Step, Sound, Placed, Sealed, In, Shut, Excused, Held, Counted, Due, ToldTwice
<1> QED
  BY <1>1, <1>3, <1>4, MoveKeeps DEF r

\* The outer select of queueSummary finds the handler ended, or goes on.
LEMMA SummaryOuterKeeps ==
    ASSUME Inv, NEW f \in Flows, SummaryOuter(f)
    PROVE  Inv'
<1> DEFINE r == flow[f]
<1>1. r.pc = "outer" /\ (Moves(f, [r EXCEPT !.pc = r.then]) \/ Moves(f, [r EXCEPT !.pc = "inner"]))
  BY DEF SummaryOuter
<1>2. Sound(r) /\ r \in FlowStates
  BY FlowSound
<1> HIDE DEF r
<1>3. ASSUME NEW p \in {r.then, "inner"}
      PROVE  Step(r, [r EXCEPT !.pc = p])
  <2> DEFINE s == [r EXCEPT !.pc = p]
  <2>1. p \in Steps
    BY <1>2, FieldTypes, StepNames
  <2>2. /\ s \in FlowStates /\ s.pc = p /\ s.then = r.then /\ s.bg = r.bg
        /\ s.kind = r.kind /\ s.dst = r.dst /\ s.stall = r.stall /\ s.verdict = r.verdict
        /\ s.gconn = r.gconn /\ s.remote = r.remote /\ s.exit = r.exit
    BY <1>2, <2>1 DEF FlowStates
  <2> HIDE DEF s
  <2>3. r.then \in {"over", "close", "untrack"}
    BY <1>1, <1>2 DEF Sound, Placed
  <2>4. Step(r, s)
    BY <1>1, <1>2, <1>3, <2>2, <2>3
       DEF Step, Sound, Placed, Sealed, In, Shut, Excused, Held, Counted, Due, ToldTwice
  <2> QED
    BY <2>4 DEF s
<1> QED
  BY <1>1, <1>3, MoveKeeps DEF r

\* A blocked flow that is stalled goes on.
LEMMA StallKeeps ==
    ASSUME Inv, NEW f \in Flows, Stall(f)
    PROVE  Inv'
<1> DEFINE r == flow[f]
<1>1. \/ /\ r.stall = "outer"
         /\ \E p \in {"close", "inner"} : Moves(f, [r EXCEPT !.stall = p])
      \/ r.stall = "close" /\ Moves(f, [r EXCEPT !.stall = "over", !.gconn = "closed"])
  BY DEF Stall
<1>2. Sound(r) /\ r \in FlowStates
  BY FlowSound
<1> HIDE DEF r
<1>3. ASSUME NEW p \in {"close", "inner"}, r.stall = "outer"
      PROVE  Step(r, [r EXCEPT !.stall = p])
  <2> DEFINE s == [r EXCEPT !.stall = p]
  <2>1. /\ s \in FlowStates /\ s.pc = r.pc /\ s.then = r.then /\ s.bg = r.bg
        /\ s.kind = r.kind /\ s.dst = r.dst /\ s.stall = p /\ s.verdict = r.verdict
        /\ s.gconn = r.gconn /\ s.remote = r.remote /\ s.exit = r.exit
    BY <1>2, SMTT(60) DEF FlowStates
  <2> HIDE DEF s
  <2>2. Step(r, s)
    BY <1>2, <1>3, <2>1
       DEF Step, Sound, Placed, Sealed, In, Shut, Excused, Held, Counted, Due, ToldTwice
  <2> QED
    BY <2>2 DEF s
<1>4. ASSUME r.stall = "close"
      PROVE  Step(r, [r EXCEPT !.stall = "over", !.gconn = "closed"])
  <2> DEFINE s == [r EXCEPT !.stall = "over", !.gconn = "closed"]
  <2>1. /\ s \in FlowStates /\ s.pc = r.pc /\ s.then = r.then /\ s.bg = r.bg
        /\ s.kind = r.kind /\ s.dst = r.dst /\ s.stall = "over" /\ s.verdict = r.verdict
        /\ s.gconn = "closed" /\ s.remote = r.remote /\ s.exit = r.exit
    BY <1>2, Zenon DEF FlowStates
  <2> HIDE DEF s
  <2>2. Step(r, s)
    BY <1>2, <1>4, <2>1
       DEF Step, Sound, Placed, Sealed, In, Shut, Excused, Held, Counted, Due, ToldTwice
  <2> QED
    BY <2>2 DEF s
<1> QED
  BY <1>1, <1>3, <1>4, MoveKeeps DEF r

-----------------------------------------------------------------------------
(* the steps that track, count or tell of a flow *)

\* One flow moves, in a step that may also change what it shares with others.
LEMMA OneMoves ==
    ASSUME Inv, NEW f \in Flows, NEW s \in FlowStates, flow' = [flow EXCEPT ![f] = s]
    PROVE  /\ flow' \in [Flows -> FlowStates]
           /\ \A g \in Flows : flow'[g] = IF g = f THEN s ELSE flow[g]
           /\ \A g \in Flows \ {f} : Step(flow[g], flow'[g])
           /\ Step(flow[f], s) => \A g \in Flows : Step(flow[g], flow'[g])
<1>1. flow \in [Flows -> FlowStates]
  BY DEF Inv, Types
<1>2. /\ flow' \in [Flows -> FlowStates]
      /\ \A g \in Flows : flow'[g] = IF g = f THEN s ELSE flow[g]
  BY <1>1
<1>3. \A g \in Flows \ {f} : Step(flow[g], flow'[g])
  BY <1>2, StepStutters, FlowSound
<1> QED
  BY <1>2, <1>3

\* A flow is tracked.
LEMMA TrackKeeps ==
    ASSUME Inv, NEW f \in Flows, Track(f)
    PROVE  Inv'
<1> DEFINE r == flow[f]
           s == [r EXCEPT !.pc = "pipe"]
<1>1. /\ r.pc = "track" /\ flow' = [flow EXCEPT ![f] = s] /\ tracked' = tracked \cup {f}
      /\ UNCHANGED <<proto, smmch, looptracker, posted>>
  BY DEF Track, hvars
<1>2. Sound(r) /\ r \in FlowStates
  BY FlowSound
<1> HIDE DEF r
<1>3. /\ s \in FlowStates /\ s.pc = "pipe" /\ s.kind = r.kind /\ s.dst = r.dst
      /\ s.stall = r.stall /\ s.verdict = r.verdict /\ s.gconn = r.gconn /\ s.exit = r.exit
  BY <1>2, StepNames DEF FlowStates
<1> HIDE DEF s
<1>4. Step(r, s) /\ Held(s)
  BY <1>1, <1>2, <1>3
     DEF Step, Sound, Placed, Sealed, In, Shut, Excused, Held, Counted, Due, ToldTwice
<1>5. /\ flow' \in [Flows -> FlowStates]
      /\ \A g \in Flows : flow'[g] = IF g = f THEN s ELSE flow[g]
      /\ \A g \in Flows : Step(flow[g], flow'[g])
  BY <1>1, <1>3, <1>4, OneMoves, Zenon DEF r
<1>6. FlowsSound' /\ LoopsCounted' /\ ToldOnce'
  BY <1>1, <1>5, StepsKeep
<1>7. TrackedHeld'
  <2> SUFFICES ASSUME NEW g \in tracked'
               PROVE  Held(flow'[g])
    BY DEF TrackedHeld, Held, In
  <2>1. CASE g = f
    BY <2>1, <1>4, <1>5
  <2>2. CASE g # f
    <3>1. g \in tracked /\ g \in Flows
      BY <2>2, <1>1 DEF Inv, Types
    <3> QED
      BY <3>1, <2>2, <1>5 DEF Inv, TrackedHeld
  <2> QED
    BY <2>1, <2>2
<1>8. Types'
  BY <1>1, <1>5 DEF Inv, Types
<1> QED
  BY <1>6, <1>7, <1>8 DEF Inv

\* A flow is untracked.
LEMMA UntrackKeeps ==
    ASSUME Inv, NEW f \in Flows, Untrack(f)
    PROVE  Inv'
<1> DEFINE r == flow[f]
           p == AfterForward(f)
           s == [WithConnsClosed(r) EXCEPT !.pc = p]
<1>1. /\ r.pc = "untrack" /\ flow' = [flow EXCEPT ![f] = s] /\ tracked' = tracked \ {f}
      /\ UNCHANGED <<proto, smmch, looptracker, posted>>
  BY DEF Untrack, hvars
<1>2. Sound(r) /\ r \in FlowStates
  BY FlowSound
<1>3. p = (IF r.kind \in {"tcpin", "udpin"} THEN "over" ELSE "unassoc") /\ p \in Steps
  BY StepNames DEF AfterForward, Inbound
<1> HIDE DEF r, p
<1>4. /\ s \in FlowStates /\ s.pc = p /\ s.kind = r.kind /\ s.dst = r.dst
      /\ s.stall = r.stall /\ s.verdict = r.verdict /\ s.exit = r.exit
      /\ s.gconn = Closed(r.gconn) /\ s.remote = Closed(r.remote)
  <2> DEFINE c == WithConnsClosed(r)
  <2>1. /\ c \in FlowStates /\ c.kind = r.kind /\ c.dst = r.dst
        /\ c.stall = r.stall /\ c.verdict = r.verdict /\ c.exit = r.exit
        /\ c.gconn = Closed(r.gconn) /\ c.remote = Closed(r.remote)
    BY <1>2, ClosedFields
  <2> HIDE DEF c
  <2>2. [c EXCEPT !.pc = p] \in FlowStates
    BY <1>3, <2>1 DEF FlowStates
  <2>3. s = [c EXCEPT !.pc = p]
    BY DEF c
  <2> QED
    BY <1>3, <2>1, <2>2, <2>3 DEF FlowStates
<1> HIDE DEF s
<1>5. s.gconn # "open" /\ s.remote # "open"
  BY <1>4, SMTT(60) DEF Closed
<1>6. /\ Sound(s) /\ (Counted(r) => Counted(s)) /\ (Due(s) => Due(r))
      /\ (ToldTwice(r) => ToldTwice(s))
  BY <1>1, <1>2, <1>3, <1>4, <1>5
     DEF Sound, Placed, Sealed, In, Shut, Excused, Counted, Due, ToldTwice
<1>7. /\ flow' \in [Flows -> FlowStates]
      /\ \A g \in Flows : flow'[g] = IF g = f THEN s ELSE flow[g]
  BY <1>1, <1>4, OneMoves, Zenon DEF r
<1>8. TrackedHeld'
  BY <1>1, <1>7, SMTT(60) DEF Inv, Types, TrackedHeld, Held, In
<1>9. FlowsSound'
  BY <1>6, <1>7, FlowSound DEF FlowsSound, Sound, Placed, Sealed, In, Shut, Excused
<1>10. LoopsCounted'
  <2>1. \A g \in Flows : Counted(flow[g]) => Counted(flow'[g]) /\ flow'[g].dst = flow[g].dst
    BY <1>4, <1>6, <1>7, SMTT(60) DEF r
  <2>2. \A g \in Flows : Counted(flow[g]) => Counted(flow[g])' /\ flow[g].dst' = flow[g].dst
    BY <2>1 DEF Counted, In
  <2> QED
    BY <1>1, <2>2, LoopsKept, SMTT(60) DEF Inv
<1>11. ToldOnce'
  <2>1. \A g \in Flows : (Due(flow'[g]) => Due(flow[g])) /\ (ToldTwice(flow[g]) => ToldTwice(flow'[g]))
    BY <1>6, <1>7 DEF r
  <2> QED
    BY <1>1, <2>1, ToldKept DEF Inv
<1>12. Types'
  BY <1>1, <1>7 DEF Inv, Types
<1> QED
  BY <1>8, <1>9, <1>10, <1>11, <1>12 DEF Inv

\* One more flow is counted for its destination, and no flow elsewhere is forgotten.
LEMMA loopAssocKeeps ==
    ASSUME Inv, NEW f \in Flows, loopAssoc(f)
    PROVE  Inv'
<1> DEFINE r == flow[f]
           p == IF r.kind = "icmp" THEN "probe" ELSE "track"
           s == [r EXCEPT !.pc = p, !.bg = TRUE]
<1>1. /\ r.pc = "assoc" /\ flow' = [flow EXCEPT ![f] = s]
      /\ \/ r.exit /\ looptracker' = looptracker
         \/ looptracker' = [d \in Dsts |-> 0]
         \/ ~r.exit /\ looptracker' = [looptracker EXCEPT ![r.dst] = @ + 1]
      /\ UNCHANGED <<proto, smmch, tracked, posted>>
  BY Zenon DEF loopAssoc, hvars
<1>2. Sound(r) /\ r \in FlowStates /\ r.dst \in Dsts /\ r.exit \in BOOLEAN
  BY FlowSound, FieldTypes
<1>3. p \in Steps
  BY StepNames
<1> HIDE DEF r
<1>4. /\ s \in FlowStates /\ s.pc = p /\ s.kind = r.kind /\ s.dst = r.dst
      /\ s.stall = r.stall /\ s.verdict = r.verdict /\ s.gconn = r.gconn /\ s.exit = r.exit
      /\ s.remote = r.remote
  BY <1>2, <1>3, Zenon DEF FlowStates
<1> HIDE DEF s
<1>5. /\ Step(r, s)
      /\ ~Counted(r)
      /\ ~r.exit => Counted(s)
  BY <1>1, <1>2, <1>4
     DEF Step, Sound, Placed, Sealed, In, Shut, Excused, Held, Counted, Due, ToldTwice
<1>6. /\ flow' \in [Flows -> FlowStates]
      /\ \A g \in Flows : flow'[g] = IF g = f THEN s ELSE flow[g]
      /\ \A g \in Flows : Step(flow[g], flow'[g])
  BY <1>1, <1>4, <1>5, OneMoves, Zenon DEF r
<1>7. FlowsSound' /\ TrackedHeld' /\ ToldOnce'
  BY <1>1, <1>6, StepsKeep
<1>8. LoopsCounted'
  <2>1. CASE looptracker' = looptracker
    BY <2>1, <1>6, StepsKeep
  <2>2. CASE looptracker' = [d \in Dsts |-> 0]
    <3>1. \A d \in Dsts : Cardinality(Assoc(d)') \in Nat
      <4> TAKE d \in Dsts
      <4>1. Assoc(d)' \in SUBSET Flows
        BY DEF Assoc
      <4> QED
        BY <4>1, FS_Subset, FS_CardinalityType, FlowHandlerAssumption
    <3> QED
      BY <2>2, <3>1 DEF LoopsCounted
  <2>3. CASE ~r.exit /\ looptracker' = [looptracker EXCEPT ![r.dst] = @ + 1]
    <3> SUFFICES ASSUME NEW d \in Dsts
                 PROVE  looptracker'[d] <= Cardinality(Assoc(d)')
      BY DEF LoopsCounted
    <3>1. Assoc(d)' = IF d = r.dst THEN Assoc(d) \cup {f} ELSE Assoc(d)
      <4>1. \A g \in Flows : flow[g]' = IF g = f THEN s ELSE flow[g]
        BY <1>6
      <4>2. \A g \in Flows : g \in Assoc(d)' <=> Counted(flow'[g]) /\ flow'[g].dst = d
        BY DEF Assoc, Counted, In
      <4>3. \A g \in Flows : g \in Assoc(d) <=> Counted(flow[g]) /\ flow[g].dst = d
        BY DEF Assoc
      <4>4. \A g \in Flows : g \in Assoc(d)' <=>
              (IF g = f THEN d = r.dst ELSE g \in Assoc(d))
        BY <1>4, <1>5, <1>6, <2>3, <4>2, <4>3
      <4>5. Assoc(d)' \subseteq Flows /\ Assoc(d) \subseteq Flows /\ f \notin Assoc(d)
        BY <1>5 DEF Assoc, r
      <4> QED
        BY <4>4, <4>5
    <3>2. f \notin Assoc(d)
      BY <1>5 DEF Assoc, r
    <3>3. IsFiniteSet(Assoc(d)) /\ Cardinality(Assoc(d)) \in Nat
      BY AssocFinite
    <3>4. Cardinality(Assoc(d) \cup {f}) = Cardinality(Assoc(d)) + 1
      BY <3>2, <3>3, FS_AddElement, Zenon
    <3>5. looptracker[d] \in Nat /\ looptracker[d] <= Cardinality(Assoc(d))
      BY DEF Inv, Types, LoopsCounted
    <3>6. looptracker'[d] = IF d = r.dst THEN looptracker[d] + 1 ELSE looptracker[d]
      BY <2>3 DEF Inv, Types
    <3> QED
      BY <3>1, <3>3, <3>4, <3>5, <3>6
  <2> QED
    BY <1>1, <2>1, <2>2, <2>3
<1>9. looptracker' \in [Dsts -> Nat]
  BY <1>1, <1>2, SMTT(60) DEF Inv, Types
<1>10. Types'
  BY <1>1, <1>6, <1>9 DEF Inv, Types
<1> QED
  BY <1>7, <1>8, <1>10 DEF Inv

\* A flow that was counted is uncounted, if its count was not dropped before.
LEMMA loopUnassocKeeps ==
    ASSUME Inv, NEW f \in Flows, loopUnassoc(f)
    PROVE  Inv'
<1> DEFINE r == flow[f]
           s == IF r.kind = "icmp" THEN Summarise(r, "over") ELSE [r EXCEPT !.pc = "over"]
<1>1. /\ r.pc = "unassoc" /\ flow' = [flow EXCEPT ![f] = s]
      /\ \/ r.exit /\ looptracker' = looptracker
         \/ looptracker' = [d \in Dsts |-> 0]
         \/ /\ ~r.exit
            /\ looptracker' = [looptracker EXCEPT ![r.dst] = IF @ = 0 THEN 0 ELSE @ - 1]
      /\ UNCHANGED <<proto, smmch, tracked, posted>>
  BY DEF loopUnassoc, hvars
<1>2. Sound(r) /\ r \in FlowStates /\ r.dst \in Dsts /\ r.exit \in BOOLEAN
  BY FlowSound, FieldTypes
<1> HIDE DEF r
<1>3. /\ s \in FlowStates /\ s.kind = r.kind /\ s.dst = r.dst /\ s.stall = r.stall
      /\ s.verdict = r.verdict /\ s.gconn = r.gconn /\ s.remote = r.remote /\ s.exit = r.exit
      /\ r.kind = "icmp" => s.pc = "outer" /\ s.then = "over"
      /\ r.kind # "icmp" => s.pc = "over"
  <2>1. "over" \in Steps
    BY StepNames
  <2>2. CASE r.kind = "icmp"
    BY <1>2, <2>1, <2>2, SummariseFields
  <2>3. CASE r.kind # "icmp"
    BY <1>2, <2>1, <2>3, SMTT(60) DEF FlowStates
  <2> QED
    BY <2>2, <2>3
<1> HIDE DEF s
<1>4. /\ Sound(s) /\ ~Held(r) /\ (Due(s) => Due(r)) /\ (ToldTwice(r) => ToldTwice(s))
      /\ Counted(r) <=> ~r.exit
      /\ ~Counted(s)
  BY <1>1, <1>2, <1>3
     DEF Sound, Placed, Sealed, In, Shut, Excused, Held, Counted, Due, ToldTwice
<1>5. /\ flow' \in [Flows -> FlowStates]
      /\ \A g \in Flows : flow'[g] = IF g = f THEN s ELSE flow[g]
  BY <1>1, <1>3, OneMoves, Zenon DEF r
<1>6. FlowsSound'
  <2>1. \A g \in Flows : Sound(flow'[g])
    BY <1>4, <1>5, FlowSound
  <2> QED
    BY <2>1, SMTT(60) DEF FlowsSound
<1>7. TrackedHeld'
  <2>1. f \notin tracked
    BY <1>4 DEF r, Inv, TrackedHeld
  <2>2. \A g \in tracked : flow'[g] = flow[g] /\ Held(flow[g])
    BY <2>1, <1>5 DEF Inv, Types, TrackedHeld
  <2> QED
    BY <1>1, <2>2 DEF TrackedHeld
<1>8. ToldOnce'
  <2>1. \A g \in Flows : /\ Due(flow'[g]) => Due(flow[g])
                         /\ ToldTwice(flow[g]) => ToldTwice(flow'[g])
    BY <1>4, <1>5 DEF r
  <2> QED
    BY <1>1, <2>1, ToldKept DEF Inv
<1>9. LoopsCounted'
  <2> SUFFICES ASSUME NEW d \in Dsts
               PROVE  looptracker'[d] <= Cardinality(Assoc(d)')
    BY DEF LoopsCounted
  <2>1. Assoc(d)' = Assoc(d) \ {f}
    <3>1. \A g \in Flows : g \in Assoc(d)' <=> Counted(flow'[g]) /\ flow'[g].dst = d
      BY DEF Assoc, Counted, In
    <3>2. \A g \in Flows : g \in Assoc(d) <=> Counted(flow[g]) /\ flow[g].dst = d
      BY DEF Assoc
    <3>3. \A g \in Flows : g \in Assoc(d)' <=> g # f /\ g \in Assoc(d)
      BY <1>4, <1>5, <3>1, <3>2, SMTT(60)
    <3>4. Assoc(d)' \subseteq Flows /\ Assoc(d) \subseteq Flows
      BY DEF Assoc
    <3> QED
      BY <3>3, <3>4
  <2>2. f \in Assoc(d) <=> ~r.exit /\ d = r.dst
    BY <1>4 DEF Assoc, r
  <2>3. IsFiniteSet(Assoc(d)) /\ Cardinality(Assoc(d)) \in Nat
    BY AssocFinite
  <2>4. /\ IsFiniteSet(Assoc(d)')
        /\ Cardinality(Assoc(d)') =
             IF ~r.exit /\ d = r.dst THEN Cardinality(Assoc(d)) - 1 ELSE Cardinality(Assoc(d))
    BY <2>1, <2>2, <2>3, FS_RemoveElement
  <2>5. Cardinality(Assoc(d)') \in Nat
    BY <2>4, FS_CardinalityType
  <2>6. looptracker[d] \in Nat /\ looptracker[d] <= Cardinality(Assoc(d))
    BY DEF Inv, Types, LoopsCounted
  <2>7. CASE r.exit /\ looptracker' = looptracker
    BY <2>4, <2>6, <2>7
  <2>8. CASE looptracker' = [e \in Dsts |-> 0]
    BY <2>5, <2>8
  <2>9. CASE ~r.exit /\ looptracker' = [looptracker EXCEPT ![r.dst] = IF @ = 0 THEN 0 ELSE @ - 1]
    <3>1. looptracker'[d] = IF d = r.dst /\ looptracker[d] # 0 THEN looptracker[d] - 1
                            ELSE looptracker[d]
      BY <2>9, <2>6 DEF Inv, Types
    <3> QED
      BY <2>3, <2>4, <2>5, <2>6, <2>9, <3>1, SMTT(60)
  <2> QED
    BY <1>1, <2>7, <2>8, <2>9
<1>10. looptracker' \in [Dsts -> Nat]
  <2>1. looptracker \in [Dsts -> Nat]
    BY DEF Inv, Types
  <2>2. (IF looptracker[r.dst] = 0 THEN 0 ELSE looptracker[r.dst] - 1) \in Nat
    BY <1>2, <2>1
  <2> QED
    BY <1>1, <2>1, <2>2
<1>11. Types'
  BY <1>1, <1>5, <1>10, SMTT(60) DEF Inv, Types
<1> QED
  BY <1>6, <1>7, <1>8, <1>9, <1>11 DEF Inv

\* A flow that is due is told of, and is not due any more.
LEMMA ToldNow ==
    ASSUME Types, ToldOnce, NEW f \in Flows,
           \A g \in Flows \ {f} : flow'[g] = flow[g] /\ posted'[g] = posted[g] /\ Queued(g)' = Queued(g),
           posted'[f] + Queued(f)' \in {posted[f] + Queued(f), posted[f] + Queued(f) + 1},
           Due(flow[f]), ~Due(flow'[f]) \/ ToldTwice(flow'[f]),
           ToldTwice(flow[f]) => ToldTwice(flow'[f])
    PROVE  ToldOnce'
<1> SUFFICES ASSUME NEW g \in Flows
             PROVE  \/ ToldTwice(flow'[g])
                    \/ posted'[g] + Queued(g)' <= (IF Due(flow'[g]) THEN 0 ELSE 1)
  BY DEF ToldOnce, ToldTwice, Due
<1>1. \/ ToldTwice(flow[g])
      \/ posted[g] + Queued(g) <= (IF Due(flow[g]) THEN 0 ELSE 1)
  BY DEF ToldOnce
<1>2. posted[g] + Queued(g) \in Int
  BY QueuedType DEF Types
<1>3. CASE g = f
  BY <1>1, <1>2, <1>3, SMTT(60)
<1>4. CASE g # f
  BY <1>1, <1>4
<1> QED
  BY <1>3, <1>4, SMTT(60)

\* A flow to the resolver is served, and told of at once.
LEMMA DnsKeeps ==
    ASSUME Inv, NEW f \in Flows, Dns(f)
    PROVE  Inv'
<1> DEFINE r == flow[f]
           c == WithConnsClosed(r)
           s == [c EXCEPT !.pc = "over"]
<1>1. /\ r.pc = "dns" /\ flow' = [flow EXCEPT ![f] = s]
      /\ posted' = [posted EXCEPT ![f] = @ + 1]
      /\ UNCHANGED <<proto, smmch, tracked, looptracker>>
  BY DEF Dns, hvars
<1>2. Sound(r) /\ r \in FlowStates
  BY FlowSound
<1> HIDE DEF r
<1>3. /\ s \in FlowStates /\ s.pc = "over" /\ s.kind = r.kind /\ s.dst = r.dst
      /\ s.stall = r.stall /\ s.verdict = r.verdict /\ s.exit = r.exit
      /\ s.gconn = Closed(r.gconn) /\ s.remote = Closed(r.remote)
  <2>1. /\ c \in FlowStates /\ c.kind = r.kind /\ c.dst = r.dst
        /\ c.stall = r.stall /\ c.verdict = r.verdict /\ c.exit = r.exit
        /\ c.gconn = Closed(r.gconn) /\ c.remote = Closed(r.remote)
    BY <1>2, ClosedFields
  <2> HIDE DEF c
  <2> QED
    BY <2>1, StepNames DEF FlowStates
<1> HIDE DEF s
<1>4. s.gconn # "open" /\ s.remote # "open"
  BY <1>3, SMTT(60) DEF Closed
<1>5. Step(r, s) /\ Due(r) /\ ~Due(s)
  BY <1>1, <1>2, <1>3, <1>4
     DEF Step, Sound, Placed, Sealed, In, Shut, Excused, Held, Counted, Due, ToldTwice
<1>6. /\ flow' \in [Flows -> FlowStates]
      /\ \A g \in Flows : flow'[g] = IF g = f THEN s ELSE flow[g]
      /\ \A g \in Flows : Step(flow[g], flow'[g])
  BY <1>1, <1>3, <1>5, OneMoves, Zenon DEF r
<1>7. FlowsSound' /\ TrackedHeld' /\ LoopsCounted'
  BY <1>1, <1>6, StepsKeep, SMTT(60)
<1>8. ToldOnce'
  <2>1. \A g : Queued(g)' = Queued(g)
    BY <1>1 DEF Queued
  <2>2. /\ \A g \in Flows \ {f} : flow'[g] = flow[g] /\ posted'[g] = posted[g]
        /\ posted'[f] = posted[f] + 1 /\ posted[f] \in Nat /\ Queued(f) \in Nat
    BY <1>1, <1>6, QueuedType DEF Inv, Types
  <2>3. posted'[f] + Queued(f)' = posted[f] + Queued(f) + 1
    BY <2>1, <2>2
  <2>4. Due(flow[f]) /\ ~Due(flow'[f]) /\ (ToldTwice(flow[f]) => ToldTwice(flow'[f]))
    BY <1>5, <1>6 DEF r, Step
  <2> QED
    BY <2>1, <2>2, <2>3, <2>4, ToldNow DEF Inv
<1>9. posted' \in [Flows -> Nat]
  BY <1>1 DEF Inv, Types
<1>10. Types'
  BY <1>1, <1>6, <1>9 DEF Inv, Types
<1> QED
  BY <1>7, <1>8, <1>10 DEF Inv

\* What the inner select may do to the queue.
LEMMA InnerSelects ==
    ASSUME Inv, NEW f \in Flows, InnerSelect(f) \/ smmch' = smmch
    PROVE  /\ smmch' \in Seq(Flows)
           /\ \A g \in Flows \ {f} : Queued(g)' = Queued(g)
           /\ Queued(f)' \in {Queued(f), Queued(f) + 1}
           /\ Queued(f) \in Nat
<1>1. smmch' = smmch \/ smmch' = Append(smmch, f)
  BY DEF InnerSelect
<1>2. Queued(f) \in Nat
  BY QueuedType DEF Inv
<1>3. CASE smmch' = smmch
  BY <1>2, <1>3 DEF Queued, Inv, Types
<1>4. CASE smmch' = Append(smmch, f)
  <2>1. smmch' \in Seq(Flows)
    BY <1>4 DEF Inv, Types
  <2>2. \A g : Queued(g)' = IF g = f THEN Queued(g) + 1 ELSE Queued(g)
    BY <1>4, QueuedAppend DEF Inv
  <2> QED
    BY <1>2, <2>1, <2>2
<1> QED
  BY <1>1, <1>3, <1>4

\* A flow leaves the inner select, its summary queued or not.
LEMMA InnerKeeps ==
    ASSUME Inv, NEW f \in Flows, NEW s, flow' = [flow EXCEPT ![f] = s],
           Step(flow[f], s), Due(flow[f]), ~Due(s) \/ ToldTwice(s),
           InnerSelect(f) \/ smmch' = smmch,
           UNCHANGED <<proto, tracked, looptracker, posted>>
    PROVE  Inv'
<1>1. s \in FlowStates
  BY DEF Step, Sound
<1>2. /\ flow' \in [Flows -> FlowStates]
      /\ \A g \in Flows : flow'[g] = IF g = f THEN s ELSE flow[g]
      /\ \A g \in Flows : Step(flow[g], flow'[g])
  BY <1>1, OneMoves, Zenon
<1>3. FlowsSound' /\ TrackedHeld' /\ LoopsCounted'
  BY <1>2, StepsKeep
<1>4. /\ smmch' \in Seq(Flows)
      /\ \A g \in Flows \ {f} : Queued(g)' = Queued(g)
      /\ Queued(f)' \in {Queued(f), Queued(f) + 1}
      /\ Queued(f) \in Nat
  BY InnerSelects, SMTT(60)
<1>5. ToldOnce'
  <2>1. \A g \in Flows \ {f} : flow'[g] = flow[g] /\ posted'[g] = posted[g] /\ Queued(g)' = Queued(g)
    BY <1>2, <1>4
  <2>2. posted'[f] + Queued(f)' \in {posted[f] + Queued(f), posted[f] + Queued(f) + 1}
    BY <1>4 DEF Inv, Types
  <2>3. ToldTwice(flow[f]) => ToldTwice(flow'[f])
    BY <1>2 DEF Step
  <2>4. ~Due(flow'[f]) \/ ToldTwice(flow'[f])
    BY <1>2
  <2> QED
    BY <2>1, <2>2, <2>3, <2>4, ToldNow, SMTT(60) DEF Inv
<1>6. Types'
  BY <1>2, <1>4 DEF Inv, Types
<1> QED
  BY <1>3, <1>5, <1>6 DEF Inv

\* The inner select of queueSummary sends the summary, or drops it.
LEMMA SummaryInnerKeeps ==
    ASSUME Inv, NEW f \in Flows, SummaryInner(f)
    PROVE  Inv'
<1> DEFINE r == flow[f]
           s == [r EXCEPT !.pc = r.then]
<1>1. /\ r.pc = "inner" /\ flow' = [flow EXCEPT ![f] = s]
      /\ InnerSelect(f) \/ smmch' = smmch
      /\ UNCHANGED <<proto, tracked, looptracker, posted>>
  BY DEF SummaryInner, hvars
<1>2. Sound(r) /\ r \in FlowStates /\ r.then \in Steps
  BY FlowSound, FieldTypes
<1> HIDE DEF r
<1>3. /\ s \in FlowStates /\ s.pc = r.then /\ s.then = r.then /\ s.bg = r.bg
      /\ s.kind = r.kind /\ s.dst = r.dst /\ s.stall = r.stall /\ s.verdict = r.verdict
      /\ s.gconn = r.gconn /\ s.remote = r.remote /\ s.exit = r.exit
  BY <1>2 DEF FlowStates
<1> HIDE DEF s
<1>4. r.then \in {"over", "close", "untrack"}
  BY <1>1, <1>2, SMTT(60) DEF Sound, Placed
<1>5. Step(r, s)
  BY <1>1, <1>2, <1>3, <1>4, SMTT(60)
     DEF Step, Sound, Placed, Sealed, In, Shut, Excused, Held, Counted, Due, ToldTwice
<1>6. Due(r) /\ (~Due(s) \/ ToldTwice(s))
  BY <1>1, <1>2, <1>3, <1>4 DEF Sound, Placed, Due, ToldTwice
<1> QED
  BY <1>1, <1>5, <1>6, InnerKeeps, Zenon DEF r

\* So does that of a stalled flow.
LEMMA StallInnerKeeps ==
    ASSUME Inv, NEW f \in Flows, StallInner(f)
    PROVE  Inv'
<1> DEFINE r == flow[f]
           s == [r EXCEPT !.stall = "close"]
<1>1. /\ r.stall = "inner" /\ flow' = [flow EXCEPT ![f] = s]
      /\ InnerSelect(f) \/ smmch' = smmch
      /\ UNCHANGED <<proto, tracked, looptracker, posted>>
  BY DEF StallInner, hvars
<1>2. Sound(r) /\ r \in FlowStates
  BY FlowSound
<1> HIDE DEF r
<1>3. /\ s \in FlowStates /\ s.pc = r.pc /\ s.then = r.then /\ s.bg = r.bg
      /\ s.kind = r.kind /\ s.dst = r.dst /\ s.stall = "close" /\ s.verdict = r.verdict
      /\ s.gconn = r.gconn /\ s.remote = r.remote /\ s.exit = r.exit
  BY <1>2, SMTT(60) DEF FlowStates
<1> HIDE DEF s
<1>4. Step(r, s) /\ Due(r) /\ (~Due(s) \/ ToldTwice(s))
  BY <1>1, <1>2, <1>3
     DEF Step, Sound, Placed, Sealed, In, Shut, Excused, Held, Counted, Due, ToldTwice
<1> QED
  BY <1>1, <1>4, InnerKeeps, Zenon DEF r

\* The listener is told of the next flow in the channel.
LEMMA PostflowKeeps ==
    ASSUME Inv, Postflow
    PROVE  Inv'
<1>1. /\ smmch # << >> /\ smmch' = Tail(smmch)
      /\ posted' = [posted EXCEPT ![Head(smmch)] = @ + 1]
      /\ UNCHANGED <<proto, flow, tracked, looptracker>>
  BY DEF Postflow, hvars
<1>2. smmch \in Seq(Flows) /\ Head(smmch) \in Flows /\ smmch' \in Seq(Flows)
  BY <1>1 DEF Inv, Types
<1>3. posted \in [Flows -> Nat] /\ posted' \in [Flows -> Nat]
  BY <1>1, <1>2 DEF Inv, Types
<1>4. Types'
  BY <1>1, <1>2, <1>3, SMTT(60) DEF Inv, Types
<1>5. FlowsSound' /\ TrackedHeld' /\ LoopsCounted'
  <2>1. flow' \in [Flows -> FlowStates]
    BY <1>1 DEF Inv, Types
  <2>2. \A g \in Flows : Step(flow[g], flow'[g])
    BY <1>1, FlowSound, StepStutters, Zenon
  <2> QED
    BY <1>1, <2>1, <2>2, StepsKeep
<1>6. ToldOnce'
  <2> SUFFICES ASSUME NEW g \in Flows
               PROVE  \/ ToldTwice(flow[g])
                      \/ posted'[g] + Queued(g)' <= (IF Due(flow[g]) THEN 0 ELSE 1)
    BY <1>1 DEF ToldOnce, ToldTwice, Due
  <2>1. Queued(g) = IF g = Head(smmch) THEN Queued(g)' + 1 ELSE Queued(g)'
    BY <1>1, QueuedTail DEF Inv
  <2>2. posted'[g] = IF g = Head(smmch) THEN posted[g] + 1 ELSE posted[g]
    BY <1>1, <1>2, <1>3
  <2>3. Queued(g) \in Nat /\ posted[g] \in Nat
    BY <1>3, QueuedType DEF Inv
  <2>4. Queued(g)' \in Nat
    BY <1>2, OccursFinite, ZenonT(60) DEF Queued
  <2>5. posted'[g] + Queued(g)' = posted[g] + Queued(g)
    BY <2>1, <2>2, <2>3, <2>4
  <2> QED
    BY <2>5 DEF Inv, ToldOnce
<1> QED
  BY <1>4, <1>5, <1>6 DEF Inv

-----------------------------------------------------------------------------
(* closing, ending, resetting *)

\* Closing the conns of a flow under it disturbs nothing it relies on.
LEMMA ClosedUnder ==
    ASSUME NEW r, Sound(r)
    PROVE  Step(r, WithConnsClosed(r))
<1> DEFINE s == WithConnsClosed(r)
<1>1. r \in FlowStates
  BY DEF Sound
<1>2. /\ s \in FlowStates /\ s.pc = r.pc /\ s.then = r.then /\ s.bg = r.bg
      /\ s.kind = r.kind /\ s.dst = r.dst /\ s.stall = r.stall /\ s.verdict = r.verdict
      /\ s.gconn = Closed(r.gconn) /\ s.remote = Closed(r.remote) /\ s.exit = r.exit
  BY <1>1, ClosedFields, SMTT(60)
<1>3. s.gconn # "open" /\ s.remote # "open"
  BY <1>2, SMTT(60) DEF Closed
<1> HIDE DEF s
<1>4. Step(r, s)
  BY <1>1, <1>2, <1>3
     DEF Step, Sound, Placed, Sealed, In, Shut, Excused, Held, Counted, Due, ToldTwice
<1> QED
  BY <1>4 DEF s

\* Some of the tracked flows have their conns closed.
LEMMA ClearedKeeps ==
    ASSUME Inv, NEW fs, Cleared(fs), UNCHANGED <<proto, smmch, looptracker, posted>>
    PROVE  Inv'
<1>1. \A g \in Flows : /\ flow'[g] \in {flow[g], WithConnsClosed(flow[g])}
                       /\ Step(flow[g], flow'[g])
  BY FlowSound, ClosedUnder, StepStutters, SMTT(60) DEF Cleared
<1>2. flow' \in [Flows -> FlowStates]
  BY <1>1 DEF Cleared, Step, Sound
<1>3. tracked' \subseteq tracked
  BY DEF Cleared
<1>4. FlowsSound' /\ TrackedHeld' /\ LoopsCounted' /\ ToldOnce'
  BY <1>1, <1>2, <1>3, StepsKeep
<1>5. Types'
  BY <1>2, <1>3 DEF Inv, Types
<1> QED
  BY <1>4, <1>5 DEF Inv

\* Flows stay as they are, and the loop table is kept or cleared.
LEMMA StutterKeeps ==
    ASSUME Inv, UNCHANGED <<proto, flow, smmch, tracked, posted>>,
           looptracker' = looptracker \/ looptracker' = [d \in Dsts |-> 0]
    PROVE  Inv'
<1>1. \A g \in Flows : Step(flow[g], flow'[g])
  BY FlowSound, StepStutters
<1>2. flow' \in [Flows -> FlowStates]
  BY DEF Inv, Types
<1>3. FlowsSound' /\ TrackedHeld' /\ ToldOnce' /\ (looptracker' = looptracker => LoopsCounted')
  BY <1>1, <1>2, StepsKeep
<1>4. ASSUME looptracker' = [d \in Dsts |-> 0]
      PROVE  LoopsCounted'
  <2> SUFFICES ASSUME NEW d \in Dsts
               PROVE  0 <= Cardinality(Assoc(d)')
    BY <1>4 DEF LoopsCounted
  <2>1. Assoc(d)' \in SUBSET Flows
    BY DEF Assoc
  <2>2. Cardinality(Assoc(d)') \in Nat
    BY <2>1, FS_Subset, FS_CardinalityType, FlowHandlerAssumption
  <2> QED
    BY <2>2
<1>5. Types'
  BY DEF Inv, Types
<1> QED
  BY <1>3, <1>4, <1>5 DEF Inv

-----------------------------------------------------------------------------

\* At first no flow has begun.
LEMMA InitInv ==
    ASSUME Init
    PROVE  Inv
<1>1. flow \in [Flows -> FlowStates]
  <2>1. [pc : {"idle"}, then : {"over"}, bg : {FALSE}, stall : {"none"},
         kind : {"none"}, verdict : {"none"}, gconn : {"none"},
         remote : {"none"}, dst : Dsts, exit : {FALSE}] \subseteq FlowStates
    BY StepNames, Zenon DEF FlowStates
  <2> QED
    BY <2>1, Zenon DEF Init
<1>2. \A f \in Flows : /\ flow[f].pc = "idle" /\ flow[f].then = "over" /\ flow[f].stall = "none"
                       /\ flow[f].kind = "none" /\ flow[f].verdict = "none"
  BY Zenon DEF Init
<1>3. FlowsSound
  BY <1>1, <1>2 DEF FlowsSound, Sound, Placed, Sealed, In, Shut, Excused
<1>4. Types /\ TrackedHeld
  BY <1>1 DEF Init, Types, TrackedHeld
<1>5. LoopsCounted
  BY AssocFinite DEF Init, LoopsCounted
<1>6. ToldOnce
  <2> SUFFICES ASSUME NEW f \in Flows
               PROVE  posted[f] + Queued(f) = 0
    BY DEF ToldOnce
  <2>1. smmch = << >>
    BY DEF Init
  <2>2. {i \in DOMAIN smmch : smmch[i] = f} = {}
    BY <2>1
  <2>3. Queued(f) = 0
    BY <2>2, FS_EmptySet DEF Queued
  <2> QED
    BY <2>3 DEF Init
<1> QED
  BY <1>3, <1>4, <1>5, <1>6 DEF Inv

\* Every step keeps the invariant.
LEMMA NextInv ==
    ASSUME Inv, [Next]_vars
    PROVE  Inv'
<1>1. ASSUME NEW f \in Flows, NEW k \in Kinds[proto], Begin(f, k)
      PROVE  Inv'
  BY <1>1, BeginKeeps
<1>2. ASSUME NEW f \in Flows, FlowStep(f)
      PROVE  Inv'
  <2>1. ASSUME NEW ok \in BOOLEAN,
               \/ Establish(f, ok) \/ Synack(f, ok) \/ Dial(f, ok)
               \/ Handshake(f, ok) \/ Probe(f, ok)
        PROVE  Inv'
    BY <2>1, EstablishKeeps, SynackKeeps, DialKeeps, HandshakeKeeps, ProbeKeeps
  <2>2. ASSUME NEW v \in {"block", "dns", "allow"}, NEW exit \in BOOLEAN, OnFlow(f, v, exit)
        PROVE  Inv'
    BY <2>2, OnFlowKeeps
  <2>3. CASE Dns(f) \/ CloseGconn(f) \/ loopAssoc(f) \/ loopUnassoc(f) \/ Track(f) \/ Untrack(f)
    BY <2>3, DnsKeeps, CloseGconnKeeps, loopAssocKeeps, loopUnassocKeeps, TrackKeeps, UntrackKeeps, SMTT(60)
  <2>4. CASE SummaryOuter(f) \/ SummaryInner(f) \/ Stall(f) \/ StallInner(f)
    BY <2>4, SummaryOuterKeeps, SummaryInnerKeeps, StallKeeps, StallInnerKeeps
  <2> QED
    BY <1>2, <2>1, <2>2, <2>3, <2>4 DEF FlowStep
<1>3. ASSUME NEW f \in Flows, Piped(f)
      PROVE  Inv'
  BY <1>3, PipedKeeps
<1>4. ASSUME NEW f \in Flows, CloseConns(f)
      PROVE  Inv'
  BY <1>4, ClearedKeeps DEF CloseConns, hvars
<1>5. CASE Postflow
  BY <1>5, PostflowKeeps
<1>6. CASE EndClear \/ ResetClear
  BY <1>6, ClearedKeeps, SMTT(60) DEF EndClear, ResetClear
<1>7. CASE Cancel \/ EndStatus \/ EndClose \/ ResetStatus \/ Toggle
  BY <1>7, StutterKeeps DEF Cancel, EndStatus, EndClose, ResetStatus, Toggle
<1>8. CASE ResetLoops
  BY <1>8, StutterKeeps DEF ResetLoops
<1>9. CASE UNCHANGED vars
  BY <1>9, StutterKeeps DEF vars
<1> QED
  BY <1>1, <1>2, <1>3, <1>4, <1>5, <1>6, <1>7, <1>8, <1>9, SMTT(60) DEF Next

\* The invariant holds of every behaviour of the handler.
LEMMA Invariance == Spec => []Inv
<1>1. Init => Inv
  BY InitInv
<1>2. Inv /\ [Next]_vars => Inv'
  BY NextInv
<1> QED
  BY <1>1, <1>2, PTL DEF Spec

-----------------------------------------------------------------------------

\* Whatever way a flow of Proxy, ReverseProxy, Connect, Error or Ping goes, its conns
\* are closed when it is over, but for inbound tcp whose handshake fails.
THEOREM FlowsCloseTheirConns == Spec => []ConnsClosed
<1>1. Inv => ConnsClosed
  <2> SUFFICES ASSUME Inv, NEW f \in Flows, Over(f)
               PROVE  Shut(flow[f]) \/ Excused(flow[f])
    BY DEF ConnsClosed, Shut, Excused
  <2>1. Sound(flow[f])
    BY FlowSound
  <2> QED
    BY <2>1 DEF Over, Sound, Sealed, In, Shut
<1> QED
  BY <1>1, Invariance, PTL

\* What forward tracks is untracked before its flow is over, with CloseConns, End and
\* Reset clearing the tracker in between.
THEOREM TrackerHoldsNoneThatIsOver == Spec => []TrackedAreLive
<1>1. Inv => TrackedAreLive
  BY DEF Inv, TrackedHeld, TrackedAreLive, Held, In, Over
<1> QED
  BY <1>1, Invariance, PTL

\* No path through the handlers queues a second summary of a flow, blocked udp apart.
THEOREM FlowsAreToldOfOnce == Spec => []OneSummary
<1>1. Inv => OneSummary
  <2> SUFFICES ASSUME Inv, NEW f \in Flows, ~ToldTwice(flow[f])
               PROVE  posted[f] + Queued(f) <= 1
    BY DEF OneSummary, ToldTwice
  <2>1. posted[f] \in Nat /\ Queued(f) \in Nat
    BY QueuedType DEF Inv, Types
  <2> QED
    BY <2>1 DEF Inv, ToldOnce
<1> QED
  BY <1>1, Invariance, PTL

\* loopAssoc and loopUnassoc leave no count behind, however settings.Loopingback changes
\* and whenever Reset drops all counts.
THEOREM LoopCountsEndWithFlows == Spec => []NoLoopsLeft
<1>1. Inv => NoLoopsLeft
  <2> SUFFICES ASSUME Inv, \A f \in Flows : flow[f].pc \in {"idle", "over"}, NEW d \in Dsts
               PROVE  looptracker[d] = 0
    BY DEF NoLoopsLeft
  <2>1. Assoc(d) = {}
    BY DEF Assoc, Counted, In
  <2>2. Cardinality(Assoc(d)) = 0
    BY <2>1, FS_EmptySet
  <2> QED
    BY <2>2 DEF Inv, Types, LoopsCounted
<1> QED
  BY <1>1, Invariance, PTL

=============================================================================
