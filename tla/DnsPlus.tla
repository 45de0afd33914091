------------------------------- MODULE DnsPlus -------------------------------
(***************************************************************************)
(* Plus (intra/dnsx/plus.go): a transport made of others.  A query tries   *)
(* them in an order that is worked out at most once in ttl10s, the last    *)
(* one that answered first, until one gives a good answer.                 *)
(***************************************************************************)
EXTENDS Naturals, Sequences, FiniteSets

CONSTANTS
    Own,            \* transports Add may bring, each [id, g, enc, mask]
    Default,        \* the resolver's Default transport, same shape
    Strats, Filters,\* settings.PlusStrat and PlusFilter choices
    MaxTries,       \* plusMaxTries
    MaxOps,         \* bound: calls of Add, Remove and Query
    Nil

VARIABLES transports, stopped, last, closed, memo, query, strat, filter, ops

vars == <<transports, stopped, last, closed, memo, query, strat, filter, ops>>

Init ==
    /\ transports = {} /\ stopped = {} /\ last = Nil /\ closed = FALSE
    /\ memo = Nil /\ query = Nil
    /\ strat \in Strats /\ filter \in Filters
    /\ ops = 0

op == ~closed /\ ops < MaxOps /\ ops' = ops + 1

\* One transport per id; the one replaced is stopped.
Add(t) ==
    /\ op
    /\ t \notin stopped
    /\ LET old == {u \in transports : u.id = t.id /\ u # t}
       IN  /\ transports' = (transports \ old) \cup {t}
           /\ stopped' = stopped \cup old
    /\ UNCHANGED <<last, closed, memo, query, strat, filter>>

Remove(t) ==
    /\ op
    /\ t \in transports
    /\ transports' = transports \ {t}
    /\ stopped' = stopped \cup {t}
    /\ UNCHANGED <<last, closed, memo, query, strat, filter>>

\* stopAll: Stop and the parent's context lead here.
stopAll ==
    /\ ~closed /\ closed' = TRUE
    /\ stopped' = stopped \cup transports
    /\ transports' = {} /\ last' = Nil
    /\ UNCHANGED <<memo, query, strat, filter, ops>>
-----------------------------------------------------------------------------
\* latest: the last that answered (else any, which leaves the order open).
latest == IF closed THEN {} ELSE IF last # Nil THEN {last} ELSE {}

\* fattr: what the resolver at this address is known to block (its mask).
fattr(t) == t.mask

\* ordered: the candidates, and the one to begin with.  Ended transports are
\* left out; "safest" keeps the encrypted ones; the filter keeps its own.
ordered ==
    LET live == {t \in transports : t \notin stopped} \cup latest \cup {Default}
        kept == IF strat = "safest" THEN {t \in live : t.enc} ELSE live
        passed == IF filter = Nil THEN kept ELSE {t \in kept : filter \in fattr(t)}
        IN  [all |-> passed,
         first |-> IF strat \in {"random", "fastest"} THEN {} ELSE latest \cap passed]

\* Query takes the order from the barrier, which may be an earlier one's.
Query ==
    /\ op
    /\ query = Nil
    /\ \E o \in {ordered} \cup (IF memo = Nil THEN {} ELSE {memo}) :
         IF o.all = {} THEN UNCHANGED <<memo, query>>
         ELSE /\ memo' = o
              /\ query' = [left |-> o.all, first |-> o.first, outs |-> <<>>,
                           ans |-> Nil, pc |-> "try"]
    /\ UNCHANGED <<transports, stopped, last, closed, strat, filter>>

Outcomes == {"err", "servfail", "block", "noans", "good"}
answers(o) == o # "err"

\* What the loop does with an outcome: n transports were visited with it.
goesOn(o, n) == CASE o = "good"  -> FALSE
                  [] o = "noans" -> n <= MaxTries \div 2
                  [] OTHER       -> TRUE

\* One turn of forward's loop: the transport of an id not yet visited.
forward(t, o) ==
    LET n == Len(query.outs) + 1
    IN  /\ query # Nil /\ query.pc = "try"
        /\ t \in query.left /\ (query.first # {} => t \in query.first)
        /\ Len(query.outs) < MaxTries
        /\ t \in stopped => o = "err"
        /\ query' = [query EXCEPT
              !.left = {u \in @ : u.id # t.id}, !.first = {},
              !.outs = Append(@, o),
              !.ans = IF answers(o) THEN o ELSE @,
              !.pc = IF goesOn(o, n) THEN "try" ELSE "done"]
        /\ last' = IF goesOn(o, n) THEN last ELSE t
        /\ UNCHANGED <<transports, stopped, closed, memo, strat, filter, ops>>

\* No transport is left, or enough were tried.
exhausted ==
    /\ query # Nil /\ query.pc = "try"
    /\ query.left = {} \/ Len(query.outs) = MaxTries
    /\ query' = [query EXCEPT !.pc = "done"]
    /\ UNCHANGED <<transports, stopped, last, closed, memo, strat, filter, ops>>

return ==
    /\ query # Nil /\ query.pc = "done"
    /\ query' = Nil
    /\ UNCHANGED <<transports, stopped, last, closed, memo, strat, filter, ops>>

Next == \/ \E t \in Own : Add(t) \/ Remove(t)
        \/ stopAll \/ Query \/ exhausted \/ return
        \/ \E t \in Own \cup {Default}, o \in Outcomes : forward(t, o)

Spec == Init /\ [][Next]_vars

-----------------------------------------------------------------------------
TypeOK ==
    /\ transports \subseteq Own /\ stopped \subseteq Own
    /\ last \in Own \cup {Default, Nil}
    /\ query # Nil => Len(query.outs) <= MaxTries

\* A block or an empty answer is passed on only when no transport tried gave
\* a good one, and only after others were tried: all of them, MaxTries of
\* them, or (an empty answer) more than half of MaxTries.
BlockIsLastResort ==
    (query # Nil /\ query.pc = "done" /\ query.ans \in {"block", "noans", "servfail"})
        => /\ \A k \in DOMAIN query.outs : query.outs[k] # "good"
           /\ \/ query.left = {} \/ Len(query.outs) = MaxTries
              \/ query.ans = "noans" /\ Len(query.outs) > MaxTries \div 2

\* An answer given by any of them is not lost to the errors of the others.
AnswerSurvivesErrors ==
    (query # Nil /\ query.pc = "done") =>
        (query.ans = Nil <=> \A k \in DOMAIN query.outs : query.outs[k] = "err")
=============================================================================
