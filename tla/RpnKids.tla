------------------------------- MODULE RpnKids ------------------------------
(* A WIN proxy's main and its forked kids, one per country (ipn/rpn.go), over  *)
(* the proxifier's table (ipn/proxy.go, ipn/proxies.go:1548-1562).  Calls from *)
(* the client, the goroutine that moves main out of a kid's way, and the       *)
(* goroutine that re-forks everyone after an update each drop the lock between *)
(* the table and their own books.                                              *)
EXTENDS Integers, FiniteSets

CONSTANTS CCs,          \* countries
          Excluded,     \* those the user's ops exclude
          Slots, Apis,  \* goroutines; those the client calls on
          Async,        \* those that an update's forkAll may run on
          FailIn,       \* goroutines whose addProxy may fail
          MaxCalls, Nil

VARIABLES kids,        \* r.kids
          px,          \* countries with a kid proxy in the table
          main, mainS, \* where main runs (Nil: not in the table); r.s
          reg,         \* registered in the proxifier
          job,         \* what each goroutine runs
          met,         \* history: countries whose fork and purge were half done at once
          calls

vars == <<kids, px, main, mainS, reg, job, met, calls>>

Idle == [k |-> "idle", pc |-> "idle", cc |-> Nil, todo |-> {}, excl |-> {}]

(* asRpnProxy: main runs in some country, no kids.                             *)
Init == /\ kids = {} /\ px = {}
        /\ main \in CCs \ Excluded /\ mainS = main /\ reg = TRUE
        /\ job = [s \in Slots |-> Idle] /\ met = {} /\ calls = 0

Goto(s, pc) == job' = [job EXCEPT ![s].pc = pc]
Proceed(s) == job' = [job EXCEPT ![s].pc = "next", ![s].cc = Nil, ![s].excl = {}]

HalfDone(pc) == {job[s].cc : s \in {g \in Slots : job[g].pc = pc}}

-----------------------------------------------------------------------------
(* The client's calls; the first goroutine that is idle takes the next.        *)
Call(s, k, pc, cc) ==
    /\ s \in Apis /\ job[s] = Idle /\ calls < MaxCalls
    /\ \A g \in Apis : job[g] = Idle => s <= g
    /\ calls' = calls + 1
    /\ job' = [job EXCEPT ![s] = [Idle EXCEPT !.k = k, !.pc = pc, !.cc = cc]]
    /\ UNCHANGED <<kids, px, main, mainS, reg, met>>

Fork(s, cc) == Call(s, "fork", "collide", cc)
Purge(s, cc) == Call(s, "purge", "remove", cc)
(* forkAll: in the call for Redo, in a goroutine for Update.                   *)
Redo(s) == Call(s, "all", "exclude", Nil)
Update(s) ==
    /\ s \in Async /\ job[s] = Idle /\ calls < MaxCalls
    /\ calls' = calls + 1
    /\ job' = [job EXCEPT ![s] = [Idle EXCEPT !.k = "all", !.pc = "exclude"]]
    /\ UNCHANGED <<kids, px, main, mainS, reg, met>>
Unregister(s) == Call(s, "purgeall", "snap", Nil)

(* fork: a kid is not forked off a stopped main; in main's country it sends    *)
(* main off, in a goroutine of its own ...                                     *)
collide(s) ==
    LET cc == job[s].cc IN
    /\ job[s].pc = "collide"
    /\ IF main = Nil THEN Proceed(s)
       ELSE IF cc # mainS THEN Goto(s, "add")
       ELSE \E g \in Slots \ (Apis \cup Async) :
              /\ job[g] = Idle
              /\ job' = [job EXCEPT ![s].pc = "add",
                           ![g] = [Idle EXCEPT !.k = "main", !.pc = "exclude", !.cc = cc]]
    /\ UNCHANGED <<kids, px, main, mainS, reg, met, calls>>

(* ... addRpnProxy: no conf for the country; or the proxy is in the table; or  *)
(* it cannot be added, and the account is unregistered (what forkAll has left  *)
(* to do is then moot: kids are not forked off a stopped main).                *)
add(s) ==
    LET cc == job[s].cc IN
    /\ job[s].pc = "add"
    /\ \/ /\ cc \notin Excluded /\ px' = px \cup {cc} /\ Goto(s, "note")
          /\ met' = met \cup ({cc} \cap HalfDone("forget"))
       \/ Proceed(s) /\ UNCHANGED <<px, met>>
       \/ /\ s \in FailIn /\ UNCHANGED <<px, met>>
          /\ job' = [job EXCEPT ![s] = [Idle EXCEPT !.k = "purgeall", !.pc = "snap"]]
    /\ UNCHANGED <<kids, main, mainS, reg, calls>>

note(s) ==
    /\ job[s].pc = "note"
    /\ kids' = kids \cup {job[s].cc}
    /\ Proceed(s)
    /\ UNCHANGED <<px, main, mainS, reg, met, calls>>

(* forkMain: main goes where no kid is (as the books stand now), nor the kid   *)
(* that sent it off; re-adding it registers it where it is not registered.     *)
excludedCCs(s) ==
    /\ job[s].pc = "exclude"
    /\ job' = [job EXCEPT ![s].pc = "addmain", ![s].excl = kids \cup {job[s].cc},
                          ![s].todo = IF job[s].k = "all" THEN kids ELSE {}]
    /\ UNCHANGED <<kids, px, main, mainS, reg, met, calls>>

addmain(s) ==
    /\ job[s].pc = "addmain"
    /\ \/ /\ \E cc \in CCs \ (job[s].excl \cup Excluded) :
               /\ main' = cc
               /\ job' = [job EXCEPT ![s].pc = "notemain", ![s].cc = cc, ![s].excl = {}]
          /\ reg' = TRUE
       \/ Proceed(s) /\ UNCHANGED <<main, reg>>
       \/ /\ s \in FailIn /\ UNCHANGED <<main, reg>>
          /\ job' = [job EXCEPT ![s] = [Idle EXCEPT !.k = "purgeall", !.pc = "snap"]]
    /\ UNCHANGED <<kids, px, mainS, met, calls>>

notemain(s) ==
    /\ job[s].pc = "notemain"
    /\ mainS' = job[s].cc
    /\ Proceed(s)
    /\ UNCHANGED <<kids, px, main, reg, met, calls>>

(* purge: out of the table, then out of the books.                             *)
remove(s) ==
    /\ job[s].pc = "remove"
    /\ px' = px \ {job[s].cc}
    /\ met' = met \cup ({job[s].cc} \cap HalfDone("note"))
    /\ Goto(s, "forget")
    /\ UNCHANGED <<kids, main, mainS, reg, calls>>

forget(s) ==
    /\ job[s].pc = "forget"
    /\ kids' = kids \ {job[s].cc}
    /\ Proceed(s)
    /\ UNCHANGED <<px, main, mainS, reg, met, calls>>

(* PurgeAll, as unregisterRpn: the kids there are now, then main.              *)
flattenKids(s) ==
    /\ job[s].pc = "snap"
    /\ job' = [job EXCEPT ![s].pc = "next", ![s].todo = kids]
    /\ UNCHANGED <<kids, px, main, mainS, reg, met, calls>>

purgeMain(s) ==
    /\ job[s].pc = "rmmain"
    /\ main' = Nil /\ mainS' = Nil /\ reg' = FALSE
    /\ job' = [job EXCEPT ![s] = Idle]
    /\ UNCHANGED <<kids, px, met, calls>>

(* The next kid of forkAll, which purges the excluded, or of PurgeAll.         *)
next(s) ==
    /\ job[s].pc = "next"
    /\ IF job[s].todo = {}
       THEN job' = [job EXCEPT ![s] = IF job[s].k = "purgeall" THEN [@ EXCEPT !.pc = "rmmain"]
                                      ELSE Idle]
       ELSE \E cc \in job[s].todo :
              job' = [job EXCEPT ![s].cc = cc, ![s].todo = @ \ {cc},
                        ![s].pc = IF job[s].k = "purgeall" \/ cc \in Excluded
                                  THEN "remove" ELSE "collide"]
    /\ UNCHANGED <<kids, px, main, mainS, reg, met, calls>>

step(s) == \/ collide(s) \/ add(s) \/ note(s) \/ excludedCCs(s) \/ addmain(s)
           \/ notemain(s) \/ remove(s) \/ forget(s) \/ flattenKids(s)
           \/ purgeMain(s) \/ next(s)

Next == \E s \in Slots :
           \/ step(s) \/ Redo(s) \/ Update(s) \/ Unregister(s)
           \/ \E cc \in CCs : Fork(s, cc) \/ Purge(s, cc)

Spec == Init /\ [][Next]_vars

-----------------------------------------------------------------------------
TypeOK == /\ kids \subseteq CCs /\ px \subseteq CCs
          /\ {main, mainS} \subseteq CCs \cup {Nil}

Settled == \A s \in Slots : job[s] = Idle

(* Once the calls are over the books and the table agree on the kids: one that *)
(* only the table has is never pinged, updated or purged (ipn/rpn.go:388-397,  *)
(* 606-611).  Neither update is made under one lock with the other, so a fork  *)
(* and a purge of the same country that meet half done may leave it in one of  *)
(* the two alone; nothing else does, neither failed additions nor forkAll.     *)
BooksMatch == Settled => \A cc \in CCs \ met : cc \in kids <=> cc \in px

(* Every call returns, and main's move ends.                                   *)
JobsEnd == \A s \in Slots : (job[s] # Idle) ~> (job[s] = Idle)
=============================================================================
