-------------------------------- MODULE Nat64 -------------------------------
(***************************************************************************)
(* Protocol translation: discovery of NAT64 prefixes and synthesis of AAAA *)
(* answers (intra/x64/dns64.go, natpt.go, nat64.go), and the addresses a   *)
(* flow dials (makeIPPorts and filterFamilyForDialing, intra/common.go).   *)
(*                                                                         *)
(* Prefixes are kept per resolver; a resolver's are found by asking it for *)
(* ipv4only.arpa and looking for the well-known IPv4 address in what it    *)
(* answers. Adding a resolver is not atomic: its list is wiped, it is      *)
(* asked, the prefixes are appended one by one, and a failure removes it.  *)
(* An address is its sixteen bytes; a prefix is [net, len], len in bytes.  *)
(***************************************************************************)
EXTENDS Integers, Sequences, FiniteSets

CONSTANTS Tasks,      \* goroutines that add or remove resolvers
          Prefixes,   \* prefixes networks use: [net, len]
          Modes,      \* PtModes that are set
          MaxChanges, \* bound: changes of mode, of connectivity, of resolvers
          MaxEvals,   \* bound: queries translated
          Nil

Ids == {"local464", "stdlib", "underlay", "r"}

\* The prefix of Local464Resolver: 64:ff9b:1:fffe::/96.
LocalPrefix == [net |-> 64, len |-> 12]

VARIABLES ip64, uniq,   \* of each resolver, or Nil
          mapper,       \* kickstart was called
          paused, mode, has6,
          task,         \* what each goroutine does
          eval,         \* a query being translated
          changes, evals

vars == <<ip64, uniq, mapper, paused, mode, has6, task, eval, changes, evals>>

Task == [pc : {"idle", "flow", "pause", "resume", "next", "register", "query", "adding", "reset", "remove"},
         id : Ids, then : Ids \cup {Nil}, rest : SUBSET Ids, todo : Seq(Prefixes \cup {LocalPrefix})]

TypeOK ==
  /\ DOMAIN ip64 = Ids /\ DOMAIN uniq = Ids
  /\ mapper \in BOOLEAN /\ paused \in BOOLEAN /\ mode \in Modes /\ has6 \in BOOLEAN
  /\ \A t \in Tasks : task[t] \in Task
  /\ eval.pc \in {"idle", "get", "query", "done"}
  /\ changes \in 0..MaxChanges /\ evals \in 0..MaxEvals

idle == [pc |-> "idle", id |-> "r", then |-> Nil, rest |-> {}, todo |-> <<>>]

Init ==
  /\ ip64 = [i \in Ids |-> Nil] /\ uniq = [i \in Ids |-> Nil]
  /\ mapper = FALSE /\ paused = FALSE /\ mode \in Modes /\ has6 \in BOOLEAN
  /\ task = [t \in Tasks |->
               IF t = CHOOSE x \in Tasks : TRUE
               THEN [idle EXCEPT !.pc = "register", !.id = "local464"] ELSE idle]
  /\ eval = [pc |-> "idle", i |-> 1, ps |-> <<>>, ans |-> <<>>]
  /\ changes = 0 /\ evals = 0

-----------------------------------------------------------------------------
(* Addresses *)

WKA == {<<192, 0, 0, 170>>, <<192, 0, 0, 171>>}

addrOf(p) == [i \in 0..15 |-> IF i < p.len THEN p.net ELSE 0]

\* Where byte k of an IPv4 address goes behind a prefix: byte 8 is skipped.
skip8(len, k) ==
  LET shift[i \in 0..k] ==
        LET s == IF i = 0 THEN len ELSE shift[i - 1] IN IF s + i = 8 THEN s + 1 ELSE s
  IN  shift[k] + k

\* xdns.ip4to6, which MaybeToQuadA uses.
quadA(p, ip4) ==
  [i \in 0..15 |-> IF \E k \in 0..3 : skip8(p.len, k) = i
                   THEN ip4[1 + CHOOSE k \in 0..3 : skip8(p.len, k) = i]
                   ELSE addrOf(p)[i]]

\* Mutant: byte 8 is not skipped.
ip6to4Unskipped(p, ip6) == [k \in 1..4 |-> ip6[p.len + k - 1]]

ip6to4(p, ip6) == [k \in 1..4 |-> ip6[skip8(p.len, k - 1)]]

\* ip4to6, which X46 uses: the address is copied behind the prefix as it is,
\* over byte 8.
ip4to6(p, ip4) ==
  [i \in 0..15 |-> IF i \in p.len..(p.len + 3) THEN ip4[i - p.len + 1] ELSE addrOf(p)[i]]

match(ps, ip6) == {i \in DOMAIN ps : \A b \in 0..(ps[i].len - 1) : ip6[b] = ps[i].net}

\* X64, given a resolver's prefixes: the first that matches is taken off.
X64(ps, ip6) ==
  IF match(ps, ip6) = {} THEN Nil
  ELSE ip6to4(ps[CHOOSE i \in match(ps, ip6) : \A j \in match(ps, ip6) : i <= j], ip6)

\* add: where the well-known address is looked for, per prefix length, in order.
wkaAt == <<<<12, 12, 13, 14, 15>>, <<8, 9, 10, 11, 12>>, <<7, 7, 9, 10, 11>>,
           <<6, 6, 7, 9, 10>>, <<5, 5, 6, 7, 9>>, <<4, 4, 5, 6, 7>>>>

endBytes(ip6) ==
  {i \in DOMAIN wkaAt : [k \in 1..4 |-> ip6[wkaAt[i][k + 1]]] \in WKA}

\* The prefixes of the addresses a resolver answered with; others are skipped.
found(ip6s) ==
  LET one(ip6) ==
        IF endBytes(ip6) = {} THEN <<>>
        ELSE LET i == CHOOSE i \in endBytes(ip6) : \A j \in endBytes(ip6) : i <= j
             IN  <<[net |-> ip6[0], len |-> wkaAt[i][1]]>>
      upto[n \in 0..Len(ip6s)] == IF n = 0 THEN <<>> ELSE upto[n - 1] \o one(ip6s[n])
  IN  upto[Len(ip6s)]

\* What resolvers answer for ipv4only.arpa (RFC 7050): both well-known addresses,
\* each behind a prefix; or an address that is no translation.
Answers ==
  UNION {{<<quadA(p, w), quadA(q, v)>> : p, q \in Prefixes, v \in WKA \ {w}} : w \in WKA}
    \cup {<<[i \in 0..15 |-> 7]>>}

-----------------------------------------------------------------------------
(* Adding resolvers *)

Begin(t, id) ==
  [task EXCEPT ![t].pc = "register",
               ![t].id = IF id = "underlay" THEN "stdlib" ELSE id,
               ![t].then = IF id = "underlay" THEN "underlay" ELSE Nil]

\* The next call of a goroutine: underlay after its stdlib, or another dormant resolver.
finish(t) ==
  task' = [task EXCEPT ![t].pc = IF task[t].then # Nil THEN "register"
                                 ELSE IF task[t].rest # {} THEN "next" ELSE "idle",
                       ![t].id = IF task[t].then # Nil THEN task[t].then ELSE @,
                       ![t].then = Nil, ![t].todo = <<>>]

AddResolver(t) ==
  /\ task[t].pc = "idle" /\ changes < MaxChanges
  /\ \E id \in {"r", "underlay"} : task' = Begin(t, id)
  /\ changes' = changes + 1
  /\ UNCHANGED <<ip64, uniq, mapper, paused, mode, has6, eval, evals>>

\* register wipes the slate; paused is read after the lock is released.
\* local464 needs no query. The query phase of stdlib is skipped if paused;
\* that of any other resolver, unless paused.
register(t) ==
  LET id == task[t].id IN
    /\ task[t].pc = "register"
    /\ ip64' = [ip64 EXCEPT ![id] = <<>>] /\ uniq' = [uniq EXCEPT ![id] = {}]
    /\ CASE id = "local464" ->
              task' = [task EXCEPT ![t].pc = "adding", ![t].todo = <<LocalPrefix>>]
         [] id = "stdlib" ->
              \E loopingback \in BOOLEAN :
                IF paused \/ loopingback THEN finish(t)
                ELSE task' = [task EXCEPT ![t].pc = "query"]
         [] OTHER ->
              IF ~paused THEN finish(t)
              ELSE task' = [task EXCEPT ![t].pc = "query"]
    /\ UNCHANGED <<mapper, paused, mode, has6, eval, changes, evals>>

\* On failure stdlib stays registered; other resolvers are removed.
failed(t) ==
  IF task[t].id \in {"stdlib", "local464"} THEN finish(t)
  ELSE task' = [task EXCEPT ![t].pc = "remove", ![t].todo = <<>>]

query(t) ==
  /\ task[t].pc = "query"
  /\ \/ failed(t)
     \/ /\ task[t].id # "stdlib" => mapper
        /\ \E a \in Answers :
             task' = [task EXCEPT ![t].pc = "adding", ![t].todo = found(a)]
  /\ UNCHANGED <<ip64, uniq, mapper, paused, mode, has6, eval, changes, evals>>

appended(id, p) ==
  /\ ip64' = [ip64 EXCEPT ![id] = IF p \in uniq[id] THEN @ ELSE Append(@, p)]
  /\ uniq' = [uniq EXCEPT ![id] = @ \cup {p}]

\* add: one prefix at a time; it fails if the resolver is not registered.
addNat64Prefix(t) ==
  LET id == task[t].id IN
    /\ task[t].pc = "adding" /\ task[t].todo # <<>>
    /\ IF ip64[id] = Nil THEN failed(t) /\ UNCHANGED <<ip64, uniq>>
       ELSE /\ appended(id, Head(task[t].todo))
            /\ task' = [task EXCEPT ![t].todo = Tail(@)]
    /\ UNCHANGED <<mapper, paused, mode, has6, eval, changes, evals>>

\* add succeeds if the resolver has prefixes now.
added(t) ==
  /\ task[t].pc = "adding" /\ task[t].todo = <<>>
  /\ IF ip64[task[t].id] \in {Nil, <<>>} THEN failed(t) ELSE finish(t)
  /\ UNCHANGED <<ip64, uniq, mapper, paused, mode, has6, eval, changes, evals>>

removed(id) == ip64' = [ip64 EXCEPT ![id] = Nil] /\ uniq' = [uniq EXCEPT ![id] = Nil]

remove(t) ==
  /\ task[t].pc = "remove" /\ removed(task[t].id) /\ finish(t)
  /\ UNCHANGED <<mapper, paused, mode, has6, eval, changes, evals>>

RemoveResolver ==
  /\ changes < MaxChanges /\ changes' = changes + 1
  /\ removed("r")
  /\ UNCHANGED <<mapper, paused, mode, has6, task, eval, evals>>

\* The network's own prefix, set by the client: the slate is wiped, and the
\* prefix added after, unless underlay was removed in between.
ResetNat64Prefix(t) ==
  /\ task[t].pc = "idle" /\ changes < MaxChanges /\ changes' = changes + 1
  /\ ip64' = [ip64 EXCEPT !["underlay"] = <<>>] /\ uniq' = [uniq EXCEPT !["underlay"] = {}]
  /\ \E p \in Prefixes : task' = [task EXCEPT ![t].pc = "reset", ![t].todo = <<p>>]
  /\ UNCHANGED <<mapper, paused, mode, has6, eval, evals>>

resetAdd(t) ==
  /\ task[t].pc = "reset"
  /\ IF ip64["underlay"] = Nil THEN UNCHANGED <<ip64, uniq>>
     ELSE appended("underlay", Head(task[t].todo))
  /\ task' = [task EXCEPT ![t].pc = "idle", ![t].todo = <<>>]
  /\ UNCHANGED <<mapper, paused, mode, has6, eval, changes, evals>>

kickstart ==
  /\ ~mapper /\ mapper' = TRUE
  /\ UNCHANGED <<ip64, uniq, paused, mode, has6, task, eval, changes, evals>>

-----------------------------------------------------------------------------
(* Pausing *)

\* The mode or the families of the network change; both call pauseOrResume.
Change(t) ==
  /\ task[t].pc = "idle" /\ changes < MaxChanges /\ changes' = changes + 1
  /\ mode' \in Modes /\ has6' \in BOOLEAN
  /\ task' = [task EXCEPT ![t].pc = "flow"]
  /\ UNCHANGED <<ip64, uniq, mapper, paused, eval, evals>>

\* The mode and the families are read first; paused is swapped after.
pauseOrResume(t) ==
  /\ task[t].pc = "flow"
  /\ task' = [task EXCEPT ![t].pc = IF mode = "none" \/ (mode = "auto" /\ ~has6)
                                    THEN "pause" ELSE "resume"]
  /\ UNCHANGED <<ip64, uniq, mapper, paused, mode, has6, eval, changes, evals>>

\* A goroutine that resumes adds all resolvers known again.
pausedSwap(t) ==
  LET dormant == {i \in Ids : ip64[i] # Nil} IN
    /\ task[t].pc \in {"pause", "resume"}
    /\ paused' = (task[t].pc = "pause")
    /\ task' = IF task[t].pc = "resume" /\ paused /\ dormant # {}
               THEN [task EXCEPT ![t].rest = dormant, ![t].pc = "next"]
               ELSE [task EXCEPT ![t].pc = "idle"]
    /\ UNCHANGED <<ip64, uniq, mapper, mode, has6, eval, changes, evals>>

nextDormant(t) ==
  /\ task[t].pc = "next"
  /\ \E id \in task[t].rest : task' = [Begin(t, id) EXCEPT ![t].rest = @ \ {id}]
  /\ UNCHANGED <<ip64, uniq, mapper, paused, mode, has6, eval, changes, evals>>

-----------------------------------------------------------------------------
(* Synthesis *)

\* D64, eval: an AAAA answer is left alone unless it is empty or translation is
\* forced (which the answer that comes in decides); otherwise the resolver's prefixes are taken, or those of underlay,
\* stdlib and local464, in this order.
D64 ==
  /\ eval.pc = "idle" /\ evals < MaxEvals /\ mode # "none"
  /\ eval' = [eval EXCEPT !.pc = "get", !.i = 1, !.ps = <<>>] /\ evals' = evals + 1
  /\ UNCHANGED <<ip64, uniq, mapper, paused, mode, has6, task, changes>>

fallbacks == <<"r", "underlay", "stdlib", "local464">>

get ==
  LET ps == ip64[fallbacks[eval.i]] IN
    /\ eval.pc = "get"
    /\ eval' = IF ps \notin {Nil, <<>>} THEN [eval EXCEPT !.pc = "query", !.ps = ps]
               ELSE IF eval.i = Len(fallbacks) THEN [eval EXCEPT !.pc = "query"]
               ELSE [eval EXCEPT !.i = @ + 1]
    /\ UNCHANGED <<ip64, uniq, mapper, paused, mode, has6, task, changes, evals>>

\* query64: the A records are asked for; each is translated with every prefix.
query64 ==
  /\ eval.pc = "query"
  /\ \/ eval' = [eval EXCEPT !.pc = "idle", !.ps = <<>>]
     \/ /\ mapper
        /\ eval' = [eval EXCEPT !.pc = "done",
                     !.ans = [i \in DOMAIN eval.ps |-> quadA(eval.ps[i], <<1, 2, 3, 4>>)]]
  /\ UNCHANGED <<ip64, uniq, mapper, paused, mode, has6, task, changes, evals>>

answered ==
  /\ eval.pc = "done" /\ eval' = [eval EXCEPT !.pc = "idle", !.ps = <<>>, !.ans = <<>>]
  /\ UNCHANGED <<ip64, uniq, mapper, paused, mode, has6, task, changes, evals>>

-----------------------------------------------------------------------------
(* The addresses a flow dials: [fam, ok, ip], ip the bytes of an IPv4 one and of *)
(* what X46 makes of it                                                          *)

x46ok == ip64["underlay"] \notin {Nil, <<>>}
ipok(v) == v.ok
\* X46 takes the first prefix of underlay.
x46(v) == IF v.fam = 4 /\ x46ok
          THEN [v EXCEPT !.fam = 6, !.ip = ip4to6(Head(ip64["underlay"]), v.ip)] ELSE v

\* filterFamilyForDialing: families not in use are left out, unless none is left.
included(ips, use) == SelectSeq(ips, LAMBDA v : v.fam \in use)
excluded(ips, use) == SelectSeq(ips, LAMBDA v : v.fam \notin use /\ ipok(v))

filterFamilyForDialing(ips, use, m) ==
  LET in == included(ips, use)
      out == excluded(ips, use)
      is4(v) == v.fam = 4
      four == SelectSeq(ips, is4)
      v6s == IF m # "none" /\ x46ok THEN [i \in DOMAIN four |-> x46(four[i])] ELSE <<>>
  IN  IF in # <<>> THEN [in |-> in, out |-> out, swapped |-> FALSE]
      ELSE [in |-> IF out = <<>> THEN out ELSE out \o SelectSeq(v6s, ipok),
            out |-> <<>>, swapped |-> TRUE]

\* WithFailSafe: and as many, or one, of those left out.
withFailSafe(ips, use, m) ==
  LET f == filterFamilyForDialing(ips, use, m)
      n == IF Len(f.in) <= Len(f.out) THEN Len(f.in) ELSE Len(f.out)
  IN  IF f.swapped \/ f.in = <<>> \/ f.out = <<>> THEN {f.in}
      ELSE IF m \in {"force", "force46"} THEN {f.in \o SubSeq(f.out, 1, n)}
      ELSE {Append(f.in, f.out[i]) : i \in DOMAIN f.out}

makeIPPorts(ips, orig, maybe, use, m, max) ==
  LET only6 == use = {6}
      to46 == only6 \/ m \in {"force", "force46"}
      fams == IF use = {4, 6} THEN {orig.fam} ELSE use
      willIncludeOrig == maybe /\ orig.fam \in fams
      cap == IF max <= 0 \/ max > Len(ips) THEN Len(ips) ELSE max
      usable == SelectSeq(ips, LAMBDA v : ipok(v) /\ ~(v = orig /\ willIncludeOrig))
      kept == IF Len(usable) <= cap THEN usable ELSE SubSeq(usable, 1, cap)
      o == IF to46 THEN x46(orig) ELSE orig
      out == [i \in DOMAIN kept |-> IF to46 THEN x46(kept[i]) ELSE kept[i]]
  IN  IF out = <<>> THEN <<o>> ELSE IF willIncludeOrig THEN <<o>> \o out ELSE out

-----------------------------------------------------------------------------

step(t) ==
  \/ register(t) \/ query(t) \/ addNat64Prefix(t) \/ added(t) \/ remove(t)
  \/ pauseOrResume(t) \/ pausedSwap(t) \/ nextDormant(t) \/ resetAdd(t)

Next ==
  \/ \E t \in Tasks : AddResolver(t) \/ Change(t) \/ ResetNat64Prefix(t) \/ step(t)
  \/ RemoveResolver \/ kickstart
  \/ D64 \/ get \/ query64 \/ answered

Spec == Init /\ [][Next]_vars

-----------------------------------------------------------------------------
(* Properties *)

\* A resolver's list holds every prefix of its set once, and nothing else, whoever
\* wipes, removes or appends in between; all are prefixes a network really uses,
\* with their true length.
BooksAgree ==
  \A id \in Ids :
    /\ (ip64[id] = Nil) <=> (uniq[id] = Nil)
    /\ ip64[id] # Nil =>
         /\ {ip64[id][i] : i \in DOMAIN ip64[id]} = uniq[id]
         /\ Len(ip64[id]) = Cardinality(uniq[id])
         /\ uniq[id] \subseteq (IF id = "local464" THEN {LocalPrefix} ELSE Prefixes)

\* X64 takes off what D64 put on: a synthesised answer leads back to the address
\* it was made from, whatever the length of the prefix.
TranslationIsUndone ==
  \A i \in DOMAIN eval.ans : X64(<<eval.ps[i]>>, eval.ans[i]) = <<1, 2, 3, 4>>

\* A flow has an address to dial, and on a network with IPv6 only, none it dials is
\* an IPv4 one if the network's prefix is known.  An IPv4 address that X46 put behind
\* that prefix is the one the network's NAT64, like X64, takes off again, unless its
\* bytes lie across byte 8 (prefixes of 40 to 64 bits), which ip4to6 does not skip.
DialsWhatItCan ==
  LET Addr(oks) == {[fam |-> 4, ok |-> k, ip |-> <<1, 2, 3, 4>>] : k \in oks}
                     \cup {[fam |-> 6, ok |-> k, ip |-> Nil] : k \in oks}
      Lists == {<<>>} \cup {<<a>> : a \in Addr(BOOLEAN)}
                 \cup {<<a, b>> : a, b \in Addr(BOOLEAN)}
      across8(q) == q.len < 9 /\ q.len + 3 >= 8
      undone(v) == \/ v.fam = 4 \/ v.ip = Nil \/ across8(Head(ip64["underlay"]))
                   \/ X64(ip64["underlay"], v.ip) = <<1, 2, 3, 4>>
  IN  \A l \in Lists, u \in {{4}, {6}, {4, 6}}, o \in Addr({TRUE}), c \in 0..1, b \in BOOLEAN :
        \A in \in withFailSafe(l, u, mode) :
          LET out == makeIPPorts(in, o, b, u, mode, c) IN
            /\ out # <<>>
            /\ \A i \in DOMAIN out : ipok(out[i]) /\ undone(out[i])
            /\ u = {6} /\ x46ok => \A i \in DOMAIN out : out[i].fam = 6
=============================================================================
