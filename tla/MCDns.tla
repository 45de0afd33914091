------------------------------- MODULE MCDns --------------------------------
(***************************************************************************)
(* What answers names: the alg gateway, the resolver, the cache, Plus,     *)
(* NAT64 and mDNS (intra/dnsx, intra/x64, intra/dns53), as a disjoint      *)
(* union of components.  part says which one runs; the others stay where   *)
(* they are.  Fairness is stated per component, as the premise of what it  *)
(* promises to end.                                                        *)
(***************************************************************************)
EXTENDS DnsAlg, Sequences

CONSTANT Parts

\* What the alg gateway is asked: by an app for a name, of a primary and perhaps
\* a secondary transport; and questions of every other kind.
Ask(d, typ, uid, t1, t2, preset) ==
    [d |-> d, typ |-> typ, uid |-> uid, t1 |-> t1, t2 |-> t2, preset |-> preset,
     tun |-> TRUE, do |-> FALSE, local |-> FALSE]
AppAsks == {Ask("d1", "a", "u1", "t1", "t2", {}), Ask("d2", "a", "u1", "t1", Nil, {})}
AllAsks == {Ask("d1", "a", "u1", "t1", "ba", {}), Ask("d1", "aaaa", "u1", "t1", Nil, {}),
            Ask("d1", "svcb", "u1", "t1", Nil, {"q"}), Ask("d1", "txt", "me", "t1", Nil, {}),
            Ask("d1", "a", "u1", "t1", Nil, {"p"}), Ask("d1", "a", "u1", "fx", "t1", {}),
            Ask("d1", "a", "u1", "fx", Nil, {})}
Answer(ips) == [rc |-> "ok", ips |-> ips]
Fails == [rc |-> "none", ips |-> {}]
AppUpstream == [a |-> {Answer({"p"}), Answer({"q"})}]
AllUpstream == [a |-> {Answer({"q"}), Fails}, aaaa |-> {Answer({}), Answer({"np"})},
                svcb |-> {Answer({"p", "np"})}, txt |-> {Answer({})}]
AppModes == {<<TRUE, FALSE>>}
OwnId == [t \in {"t1", "t2"} |-> t]
LocalNat64 == [i \in {"p"} |-> "np"]
\* Two names whose first alg ip is the same.
Hashes == [k \in {"d1", "d2"} \X {4, 6} |->
             [i \in 0..1 |-> IF k[2] = 6 THEN "b1" ELSE IF i = 0 THEN "a1" ELSE "a2"]]

\* The resolver's preferences and queries.
TId(n) == [ct |-> FALSE, n |-> n]
Pref(x, xx, ips) == [x |-> x, xx |-> xx, pid |-> "wg", ips |-> ips, noblock |-> FALSE]
ResPrefs == {Pref({TId("Preferred")}, {}, "none"), Pref({TId("Default")}, {}, "zero"),
             Pref({TId("BlockAll"), TId("Fixed")}, {TId("Preferred")}, "none")}
StubAsk(n, f) == [conn |-> "c", chosen |-> <<>>, name |-> n, rank |-> "ok", retry |-> FALSE,
                  force6 |-> f]
ResAskers ==
    {StubAsk("plain", TRUE), StubAsk("mdns", FALSE), StubAsk("undelegated", FALSE), StubAsk("none", TRUE),
     [conn |-> Nil, chosen |-> <<TId("Default")>>, name |-> "plain", rank |-> "bad", retry |-> TRUE,
      force6 |-> FALSE]}

Plus(i, g, enc, mask) == [id |-> i, g |-> g, enc |-> enc, mask |-> mask]
MdnsRecord(k, a, b) == [kind |-> k, name |-> a, to |-> b]
MdnsMessages ==
    {<<MdnsRecord("a", "s", "s")>>, <<MdnsRecord("a", "t", "t")>>, <<MdnsRecord("a", "o", "o")>>,
     <<MdnsRecord("ptr", "s", "t")>>, <<MdnsRecord("srv", "s", "t"), MdnsRecord("a", "t", "t")>>,
     <<MdnsRecord("cname", "s", "t")>>, <<MdnsRecord("cname", "s", "t"), MdnsRecord("a", "s", "s")>>,
     <<MdnsRecord("txt", "s", "s"), MdnsRecord("nsec", "s", "s")>>}

VARIABLE part          \* the component that runs

On(p) == part = p

\* The alg gateway runs as it is, with an app that asks for two names whose
\* hashes collide; and once more, with questions of every kind.
VARIABLES ak_now, ak_mod, ak_fix, ak_split, ak_alg, ak_nat, ak_ptr, ak_calls, ak_stopped,
          ak_ops, ak_told
akVars == <<ak_now, ak_mod, ak_fix, ak_split, ak_alg, ak_nat, ak_ptr, ak_calls,
            ak_stopped, ak_ops, ak_told>>
Ak == INSTANCE DnsAlg WITH
    Tids <- {"t1", "t2", "fi"}, Uids <- {"u1", "none", "me"}, NoTransport <- "any",
    AnyIp <- "zero", TidPrefix <- {}, UidSuffix <- {}, StaleThres <- 2,
    VacuumInterval <- 1, Domains <- {"d1"}, Ip4 <- {"p", "q"}, Ip6 <- {"np"},
    AlgIps <- {"a1", "a2", "b1"}, GenIp <- Hashes, MaxIter <- 2, FixedIps <- {"p", "np"},
    Preset <- "t2", FixedId <- "fi", BlockAll <- "ba", FixedTid <- "fx",
    Unknown <- "none", MyUid <- "me", IdOf <- [t \in {"t1", "t2", "fi"} |-> t],
    Nat64 <- LocalNat64, Asks <- AllAsks, Upstream <- AllUpstream, Ttls <- {1}, MinTtl <- 1, AlgTtl <- 2, Calls <- {1},
    MaxNow <- 1, MaxOps <- 2, Modes <- {<<TRUE, TRUE>>, <<FALSE, FALSE>>},
    StopTids <- {"t1"},
    now <- ak_now, mod <- ak_mod, fix <- ak_fix, split <- ak_split, alg <- ak_alg,
    nat <- ak_nat, ptr <- ak_ptr, calls <- ak_calls, stopped <- ak_stopped,
    ops <- ak_ops, told <- ak_told
\* A transport's Query returns, in time or with an error; a secondary is given up.
akFair == /\ WF_akVars(On("ak") /\ Ak!qp(1))
          /\ WF_akVars(On("ak") /\ Ak!secondaryTimeout(1))
          /\ WF_akVars(On("ak") /\ Ak!qEnd(1))
          /\ WF_akVars(On("ak") /\ Ak!qErr(1))

\* The resolver: a query, and a transport added, replaced and removed.
VARIABLES rs_transports, rs_stopped, rs_stopping, rs_forgotten, rs_adding, rs_closed,
          rs_stopall, rs_clearing, rs_smms, rs_laststatus, rs_queries, rs_conns,
          rs_settings, rs_nocts, rs_listed, rs_ops
rsVars == <<rs_transports, rs_stopped, rs_stopping, rs_forgotten, rs_adding, rs_closed,
            rs_stopall, rs_clearing, rs_smms, rs_laststatus, rs_queries, rs_conns,
            rs_settings, rs_nocts, rs_listed, rs_ops>>
Rs == INSTANCE DnsResolver WITH
    Added <- {"Preferred"}, Gens <- {0, 1}, DNSCrypts <- {},
    Prefs <- {Pref({TId("Preferred")}, {}, "none")}, Askers <- {StubAsk("plain", FALSE)},
    Queries <- {1}, Conns <- [c |-> "udp"],
    Settings <- {[firewall |-> TRUE, fallback |-> TRUE, loopingback |-> FALSE]},
    SmmCap <- 1, MaxOps <- 2,
    transports <- rs_transports, stopped <- rs_stopped, stopping <- rs_stopping,
    forgotten <- rs_forgotten, adding <- rs_adding, closed <- rs_closed,
    stopall <- rs_stopall, clearing <- rs_clearing, smms <- rs_smms,
    laststatus <- rs_laststatus, queries <- rs_queries, conns <- rs_conns,
    settings <- rs_settings, nocts <- rs_nocts, listed <- rs_listed, ops <- rs_ops
\* Goroutines once started run to their end; the listener's callbacks and the
\* gateway have timeouts, so a query always goes on.
rsFair == /\ WF_rsVars(On("rs") /\ Rs!Background)
          /\ WF_rsVars(On("rs") /\ Rs!Query(1))
          /\ WF_rsVars(On("rs") /\ Rs!Closes("c"))

\* The resolver: queries of every kind; BlockAll, Local or Goos comes or is missing.
VARIABLES rq_transports, rq_stopped, rq_stopping, rq_forgotten, rq_adding, rq_closed,
          rq_stopall, rq_clearing, rq_smms, rq_laststatus, rq_queries, rq_conns,
          rq_settings, rq_nocts, rq_listed, rq_ops
rqVars == <<rq_transports, rq_stopped, rq_stopping, rq_forgotten, rq_adding, rq_closed,
            rq_stopall, rq_clearing, rq_smms, rq_laststatus, rq_queries, rq_conns,
            rq_settings, rq_nocts, rq_listed, rq_ops>>
Rq == INSTANCE DnsResolver WITH
    Added <- {"BlockAll", "Local", "Goos"}, Gens <- {0}, DNSCrypts <- {}, Prefs <- ResPrefs,
    Askers <- ResAskers, Queries <- {1}, Conns <- [c |-> "tcp"],
    Settings <- {[firewall |-> TRUE, fallback |-> TRUE, loopingback |-> FALSE]},
    SmmCap <- 1, MaxOps <- 1,
    transports <- rq_transports, stopped <- rq_stopped, stopping <- rq_stopping,
    forgotten <- rq_forgotten, adding <- rq_adding, closed <- rq_closed,
    stopall <- rq_stopall, clearing <- rq_clearing, smms <- rq_smms,
    laststatus <- rq_laststatus, queries <- rq_queries, conns <- rq_conns,
    settings <- rq_settings, nocts <- rq_nocts, listed <- rq_listed, ops <- rq_ops

\* The resolver: an A whose AAAA is asked along with it.
VARIABLES rf_transports, rf_stopped, rf_stopping, rf_forgotten, rf_adding, rf_closed,
          rf_stopall, rf_clearing, rf_smms, rf_laststatus, rf_queries, rf_conns,
          rf_settings, rf_nocts, rf_listed, rf_ops
rfVars == <<rf_transports, rf_stopped, rf_stopping, rf_forgotten, rf_adding, rf_closed,
            rf_stopall, rf_clearing, rf_smms, rf_laststatus, rf_queries, rf_conns,
            rf_settings, rf_nocts, rf_listed, rf_ops>>
Rf == INSTANCE DnsResolver WITH
    Added <- {"Local"}, Gens <- {0}, DNSCrypts <- {},
    Prefs <- {Pref({TId("Preferred")}, {}, "none")}, Askers <- {StubAsk("mdns", TRUE)},
    Queries <- {1}, Conns <- [c |-> "tcp"],
    Settings <- {[firewall |-> TRUE, fallback |-> TRUE, loopingback |-> FALSE]},
    SmmCap <- 1, MaxOps <- 1,
    transports <- rf_transports, stopped <- rf_stopped, stopping <- rf_stopping,
    forgotten <- rf_forgotten, adding <- rf_adding, closed <- rf_closed,
    stopall <- rf_stopall, clearing <- rf_clearing, smms <- rf_smms,
    laststatus <- rf_laststatus, queries <- rf_queries, conns <- rf_conns,
    settings <- rf_settings, nocts <- rf_nocts, listed <- rf_listed, ops <- rf_ops

\* The cache: a question that two ask.
VARIABLES ca_buckets, ca_store, ca_made, ca_flights, ca_hangover, ca_calls, ca_cleared,
          ca_now, ca_clears, ca_asked
caVars == <<ca_buckets, ca_store, ca_made, ca_flights, ca_hangover, ca_calls, ca_cleared,
            ca_now, ca_clears, ca_asked>>
Ca == INSTANCE DnsCache WITH
    Keys <- {"k"}, Uncacheable <- {}, Callers <- {1, 2},
    Answers <- {[ok |-> x # "fail", ttl |-> 0, fail |-> x = "fail", ad |-> x = "ad"] : x \in {"ok", "ad", "fail"}},
    Ttl <- 2, Halflife <- 1, Bumps <- 3, Battl <- 1, Httl <- 1, MaxNow <- 4,
    MaxClear <- 1, MaxQueries <- 3,
    buckets <- ca_buckets, store <- ca_store, made <- ca_made, flights <- ca_flights,
    hangover <- ca_hangover, calls <- ca_calls, cleared <- ca_cleared, now <- ca_now,
    clears <- ca_clears, asked <- ca_asked
\* Requests have timeouts, so every goroutine goes on.
caFair == \A c \in {1, 2} : WF_caVars(On("ca") /\ Ca!Step(c))

\* A name that is not cached.
VARIABLES cb_buckets, cb_store, cb_made, cb_flights, cb_hangover, cb_calls, cb_cleared,
          cb_now, cb_clears, cb_asked
cbVars == <<cb_buckets, cb_store, cb_made, cb_flights, cb_hangover, cb_calls, cb_cleared,
            cb_now, cb_clears, cb_asked>>
Cb == INSTANCE DnsCache WITH
    Keys <- {"k"}, Uncacheable <- {"k"}, Callers <- {1},
    Answers <- {[ok |-> x # "fail", ttl |-> 0, fail |-> x = "fail", ad |-> x = "ad"] : x \in {"ok", "ad", "fail"}},
    Ttl <- 2, Halflife <- 1, Bumps <- 3, Battl <- 1, Httl <- 1, MaxNow <- 2,
    MaxClear <- 1, MaxQueries <- 3,
    buckets <- cb_buckets, store <- cb_store, made <- cb_made, flights <- cb_flights,
    hangover <- cb_hangover, calls <- cb_calls, cleared <- cb_cleared, now <- cb_now,
    clears <- cb_clears, asked <- cb_asked

\* Plus: two transports, one of them replaced.
VARIABLES pl_transports, pl_stopped, pl_last, pl_closed, pl_memo, pl_query, pl_strat,
          pl_filter, pl_ops
plVars == <<pl_transports, pl_stopped, pl_last, pl_closed, pl_memo, pl_query, pl_strat,
            pl_filter, pl_ops>>
Pl == INSTANCE DnsPlus WITH
    Own <- {Plus("p", 0, TRUE, {"ad"}), Plus("p", 1, TRUE, {}), Plus("q", 0, FALSE, {"ad"})},
    Default <- Plus("d", 0, FALSE, {}), Strats <- {"safest", "random"},
    Filters <- {Nil, "ad"}, MaxTries <- 2, MaxOps <- 4,
    transports <- pl_transports, stopped <- pl_stopped, last <- pl_last,
    closed <- pl_closed, memo <- pl_memo, query <- pl_query, strat <- pl_strat,
    filter <- pl_filter, ops <- pl_ops

\* NAT64: prefixes of every length.
VARIABLES na_ip64, na_uniq, na_mapper, na_paused, na_mode, na_has6, na_task, na_eval,
          na_changes, na_evals
naVars == <<na_ip64, na_uniq, na_mapper, na_paused, na_mode, na_has6, na_task, na_eval,
            na_changes, na_evals>>
Na == INSTANCE Nat64 WITH
    Tasks <- {1}, Prefixes <- {[net |-> 1, len |-> l] : l \in {4, 5, 6, 7, 8, 12}},
    Modes <- {"none", "auto", "force"}, MaxChanges <- 1, MaxEvals <- 1,
    ip64 <- na_ip64, uniq <- na_uniq, mapper <- na_mapper, paused <- na_paused,
    mode <- na_mode, has6 <- na_has6, task <- na_task, eval <- na_eval,
    changes <- na_changes, evals <- na_evals

\* NAT64: resolvers that come and go in two tasks.
VARIABLES nb_ip64, nb_uniq, nb_mapper, nb_paused, nb_mode, nb_has6, nb_task, nb_eval,
          nb_changes, nb_evals
nbVars == <<nb_ip64, nb_uniq, nb_mapper, nb_paused, nb_mode, nb_has6, nb_task, nb_eval,
            nb_changes, nb_evals>>
Nb == INSTANCE Nat64 WITH
    Tasks <- {1, 2}, Prefixes <- {[net |-> 1, len |-> 4]}, Modes <- {"none", "auto"},
    MaxChanges <- 3, MaxEvals <- 0,
    ip64 <- nb_ip64, uniq <- nb_uniq, mapper <- nb_mapper, paused <- nb_paused,
    mode <- nb_mode, has6 <- nb_has6, task <- nb_task, eval <- nb_eval,
    changes <- nb_changes, evals <- nb_evals

\* mDNS: a query over both families.
VARIABLES md_use, md_status, md_q, md_bound, md_closed, md_recv, md_listen, md_msgCh,
          md_ansch, md_tr, md_ans, md_n
mdVars == <<md_use, md_status, md_q, md_bound, md_closed, md_recv, md_listen, md_msgCh,
            md_ansch, md_tr, md_ans, md_n>>
Md == INSTANCE Mdns WITH
    Names <- {"s", "t", "o"}, Svc <- {"s"}, Messages <- MdnsMessages, MaxMessages <- 3,
    ChanCap <- 1,
    use <- md_use, status <- md_status, q <- md_q, bound <- md_bound,
    closed <- md_closed, recv <- md_recv, listen <- md_listen, msgCh <- md_msgCh,
    ansch <- md_ansch, tr <- md_tr, ans <- md_ans, n <- md_n
\* Goroutines go on, and the query gives up after a while.
mdFair == /\ WF_mdVars(On("md") /\ Md!caller)
          /\ WF_mdVars(On("md") /\ Md!listener)
          /\ WF_mdVars(On("md") /\ Md!timesup)
          /\ \A f \in Md!Families : WF_mdVars(On("md") /\ Md!receiverEnds(f))

-----------------------------------------------------------------------------
\* The constants are what the proofs take them for.
ASSUME DnsAlgConstants
ASSUME Ak!DnsAlgConstants

\* The components that do not run stay in one initial state.
MCInit ==
    /\ part \in Parts
    /\ Init
    /\ Ak!Init /\ (part # "ak" => ak_mod)
    /\ Rs!Init
    /\ Rq!Init
    /\ Rf!Init
    /\ Ca!Init
    /\ Cb!Init
    /\ Pl!Init /\ (part # "pl" => pl_strat = "safest" /\ pl_filter = Nil)
    /\ Na!Init /\ (part # "na" => na_mode = "auto" /\ ~na_has6)
    /\ Nb!Init /\ (part # "nb" => nb_mode = "auto" /\ ~nb_has6)
    /\ Md!Init /\ (part # "md" => md_use = {})

MCNext ==
    /\ UNCHANGED part
    /\ IF part = "al" THEN Next ELSE UNCHANGED vars
    /\ IF part = "ak" THEN Ak!Next ELSE UNCHANGED akVars
    /\ IF part = "rs" THEN Rs!Next ELSE UNCHANGED rsVars
    /\ IF part = "rq" THEN Rq!Next ELSE UNCHANGED rqVars
    /\ IF part = "rf" THEN Rf!Next ELSE UNCHANGED rfVars
    /\ IF part = "ca" THEN Ca!Next ELSE UNCHANGED caVars
    /\ IF part = "cb" THEN Cb!Next ELSE UNCHANGED cbVars
    /\ IF part = "pl" THEN Pl!Next ELSE UNCHANGED plVars
    /\ IF part = "na" THEN Na!Next ELSE UNCHANGED naVars
    /\ IF part = "nb" THEN Nb!Next ELSE UNCHANGED nbVars
    /\ IF part = "md" THEN Md!Next ELSE UNCHANGED mdVars

allvars == <<part, vars, akVars, rsVars, rqVars, rfVars, caVars, cbVars, plVars,
             naVars, nbVars, mdVars>>

MCSpec == MCInit /\ [][MCNext]_allvars

-----------------------------------------------------------------------------
\* The type invariant of every component.
TypesOK ==
    /\ On("al") => TypeOK
    /\ On("ak") => Ak!TypeOK
    /\ On("rs") => Rs!TypeOK
    /\ On("rq") => Rq!TypeOK
    /\ On("rf") => Rf!TypeOK
    /\ On("ca") => Ca!TypeOK
    /\ On("cb") => Cb!TypeOK
    /\ On("pl") => Pl!TypeOK
    /\ On("na") => Na!TypeOK
    /\ On("nb") => Nb!TypeOK
    /\ On("md") => Md!TypeOK

\* Who answers a question, and with what.
\* - dnsx/alg.go: AlgIsUndone, for questions of every kind;
\* - dnsx/transport.go: a cache is in the table only with its transport; local names
\*   go to no user's transport, a blocked query to none but BlockAll; a query has one
\*   summary, queued or dropped, unless it panics on the channel StopAll closed;
\* - dnsx/plus.go: a block is passed on if no transport tried had an answer, and an
\*   answer is not lost to errors;
\* - dnsx/cacher.go: reads prolong an answer's life to a limit, and what was asked
\*   before a Clear is not cached after it.
NamesAreGuarded ==
    /\ On("ak") => Ak!AlgIsUndone
    /\ On("rs") => /\ Rs!TableIsPaired /\ Rs!NamesStayLocal /\ Rs!BlockAllPrevails
                   /\ Rs!OneSummary
    /\ On("rq") => /\ Rq!TableIsPaired /\ Rq!NamesStayLocal /\ Rq!BlockAllPrevails
                   /\ Rq!OneSummary
    /\ On("rf") => Rf!NamesStayLocal /\ Rf!OneSummary
    /\ On("pl") => Pl!BlockIsLastResort /\ Pl!AnswerSurvivesErrors
    /\ On("ca") => Ca!LifeIsBounded /\ Ca!ClearedStaysCleared
    /\ On("cb") => Cb!LifeIsBounded /\ Cb!ClearedStaysCleared

\* Addresses that are found or made.
\* - x64/dns64.go, nat64.go, common.go: a resolver's list and set of prefixes agree,
\*   X64 undoes what D64 did for every length of prefix, and a flow gets addresses
\*   that its network can dial (looked at while no answer was translated, which
\*   changes none of what makeIPPorts reads);
\* - dns53/mdns.go: an answer is of the service asked for, and is sent once.
TranslationIsUndone ==
    /\ On("na") => Na!BooksAgree /\ Na!TranslationIsUndone
    /\ (On("na") /\ na_evals = 0) => Na!DialsWhatItCan
    /\ On("nb") => Nb!BooksAgree
    /\ On("md") => Md!AnswerIsAsked /\ Md!SentOnce

\* Queries to the gateway, the resolver, the cache and mDNS end, and take their
\* goroutines, sockets and connections with them; a transport that was replaced or
\* removed is stopped.
AsksEnd ==
    /\ (On("ak") /\ akFair) => Ak!QueriesEnd
    /\ (On("rs") /\ rsFair) => Rs!ReplacedIsStopped /\ Rs!QueriesEnd
    /\ (On("ca") /\ caFair) => Ca!CallsEnd
    /\ (On("md") /\ mdFair) => Md!AllEnd

=============================================================================
