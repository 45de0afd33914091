------------------------------- MODULE RpnWin -------------------------------
(* A WIN account (ipn/rpn/yegor.go): its session, server list and WireGuard    *)
(* credentials, kept up to date against the provider's api.  An update works   *)
(* on the very config that Conf and Locations are reading: each of its        *)
(* assignments is seen as it is made.  The provider (external) registers up to *)
(* MaxKeys keys, reserves an address for a connected key and may release it,   *)
(* and revises its server list.                                                *)
EXTENDS Integers, Sequences, FiniteSets

CONSTANTS Lists,      \* Lists[revision]: the countries with servers
          OpsSet,     \* [force, rotate, fetch, excl]: what updates may ask for
          MaxKeys, MaxUpdates, MaxAddr, Nil

Keys == 1..MaxUpdates * 2 + 1

VARIABLES keys, addr, rev,       \* provider: registered keys, reserved addresses
          cfg, fresh, active,    \* the config; updated within the threshold; paid
          ops, locs,             \* current RpnOps; the cached Locations
          u,                     \* the update in progress
          nkey, naddr, updates

vars == <<keys, addr, rev, cfg, fresh, active, ops, locs, u, nkey, naddr,
          updates>>
provider == <<keys, addr, rev>>

NoOps == [force |-> FALSE, rotate |-> FALSE, fetch |-> FALSE, excl |-> {}]
NoUpdate == [pc |-> "idle", o |-> NoOps, old |-> 0, notold |-> FALSE, got |-> FALSE,
             refreshed |-> FALSE, redo |-> FALSE, clean |-> TRUE, servers |-> 0,
             key |-> 0, caddr |-> 0, keyed |-> FALSE, forced |-> FALSE,
             connects |-> 0, res |-> "none", was |-> 0]

(* makeWsWg has registered key 1 and connected it.                             *)
Init ==
    /\ keys = <<1>> /\ addr = [k \in Keys |-> IF k = 1 THEN 1 ELSE 0] /\ rev = 1
    /\ cfg = [hash |-> 1, servers |-> 1, key |-> 1, addr |-> 1, confs |-> 1]
    /\ fresh \in BOOLEAN /\ active = TRUE
    /\ ops = NoOps /\ locs = Nil
    /\ u = NoUpdate
    /\ nkey = 1 /\ naddr = 1 /\ updates = 0

Registered == {keys[i] : i \in DOMAIN keys}

-----------------------------------------------------------------------------
(* The provider, and time.                                                     *)
Release == \E k \in Keys : /\ addr[k] # 0 /\ addr' = [addr EXCEPT ![k] = 0]
                           /\ UNCHANGED <<keys, rev, cfg, fresh, active, ops, locs,
                                          u, nkey, naddr, updates>>
DropKey == /\ Len(keys) > 0 /\ keys' = Tail(keys)
           /\ UNCHANGED <<addr, rev, cfg, fresh, active, ops, locs, u, nkey,
                          naddr, updates>>
Publish == /\ rev < Len(Lists) /\ rev' = rev + 1
           /\ UNCHANGED <<keys, addr, cfg, fresh, active, ops, locs, u, nkey,
                          naddr, updates>>
Tick == /\ \/ fresh /\ fresh' = FALSE /\ UNCHANGED active
           \/ active /\ active' = FALSE /\ UNCHANGED fresh
        /\ UNCHANGED <<keys, addr, rev, cfg, ops, locs, u, nkey, naddr, updates>>

-----------------------------------------------------------------------------
(* Update -> makeWsWgFrom: mustRedo where the ops change the config.           *)
ChangesConfig(o, p) == o.rotate # p.rotate \/ o.excl # p.excl

Update(o) ==
    /\ u.pc = "idle" /\ updates < MaxUpdates
    /\ updates' = updates + 1
    /\ u' = [NoUpdate EXCEPT !.pc = "session", !.o = o, !.old = cfg.hash,
                             !.notold = fresh, !.redo = ChangesConfig(o, ops),
                             !.was = cfg.key]
    /\ UNCHANGED <<provider, cfg, fresh, active, ops, locs, nkey, naddr>>

(* getSession, unless the last one is recent; the live config gets the new     *)
(* session, with its list's hash, at once.                                     *)
getSession ==
    /\ u.pc = "session"
    /\ \/ /\ ~u.o.force /\ u.notold
          /\ u' = [u EXCEPT !.pc = "servers", !.refreshed = TRUE]
          /\ UNCHANGED <<cfg, fresh>>
       \/ /\ u.notold => u.o.force
          /\ u' = [u EXCEPT !.pc = "servers", !.refreshed = TRUE]
          /\ cfg' = [cfg EXCEPT !.hash = rev] /\ fresh' = TRUE
       \/ /\ u.notold => u.o.force
          /\ u' = [u EXCEPT !.pc = "servers", !.clean = FALSE]
          /\ UNCHANGED <<cfg, fresh>>
    /\ UNCHANGED <<provider, active, ops, locs, nkey, naddr, updates>>

(* An expired session ends it; a changed hash, or the ops, download the list   *)
(* of the session's hash; with no new list, a recent config is left as it is.  *)
getServerList ==
    LET wants == u.old # cfg.hash \/ u.o.fetch IN
    /\ u.pc = "servers"
    /\ \E got \in BOOLEAN :
         /\ got => wants
         /\ LET skipGen == ~u.o.force /\ ~got /\ u.notold IN
            u' = [u EXCEPT !.pc = IF ~active \/ (~u.redo /\ skipGen) THEN "commit" ELSE "key",
                           !.got = got /\ active,
                           !.clean = @ /\ (wants => got),
                           !.servers = IF got /\ active THEN cfg.hash ELSE cfg.servers]
    /\ UNCHANGED <<provider, cfg, fresh, active, ops, locs, nkey, naddr, updates>>

(* initAndConnectCreds: the key in use, unless it is to be rotated or was      *)
(* refused; a new one is registered, the oldest forced out at the limit.       *)
useExistingCreds == ~u.keyed /\ ~u.o.rotate

genKey ==
    /\ u.pc = "key"
    /\ IF useExistingCreds
       THEN /\ u' = [u EXCEPT !.pc = "connect", !.key = cfg.key, !.caddr = cfg.addr]
            /\ UNCHANGED nkey
       ELSE /\ u' = [u EXCEPT !.pc = "init", !.key = nkey + 1, !.caddr = 0]
            /\ nkey' = nkey + 1
    /\ UNCHANGED <<provider, cfg, fresh, active, ops, locs, naddr, updates>>

initKey ==
    /\ u.pc = "init"
    /\ \/ /\ Len(keys) < MaxKeys \/ u.forced
          /\ keys' = Append(IF Len(keys) < MaxKeys THEN keys ELSE Tail(keys), u.key)
          /\ u' = [u EXCEPT !.pc = "connect"]
       \/ /\ Len(keys) >= MaxKeys /\ ~u.forced
          /\ u' = [u EXCEPT !.forced = TRUE] /\ UNCHANGED keys
       \/ u' = [u EXCEPT !.pc = "fail"] /\ UNCHANGED keys
    /\ UNCHANGED <<addr, rev, cfg, fresh, active, ops, locs, nkey, naddr, updates>>

(* /connect reserves an address for the key, or finds its reservation; the     *)
(* creds take it where they have none.  An unknown key is replaced once, an    *)
(* exhausted pool is retried once.                                             *)
connect ==
    /\ u.pc = "connect"
    /\ \/ /\ u.key \in Registered
          /\ LET a == IF addr[u.key] # 0 THEN addr[u.key] ELSE naddr + 1 IN
             /\ a <= MaxAddr
             /\ addr' = [addr EXCEPT ![u.key] = a]
             /\ naddr' = IF a > naddr THEN a ELSE naddr
             /\ u' = [u EXCEPT !.pc = "configs", !.caddr = IF @ = 0 THEN a ELSE @]
       \/ /\ u.key \notin Registered
          /\ u' = [u EXCEPT !.pc = IF u.keyed THEN "fail" ELSE "key", !.keyed = TRUE]
          /\ UNCHANGED <<addr, naddr>>
       \/ /\ u.connects = 0 /\ u' = [u EXCEPT !.connects = 1]
          /\ UNCHANGED <<addr, naddr>>
       \/ /\ u' = [u EXCEPT !.pc = "fail"]
          /\ UNCHANGED <<addr, naddr>>
    /\ UNCHANGED <<keys, rev, cfg, fresh, active, ops, locs, nkey, updates>>

(* The live config's assignments, in order: servers and configs, then creds.   *)
setConfigs ==
    /\ u.pc = "configs"
    /\ cfg' = [cfg EXCEPT !.servers = u.servers, !.confs = u.servers]
    /\ u' = [u EXCEPT !.pc = "creds"]
    /\ UNCHANGED <<provider, fresh, active, ops, locs, nkey, naddr, updates>>

setCreds ==
    /\ u.pc = "creds"
    /\ cfg' = [cfg EXCEPT !.key = u.key, !.addr = u.caddr]
    /\ u' = [u EXCEPT !.pc = "commit"]
    /\ UNCHANGED <<provider, fresh, active, ops, locs, nkey, naddr, updates>>

(* Update returns an error where the session was not refreshed or the configs  *)
(* not generated, and else takes the ops.                                      *)
commit ==
    /\ u.pc \in {"commit", "fail"}
    /\ LET ok == u.pc = "commit" /\ u.refreshed IN
       /\ u' = [u EXCEPT !.pc = "done", !.res = IF ok THEN "ok" ELSE "err"]
       /\ ops' = IF ok THEN u.o ELSE ops
    /\ UNCHANGED <<provider, cfg, fresh, active, locs, nkey, naddr, updates>>

Return == /\ u.pc = "done" /\ u' = NoUpdate
          /\ UNCHANGED <<provider, cfg, fresh, active, ops, locs, nkey, naddr,
                         updates>>

-----------------------------------------------------------------------------
(* Locations: the cached answer while the hash is the same.                    *)
Locations ==
    /\ locs' = IF locs # Nil /\ locs.hash = cfg.hash THEN locs
               ELSE [hash |-> cfg.hash, of |-> cfg.confs, excl |-> ops.excl]
    /\ UNCHANGED <<provider, cfg, fresh, active, ops, u, nkey, naddr, updates>>

step == \/ getSession \/ getServerList \/ genKey \/ initKey \/ connect
        \/ setConfigs \/ setCreds \/ commit \/ Return

Next == \/ \E o \in OpsSet : Update(o)
        \/ step
        \/ Locations \/ Release \/ DropKey \/ Publish \/ Tick

Spec == Init /\ [][Next]_vars

-----------------------------------------------------------------------------
TypeOK == /\ Len(keys) <= MaxKeys /\ cfg.key \in Keys
          /\ u.res \in {"none", "ok", "err"}
          /\ {cfg.hash, cfg.servers, cfg.confs} \subseteq DOMAIN Lists

(* "Once local (client) has keypair, do not make the "/init" call again unless *)
(* on errors as described above" (ipn/rpn/yegor.go:89-90), or unless told to   *)
(* rotate it: the key was dropped by the provider.                             *)
NoNeedlessInit ==
    [][keys' # keys /\ Len(keys') >= Len(keys) /\ u.pc = "init" =>
          (u.keyed => u.was \notin Registered) /\ (~u.keyed => u.o.rotate)]_vars

(* Every update ends: its retries do not feed each other.                      *)
UpdatesEnd == (u.pc # "idle") ~> (u.pc = "idle")
=============================================================================
