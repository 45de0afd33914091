------------------------------- MODULE DcCert ------------------------------
(***************************************************************************)
(* Fetching a DNSCrypt certificate (intra/dnscrypt/certs.go): dnsExchange  *)
(* asks the server several times, a little apart, and takes the faster of  *)
(* the first answers; fetchCurrentDNSCryptCert then walks the certificates *)
(* of the answer and keeps the best of those it may use.                   *)
(*                                                                         *)
(* The attempts hand their result over on an unbuffered channel, so each   *)
(* waits for dnsExchange to take it. A certificate is modelled by what the *)
(* walk looks at: whether it is well formed and signed, its dates, serial  *)
(* and construction.                                                       *)
(***************************************************************************)
EXTENDS Integers, Sequences, FiniteSets

CONSTANTS Attempts,     \* the attempts of dnsExchange (four in the code)
          Rtts,         \* round trip times
          Serials,      \* serials of certificates
          MaxCerts      \* bound: certificates in an answer

VARIABLES att,          \* the attempts
          main,         \* where dnsExchange / fetchCurrentDNSCryptCert is
          got,          \* results it has taken, i in the code
          best,         \* rtt of bestOption
          cancelled,    \* cancelChannel is closed
          timedout,     \* the deadline fired
          certs,        \* the certificates of the answer that was taken
          at,           \* how many of them were walked
          info,         \* certInfo and highestSerial
          ignoreTs      \* proxy.certIgnoreTimestamp

vars == <<att, main, got, best, cancelled, timedout, certs, at, info, ignoreTs>>

\* XSalsa20Poly1305 is 1 and XChacha20Poly1305 is 2; 0 is undefined.
\* A certificate that is malformed, unsigned or ends before it starts is Bad.
Bad  == [dates |-> "bad", serial |-> 0, cons |-> 1]
Cert == [dates : {"valid", "outside"}, serial : Serials, cons : 1..2] \cup {Bad}

Answers == UNION {[1..n -> Cert] : n \in 0..MaxCerts}

None == [serial |-> 0, cons |-> 0, from |-> 0]

Attempt == [pc : {"sleep", "ask", "send", "gone"}, rtt : Rtts \cup {0}]

TypeOK ==
  /\ att \in [Attempts -> Attempt]
  /\ main \in {"wait", "walk", "failed", "nocert", "found"}
  /\ got \in 0..Cardinality(Attempts) /\ best \in Rtts \cup {0}
  /\ cancelled \in BOOLEAN /\ timedout \in BOOLEAN /\ ignoreTs \in BOOLEAN
  /\ at \in 0..MaxCerts
  /\ info.serial \in Serials \cup {0} /\ info.cons \in 0..2 /\ info.from \in 0..MaxCerts

Init ==
  /\ att = [a \in Attempts |-> [pc |-> "sleep", rtt |-> 0]]
  /\ main = "wait" /\ got = 0 /\ best = 0
  /\ cancelled = FALSE /\ timedout = FALSE
  /\ certs = <<>> /\ at = 0 /\ info = None
  /\ ignoreTs \in BOOLEAN

-----------------------------------------------------------------------------
(* dnsExchange *)

\* An attempt sleeps for its delay and gives up if an answer was chosen.
attemptWakes(a) ==
  /\ att[a].pc = "sleep"
  /\ att' = [att EXCEPT ![a].pc = IF cancelled THEN "gone" ELSE "ask"]
  /\ UNCHANGED <<main, got, best, cancelled, timedout, certs, at, info, ignoreTs>>

\* _dnsExchange: an answer after some time, or an error (rtt 0).
attemptAsks(a) ==
  /\ att[a].pc = "ask"
  /\ \E r \in Rtts \cup {0} : att' = [att EXCEPT ![a] = [pc |-> "send", rtt |-> r]]
  /\ UNCHANGED <<main, got, best, cancelled, timedout, certs, at, info, ignoreTs>>

waiting == main = "wait" /\ got < Cardinality(Attempts) /\ ~timedout

\* A result is handed over. The first answer is noted; one that was faster is
\* taken at once, and the attempts that still sleep are told.
receive(a) ==
  /\ waiting /\ att[a].pc = "send"
  /\ att' = [att EXCEPT ![a].pc = "gone"]
  /\ LET r == att[a].rtt
         faster == best # 0 /\ r # 0 /\ r < best IN
       /\ best' = IF r # 0 /\ (best = 0 \/ faster) THEN r ELSE best
       /\ cancelled' = (cancelled \/ faster)
       /\ got' = IF faster THEN Cardinality(Attempts) ELSE got + 1
  /\ UNCHANGED <<main, timedout, certs, at, info, ignoreTs>>

deadline ==
  /\ waiting
  /\ timedout' = TRUE
  /\ UNCHANGED <<att, main, got, best, cancelled, certs, at, info, ignoreTs>>

\* It ends with the noted answer, if there is one.
dnsExchangeEnds ==
  /\ main = "wait" /\ ~waiting
  /\ IF best = 0
     THEN main' = "failed" /\ UNCHANGED certs
     ELSE main' = "walk" /\ certs' \in Answers
  /\ UNCHANGED <<att, got, best, cancelled, timedout, at, info, ignoreTs>>

-----------------------------------------------------------------------------
(* fetchCurrentDNSCryptCert *)

\* Mutant: of two certificates of one serial the first is kept.
skippedSerial(c) ==
  \/ c = Bad
  \/ c.dates = "outside" /\ ~ignoreTs
  \/ c.serial <= info.serial

\* Malformed, unsigned or inverted; out of date, unless dates are ignored;
\* superseded by one seen before; of the same serial and a weaker construction.
skipped(c) ==
  \/ c = Bad
  \/ c.dates = "outside" /\ ~ignoreTs
  \/ c.serial < info.serial
  \/ c.serial = info.serial /\ c.cons < info.cons

\* One certificate of the answer.
walkCert ==
  /\ main = "walk" /\ at < Len(certs)
  /\ at' = at + 1
  /\ LET c == certs[at + 1] IN
       info' = IF skipped(c) THEN info
               ELSE [serial |-> c.serial, cons |-> c.cons, from |-> at + 1]
  /\ UNCHANGED <<att, main, got, best, cancelled, timedout, certs, ignoreTs>>

walkEnds ==
  /\ main = "walk" /\ at = Len(certs)
  /\ main' = IF info.cons = 0 THEN "nocert" ELSE "found"
  /\ UNCHANGED <<att, got, best, cancelled, timedout, certs, at, info, ignoreTs>>

-----------------------------------------------------------------------------

attemptStep(a) == attemptWakes(a) \/ attemptAsks(a)
mainStep == (\E a \in Attempts : receive(a)) \/ dnsExchangeEnds \/ walkCert \/ walkEnds

Next == deadline \/ mainStep \/ \E a \in Attempts : attemptStep(a)

Spec == Init /\ [][Next]_vars

-----------------------------------------------------------------------------
(* Properties *)

Usable(c) == c # Bad /\ (c.dates = "valid" \/ ignoreTs)
Better(c, d) == c.serial > d.serial \/ (c.serial = d.serial /\ c.cons >= d.cons)

\* certs.go:141-173: whatever the order of the certificates in the answer, the
\* one kept is usable and no usable one has a higher serial, or the same and a
\* stronger construction; and none is kept only if none is usable.
BestCertWins ==
  /\ main = "found" => /\ Usable(certs[info.from])
                       /\ \A i \in 1..Len(certs) :
                            Usable(certs[i]) => Better(certs[info.from], certs[i])
  /\ main = "nocert" => \A i \in 1..Len(certs) : ~Usable(certs[i])

\* certs.go:250-281: the exchange fails only when the time is up or every
\* attempt has failed: cancelling the sleepers loses no answer.
FailsOnlyIfAllFail ==
  main = "failed" => timedout \/ \A a \in Attempts : att[a].pc = "gone" /\ att[a].rtt = 0

\* certs.go:250-281: dnsExchange waits for as many results as will be sent, so
\* it ends even if the deadline does not fire. It is about dnsExchange alone: an
\* attempt whose result is not awaited any more stays in its send (certs.go:246)
\* for ever.
ExchangeEnds == main = "wait" ~> main # "wait"

-----------------------------------------------------------------------------
(* what the proofs need *)

DcCertConstants ==
  /\ IsFiniteSet(Attempts) /\ Rtts \subseteq Nat \ {0} /\ Serials \subseteq Nat
  /\ MaxCerts \in Nat

Gone == {a \in Attempts : att[a].pc = "gone"}

\* As long as no answer came nobody was told to stop, and each attempt that is
\* gone has been counted.
ExchangeSound ==
  /\ best = 0 => /\ ~cancelled
                 /\ got = Cardinality(Gone)
                 /\ \A a \in Gone : att[a].rtt = 0
  /\ main = "failed" => best = 0 /\ (timedout \/ got = Cardinality(Attempts))

\* What is kept is the best of the certificates walked.
WalkSound ==
  /\ at \in 0..Len(certs)
  /\ main \in {"wait", "failed"} => at = 0
  /\ main \in {"nocert", "found"} => at = Len(certs)
  /\ main = "nocert" => info.cons = 0
  /\ main = "found" => info.cons # 0
  /\ info.cons = 0 => info = None /\ \A i \in 1..at : ~Usable(certs[i])
  /\ info.cons # 0 => /\ info.from \in 1..at
                      /\ Usable(certs[info.from])
                      /\ certs[info.from].serial = info.serial
                      /\ certs[info.from].cons = info.cons
                      /\ \A i \in 1..at : Usable(certs[i]) => Better(certs[info.from], certs[i])

Inv == TypeOK /\ certs \in Answers /\ ExchangeSound /\ WalkSound
=============================================================================
