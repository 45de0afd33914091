# A verification project for firestack

firestack is the network engine of an Android firewall: it reads IP packets from a
tun device, turns them into TCP, UDP and ICMP conversations with a user-space
network stack (gVisor's *netstack*), asks a listener what to do with each flow,
dials the flow's destination through one of several proxies, and pipes bytes
between the two sides. DNS queries are answered by its own resolver. This
directory holds TLA+ modules that model it, the TLC configurations that check them
and TLAPS proofs about them.

`PROJECT.json` gives, for every definition, the lines of Go it stands for, and
lists the runs, the properties with the mutants that break them, the hazards of
the code and the theorems. An operator that is a part of a step, and whose code lies
within the lines of that step, has no row of its own there.

## The system and its parts

Sources are below `src/intra/` unless they start with `src/`.

**Flows.**

| part | source | module |
|---|---|---|
| request coalescing | `core/barrier.go` | `Barrier` |
| tracked conns | `core/connmap.go` | `ConnMap` |
| flow handlers | `common.go`, `tcp.go`, `udp.go`, `icmp.go` | `FlowHandler` |
| UDP mux | `udpmux.go` (`muxer`) | `UdpMux`, abstractly `MuxerSpec` |
| demuxed UDP conn | `udpmux.go` (`demuxconn`) | `DemuxConn` |
| mux table | `udpmux.go` (`muxTable`) | `MuxTable` |

**Packets.**

| part | source | module |
|---|---|---|
| TCP forwarder | `netstack/tcp.go` | `TcpForwarder` |
| packet processors, UDP forwarder | `netstack/{forwarders,dispatchers,udp}.go` | `Inbound` |
| pings | `netstack/icmp*.go`, `icmp.go` | `Icmp` |
| tun endpoint | `netstack/{seamless,fdbased,fds,dispatchers}.go` | `Seamless` |
| tunnel | `tunnel.go`, `tun2socks.go`, `src/tunnel/` | `Tunnel` |
| expiring maps | `core/expiring{map,sieve}.go` | `Sieve` |
| logs | `log/` | `MemConsole`, `Logger` |

**Names.**

| part | source | module |
|---|---|---|
| answer rewriting | `dnsx/alg.go` | `DnsAlg` |
| resolver, stub listeners | `dnsx/{transport,rank}.go`, `dns.go` | `DnsResolver` |
| cache, hangover | `dnsx/cacher.go`, `core/hangover.go` | `DnsCache` |
| composite transport | `dnsx/plus.go` | `DnsPlus` |
| DNS64, NAT64, addresses to dial | `x64/`, `common.go` | `Nat64` |
| mDNS | `dns53/mdns.go` | `Mdns` |
| DoT, pool of conns | `dns53/{dot,upstream}.go`, `core/connpool.go` | `Dot` |
| DoH, ODoH | `doh/` | `Doh`, `Odoh` |
| DNSCrypt | `dnscrypt/` | `DcMulti`, `DcCert`, `DcQuery` |

**Proxies and dialers.**

| part | source | module |
|---|---|---|
| table of proxies, choice of one | `ipn/{proxies,proxy}.go` | `Proxies`, `ProxyTo` |
| auto proxy | `ipn/auto.go`, `core/async.go` | `Auto` |
| WireGuard | `ipn/wgproxy.go`, `ipn/wg/` | `WgProxy`, `WgConn`, `WgGso` |
| multihost | `ipn/multihost/` | `MultiHost` |
| RPN accounts | `ipn/rpn.go`, `ipn/rpn/yegor.go` | `RpnKids`, `RpnWin` |
| addresses of hosts, dials | `protect/ipmap/`, `dialers/{cdial,ips}.go` | `IpMap` |
| retrying and splitting conns | `dialers/` | `Retrier`, `Splitter` |

How they interact: a packet passes the tun endpoint and the processors; one of an
unknown 4-tuple reaches a forwarder, which calls a handler's `Proxy`. The handler
asks the listener (`onFlow`), undoes the synthetic address that the DNS gateway
handed out, dials through a proxy or, for UDP with endpoint-independent mapping,
associates the source with a muxer of the mux table; it then tracks both conns,
copies, untracks and queues a summary for the listener. Dials go through the IP map
and may be split or retried. `End` (tunnel closed), `Reset` (tunnel restarted) and
`CloseConns` (asked by the user, or when a proxy changes) come from other threads
at any moment; so do additions and removals of proxies and DNS transports, changes
of the network and swaps of the tun device.

### What makes it hard

Everything runs concurrently, with locks held for short spans and state re-read
after them. The behaviours the models are aimed at:

* a lock is let go in the middle of an operation (`associate` around its dial,
  `route` between its two lookups, `Do` around the work, a refresh of a host or of a
  DNSCrypt server around its exchange, RPN kids around the table of proxies);
* channels are closed under concurrent senders (`smmch`, `doneCh`, `closed`);
* watchdogs and timeouts race the work they guard (TCP watchdog, `Do`'s timeout,
  deadlines of conns, the pool's Get, a secondary DNS transport, auto's race);
* callbacks arrive after what they were about has been replaced (`dissociate`,
  `Untrack`, confirmations of addresses, the stop of a replaced proxy or transport);
* bounded resources: in-flight slots, the summary channel, conns' buffers, pools,
  rings and slabs of the logs;
* what is retried, split, coalesced or rewritten must come out as it went in;
* panics, which `core.Go` swallows and `core.Gx` turns into an exit.

The list, line by line, is under `hazards` in `PROJECT.json`.

## Modules

Every component module declares its state, `Init`, one action per step that other
threads can see (what runs under one lock, or one atomic or channel operation, is
one step), `Next` and `Spec`. The comment at its head says what the state stands
for. A definition that is a mutated form of another (named after it, marked
`Mutant:`) belongs to no specification.

**`Barrier`.** `Calls` are calls of Do/Do1/Go. A call looks up its key under the
lock (`GetHit`, or `GetMiss` and then `addLocked` in one critical section, two steps
since the closed flag is set without the lock), its work
finishes on a goroutine (`Finish`), and the caller takes the result or its timeout
(`Receive`, `Timeout`) and releases the waiters (`Done`). Time is a bounded clock;
entries expire after `TTL` (`Neg` for errors), `CtxDone` and `Clear`
are the two halves of the cancellation.

**`UdpMux`, `MuxerSpec`.** `UdpMux` has the reader, egress routers, the awaiter, one
watcher per demuxed conn, and stop. The lock `rmu` is explicit because a router
keeps it while it offers a conn on the unbuffered `dxconns`. `MuxerSpec` is what
flows and the table rely on: phases open, stopping, drained, gone, and a set of
live conns with one conn per address. `KeepsPromise` is the refinement.

**`MuxTable`.** Calls of `associate` in their two critical sections around the dial,
with muxers reduced to phases (what `UdpMux` shows of them), callbacks, resets.

**`DemuxConn`.** Buffers travel from the muxer through `inCh` to a reader, the rest
of a short read through `overflowCh`; each is recycled once. Tickers stand for
deadlines.

**`FlowHandler`.** The handler is for one protocol, chosen at the start, and has one
flow for each element of `Flows`; a flow's kind (Proxy, ReverseProxy, Error, Ping),
the listener's verdict and the outcome of dials and handshakes are chosen when they
matter. The handler has its status, `smmch`, the tracked flows and the loop table;
`End`, `Reset` and `CloseConns` interleave, also a `Reset` that follows an `End`, as
it does when Restart's countdown fires. The nested select of `queueSummary` is two
steps.

**`ConnMap`.** All operations are atomic under the map's lock. `repeated` records
whether an id has been tracked again while it was tracked.

**`TcpForwarder`.** gVisor's forwarder (`external`) counts in-flight requests up to
`MaxInFlight`. A handler creates an endpoint, stores the conn and completes the
request in separate steps; the watchdog and closers interleave.

**`Inbound`.** Queues, wakers and processors of the dispatch, and handlers per flow;
`single` is `settings.SingleThreaded` and `slow` counts how often Slowdown changes it;
IPv6 fragments may go to any processor. **`Icmp`** counts the references to a packet
as goroutines hand it over, and its waits may time out. **`Seamless`** keeps fds, event
fds and read loops under Swap and Close. **`Tunnel`** has callers of Restart that race for one
compare-and-swap, and a waiter per stack; a stack whose Up failed is a *stray* that
nobody refers to.

**`DnsAlg`** keeps the maps from synthetic addresses to real ones and back, with
expiry. **`DnsResolver`** keeps transports with a generation, so that a replaced one
differs from its successor. **`DnsCache`** numbers its buckets, because a query
keeps the bucket it found while `Clear` drops it from the store. **`Nat64`** models
an address as its bytes, so that what `ip4to6` writes and `ip6to4` reads meet.
**`Dot`** holds the pool and the transport in one module: conns change hands
between them.

**`Proxies`** gives a proxy a generation, like `DnsResolver`; **`ProxyTo`** is one
decision of it, with pins and a table that changes underneath. **`WgProxy`** takes one
step per atomic operation on the status. **`WgGso`** follows bytes through
coalescing and splitting. **`Retrier`** and **`Splitter`** follow the bytes written
to what reaches the peer.

### Composed modules

`MCConns`, `MCNetstack`, `MCDns`, `MCTransports` and `MCProxies` instantiate
components for TLC. Each is a disjoint union: the variable `part`, chosen at the start and never
changed, says which instance runs; the others stay in an initial state. So a run
explores the sum, not the product, of the components' states, and a property is a
conjunction over the parts, each guarded by `On(part)`. A component occurs more
than once where two settings ask different questions (`um`/`uw` of the muxer:
safety with more conns, liveness with fewer). Fairness is a premise inside the
liveness property (`(On("se") /\ seFair) => Se!OpsEnd`), so each part gets its own.

In `MCConns` and `MCTransports` the sizes of the components that are proved about are
constants, which the cfg gives their values, since the theorems are about every value.
`MuxTable`'s calls and owners are alike, so the union lets only one call
(`OddCall`) be of an owner other than `FirstOwner`; the theorems about the table are
also stated of its own specification, which has no such limit. `DcMulti` is one
instance with two parts: `dm`, a server that two calls add, remove and refresh, without
relays, and `dr`, with relays that come and go, one call at a time. `DmBound` says what
each part leaves alone. What TLC checks of the muxer's types it
checks of `um`, which has the larger constants.

## Runs

| run | module | result | asks |
|---|---|---|---|
| `barrier` | `Barrier` | holds | overlap of executions, a closed barrier, published results, Do returns |
| `flow` | `FlowHandler` | holds | conns closed, tracked is live, one summary, loop counts end |
| `conns` | `MCConns` | holds | the conn map; muxer, table and demuxed conns; refinement of `MuxerSpec` |
| `netstack` | `MCNetstack` | holds | forwarders, dispatch, pings, link, tunnel, flows' liveness, reapers, logs |
| `dns` | `MCDns` | holds | gateway, resolver, cache, plus, NAT64, mDNS |
| `transports` | `MCTransports` | holds | DoT and its pool, DoH, ODoH, DNSCrypt, multihost |
| `proxies` | `MCProxies` | holds | table, choice, auto, WireGuard, RPN, IP map, retrier, splitter |
| `barrier_gopanic` | `Barrier` | violated | see Findings |
| `muxtable_reset` | `MuxTable` | violated | see Findings |
| `flow_panic` | `FlowHandler` | violated | see Findings |
| `tcpfwd_late` | `TcpForwarder` | violated | see Findings |
| `memconsole_close` | `MemConsole` | violated | see Findings |

What each run asks is in its `about` in `PROJECT.json`; what each property says, and
of which file, in the comment above it in the MC module, and in more detail above
the component's own definition. None of the runs checks for deadlock: actors are
finite in number, and a system that is stopped, or whose work hangs, really does
nothing more; that waits end is stated as liveness instead.

**Bounds.** Two or three actors of a kind, because the races are between two; every
queue, channel and pool so small that it is both full and empty; every counter
(`Max...`) one more than the first value at which something repeats.
`barrier`: an owner, a duplicate and a caller who comes after the entry expired, on
one key; `TTL` 2 and `Neg` 1, and a clock that runs as long as a timer is pending.
`flow`: two flows, a summary channel of one, one reset, one change of the loopback
setting. `conns`: two ids, two users, two proxies and three conns, so that a batch
closes some and spares others and an id changes its owner; the reader and one egress
flow race for the routes to two addresses; three associations of two users from one
source, two muxers, one reset; two buffers of up to two bytes and channels of one.
`netstack`: two conns and one in-flight slot; two processors and two packets; three
tun fds; two callers of Restart; of two TCP flows one of any kind, which the other
meets at the summary channel (`flBound`); two log writers and buffers of two slots.
`dns`: two names whose synthetic addresses collide, a clock that outlives an answer;
prefixes of every length that the code accepts. `transports`: two queries on a pool
of one or two conns, two refreshes, two attempts at a certificate. `proxies`: two or
three proxies with two generations, two threads, datagrams and messages of up to
three. The constants of each instance are in the `INSTANCE` of the MC module, or in
the cfg. The proofs cover `Barrier`, `ConnMap`, `TcpForwarder`, `FlowHandler`,
`UdpMux`, `MuxTable`, `DemuxConn`, `DnsAlg`, the pool of `Dot`, `Odoh`, `DcMulti`,
`DcCert`, `DcQuery` and `MultiHost` beyond these bounds.

**Fairness.** Weak fairness of the steps a running goroutine takes, since Go's
scheduler is preemptive; of a ticker or a timer that is running; of exchanges that
the code bounds by a timeout; and never of what the environment decides (a packet
arriving, a flow's peer closing, the user asking, the network changing). For the
TCP forwarder only the watchdog is fair: the handler may be stuck for ever. In
`barrier` the work may never finish: the timeout is what is relied on; in
`barrier_gopanic` it does finish. In the flows' instance dials, handshakes and the
listener are bounded by timeouts of their own, and copying ends once its conns are
closed. The read of a DoH body, which the code does not bound, is not fair; that writes
of the retrier end is assumed. Strong fairness is assumed twice, each time of an outcome
of the network that is not refused for ever: an ODoH target answers some of the fetches and queries
(`Odoh`), and a host's resolver and live addresses answer some of the dials
(`IpMap`); without it no retry could promise anything.

## Findings

Each is a run that TLC violates, of a sentence in a comment:

* `barrier_gopanic`: work that panics under `Barrier.Go` leaves duplicates waiting
  for ever (barrier.go:238-239, 342). `Do` is not affected, since its timeout runs
  in the caller.
* `muxtable_reset`: the callback of a muxer stopped by `reset` can delete its
  successor from the table (udpmux.go:702-703).
* `flow_panic`: the nested select in `queueSummary` narrows the window for a send on
  the closed channel and does not close it (common.go:349-351).
* `tcpfwd_late`: an Establish overtaken by the watchdog stores an open conn whose
  request was reset (netstack/tcp.go:143-144, 263).
* `memconsole_close`: Close of the console waits for drains only when the active buffer
  is not empty; otherwise it unmaps what a Drain is reading (log/memconsole.go:480,
  462-464).

Other behaviours that the models have and that the properties are stated around:

*Flows.*

* `Do`'s comment says that one execution of a key is in flight at a time
  (barrier.go:236-239). One that outlives its entry's lifetime overlaps the next;
  `BoundedOverlap` is what holds.
* A duplicate of an execution that `Go` began has no timeout; `DoReturns` is about
  the others.
* `awaiters` may add a conn to the wait group while the Wait of `stop` is being
  woken, which panics, and then stop's callback is never made (udpmux.go:154, 179-180).
  `StopCompletes` says that stop ends, by its callback or by that panic.
* A blocked UDP flow queues two summaries (udp.go:190, 259); `OneSummary` leaves it
  out. An inbound TCP flow whose handshake fails leaves its conns open
  (tcp.go:171-199); `ConnsClosed` leaves it out.
* A flow between its dial and its Track survives `End`, and closes its conns when it
  ends by itself. `Reset` after `End` makes an ended handler accept flows again.
* An id that is tracked again with another owner leaves its old index entries behind
  (connmap.go:133): the second half of `IndicesAgree` is about ids tracked once.

*Packets.*

* IPv6 fragments are hashed by what stands where the ports would be, so those of one
  flow spread over the processors (forwarders.go:91-126; the comment at 84-85 says
  otherwise). `FlowOrder` is about whole packets and fragments of IPv4.
* Slowdown, toggled while packets are queued, lets the reader deliver past the
  processors; with happy eyeballs the packet that makes an endpoint may be older than
  those already delivered. `FlowOrder` leaves both out.
* A ping whose wait timed out may be answered late, a second time, from a packet that
  was let go of (icmpecho.go:190-193); `AnsweredOnce` is about the others.
* When Up fails, NewGTunnel returns without its stack, whose NIC and endpoint stay
  (tunnel.go:196-199, netstack.go:71-88). `NoStackLeak` is about stacks that somebody
  refers to, and so leaves out those strays.
* An entry put into an inner map of the sieve that was just dropped is lost
  (expiringsieve.go:155).
* The ring of recent errors hands out slices of cells that are used again
  ("possible 'a' points to a recycled byte", logger.go:578); `RingIsLive` is about the
  cells under the ring's lock.
* `Connect` with no link MTU makes a tunnel, drops it, and makes another
  (tun2socks.go:161-163).

*Names.*

* A query that sends its summary as the resolver stops may do so on a closed channel,
  and panics (transport.go:288-298, 1251, 1276); the query is then left where it is. A
  summary that finds the channel full is counted as dropped, not as told.
* With forced translation an A query brings an AAAA query of its own, if the name is
  one that requires the system's DNS; the comment above says that for such names it
  should not (transport.go:647-650).
* Names are filed by app only once splitTunnel is on (alg.go:1135): of an answer from
  before, `AlgIsUndone` says nothing about the name (its part `NamesAreKept`). An
  HTTPS or SVCB record that takes no synthetic addresses is an error after its entries
  were made (`errAlgCannotSubst`, 1656-1665).
* `X46` does not skip byte 8 for prefixes of 40 to 64 bits, where `ip6to4` does
  (natpt.go:96-116, nat64.go:38-58, 78-86). What D64 makes is undone for every length
  (`TranslationIsUndone`), what `X46` makes for those whose bytes do not lie across
  byte 8 (`DialsWhatItCan`).
* `makeIPPorts` returns up to one more than its `cap` when it includes the original
  address (common.go:623); translation may be paused between `register`, which looks,
  and the question to the resolver (dns64.go:186-189).
* The mDNS listener's send has no way out (mdns.go:508): with more discoveries than the
  channel holds it blocks for good once the query took its answer. `Mdns` has that
  state, and `AllEnd` allows it.
* A read lengthens the life of a cached answer that is not near its end
  (cacher.go:285-287); `Put` may add a conn to a pool that has just been cleaned,
  where nobody closes it (connpool.go:287), and, since it resets the conn after
  handing it over, may clear the deadline of the query that got it (dot.go:187). A
  DNSCrypt server removed during its fetch comes back (multiserver.go:586).
* The body of a DoH answer is read without a time limit (doh.go:870, and the TODO at
  89): it is not fair, and `ExchangesEnd` speaks of DoH up to it. Certificate attempts
  that lose stay blocked on an unbuffered channel (certs.go:246), which it does not
  count.
* The indices of a multihost by address do not follow a host whose addresses changed
  (multihost/map.go:215).

*Proxies.*

* A hop whose own hop is not yet connected is accepted, so three in a row can arise,
  and a failed new hop leaves the old one in place but forgets it (proxies.go:1046,
  1055). An update may be told to the observer after the removal of its proxy
  (proxy.go:213-223): `RemovalIsLast` is about additions. AddProxy as the proxies are
  stopped may send on a closed channel.
* A pinned proxy without h3 and without a route is pinned again (proxies.go:643-648,
  754-761): `PinsAreRoutable` leaves out such a proxy.
* The auto proxy pins an address to the index that Race knows; win calls itself 3 in a
  dial where Race says 2 (auto.go:224, 253), so that a dial of an address pinned to win
  fails and unpins it. Conns of contestants that lose are dropped without a close.
* Two pings of one WireGuard proxy may be closer than the period (wgproxy.go:276). A
  refresh resets the mtu for the via it loaded before it waited (400, 410), a Hop's
  refresh is skipped when another has just been made, and then the mtu is the one set
  for another via: `MtuFits` is relative to the via the mtu was set for. Down and Up of a
  refresh in flight end the black hole of a proxy that was paused meanwhile. A device whose
  Open fails goes down and stays there until the next Up (wgconn.go:376-396).
* After EIO all datagrams are sent again, those that had gone out included; control
  data of the first attempt is still there, and the second then fails as the first did
  (wgconn2.go:773-808).
* `getconn` stores the family that has no socket, where its comment says "persist the
  working family" (wgconn.go:712), and the write takes the peer's address anew.
* An update asked to rotate its keys right after another keeps them
  (backend/ipn_proxies.go:109); one that fails midway may leave a key the provider has
  dropped, or report an error with new credentials in use (yegor.go:89). A kid that is
  purged while all are being forked again comes back (backend/ipn_proxies.go:261). A
  fork and a purge of one country that meet half done leave it in the books or in the
  table alone (rpn.go:388-397, 606-611); `BooksMatch` is about the other countries.

*Dials.*

* Addresses that were resolved, not seeded, are added to and confirmed on protected
  sets (ipmap.go:798, 823-824 say that they must not be); `ConfirmedIsKnown` asks that
  a confirmed address is in its set.
* A write that failed for a while on a conn that still reads is reported as replayed
  although nothing was retried (retrier.go:666-667). Only the first write has a
  deadline, and it is the caller's (576): that writes end is assumed.
* Desync sends no message that is exactly as long as its payload, and says that it
  wrote nothing (split_and_desync.go:406-417); a second writer that meets the first
  closes a channel nobody made, and panics (402). Bytes of other writers may come
  between the two segments of a first message. `SplitIsFaithful` and `WritesReturn`
  say so.

These are the reason a property says less than a comment or a name would suggest;
they are described, not judged.

## Proofs

All are for arbitrary constants, under named assumptions: the `ASSUME`s of the
component modules, or, for a component that the runs instantiate, its definition
`...Constants`, which is a hypothesis of its theorems and which the MC module assumes
of every instance, so that TLC evaluates it. They ask for little: finite sets of
actors where something is counted, positive lifetimes and limits, and a `Nil` that is
none of the things it stands in for. Each proof rests on an inductive invariant, with
one lemma or step per action, that was checked on the run first.

| theorems about | are in |
|---|---|
| `FlowHandler`, `UdpMux` | `...Proofs` |
| `Barrier`, `TcpForwarder`, `DnsAlg`, `Dot` | the component's module, after its specification |
| `ConnMap`, `MuxTable`, `DemuxConn` | `MCConns` |
| `DcMulti`, `MultiHost`, `DcCert`, `DcQuery`, `Odoh` | `MCTransports` |

In the last two rows a component's definitions for the proof (`Inv` and what it is
made of) end its own module, and its proof is beside its instance, whose constants are
the MC module's own; the names of lemmas there start with the instance's (`DmFetchInv`).
What follows from all of them for the union ends the MC module: each component's part
of a behaviour of the union is a behaviour of its own specification, in which it moves
or stands still, and so its invariants carry over. `ComponentsAreTyped`,
`IndicesStayInAgreement`, `RoutesStaySound`, `HoldersStaySingle` and `PromiseIsKept`
(`MCConns`), `OwnersStaySingle` and `AnswersStaySound` (`MCTransports`) thereby prove the very
properties that the runs `conns` and `transports` check. A lemma `...Counts` says that
`Cardinality` in an instance is that of the module outside.

* **`Barrier`.** `BoundedOverlap` is not inductive: it says nothing of the
  entry that makes the next caller wait. The invariant adds `CachedOrAged` (while the
  barrier is open an execution in flight is the cached one of its key, or is at least
  a `TTL` old) and what it rests on: an entry is that of a call for its key
  (`EntriesOwned`), a running work has an owner (`WorkersOwned`), a V has no result
  and so no short lifetime until its owner wrote it (`UnsetUntilWritten`), and a call
  between its miss and its add holds the mutex (`AddHoldsMutex`).
  `ClearedStaysEmpty` needs `ClearedIsClosed`. `PublishedIsFinal` is an action
  property derived from the same invariant.
* **`ConnMap`.** The invariant is the types, `NoConnIsLost`, the two halves of
  `IndicesAgree` (what is tracked is indexed, and nothing else is while no id has been
  tracked twice) and `Owned` (each conn belongs to one flow), which removal needs: without it a batch could close a conn another flow
  still reaches. Cardinalities use the library's theorems on finite sets.
* **`TcpForwarder`.** The invariant adds to the types that the number of
  in-flight requests is the counter (`Accounted`), and which states of handler,
  watchdog and request go together (`SetUp`). From it: a request is completed once,
  and a served conn holds no slot.
* **`FlowHandler`.** For any number of flows and destinations and any capacity of the
  summary channel. `ConnsClosed` speaks of flows that are over; the invariant says
  where flows of a kind can be (`Placed`) and what is open at each step, which is what
  the steps still to come will close (`Sealed`). `TrackedAreLive` follows from where a
  tracked flow is (`TrackedHeld`). `OneSummary` counts what is posted and what is
  queued against whether the flow's summary is still due (`ToldOnce`), and
  `NoLoopsLeft` bounds each count of the loop table by the flows that may have made it
  (`LoopsCounted`); both are inequalities, since a full channel drops summaries and a
  reset clears counts.
* **`UdpMux`.** The lock is the argument: a router past its lookup holds `rmu`, and
  the conn it made is for an address that has no route and is known to nobody else
  (`RoutersSound`); a route leads to a conn of its address (`RoutesSound`), an open
  conn has its route and one that is awaited keeps it (`ConnsSound`), and once drained
  there are no routes and nobody is about to add one (`StopSound`). `DrainClosesAll`
  and `OneOpenPerAddr` follow; `OpenStaysRouted` is an action property. `KeepsPromise`
  is the refinement of `MuxerSpec`: the mapping takes the phase from the progress of
  stop and drain, and as live the open conns; every step of the muxer is shown to be a
  step of `MuxerSpec` or a stutter.
* **`MuxTable`.** A slot has a muxer made for it and, before the first reset, a muxer
  that runs is in its slot (`SlotsSound`); a call that found a muxer found one of its
  source and owner (`CallsSound`). After a reset the first part fails, which is the
  finding `muxtable_reset`; `OwnMuxer` is proved with resets.
* **`DemuxConn`.** `Holders` is the set of places a buffer is in. A buffer is in one place (`Apart`: pool, the two channels, the
  muxer's hand and the reader's), what is queued begins where reads left off
  (`QueuesSound`, `ReadSound`), and a half that has returned has left the closing to
  the other half, which has yet to look at the flag it set (`HalvesSound`: the two
  compare-and-swaps and loads of CloseRead and CloseWrite). What the channels hold
  after a send or a receive is proved for sequences in general.
* **`Dot`** (the connection pool). `Hold` gives, for each *place* (a query, a Get's
  worker, a pool's channel, a scrub's staging area), the conns that are there. The
  invariant `Apart` says that no conn is in two places and that one in a place is open.
  It needs that a channel has a conn once (`QueuesDistinct`), and that a query has a
  conn exactly from its Get or dial to its Put while a worker that is waited for has a
  caller that waits (`ThreadsSound`): otherwise a worker could overwrite the conn of
  its caller. A step leaves all places as they were or poorer (`Quiet`), hands one
  conn from one place to another (`HandedOver`), closes one (`ClosedOne`), or dials a
  conn that was nowhere. `OneOwner`, which counts holders, follows by cardinality. A
  late worker drops its conn, so that an open conn may have no holder; the theorem is
  about holders and does not say that each open conn has one.
* **`DnsAlg`.** For any names, addresses, transports, apps and hashes and any number of
  queries at a time. The invariant says that `alg` and `nat`
  are inverse to each other (`NatMatchesAlg`), that each address an entry has, of
  whatever age, leads back to it (`ListedIn`), and, for each answer an app was told of,
  what its entry still owes it (`KeptBy`): the synthetic address for good, the
  addresses, the name and a secondary's block until the ttl is over or the transport
  stops, and the addresses among the current or past ones until the stale threshold.
  The argument is one relation between an entry and its successor (`Carries`), shown of
  `merge`, `rmv`, `relegateLocked` and the vacuum; whatever an entry owes, one that
  carries it owes too (`CarriedIsKept`). An entry that `onStopped` has yet to visit has
  not gone (`StoppedOK`), and a query that will file its answer does so under an id of
  a transport (`CallOK`). `DnsAlgConstants` asks of the hash only that addresses of the
  two families differ, and of NAT64 that it leads from ip4s to ip6s.
* **`DcMulti`** (DNSCrypt's servers). `NoServerLeak` counts the server objects made: one
  in the map, those being stopped, and those that a goroutine has and will store. It
  becomes inductive with the types and with `Named` (a goroutine at work on a server
  knows which); each step moves one object between the three, and the count of the
  third is a cardinality.
* **`MultiHost`.** `NoHostIsLost` needs to know where the refresh that has a host in
  hand is (`InHand`); `NoStaleAppend` needs that the lock of a host is held from before
  DNS is asked until the answer is stored, so that an answer in hand is no older than
  the last reset (`ThreadSound`).
* **`DcCert`.** Until an answer comes nobody is cancelled and each attempt that is gone
  has been counted (`ExchangeSound`), so that failure means that all failed or time is
  up; the certificate held is the best usable one of those walked so far (`WalkSound`).
* **`DcQuery`.** A query has a result only when it is over, and the size of an answer is
  known once it is opened (`AskedSound`); from it, what a UDP client gets fits.
* **`Odoh`.** The types and `SealedToAKey`, which is inductive with them.

What the runs check beyond the theorems:

* **All liveness properties**, since the prover has no rule for fairness, and
  `ENABLED`.
* **Safety of the components without theorems** (`Inbound`, `Icmp`, `Seamless`,
  `Tunnel`, `Sieve`, the logs, `DnsResolver`, `DnsCache`, `DnsPlus`, `Mdns`, `Doh`, the
  proxies and the dialers): `NothingLeaks`, `BuffersHaveOneOwner`, `FlowOrder`,
  `NamesAreGuarded`, `RecheckIsSpaced`, and the properties and types that `netstack`,
  `dns`, `transports` and `proxies` check of these components are TLC's only.
  `FlowOrder`, `WireIsAsSent` and the rings of the logs relate whole sequences, whose
  proofs are by induction over them; for the others no proof has been written.
* **What is recursive or inductive over data**: the address layout of `Nat64`, the
  coalescing of `WgGso` and the byte streams of `Retrier` and `Splitter`, where a
  proof would be by induction over the input.

## What is not modelled

Bytes and packets beyond what a property tells apart, the wording of logs, statistics
and cryptography. The verdict of `onFlow` is an input of `FlowHandler`. In
`TcpForwarder`, `go core.Close(g.conn())` reads the conn and closes it in one step.
These parts have no module, or not all of one; the reasons are with the components in
`PROJECT.json`:

* the NAT table of `tcp.go`; methods of an established `gUDPConn`, which pass through
  to gVisor; the set-up of netstack, packet capture and interface statistics;
* plain DNS beyond what `Dot` has of it (`dns53/dns53.go`) and the system resolver
  (`dns53/goos.go`); blocklists, which are data; bootstrap;
* proxies other than those above (SOCKS5, HTTP, base and exit), which forward calls, and
  the local servers, which are built on libraries;
* settings, the generated bindings for Java, build-tagged hooks.
