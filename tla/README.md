# Verification of the recursor

TLA+ models of the PowerDNS Recursor in this repository, the TLC runs that
check them and the TLAPS proofs about them. The program is the Windows port of
Recursor 5.3: `CMakeLists.txt` builds `main_test.cc` with `pdns_recursor.cc`,
`lwres.cc`, `syncres.cc`, the caches, the task queue and `libeventmplexer.cc`
into one executable with one thread, in which cooperative *mthreads* resolve
the questions of clients.

Contents: [the system](#the-system), [the modules](#the-modules),
[the runs](#the-runs), [fairness](#fairness), [what is proved](#what-is-proved),
[findings](#findings), [what is not modelled](#what-is-not-modelled),
[plan](#plan).

## The system

| component | code | state | operations | interacts with |
|---|---|---|---|---|
| scheduler | `mtasker.hh`, loop of `main_test.cc` | run queue, zombies, threads, waiters by key and by deadline, one hand-over slot (`d_waitstatus`, `d_eventkey`, `d_waitval`, `d_used`) | `makeThread`, `schedule`, `waitEvent`, `sendEvent`, `yield`, `nextWaiterDelayUsec` | called by everything that waits; calls mthreads by switching stacks |
| multiplexer | `mplexer.hh`, `libeventmplexer.cc` | callbacks and libevent events per descriptor | `addReadFD`, `removeReadFD`, `run` | calls handlers from `run()` |
| outgoing UDP | `asendto`, `arecvfrom`, `handleUDPServerResponse`, `doResends`, `UDPClientSocks` in `pdns_recursor.cc`; `asyncresolve` in `lwres.cc` | sockets, the waiters' `PacketID`s with chains, near misses | ask, chain, receive, resend, time out | scheduler (keys are `PacketID`s), multiplexer |
| task queue | `taskqueue.cc`, `rec-taskqueue.cc` | queue without duplicates, rate limit set, statistics | push (three kinds), run one, clear, pop | pushed to by caches and `SyncRes`, run by mthreads behind their answer |
| DoT probes | `syncres.cc` 309-351, 5682-5781 | status per server, busy counter | submit, run, update, prune | task queue |
| record cache | `recursor_cache.cc`, `cachecleaner.hh` | shards, each with a lock: entries with ttd, authority, state, serve-stale count, submitted flag; an LRU list; an index of netmasks; the range of the last name looked up | get, replace, age, validate, wipe, prune | task queue (refresh), `SyncRes`, housekeeping |
| negative cache | `negcache.cc`, `cachecleaner.hh` | shards of denials of a type or (type ENT) of a whole name, LRU lists | add, get, validate, wipe, clear, prune | the same |
| resolver | `syncres.cc` | per question: depth, time, query counts; shared: throttles, failed servers, EDNS status, server speeds, each under a lock | `beginResolve` and below; `doResolveAtThisIP` asks one server | caches, outgoing UDP and TCP, housekeeping (pruning) |
| outgoing TCP connections | `rec-tcpout.cc`, `asyncresolve` in `lwres.cc` | idle connections per address and thread | get, store, clean up | resolver |
| client side | `handleNewUDPQuestion`, `doProcessUDPQuestion`, `startDoResolve` in `pdns_recursor.cc` | none of its own | admit or drop a question, start an mthread, answer | scheduler, resolver |
| counters | `tcounters.hh` | per-thread values and a merged snapshot | increment, update snapshot | all |
| policies | `filterpo.cc` | zones of names and netmasks | match | resolver |

The full daemon (`rec-main.cc`, its pipes between threads, housekeeping),
DNSSEC validation, zone transfers and the packet cache are in the tree and not
in the build.

**How they interact.** The main loop calls `schedule()` until it returns false,
then `FDMultiplexer::run()`. A handler called from `run()` may start an mthread
(a client's question) or wake one (a server's reply). `sendEvent` switches to
the mthread at once: it runs, inside the handler, until it waits again or ends.
Nothing else preempts, but every wait is a point where all shared state may
have changed.

**What is hard.** One hand-over slot for all mthreads; queues and iterators that
are used again after a switch; a timeout against a late reply; who closes a
socket; requests chained onto another while that one is being answered;
deadlines, rate limits and statistics of background tasks that are looked at
under different locks at different times. `PROJECT.json` lists these hazards
with the line where each bites and the properties that would notice.

**What makes each component correct.**

* scheduler: an mthread is woken once per wait, by its own event or after its
  own deadline; none is lost or doubled; the thread count is exact; the loop does
  not sleep past deadlines; timed waits end.
* outgoing UDP: every request ends; an answer ends only requests for what it
  answers, and all of those chained together; sockets are neither leaked nor
  closed under a waiting request.
* task queue: tasks are conserved and counted once, each is there once, the rate
  limit limits, a queued task gets its turn.
* DoT probes: the busy counter is the number of probes under way, no address
  stays busy, none is probed again too soon.
* caches: lists, indices and cached ranges follow the map; an entry served stale
  ends; authoritative data is not replaced by hearsay; what was denied and has
  come back is served again; pruning hits its target while others go on.
* resolver tables: a server is held down, or asked without EDNS, only if it earned
  it; throttles end; limits bound the number of queries; kept connections work.

## The modules

| module | models | extends / instantiates |
|---|---|---|
| `MTasker` | `mtasker.hh` under the loop of `main_test.cc` | |
| `MTaskerProofs` | theorems about `MTasker` | `MTasker`, TLAPS |
| `UdpQuery` | outgoing UDP | instantiates `MTasker` (its scheduler) and `Requests` (its promise) |
| `UdpQueryProofs` | theorems about `UdpQuery` | `UdpQuery`, instantiates `MTaskerProofs` |
| `UdpAnswersProofs` | theorems about whose answer a request gets, and that `UdpQuery` implements `Requests` | `UdpQueryProofs` |
| `ExchangesProofs` | theorems about `Exchanges` | `Exchanges` |
| `Requests` | abstract: groups of equal requests with a leader | |
| `TaskQueue` | the task queue, its rate limit and statistics | |
| `TaskQueueProofs` | theorems about `TaskQueue` | `TaskQueue`, TLAPS |
| `DotProbes` | the DoT probe map, its counter and those who use it | extends `TaskQueue`, whose tasks are the probes |
| `DotProbesProofs` | theorems about `DotProbes` | `DotProbes`, `TaskQueueProofs` |
| `ShardedCache` | what both caches share: maps with LRU lists, serve-stale, pruning | |
| `RecCache` | the record cache, an operation per call | extends `ShardedCache` |
| `NegCache` | the negative cache | extends `ShardedCache` |
| `Caches` | the two caches and the resolutions and other callers that use them | extends `RecCache` and `NegCache` |
| `CachesProofs` | theorems about the two caches and their callers | `Caches`, TLAPS |
| `Servers` | throttle, failed servers and EDNS status of `syncres.cc` | |
| `TcpOut` | the idle TCP connections of a thread | |
| `Exchanges` | resolutions asking the servers of a zone | extends `Servers` and `TcpOut` |
| `Zones` | external: the name space, its authoritative servers and what is true of it | |
| `Resolution` | the recursion of `SyncRes` that finds the address of a name | extends `Zones` |
| `ResolutionProofs` | theorems about `Resolution` and what `Zones` says is true | `Resolution`, TLAPS |
| `MCMTasker`, `MCUdpQuery`, `MCTaskQueue`, `MCDotProbes`, `MCCaches`, `MCExchanges`, `MCResolution` | values for TLC | the module of that name |

### MTasker

Variables named `d_...` are the members of the class. `running` says which
context executes, `frame` where the kernel is or what code it left to run an
mthread (`schedule` about to look at its queues, `run`, `send`, `scan`: below a
switch; `poll`: in `FDMultiplexer::run`). `pc` says where each mthread's stack
is. A switch is thus two steps, one that leaves and, some steps later, one that
comes back; what the code does behind the switch happens then
(`AfterSwitch`: the run queue is popped after the mthread has run, as
`schedule()` does; `WaitReturn`: the rest of `waitEvent`).

| code | action |
|---|---|
| `makeThread` | `MakeThread` |
| `schedule`, its three branches | `ScheduleRun`, `ScheduleReap`, `ScheduleScan` and `ScanWake` per waiter woken |
| leaving `schedule`, `nextWaiterDelayUsec`, `run` | `Poll`, `PollReturn` |
| `waitEvent` to the switch / behind it / on an occupied key | `WaitEvent` / `WaitReturn` / `WaitEventError` |
| `sendEvent` | `SendEvent` |
| `yield`, the wrapper of the start function | `Yield`, `Finish` |

Time is a counter that may advance in any state (`Tick`). `waitEvent` is always
called with a time read immediately before it, so the deadline is taken from
`now`. A tick stands for any unit; the rounding of the poll time to milliseconds
(down, so that the loop may poll once more with 0) is below it. `run()` in this
port returns only when its timer fires, whatever was dispatched
(`libeventmplexer.cc:295`), hence the guard of `PollReturn`; at the last
instant, where time stands still, it may always return.

### UdpQuery and Requests

`UdpQuery` shares the scheduler's variables with an instance of `MTasker`: keys
are `PacketID`s, reduced to what `PacketIDCompare` compares, and a key per
mthread for `mthreadSleep`. `watch` is the multiplexer's view (which `PacketID` a
descriptor is watched for), `pident` the rest of the `PacketID` an mthread waits
with (chain, closed, subnet, creation time, near misses), `handler` the point
`handleUDPServerResponse` has reached.

An mthread's step is all it does between two waits: `AskAnew` (`asendto` with a
new socket, `arecvfrom` to its wait), `AskChained`, `AskChainLimit`,
`AskSendFails`; `Receive` (behind the wait), `Sleep` and `SleepReturn`
(`mthreadSleep`), `Finish`. The handler is cut where it switches: `RecvError`,
`RecvAnswer` and `RecvNameless` up to the first wake-up, `ResendOne` per chain
entry, `WakeHead`, `CloseSocket`. Between these steps the woken mthread runs
and may ask again.

`asked` is what an mthread asked for and which request leads it; it is a
history of calls, read by properties only, except that it keeps an mthread from
asking while it waits. `authWaitTimeMSec` depends on the load of the whole
recursor; the model takes any of `WaitTimes` at each call. Message ids are drawn
at random; `IdsRepeat` says whether they may coincide with one still in use.
The id is opaque: on Windows it is byte-swapped once more on sending
(`lwres.cc:558-575`) and once more on receipt (`pdns_recursor.cc:4493`), which
cancels out.

`Requests` states what callers rely on: requests for the same thing form groups,
a group that is being answered takes no members, an answer reaches all members
and the leader last, and only a group's own answer or a timeout takes a client
out of it. `UdpQuery!KeepsPromise` maps the waiting requests to groups
(`Groups`), the waiters with a socket to leaders (`Leaders`), the heads whose
answer has not begun to groups that take members (`Accepting`), and the handler to
the group being answered (`Answering`), and checks every step against it. Who waits
for nothing is in the group `Closed`, the code's -1, which numbers no request
(`ClosedAssumption`).

### TaskQueue

`queue` is the sequenced view of `d_queue`; a task's identity is its kind (which
of the three functions pushed it; this fixes its function and refresh mode) and
a name that stands for the rest of the key. An action is what happens under one
lock or one update of an atomic counter: `++pushed` behind the lock is
`CountPush`, popping and running a task are `Pop`, `Run` and `RunDone`, counting an
expired one is `IncExpired`. While a task runs, its worker may push. `accepted`
and `removed` are histories for the properties. `PushResolve` takes the
caller's time, at most `MaxLag` behind the clock, since `SyncRes` takes `d_now`
from the end of its last question to a server. Not modelled: the early return for unsupported types, which
changes nothing, and `forceQMOff`, which only makes another key.

### DotProbes

`dotMap` maps addresses to entries (status, seen before, ttd), `numBusy` is
`d_numBusy`; both are under one lock, held while the probe is pushed, so that
`SubmitTryDot` is one step with `TaskQueue!PushTryDoT`. Questions ask whether to use
DoT (`ShouldDoDoT`, `DoTtoAuth`), talk to the server, and write the result to the
map (`DoTAnswered`), which must leave the counter alone; the end of the task does
both (`ProbeDone`); `PruneDoTProbeMap` removes old entries, busy or not. In this
build nothing sets `s_max_busy_dot_probes`, which is 0 (`rec-main.cc:1844` sets
it), so the module describes the code with the setting on.

One assumption: a probe ends before its entry's time does, `dotFailWait` (a
day) after its submission (`ProbesInTime`, a guard of `Tick`). Without it the
entry is pruned, submitted again and lowered twice, and the unsigned counter
goes below zero.

### ShardedCache, RecCache, NegCache and Caches

A shard is a record: the map as a function, the LRU list as a sequence of keys,
and for the record cache the set `index` (`d_ecsIndex`) and the `range`
(`d_cachecache` with its validity). Record contents are left out; of an entry
remain the attributes that decide what happens to it. An action is one call of
a cache, under the lock of one shard; a lookup is computed as the record of what
it has done so far (`Lookup`, along the masks of the client or the
entries of the name in any order), because lookups change the cache: they
extend, move in the list, erase from the index, mark as submitted and push tasks.
What goes over all shards (wiping a subtree, clearing, pruning) takes a step per
shard. `tasks` is the set of refresh tasks pushed; `TaskQueue` has the rest.

`Caches` adds the resolutions. `CheckTop`, `CheckName`, `CheckAbove` and `CheckRec` are
the lookups of `doCacheCheck` in its order, each under a lock of its own;
`NoAnswer` restarts with serve-stale; `AnswerRecords` with `WipeDenial`,
`AnswerNXDomain` with `ZapCNAME` and `DenyTop`, and `AnswerNoData` store what a server
says and wipe what contradicts it. `LookUp`, `Store`, `StoreDenial`, `Wipe`,
`ClearDenials`, `Age`, `Validate` and `PruneStep` are the other callers. `d_now` of a
caller may lag behind the clock (`setup.lag`).

`setup` is chosen at the start and says which settings and which traffic a
behaviour has, so that one run is the union of small instances, each about one
hazard; it never changes. `root-nx-trust` is on, `nothing-below-nxdomain` on or
off (its DNSSEC-only mode is left out); the special case of a denied DS,
forwarding, policies and aggressive NSEC are left out. `updateCacheFromRecords` forces
glue to be stored as authoritative and as a refresh (`syncres.cc:5165-5184`);
the model stores with any of the answers of a setup. In this tree
`getBestNSFromCache` marks every NS set as flawed (debug output has split an
if-else, `syncres.cc:2445-2465`), which only makes `doAgeCache` more frequent.

### Servers, TcpOut and Exchanges

`Servers` has the three tables as partial functions, an operator per method and an
action per pruning task; `TcpOut` the idle connections as a sequence (a multimap keeps
the order of insertion of equal keys). `Exchanges` is the resolution over them: `work` is what an mthread
has on its stack, `at` the place it has reached. It waits only at `udp` and `tcp`;
between two waits an action is what happens under one lock, so that the mthreads
of other threads come in between and those of its own do not (`At`).

| code | action |
|---|---|
| `doResolveAt`'s loop over addresses | `Start`, `NextAddr`, the lame case of `OpenQuestion` |
| `throttledOrBlocked` | `PassServer` or `RefuseServer`, `CheckQuestion` |
| `updateQueryCounts`, `asyncresolveWrapper` up to the wire | `Ask` |
| `asyncresolve` over UDP: no answer / too many near misses / a packet | `UdpFails` / `UdpSpoofed` / `UdpReply` |
| its loop over TCP, `tcpconnect`, `tcpsendrecv` | `Connect`; `TcpFails`, `TcpMismatch`, `TcpReply` |
| what `doResolveAtThisIP` does about a failure | `CountFailure`, `Punish` |
| and about a valid answer | `ClearFails`, `OpenServer`, `OpenQuestion` |

The inside of a UDP question is `UdpQuery`; here it has an outcome, and `chained`
says whether it was another's. `dnow` is `d_now`, read again at the end of an exchange only.
`valid` is `d_validpacket` of the `LWResult` that all addresses of one server name and
both protocols share. `row` and `formerr` are histories of what servers did. As in
`Caches`, a `setup` chooses which mthread is on which thread, what servers and the
network may do, and the limit on queries. A throttled server is let through now and then
(`s_unthrottle_n`), here at any time.

In `main_test.cc` the settings `s_serverdownmaxfails` and the limits on idle
connections are left at 0 (`rec-main.cc` sets them), and TCP is a stub that fails; the module describes
the code with the settings on, and `TcpAnswers` says whether TCP is the stub. Left
out: that the root is never declared down, the lists of servers not to throttle or not to ask, a
`SERVFAIL` of a forwarder, the second try without a client subnet (`ECSMissing`), DoT, the limit on total time, server speeds and the
order they give to addresses (any order is taken). A resolution is one server name's
addresses. Failures are counted up to `MaxFails`, which is all that is compared.

### Zones and Resolution

`Zones` is what the resolver cannot change: which zones there are, what their
parents and they themselves say of their servers, which address serves what, and the
answer of a server to a question (`Reply`). It also says what an honest answer is
(`Truth`) and what can be found from the root by asking servers that work
(`Reachable`); both know nothing of how the resolver looks for it.

The functions of `SyncRes` call each other recursively, and any of them may be on
the stack when an mthread waits. So a worker has a `stack` of frames, each with its
function, its locals and the place it has reached; a call pushes one, a return puts
the result into `got` of the caller's. `me` holds the members of the `SyncRes` object
that functions set and restore around calls. `running` is the mthread that has the
thread: it gives it up only when it asks a server, and the record cache `cache` and
the denials `neg` may be other ones when it has it back.

| code | action |
|---|---|
| `doResolve` | `NoMinimization`; `Step0` and `Peeked`, `Step1`, `Step34`, `ChildAsked`, after its comments |
| `doResolveNoQNameMinimization`, with `doCNAMECacheCheck`, `doCacheCheck`, `getBestNSFromCache` | `RefuseDepth`, `CachedAlias`, `AliasFollowed`, `CacheHit`, `NotCached`, `GoOut`, `NowhereToGo` |
| `doResolveAt`, `getAddrs` | `NoMoreServers`, `TryServer`, `ServerResolved`, `AskServer` |
| `doResolveAtThisIP`, `sanitizeRecords`, `updateCacheFromRecords`, `processAnswer`, `handleNewTarget` | `Receive`, `Lose`; `Refused`, `GotAddress`, `GotAlias`, `TargetResolved`, `GotDenial`, `GotReferral` |

A throttled server that is held back looks like one that does not answer, and is
counted as a query as well, so it is a `Lose`. That goes for servers throttled because
they were lame or refused (`syncres.cc:6579-6580`, `6053`) too, and as `Lose` marks the
question as one whose exchange failed, `WorkingIsFound` does not say that a throttle entry
never hides a server that works; that the entries of the throttle run out is
`RefusedThenAsked` of `Exchanges`. Times are left out: an entry may expire
whenever all wait (`ExpireRecord`, `ExpireDenial`), except the root's, which are
primed again. Only addresses are asked for. Left out: serve-stale and refreshing
(`Caches` has them), forwarding, policies, validation, ECS, DNAME, `root-nx-trust` and
`nothing-below-nxdomain`, the table of name servers that do not resolve
(`syncres.cc:3649-3687`), a saved parent's NS set, the stricter depth while servers
are throttled, the limit on time, and the order in which servers are tried (any is).
The settings are those of the daemon (`rec-main.cc`); `main_test.cc` leaves some at 0,
see [findings](#findings).

## The runs

| run | shows |
|---|---|
| `mtasker` | the invariants, action properties and liveness of the scheduler: 2 mthreads, 2 keys, timeouts none, 1 and 2, one yield, 6 instants: the first poll lasts two of them, so both timeouts can start in the third and be found expired together; one mthread may wait for ever while the other's waits end |
| `udp_safety` | sockets, chains and answers, that no request is ended by the answer for another subnet while ids differ, and the refinement of `Requests` (`KeepsPromise`): 3 mthreads, 4 requests (a woken mthread asks again while the rest of its chain is being served), 2 subnets, 2 descriptors (a new request can get the one just closed), 3 ids, chains of at most 2 |
| `udp_live` | every request ends, and the refinement of `MTasker` (`UsesMTasker`): 2 mthreads, 2 requests with one and the same id, chains of at most 1 and one near miss allowed, so that both limits are met, waits of 1 or 2 and 6 instants, so that a chained request can outlive its head, or be answered late and its mthread sleep |
| `taskqueue` | conservation, statistics, rate limit, and that queued tasks leave the queue: 2 workers, 1 name, all three kinds, 3 accepted pushes, purge on every second insert, a period of 2 and clocks that lag by 1 |
| `dot_probes` | the counter of probes, the time between probes, the end of being busy: 2 workers, 2 addresses, room for one probe, 2 pushes, 4 instants with both waits 2 |
| `caches_safety` | the invariants and action properties of both caches, over the seventeen setups of `MCCaches!AllSetups` |
| `exchanges` | servers are treated as they deserve and are asked again: 2 mthreads on one or two threads, 2 addresses, 1 question, 3 instants, two failures to be down, over the eight setups of `MCExchanges!AllSetups` |
| `resolution` | answers are true, what can be found is found, every question ends: 2 mthreads, two levels of zones below the root, at most 2 questions and 2 faults, over the five worlds of `MCResolution!MCWorlds` |
| `udp_chain`, `taskqueue_scheduled`, `exchanges_idle`, `resolution_glue` | disagreements between code and comments, see [findings](#findings) |

Properties, by module (each is commented where it is defined):

* `MTasker`: `TypeOK`, `Handshake` (an event is read by the mthread it is
  for), `WaitersMatch`, `OnePlace` (no mthread lost or doubled), `CountExact`,
  `NoEarlyTimeout`, `PollMeetsDeadline`, `TimedWaitEnds`, `ReadyRuns`. `OneRunning`
  and `OrderedTimeouts` are proved only.
* `UdpQuery`: `SocketsOwned`, `ChainServed`, `ChainPlaces`, `AnswerIsOwn`,
  `AnswerForOwnSubnet`, `AskEnds`, `UsesMTasker`, `KeepsPromise`.
* `TaskQueue`: `Conservation`, `PushesCounted`, `RateLimited`, `QueueDrains`;
  `OnceQueued` is proved only.
* `DotProbes`: `ProbesCounted`, `ProbesSpaced`, `BusyEnds`.
* `Caches`: `CachedRange` (no lookup through a stale range), `IndexComplete` (no live
  entry hidden from lookups by netmask), `StaleBounded` (stale entries end),
  `AuthProtected`, `PruneHitsTarget`, `RecoveredServed` (what has come back is not
  denied).
* `Exchanges`: `Deserved` (what is held against a server is its own doing, although
  counting, punishing and forgiving take a lock each), `RefusedThenAsked` (no server
  is refused for good).
* `Resolution`: `AnswerTrue` (a client is told the truth or that it failed, whatever was
  cached, lost or expired), `WorkingIsFound` (what can be found is, unless an exchange
  failed), `Answered` (every question ends), and in `TypeOK` `FlagsScoped`: the flags
  set around a call hold as long as that call and no longer.

Every property of a passing run has a mutant in `PROJECT.json`: a variant of one
definition, as a plausible slip in the code would make it, which TLC finds to
violate that property. The variants stand before the definitions they vary.

**Bounds, and why they are enough.** `MaxThreads`, `MaxYields`, `MaxNow`,
`MaxAsks` and `MaxPushes` only stop growth; they are guards of the actions that
make threads, yield, tick, ask and push. A wait must end before the last instant
(guard of `WaitEvent`), so no deadline is out of reach. An mthread that is made
during a poll runs after it, `DefDelay` later; in `udp_live` an
instant is longer than a poll (`DefDelay` is 0), which leaves the few instants to the
requests. In `udp_safety` all waits last one instant, half of `NetworkTimeout`, in
`udp_live` waits of one and two instants mix; in both a chained answer may be read
late enough to make its mthread sleep (in `udp_safety` behind the end of the wait,
before the scan). Two mthreads on two
keys let one wait for ever while the other waits and times out, run one from
below the other's switch, and meet an occupied key; what the proofs cover holds for
any number. A chain takes three: the head, a member and
a newcomer that asks while the chain is served. Two descriptors allow reuse, a
chain of two allows one member to be served while another is not. Two workers
give all interleavings of the task queue's critical sections; a third only
repeats what one of them does. Keys, ids, subnets, names and workers are
compared only with each other, so the safety runs use symmetry; the liveness
runs do not. `CHECK_DEADLOCK FALSE` in the runs of the task queue, the probes, the caches
and the resolution: with nothing queued, the bound on pushes reached and time at its
end, or all questions answered and no more to come, the system rests.

The caches have two clients and two masks, of which one covers both clients
(`MCCovering`): then an index can hold a mask that matters to one client only, and
an expired narrow entry stands before a live wide one. Three names lie in shards
of their own, one below another, so that a prune visits shards whose sizes
change meanwhile and rounds shares of an odd total. Ttls of 1 to 4 against a
period of 2 put the period below and above the ttl, and 8 instants let an entry use up
three extensions. In `dot_probes` the rate limit and resolve tasks do not occur.

The penalties of `exchanges` keep the order of the code's (`ScaledPenalties`): down
is refused most often, an unreachable or lame server more often than a bad packet.
With two failures to be down, a first one throttles a question and a second the
server; three refusals against a limit of 1 or 3 queries let a resolution end by
refusals alone and let one mthread use up what another set. An EDNS status lasts one
instant of three, so it ends in a run. One idle connection per thread and
address, used at most twice and idle at most one instant, meets all four limits.

The worlds of `resolution` each hold one difficulty: `Glued` an alias into another
zone, a name with nothing but names below and a fault; `Glueless` servers elsewhere, a
lame one and an old address, once with two questions that meet in the caches and
once with two faults; `Mutual` two zones that have servers in each other; `Circles`
aliases in circles and below themselves. `MaxDepth` is 8 for 40, so that what is
circular meets it within few steps; the limits on queries, names minimized, aliases and
lookups of servers are the daemon's defaults. `MaxStack` is never reached: a question
cut short by it would be stuck and `Answered` violated.

## Fairness

`MTasker!Fairness`: the kernel's loop goes on (it never blocks but in `run()`,
whose timer fires), time passes, and an mthread that runs gives control back:
nothing in the recursor loops for ever without waiting, and startDoResolve always
returns. Weak fairness of `PollReturn` would not do in the presence of an
endless stream of events, each switching to an mthread and so disabling it; it
is strong because libevent looks at its timers in every round of its loop
however many descriptors are ready. Nothing is assumed of events: no
`SendEvent`, no packet, no new question need ever come. `UdpQuery!Fairness` is
the same for its actions, with the handler's steps as part of the kernel.
`TaskQueue!Fairness` gives each worker a turn: a worker is the end of
`startDoResolve` (one task per question) or housekeeping ("TaskQueue is run
always", `rec-main.cc:2602`); a task ends because resolving is bounded in time
and queries. In the port without housekeeping, tasks run only behind questions,
so `QueueDrains` then rests on questions coming.
`DotProbes!DotFairness` is strong for a worker's steps on the queue, since the same
mthread may ask servers over DoT in between, though only `s_maxqperq` times for a
question, and weak for the end of an exchange or a probe, which has a timeout.
`Resolution!Fairness` lets who runs go on, and wakes who waits: `arecvfrom` has a
timeout, and it is strong because others may run in between. Nobody has to ask.
The caches need no fairness: their properties are safety. Nor does
`RefusedThenAsked`: it speaks of a server that is refused infinitely often, and each
refusal uses up a part of the entry that refuses.

## What is proved

`MTaskerProofs` proves nine theorems for every set of keys and values, every
set of timeouts and all bounds (only `MTaskerAssumption`: the numbers are
naturals, and there is a thread and an instant): `TypeCorrect`, `OneContext`, `EventsArrive`, `WaitpointsExact`,
`ThreadsCounted`, `NoTimeoutEarly`, `TimeoutsInOrder`,
`PollsMeetDeadlines` and `OnePlaceEach`.

None of the properties is inductive alone. That a woken mthread finds its own
event (`Handshake`) needs every waiter to belong to a stack that waits
(`WaitersMatch`). That survives `schedule()` running an mthread only if what is
in the run queue is ready and there once (`QueuesMatch`), where the entry being
run is still at the front and must be left out (`First`). New mthreads stay
apart from old ones because a thread's number was never used before
(`ThreadsMatch`), which also carries the count (`Counting`). `IInv` is the
conjunction of these with the type invariant and `scanNow <= now`. `InitIInv`
and `NextIInv` show it inductive, one step per action and per conjunct, with two
lemmas on what is left of the run queue at a switch (`SwitchLeavesRest`,
`SwitchAppends`). The action properties follow from `Invariance` and
`TimeoutsAreScans`: only the scan reports timeouts, and only for a first expired
waiter. `OnePlaceEach` (no mthread is lost or in two queues) needs the converse of
`QueuesMatch`, `NoneMissing`: every ready mthread is in the run queue from `First` on
and every ended one in the queue of zombies. From both, what `OnePlace` counts is
one (`OccurrencesOnce`, `PlacesAreOne`).

`TaskQueueProofs` proves every safety property of `TaskQueue` the runs check, for
every finite set of workers, all names, periods and bounds (`TaskQueueAssumption`):
`TypeCorrect`, `TasksConserved`, `EveryPushCounted`, `NoDuplicates` and
`RateIsLimited`. The types need `JobsHeld`: a worker inside `runTaskOnce` has a task.
`Conservation` is inductive once its sum is split in two (`Balanced`): a push raises
`d_pushes` and the length of the queue, a pop moves one task from the queue to the
workers that are busy, and the end of a task moves it to one field of one
statistic (`EndedRaised`). `PushesCounted` needs that a push that is not absorbed
leaves its worker with a push to count, and each is cleared by one count; both rest
on `WorkersCounted`, that there are finitely many workers. `OnceQueued` is inductive
by itself (`PushOnce`, `TailOnce`). `RateLimited` speaks of a step and needs to know
that the rate limit set has not forgotten in between: `Remembered` says that a
task let pass no more than a period ago, less the lag of clocks, still has its entry. A
purge keeps that, as it takes only what ended before the purger's time
(`PurgeKeeps`), and clearing the set clears the history. `IInv` is the conjunction,
shown inductive action by action.

`DotProbesProofs` proves three theorems about the probes for every finite set of
addresses and workers and all periods with `MaxLag <= FailWait <= SuccessWait`
(`DotProbesAssumption`; the code's waits are a day and three): `DotTypeCorrect`,
`ProbesAreCounted` and `ProbesAreSpaced`. A step of the probes is a step of the queue
or leaves it alone (`UsesTheQueue`), so everything proved of `TaskQueue` holds of it
too. `DotInv` adds that only probes are pushed (`OnlyProbes`), that an address whose
probe is under way is in the map and its entry not old enough to be dropped
(`ProbesKnown`), that the counter is the probes under way and the places lost with
tasks the queue gave up (`PlacesKept`), and that an entry bears the time from which a
next probe may start (`AllSpaced`).

`UdpQueryProofs` proves five theorems about outgoing UDP for all questions, subnets,
ids and limits, every finite set of descriptors and all bounds (`UdpQueryAssumption`):
`ImplementsMTasker`, `UdpTypesCorrect`, `SocketsAreOwned`, `PlacesInChains` and
`ChainsAreServed`. A step of `UdpQuery` is a step of the scheduler or leaves it alone
(`StepOfScheduler`), as what an mthread waits with is a key and a timeout `MTasker` knows.
So the invariant of `MTaskerProofs` holds here, taken from there through `INSTANCE`
(`P`), and everything proved of `MTasker` holds of `UdpQuery`. `Basics` adds the types,
that who waits does so for what it asked (`AskedMatch`), and that the places of a chain
count down from -1 and none is given out twice (`ChainCounted`, `ChainGrows`): a chain keeps
entries of requests that ended, so its places are bounded by the requests made and not by
the mthreads. `SocketsOwned` speaks of the poll only; in between, a socket may belong to a
head that was woken and whose handler has yet to close it, or to an mthread that timed
out and closes it itself. `Owned` names that owner (`Owner`, `ClosingKeys`, and `Bereft`
for the socket that is closed before its head is told of an error) and `HandlerKnown`
says that the handler's head waits until its turn; sockets come and go with their owner
(`SocketComes`, `SocketGoes`). `ChainServed` needs `Served`: heads have numbers of
their own (`Numbered`), a head's chain holds everybody chained onto it (`InChain`), and
while a chain is resent it is closed and who still waits in it is on the list of the
handler (`Resending`). Nothing is assumed of the ids, which may repeat.

`UdpAnswersProofs` needs ids that do not repeat (`~IdsRepeat`, stated in each theorem):
`doResends` names a chained request by its place and its id alone, and
the places of every chain count down from -1, so with equal ids in two chains it would
wake a stranger. It proves that what ends a request is its own (`AnswersAreOwn`), that
it was asked for the request's subnet (`AnswersForOwnSubnet`), and the refinement
(`RequestsKept`). All three rest on one more invariant, `Apart`, which TLC checked on the
configurations of `udp_safety` and `udp_chain` before it was proved. What it says: who no longer waits has
left no chain behind (`ChainsEnded`); who waits is filed under the subnet it asked for
(`SubnetsKept`); while the handler resends, the packet, number, subnet and list it
carries are those of one head that still waits (`Carried`), and only that head's chain is closed
(`ClosedServed`), so what is being answered takes no members; an id that is in a chain is
borne by nobody else who waits (`IdsApart`), where entries of requests that ended count
too, as the chain keeps them. The refinement
follows action by action: a new socket leads a group, a chained request joins one, a
timeout expires its request, `RecvAnswer`, `RecvNameless` and `RecvError` begin an answer
when a head waits for it, `ResendOne` answers a member or skips one that timed out, and
`WakeHead` answers the leader last; all other steps leave `Groups`, `Leaders`,
`Accepting` and `Answering` as they are (`Same`).

`ExchangesProofs` proves `HeldIsDeserved` for every set of servers, questions, workers,
threads and setups, all penalties and bounds (`ServersAssumption`, `ExchangesAssumption`).
The lemmas named `...Moves` say what each action makes of the resolution that takes it;
the invariant `DInv` follows from these alone. Its half on servers that are down (`Down`)
follows a failure through three locks: it is in the row before it is in `s_fails`, so
`s_fails` never holds more against a server than its row (`Counted`), except while an
answer has ended the row and `s_fails` is not cleared yet; who is about to count a failure
or to punish knows how full the row is (`Charged`). Both need that no other mthread is
between two waits (`OneBusy`), which is where one thread comes in: with two, an answer of
another thread may come between counting and throttling. The half on EDNS (`Bare`) holds
for any threads: a mode without EDNS is no older than the last FORMERR (`BareKept`), as
`setMode` keeps the time of a mode that is known.

Its `TypeCorrect` is mostly about two limits. A resolution asks at most `maxqperq` times
(`CountFits`: it is given up before it counts one too many). And a thread stores at most
`MaxIdlePerThread` idle connections: `Stored` appends only to a pool that is not full after
`Cleanup`, a recursive function, of which induction over its prefixes shows that it keeps
connections and adds none (`CleanupPool`; the definition has a solution by `StaysExists`).
The invariant `TInv` adds to the types what a place in the resolution means (`Sane`: its
question and server are chosen, a connection is held over TCP, an offence is known before
it is punished); without it the tables would not be known to have keys of servers and
questions. It rests on `ExchangesAssumption`, which says of the setups that they give every
worker one of the threads, some of the servers and a limit.

`CachesProofs` proves seven theorems about the two caches under all their callers:
`TypeCorrect`, `RangeIsCurrent`, `IndexIsComplete`, `StalenessBounded`,
`RecoveredIsServed`, `AuthIsProtected` and `PrunesHitTarget`, for all names, types, tags, netmasks and
clients, any number of shards, all periods and margins, and any set of setups whose
values are of the kinds `SetupsAssumption` lists (a setup is what a run lets callers
do; a setup with everything in it is one of them). `IInv` says of every shard
that it is sound (`RecSound`, `NegSound`), of every resolver that it holds a
name, a type and a client there are (`Placed`), and it has `RecoveredServed`. A shard is
sound when its entries have their types and are `Bounded` (they ended no longer ago than their
extensions allow), its LRU list has its keys once (`Lists`), its index and its range
fit its map. That no key is in a list twice is needed to show that the list goes on matching the
map, which counting alone would not give. Each step but the clock's puts a sound shard in
the place of one of each cache (`RecMoves`, `NegMoves`), in which each entry that was
there before is no less protected (`Guards`), so that the lemmas on operations speak of one
shard and never of the caches around it.

A lookup is a recursive function along masks or entries. What it keeps is shown
by induction: were there steps at which it fails, there would be a first one, which is
neither the start nor follows a step at which it holds (`Induction`, from the library's
theorem on minimal elements of a well-founded relation). `TriesExists`, `VisitsExists` and
`NegVisitsExists` first show that the recursion has a value at every step, and
`KeepsExists` the same of removing from a list. Of what a lookup does to
an entry, `Kept` is what matters to others: its authority stays and its time is
raised only with its count of extensions; the arithmetic of an
extension is `ExtensionBounded`. The shards of a prune may be gone through by anybody in
between; its steps only erase.

`PrunesHitTarget` follows a prune through its two passes, a shard at a time, while everybody
else goes on using the cache. What a prune has still to erase and what it has erased are
always its excess (`Trims`); and as long as nobody disturbs it, its `cacheSize` is what the
shards from its own on hold (`InShards`), and no less than what it has still to erase. That is
all the rounding needs: the share of a shard is no more than what the shard has, what it
leaves to erase is no more than what is left (`Share`), and the last shard's is all of it
(`LastShare`). `TotalIs` shows that the sizes of the shards add up to the number of keys, as
no key is in two shards (`Apart`). The theorem assumes, of the whole behaviour, that a cache holds
fewer than `Modulus` entries (`FewEntries`; 2^64 in the code, more than fit into its
memory), since only then does the unsigned `cacheSize` not wrap in an undisturbed prune. For a disturbed
one it shows, whatever `cacheSize` has become, that no more is erased than was too much.

The proofs corrected a property and the model. `PruneHitsTarget` took every change of a prune for
one of its steps; an operation of somebody else that marks it as disturbed and erases
entries of its own is none, so it now speaks of the changes of its pass or shard. And a
lookup for ANY may push a task for ANY (`pushRefreshTask` of `fakeTTD`), a task resolves
like a question, and the answer that there is no such data denies the type ANY; `NegKeys`
had no such key, so `TypeOK` was true of the runs and no theorem.

`ResolutionProofs` proves `TypeCorrect` and `AnswersAreTrue` for every set of worlds and
workers and all limits (`ResolutionAssumption`: `IsWorld` asks of a world that it is finite
and that zones have servers, those of the root with addresses). Whatever an action does to
the stack of its worker is one of four things: it goes on in the top frame, calls a new
one, returns to the one below, or ends the question. So an invariant of a stack is stated
of frames and neighbours, shown once to survive each of the four (`GoesOn`, `CallsUp`,
`ReturnsTo`; `RightGoesOn`, `RightCalls`, `RightReturns`, `RightTells`), and an action is then a
matter of the frames it touches.

For the types, of which `FlagsScoped` is the part that could go wrong, that is `Stacked`: what a frame
has put aside around a call (`Kept`) are the flags of the calls below it, so setting
them back when the call returns makes them right again (`FlagsBack`, `FlagsAt`). That only
known names are cached follows from what servers can answer (`CleanReplies`).

`AnswersAreTrue` says: `Spec /\ GlueAgrees(world) => []AnswerTrue`. The hypothesis is
needed: glue is cached as an address of its name with authority, so without it the
property is false (`resolution_glue`). It says that servers a zone's frame may ask give a name below
that zone, with a delegation, the address its owner gives it. `MCResolution` assumes,
for TLC to evaluate, that it holds in all worlds of `resolution` and not in that of
`resolution_glue`; it is weaker than glue being right (`Glueless` has an old address
in it, of a name not below the zone asked about, which `sanitizeRecords` throws away).
The invariant (`Knowing`) has three parts, which TLC checked on the worlds of
`resolution` before they were proved.

* `CachesTrue`: an address in the cache is one its owner or the root's glue gives, with
  authority only its owner's; an alias is one; servers are those a zone or its parent names;
  what is denied is not there. `LearnedTrue` is where `sanitizeRecords` and
  `GlueAgrees` come in.
* `Sound` and `Linked`, of frames: a frame asks for a zone at addresses that servers of
  that zone have (`Hosts`), so its answers can be believed, and the records it was given
  are a path of aliases that leads to its name.
* `Owed` and `Paid`, of results: where aliases are followed, a result that is no failure is
  the whole answer for the name the path starts from (`Whole`); elsewhere it has at most addresses of
  the server looked for. A result made while only the caches are looked into
  may be empty, and counts only when it is marked as final (`fromCache`) or has an
  address (`Speaks`). That the two kinds of result are not mixed up rests on the flags of
  the first theorem.

What is then told is `Truth`: `Chain` is a recursive function, of which it is shown by
the least step at which it would differ that it steps along the path (`ChainIs`), and as
names do not repeat in a path that ends at no alias (`NoneTwice`), the bound on its
steps, the number of names, suffices (`FewAliases`).

Only model-checked: all of liveness (`Answered`, `BusyEnds` of the probes and
`RefusedThenAsked` of the exchanges among it), and `WorkingIsFound` of `Resolution`. That
is no theorem for all values of the constants: with limits that are low for the size
of a world, on depth, queries or lookups that find nothing, the resolver fails where
servers would answer ([findings](#findings) has a case), so it speaks of the worlds and limits of the run.

## Findings

* `udp_chain`: a reply without a question section ends the head of a chain
  without the resend of `doResends`, so those chained onto it wait for their
  timeout (`pdns_recursor.cc:4581` against the comment at 4264).
* `taskqueue_scheduled`: a push absorbed by a queued task that is past its
  deadline is never run, and the rate limit refuses a retry
  (`taskqueue.cc:34` against 33).
* `exchanges_idle`: whether a TCP connection is kept is decided by a flag an earlier
  exchange may have set, so after a valid truncated answer over UDP a failed exchange over TCP
  stores its closed or never connected socket as idle (`lwres.cc:793` against
  `rec-tcpout.hh:33`). It costs a slot and a failed try of the next exchange.
* `resolution_glue` (and the reason for the hypothesis of `AnswersAreTrue`): glue is cached as an address of its name, as authoritative as the
  owner's and by force, and served to a client that asks for that name, although the
  parent's copy may be another than the zone's (`syncres.cc:5165-5184`; `PROJECT.json`
  quotes the comment).

Met while reading, and not worth a run:

* `getResolveTasksPushed`, `getResolveTasksRun` and `getResolveTaskExceptions` return the
  counters of refresh tasks (`rec-taskqueue.cc:340-353` against `rec-taskqueue.hh:49`).
* When the refresh of a name that is denied as a whole and served stale gets NODATA, the
  denial of the whole name stays and keeps denying the other types until its extensions
  are used up (`syncres.cc:5643` against `recursor_cache.cc:69-72`).
* The limit on extensions is compared before the time that has passed is charged, so a
  forgotten entry is extended once more however old it is (`recursor_cache.cc:308`
  against 292-294). What does hold is `StaleBounded`.
* `main_test.cc` does not set `s_maxdepth` (`rec-main.cc:1831` does), and 0 is no limit;
  the count of aliases starts again at each look into the caches alone, so a circle of
  cached aliases ends in this build only with the stack.
* Nor does it set `s_maxnsaddressqperq`, although "always allow 5"
  (`syncres.cc:6380-6383`): with 0 the limit of a level without servers is 0, and
  `doResolveAt` throws where it would return -1, so a question fails although another
  server of the level above works. TLC finds `WorkingIsFound` violated in `Mutual` with
  `MaxNSQueries` 0. The settings of minimization are 0 too: the full name is asked at once.
* A cached alias of a server's name to itself throws (`syncres.cc:2840-2843`) and fails the
  question, where an alias in an answer fails that server only.
* `addWriteFD` on a descriptor watched for reading drops its read callback
  (`mplexer.hh:468-480`); nobody calls it so.
* In `getBestNSFromCache` debug output has split an if-else (`syncres.cc:2445-2465`): every
  server is held missing, so tasks for missing glue are never pushed.

Three limits of properties that hold are worth knowing. `AnswerForOwnSubnet` holds
while the message ids of outstanding requests differ: a chained request is found
by remote, question, place and id, not by its subnet (`pdns_recursor.cc:4281-4284`),
so with equal ids, which are 16 bits at random, in two chains of one question the
answer for one wakes a member of the other. `udp_safety` excludes that case
(`IdsRepeat` FALSE) and no run checks the property in it; with `IdsRepeat` TRUE and nothing else changed
TLC finds `AnswerForOwnSubnet` violated: a request chained for one subnet outlives its
head, another draws the same id and the same place in a chain for the other subnet, and
the answer for that chain ends the first. (The second is refused as a duplicate
waiter, but `asendto` has put it into the chain by then.) The invariants of the run
hold with ids that repeat as well. "It should already be indexed"
(`recursor_cache.cc:654-657`) is true only without serve-stale and when the clocks of
threads agree, as the second half of `IndexComplete` says: a lookup that
finds a netmask's entry expired drops it from the index, and one with an
extended entry or an older `d_now` then finds it alive and not indexed. And
`Deserved` speaks of servers that are down only in a program with one thread, as this build is: with two, a
thread may count the last failure, another clear the count and the throttle behind a valid answer,
and the first then declare the server down, although "If the NS answers, it will be
unThrottled immediately" (`syncres.cc:1305-1306`).

## What is not modelled

Packet contents and their parsing and building; counters, logging and tracing;
ECS hardening; the inside of TCP and DoT exchanges (of which only outcomes matter
to the models); the dump, export and import of caches; signals and
shutdown; exceptions that leave a handler. A socket error and a short or
unparseable packet differ: the first ends a request, the other only counts and
is left out. Crashes lose everything, as nothing is persisted. Components with
status `not_modelled` in `PROJECT.json` carry their reason.

## Plan

In this order, the ones whose failure hurts most first:

1. done: `MTasker` with proofs, `UdpQuery` over it with `Requests` and proofs, `TaskQueue`
   with proofs, `DotProbes` over it with proofs, the two caches and `Caches` over them, `Servers`
   and `TcpOut` with `Exchanges` over them, `Zones` and `Resolution`.
2. The decay in `rec-nsspeeds.hh`, if it can be stated in integers.
3. `FDMultiplexer`: registration, removal and reuse of descriptors inside `run()`,
   as `UdpQuery` uses it; refinement: one callback per open descriptor.
4. `Counters`: snapshots of per-thread values;
   `Admission`: questions dropped by age and load over `MTasker`.
5. Proofs (of `MTasker`, `TaskQueue`, `DotProbes`, `UdpQuery` with its refinement of
   `Requests`, `Caches`, `Exchanges` and `Resolution` done): with limits large enough for a
   world, `WorkingIsFound`.
