# Verification of tongdaxin

TLA+ modules for the concurrent and stateful parts of the market data service in
this repository, TLC configurations that model-check them on small instances, and
TLAPS proofs of their main safety properties for every instance. Paths are
relative to the repository's root (`internal/...`, `docs/...`); `PROJECT.json`
maps each definition to the lines it models.

1. [The system](#1-the-system)
2. [Modules and how they correspond to the code](#2-modules-and-how-they-correspond-to-the-code)
3. [Runs, bounds and what they show](#3-runs-bounds-and-what-they-show)
4. [Fairness](#4-fairness)
5. [Proofs](#5-proofs)
6. [Disagreements found](#6-disagreements-found)
7. [What is not modelled](#7-what-is-not-modelled)
8. [Plan](#8-plan)

## 1. The system

The service answers requests for A-share market data (quotes, order books, ticks,
bars, reference data) over HTTP and gRPC. A request goes

    limiter -> handler -> MarketDataService -> cache -> history store -> Group (merge) -> provider
                                                                                            |
                                      upstream TDX host <- live client <- lease <- source pool

| Component | State | Operations | Hard behaviour |
|---|---|---|---|
| source pool `internal/source/pool.go` | hosts with a circuit, counters and clients; leases; closing/closed | NewPool, Acquire, Release, ReportSuccess, ReportFailure, HealthSnapshot, Close | many goroutines under one mutex and one condition; reports from leases older than an outage; Close that times out and drains in the background |
| gotdx provider `internal/provider/gotdx/provider.go` | one pool for each kind of data | NewLiveProvider, one method per kind of data, Close | construction that fails half way, paging under one lease, row numbering, several pools to close with one context |
| host probing and selection, same file | none that lasts | select, probe, limit | probes that fail, a context that ends while probing |
| live client, same file | one upstream connection per client of a pool | connect, reconnect, call twice at most | reconnecting while the pool closes |
| trading day `internal/provider/gotdx/trading_day.go` | none | GetTradingDay | holds a lease of one pool while it waits for another's |
| provider runtime `internal/bootstrap/provider_runtime.go` | the provider, its close hook, `done`, closeRequested, closeOnce | finish, current, calls, Close | the provider is built in the background while the app serves and may be shut down |
| app lifecycle `internal/bootstrap/bootstrap.go` | servers, close functions, shutdownOnce | Build, ListenAndServe, Serve, Shutdown | a Build that fails half way; a server that fails by itself; handlers that outlive the server's timeout; order of closing |
| rate limiter and metrics `internal/api/http` | a token bucket; counters | Allow; start, observe | requests interleave between the two mutexes |
| call group `internal/cache/group.go` | calls in progress by key | Do | merge races around the removal of a finished call |
| market data service `internal/service/market_data.go` | none of its own: cache, store, group, provider | GetQuotes, GetHistoryTicks, GetKLine, ... | what was read from cache or store is used after other requests changed it |
| memory cache `internal/cache/memory.go`, redis cache `internal/cache/redis.go` | entries with expiry | Get/Put per kind; in Redis one command for each entry, and a lock nobody uses | expiry between look-up and use, late writes, commands that fail |
| history stores `internal/history/memory_store.go`, `internal/storage/sql_store.go` | rows, coverage, backfill tasks | Query/Put per kind, Enqueue, Next, Update | several instances on one database, statements that are not atomic together |
| HTTP and gRPC API `internal/api` | none beyond the above | parse, dispatch, format | |
| daily log writer `internal/logging` | open file, day | Write, Close | rotation at midnight, under one mutex |

They interact by direct calls. Shared state is the pool (its mutex), the group's
map, limiter and counters, cache and store (a mutex, or a server shared by several
instances); the only channel is `providerRuntime.done`; callbacks are the factories,
the close hooks, the loads given to `Group.Do`, and the timers of the pool's
condition wait.

What makes each component correct:

- *pool*: a client has at most one holder and comes back once; the in-flight
  counter is exact; a half-open circuit has one probe and opens and closes only as
  its reports say; no waiter sleeps while it could go on; rotation is fair; clients
  are closed once, after the last lease, and no Close reports success earlier.
- *provider*: its pools are built on hosts that are configured and, if any is,
  reachable; every connection is owned by a client and is closed in the end, also
  after a failed construction; requests return once Close has begun; the previous
  trading day is the latest that any answer named.
- *runtime*: whatever was built is closed exactly once, nothing is served after.
- *app*: Build takes back what it opened if it fails; ListenAndServe returns with its
  listeners closed, and everything else closed or somebody at it; Shutdown ends, unless
  a gRPC handler waits for ever for another handler's load, and closes provider, cache
  and store in that order and never under a handler that the servers waited for.
- *ingress*: no stretch of time lets through more than burst and rate allow; the
  counters are those of the requests.
- *group*: one load per key at a time, the same result for everyone merged,
  nobody waits for a call that nobody leads.
- *service*: an answer is complete, a full answer is the whole day, a page is the
  page that was asked for, no tick twice, and "covered" days are stored whole; bars
  are ordered, inside their range, and without long holes that the upstream could fill;
  a cached entry lives as long as its load says.
- *queue*: a task is created once, claimed by one worker, moves forward, finishes.

`PROJECT.json` lists every component with its status and every hazard with the
line where it bites and the properties that watch it.

## 2. Modules and how they correspond to the code

| Module | Models | Composes / refines |
|---|---|---|
| `LeasePool` | abstract: what a pool of clients promises | |
| `SourcePool` | `pool.go` | implements `LeasePool` through `SourcePoolRefinement` |
| `Subsequences` | a loop that keeps some elements of a slice | operators |
| `HostSelection` | selection and limiting of hosts | operators |
| `TradingDay` | dates of a trading day's answer, inference from bars | operators |
| `GotdxProvider` | `NewLiveProvider`, requests, live clients and `Close` over several pools | extends `HostSelection`, `TradingDay` |
| `ProviderRuntime` | `provider_runtime.go`, the factory loop of `bootstrap.go` | |
| `HttpIngress` | `limiter.go`, `metrics.go`, `Handler.instrument` | |
| `AppShutdown` | Build, ListenAndServe, Shutdown and the handlers | extends `ProviderRuntime`, `HttpIngress` |
| `CallGroup` | `group.go` | |
| `CachedReads` | all reads with a cache and no store, over both caches | instantiates `CallGroup` |
| `HistoryTicks` | `GetHistoryTicks` with cache, store and provider paging | instantiates `CallGroup` |
| `KLine` | `GetKLine`, `GetAdjustedKLine` of daily bars with cache, store, gap filling and provider paging | extends `CallGroup` |
| `TaskQueue` | abstract: what the backfill queue promises | |
| `BackfillQueue` | task queue of both stores | implements `TaskQueue` through `BackfillQueueRefinement` |
| `*Proofs` | theorems | extend the module they are about; `HistoryStoreProofs` is about `BackfillQueue` and `HistoryTicks`, `AppShutdownProofs` also about `ProviderRuntime` and `HttpIngress`, `SubsequencesProofs` holds lemmas for those of `GotdxProvider` and `KLine` |
| `MC*` | values of constants, symmetry sets | extend the module they instantiate; `AppShutdown` and `ProviderRuntime` need no more than their .cfg |

Two conventions. A critical section under a mutex is one action; wherever the code
unlocks, waits, selects on a channel or issues another statement a new action
starts. `Operator_Variant` is `Operator` with a plausible programming error; such
definitions are used by nothing but the mutants of `PROJECT.json`, each of which
shows that a property notices that error.

**SourcePool.** `host` is `hostPool` (circuit, failure and success counts,
`openUntil`, `inFlight`, cursor), `client` is `pooledClient` with its generation,
`held` the leases callers have. A worker (`Worker`) calls Acquire in a loop;
`AcquireRefused`, `AcquireCanceled`, `AcquireLease`, `AcquireWait` are the exits of
one pass through the loop under the mutex, in the code's order of checks, and
`AcquireWait` is `cond.Wait`. `CtxBroadcast` and `TimerBroadcast` are the goroutine
that `waitLocked` starts. A leaseholder reports success or failure, even more than
once, and releases; `ReleaseAgain` is a second Release, which the generation makes
a no-op. A closer (`Closer`) runs Close: `CloseStart`, `DrainWait`, `DrainTimeout`
(hands over to the goroutine `Background`), `DrainDone`, one `CloseClient` per client
with the mutex dropped, `CloseFinish`; a second closer joins. Time is an integer
that `Tick` advances; the durations of the configuration are constants. A host with
`FailureThreshold` failures opens; the wrapping `generation` counter is unbounded in
the model (uint64 in the code) and bounded by `MaxGeneration` for TLC.

**GotdxProvider** is several pools at once, so a pool is no more than what
`LeasePool` promises: open, closing or closed, and clients lent to one worker each.
Construction is `SelectHosts` for each kind in the code's order (a kind with the
same hosts as an earlier one takes over its choice), then `CreateClient` slot by
slot, where a dial may fail or the context may end before or after it, then
`PoolReady` or `PoolFails` and `CleanUp`, which closes what was made. A request is
`Acquire` or `Refused`, the live client's `EnterClient`, `FirstCallFails`,
`Reconnects`, `SecondCallFails` or `Answers`, and then the next page under the same
lease, or the report and the return; the release is in a `defer` and part of it.
`LookFails` is the look at the context before a page, the first one too: always for
bars, and for securities once per `fetchSecurityRange`, which may be several pages.
`MacAnswers` is GetTradingDay with its first lease: if the reply lacks the previous
day the worker asks for bars of up to three symbols with a second lease. `Close`
goes through the pools in order with one context; a pool that times out goes to
`background`. `opened` counts the connections that the upstream sees.

**Subsequences** has one operator, `Kept(s, places)`: the elements of `s` at the
given places, as the recursive function that a loop with `append` is. What the loop's
condition is becomes the set of places: the first place of each host that is not empty
in `uniqueNonEmptyHosts`, the bars inside the range in `filterBarsByDate`, the stored
bars in the order of their days in `QueryBars`.

**HostSelection** holds `uniqueNonEmptyHosts`, `selectLiveHosts` and
`selectLimitedHosts` as functions of the probes' outcome: the reachable hosts in any
order, since they are sorted by latencies that may be anything. **TradingDay** holds
the cases of `tradingDayToDomain`, `enrichPreviousTradingDay` and
`previousTradingDayFromBars`.

**ProviderRuntime.** `Publish` is `finish` up to its unlock, `Signal` is
`close(done)` and what follows; Close is `RequestClose`, `PollDone`,
`AwaitDone`/`AwaitTimeout`, and the `sync.Once` as `EnterOnce`, `LeaveOnce`,
`PassOnce`. When both branches of a `select` are ready either is taken. The factory
loop of `startProvider` is `Check`, `FactoryReady`, `FactoryFails`,
`FactoryCanceled`, `BackoffOver`. The ten forwarding methods are one request:
`current`, then the call.

**HttpIngress.** A request is `Start`, `Allow`, and `EndRefused` or `EndHandled`:
the deferred observation is a step of its own, since other requests pass the
limiter in between. Time is scaled so that one unit of tokens arrives per tick and a
token is `Scale` units. `spent` and `spentBefore` record what was given away, for the
property alone.

**AppShutdown** adds `phase`: Build's `OpenStore`, `OpenCache`, `OpenRouter` with
their failures and the clean-up, and the body of `shutdownOnce`, which stops HTTP,
stops gRPC, and runs the close functions of provider, cache and store. `server` is
ListenAndServe: it binds both listeners, or fails with the first of them open or none,
serves, and leaves with a signal, a server that fails, or because somebody else shut
the servers down. `listening` are the open listeners and `accepting` the servers that
still take requests, over new connections or those they have: a server that fails
closes its listener, `StopServer` ends both, and `LeaveServing` is the return with its
deferred closes of the listeners, after which the gRPC server may go on with its
connections until the other caller's Shutdown stops it. The runtime's
one closer is the app itself and its timeout is the clean-up context. HTTP handlers
pass the ingress first; handlers may call the provider several times. A gRPC handler
may also find another handler's load in `cache.Group` (`HandlerJoins`) and then waits
for its `LoadEnds`, which its own context does not end; `joined` is who waits for whom.
A waiting HTTP handler is one that does nothing, since HTTP handlers may do that
anyway. `live` is whether there is a provider at all.

**CallGroup.** Per caller a `step`, per call a leader and a result. `Lead`, `Join`,
`LoadReturns` (sets the result and `wg.Done`), `Leave` (removes the key, a separate
critical section), `JoinReturns`. It is checked as the group of `KLine`'s bars.

**CachedReads.** One protocol serves seven methods, which differ in what an entry of
the cache holds: a symbol (GetQuotes, GetOrderBook), the list of a market
(GetSecurityInfo), or what was asked for (GetTicks, GetXDXR, GetFinance,
GetTradingDay). `Get` reads the cache, under one lock in `Memory` and one command per
entry in Redis (`Batches`); `EnterGroup`, `Load`, `GroupReturns` merge the load by what
is missing; `Put` writes, again entry by entry in Redis, and answers. `GiveUp` is a
cancelled request or a Redis command that failed. The data are the times they were
fetched at.

**HistoryTicks.** `ReadCache`, `CheckCached`, `QueryLocal`, `CheckLocal`,
`EnterGroup`, `Load`, `GroupReturns`, `PutMissing`/`PutTicks`, `PutCoverage`,
`PutPage`: each call to cache or store is a step of its own. `Cancelled` ends a request between any two of them. A store row is keyed by
minute and sequence number as in `memory_store.go` and the SQL schema; the provider
numbers the rows of the page it fetched. `Rows` reads them in the order of minute and
number, the place of a row being the number of rows before it. `StickyCoverage` chooses whether a
"missing" record may replace "covered" (memory store) or not (SQL store).

**KLine.** `ReadCache`; `QueryBars`, which answers from the store, finds gaps, or
goes upstream; `FillGap` once per gap, `FillFails` or `PutFilled`; otherwise
`EnterGroup`, `Load`, `GroupReturns`, `PutBars`; and `PutPage`; `Cancelled` between any two. A bar is its day, a
date the midnight its day starts with, and `AtClose` says whether a bar's time is
the close of its day, as the upstream's are, or midnight. `Fetch` is the provider:
`FetchPages` without dates, `FetchRange` with, both over the upstream's bars up to
`today`, which `NextDay` moves on. The store's bars are a set, kept in order by
`sortBars`; the coverage written with them is read by nothing and left out.

**BackfillQueue.** `dialect` is the store in use, any of the three from the start: `EnqueueLocked` is one step in
memory and `EnqueueSelect`, `EnqueueInsert` on a database with the unique index;
`NextClaims` is one step in memory and on PostgreSQL, `NextSelects` and
`NextUpdates` on SQLite and MySQL. `Finish` and `Retry` are a worker's Update; no
worker exists in the repository, so what workers do is external.

External, taken from how the code uses it: TDX hosts answer any call with rows or an
error, and a dial succeeds or fails; upstream `start` counts from the start of the day in `HistoryTicks`;
tick times have the resolution of a minute; two tasks never get the same
`created_at`; a server takes requests from its connections until it is shut down, `GracefulStop` and `http.Server.Shutdown`
wait for their handlers as documented by their libraries; Redis executes a command
wholly or not at all. In `KLine` no request
lasts across the end of a trading day, bars that are over never change, and
`start` counts back from the newest bar. In `GotdxProvider` a server's dates are in
order (`AnswerAssumption`): the last trading day it names is not after the date it
gives as today's, and the one before it not after that, which is what
`tradingDayToDomain` relies on when it looks at them in that order.

## 3. Runs, bounds and what they show

| Run | Instance | Shows |
|---|---|---|
| `pool_circuit` | 1 host, 2 clients, 3 workers, thresholds 2, time 0..3, 2 generations, 3 failures | leases are exclusive, the counter is exact, a probe is alone, the circuit moves and is leased from only as reported, no wakeup is lost |
| `pool_close` | 2 hosts of 1 client, 2 workers, 2 closers with timeouts, thresholds 1, time 0..1 | clients are closed once and only when drained, the rotation is fair, `LeasePool` is implemented; a started Close completes if leases come back; cancelled calls return even if they do not |
| `provider` | 3 kinds over 2 hosts, 1 host per pool, 2 clients in the first pool, 2 workers that ask for bars and trading days, 4 replies, pages of 2 | hosts are chosen well, connections owned and closed, the previous day is the latest, requests return and Close completes |
| `app_shutdown` | ListenAndServe and a second caller of Shutdown, 2 HTTP and 1 gRPC handler, burst 1, both timeouts | the hook is called once, the closing order, nothing closed under a waited-for handler, nothing served after, no listener left open, late providers closed, Shutdown ends unless the gRPC handler waits for ever for an HTTP handler's load, limiter and counters |
| `runtime_leak` | the runtime alone, 2 closers | violation: a provider stays open (finding 1) |
| `cached_reads` | 2 readers, 2 symbols of one market, TTL 1, 3 loads, three kinds of entries, both caches | answers are complete although entries expire; only a load of all of it renews an entry |
| `ticks_pages` | 2 readers, 3 ticks of which 2 share a minute, 3 loads | cache, store and upstream agree; full answers are whole; covered means stored |
| `ticks_race`, `ticks_twice` | 2, 1 readers, 3 ticks | violations: findings 2 and 3 |
| `kline_gaps` | 2 callers, a range and pages of 2, one of them fetched afresh, 5 trading days with a holiday, gaps over 2 days, upstream pages of 2, 2 loads | answers are ordered and in range, those of a whole range without long holes, from whatever they were put together; the group leads one load per key and everyone returns |
| `kline_seam` | the same | violation: finding 4 |
| `queue_stores` | 3 stores, 2 requesters, 2 workers, 2 keys, 2 retries | tasks are created once, move forward and finish; where Next is one step claims are exclusive and `TaskQueue` is implemented |

`ticks_pages` leaves out what the violations show: its readers ask for pages
from the start of the day only, and the second reader is one that no coverage
recorded by the first can mislead (`OneTickBesideFull` of section 5 says which readers
are such).

Why the bounds are enough. Each protocol relates at most: two holders and one
waiter of a client (3 workers); one lease older than the outage, one that opens the
circuit, one probe (3 workers, 2 clients); two open circuits (2 hosts); a closer that
drains and one that joins (2 closers) with the background goroutine as a third; a worker
that holds the one MAC lease and waits for the one lease of bars, which another worker
holds (2 workers, one client in each of these pools); a pool
that got a client before a later one gets none (3 kinds); a choice among hosts that
are not reachable (2 hosts, 1 wanted); a leader, a follower that
joins before or after `wg.Done`, and the next call by the same callers (2 callers,
2 or 3 loads); an overlap and a difference of symbol sets (2 symbols); a request that the
limiter refuses beside one that it lets through (2 HTTP clients, burst 1); a page, the
rest of its day and two ticks of one minute (3 ticks); an empty start, a hole
between two stored pages and a tail (5 days, of which `today` starts anywhere, with
`MaxGap` 2 for the code's 21 days and upstream pages of 2 for its 799, so that a
range needs up to three of them). `MaxTime` lets every circuit
open, expire and open again; `MaxFailures` reaches both thresholds; `MaxGeneration`
lets a client be leased again after a stale report. `MaxCalls` lets each reader load
and, in `cached_reads` and `ticks_pages`, one more load start after the first was
cached. `MaxPages` lets a call follow one under the same lease. `MaxArrivals` lets the
second client be refused. The violation runs use the
smallest instance that has the disagreement.

The type invariants (`TypeOK` of the pool and of the runtime, `QueueTypeOK`,
`IngressTypeOK`, `AppTypeOK`, `GroupTypeOK`, `ProviderTypeOK`, `ReadsTypeOK`) are proved
and no run spends time on them; what `HistoryTicks` and `KLine` have of them is part of
their inductive invariants (`TicksTypeOK`, `PerCaller`).

`CHECK_DEADLOCK FALSE` appears where the system may stop: the app after Shutdown, the
provider after Close, the callers of a group when its bounded loads are used up or the
clock has run out, the queue when all tasks have finished. The other runs check for
deadlock.

Symmetry is used in runs without liveness only, over sets of interchangeable
goroutines and symbols.

## 4. Fairness

Fairness is stated per goroutine, and weak but for one place.

- `SourcePool`: `Scheduling` says a goroutine that can take a step under the mutex
  eventually does (the Go scheduler and `sync.Mutex`, which hands over to starving
  waiters), and that the broadcasts of `waitLocked`'s helper happen. That leases are
  released (`LeasesComeBack`; all callers do so in a `defer`) is a premise of
  `CloseCompletes` and not of `CancelReturns`.
- `GotdxProvider` `FairSpec`: a worker inside a request goes on, since dials and
  upstream calls have timeouts; Close and its background drains are scheduled. That
  a free client is found, a context ends or a request is made is never assumed:
  `RequestsReturn` holds because a closing pool refuses.
- `ProviderRuntime` `FairSpec`: the factory's attempts return, since dialling has a
  timeout. Contexts named in `TimingOut` may end.
- `KLine` `FairSpec`: loads return, since the clients of the provider have a
  timeout and a wait for a lease ends with its context, and so then does Do. Nothing
  else is fair: a caller may stop anywhere.
- `AppShutdown` `FairAppSpec`: the goroutines of Shutdown, of ListenAndServe's own call
  of it and of the builder are scheduled, and the two shutdown timeouts end. Of gRPC
  handlers something is assumed only after `grpc.Server.Stop` has cancelled them
  (`Stopped`): their calls of the provider return, and a handler that waits for nobody
  ends, its load first if it leads one; Do refuses it another load. The last is strong,
  the one place where fairness is: a handler may enter the provider again and again,
  but finitely often.
  HTTP handlers, their loads and the factory may hang. Hence the premise of
  `ShutdownCompletes`, that no gRPC handler waits for ever for an HTTP handler's load:
  `Group.Do` waits without a context (`group.go:46`) and `stopGRPCServer` without a
  timeout (`bootstrap.go:353`). Without the premise TLC finds the Shutdown that does not
  end: the gRPC handler joins the load of an HTTP handler that hangs, the timeout
  abandons the HTTP handler, and Stop cancels a handler that does not look at its
  context. Loads from the TDX hosts end by the clients' timeouts, so that there
  Shutdown is late and not stuck.
- `BackfillQueue` `FairSpec`: workers keep calling Next and Update. This is an
  assumption about workers still to be written, and MaxRetries bounds their retries.

## 5. Proofs

`tlapm` checks every theorem from nothing; constants are arbitrary, subject to the
named assumptions of the module. No module with a theorem uses recursion.

**`SourcePoolProofs`** (any hosts, clients, workers, closers, thresholds; assumes
`PoolAssumption`). The inductive invariants are built in layers, each a lemma on
`[Next]_vars` with one step per action:

- `TypeOK` (`TypeCorrect`);
- `LeaseInv`: a client in use has exactly one live lease, of its current
  generation, and all older leases are spent. Exclusivity alone is not inductive:
  it does not say that a stale lease cannot match a client again. Gives
  `LeaseExclusive` (`LeasesAreExclusive`);
- `InFlightCounts`: the counter equals the cardinality of the host's clients in
  use, so the clamp at zero is never needed (`InFlightIsExact`);
- `CloseInv`: which goroutine finishes, what it has closed and that nothing is
  leased meanwhile. Gives `ClosedOnceDrained` (`CloseIsOrderly`);
- `HostSound`: a probe is alone and an open circuit has a time to wait for, host by
  host, so that one lemma about each circuit operator is enough. Gives `ProbeIsAlone`
  (`ProbesAreAlone`), and `CircuitMoves` (`CircuitsMoveInTime`) from the same step of
  one host's circuit. That an unclosed circuit is leased from only when nothing of its
  host is in use, `LeaseRespectsCircuit` (`FailingHostsAreSpared`), needs
  `InFlightCounts`: the code looks at its counter, the property at the clients;
- `TurnComesCloser` (`TurnsComeCloser`) needs no invariant but arithmetic: `AheadIs` and
  `CursorPasses` replace the remainder of the rotation by a difference;
- `WorkersWake`, `FinishersWake`: what a goroutine that is parked may rely on. That its
  timer is due when a client is available is not inductive; that the timer is set no
  later than the end of every open circuit of a host with an idle client
  (`Covered`) is. Gives `NoLostWakeup` (`WakeupsAreKept`).

`PoolImplementsContract`, that the pool implements `LeasePool`, follows in the same
module. The mapping chooses the holder of a client out of the workers' leases;
`HolderKnown` computes it without the CHOOSE from `LeaseInv` and `CloseInv`, and then
every step is a step of the contract or a stutter, one lemma per kind of step.

**`HistoryStoreProofs`, the queue** (any requesters, workers, keys, priorities; assumes
`QueueAssumption`). `CreatedInv`
(`QueueTypeOK`, `CopiesStored`, `CreatedOnce`) and `AgeInv` hold for every store;
`ClaimInv` adds `CopyIsCurrent` and `Exclusive` where Next is one step: a working
worker's copy still is the stored row, which is what makes its Update harmless. Gives
`TasksAreCreatedOnce`, `ClaimsAreExclusive` and, as an action property, `TasksAreKept`.
`StoreImplementsQueue`, that memory and PostgreSQL implement `TaskQueue`, needs one
invariant more, `RunningIsOwned`: a stored task that says it is running is some
worker's. `OwnerKnown` reads the owner off, and `MovesOne` turns "one task and at most
one worker change" into a move of the queue.

**`HistoryStoreProofs`, the ticks** (any day, readers, page sizes and number of loads;
assumes `HistoryAssumption`: the ticks of a day are in the order of their minutes).
None of the four properties of `ticks_pages` is inductive, because an answer is what
somebody else stored. `TicksInv` says that everything is the beginning of the day:
`StoreInv` (the store has the first m ticks, each in the row of its own place, and all of
them if the day is covered), `CacheInv`, `LoadsInv`, and for each reader `TickReader`
(what it holds, that what it stores is all the upstream has for it, and that it records
coverage after storing the day). The lemmas under it are about the data: the place of a
row among the rows is the number of its tick (`RowsAre`, by counting), a page is a prefix
(`SliceIs`), and storing one prefix over another leaves the longer (`PutIs`). Gives
`CoveredMeansStored` (`CoverageIsStored`) and `NoTickTwice` (`AnswersHaveNoTickTwice`)
whatever readers race. `RightInv`, that what is cached and answered is what the upstream
has, gives `FullAnswersAreWhole` (`FullAnswersHaveTheDay`) and `PageAnswersMatch`
(`PagesAreAnsweredRight`). Two hypotheses stand for the two disagreements found there:

- `FromTheStart`, requests start at the first tick: by finding 3 a page that starts
  later is stored in the rows of the day's first ticks, and no invariant survives that;
- `NoRace`, for the last two theorems and no others: no step makes the day covered
  while a reader is between its look at the rows and its look at the coverage with some
  of its ticks and not all. This is exactly finding 2, and it is a condition on steps.
  `OneTickDoesNotRace` shows that no behaviour violates it when whoever may look in the
  store beside a reader of whole days asks for one tick, so that
  `AnswersBesideFullAreRight` has hypotheses about the requests only; the requests of
  `ticks_pages` meet them.

**`CallGroupProofs`** (any callers, keys, results). `GroupInv` is the conjunction of
`GroupTypeOK`, `LeadersDiffer`, `MapHoldsLedCalls`, `PendingHasLeader`: each call has
one leader, the map holds exactly the calls whose leader has not left, and a call
without a result is still being loaded. Gives `OneLoadPerKey`, `WaitersHaveLeader` and
the action property `OneResultPerCall`. As `KLine`, `CachedReads` and `HistoryTicks`
take all steps on the group's variables through `CallGroup`, they inherit it.

**`AppShutdownProofs`, the ingress** (any clients, burst, scale). `BucketInv` says of every past time
what was given away since then and what is in the bucket together came from a full
bucket and from the refills; the property itself forgets the bucket and is not
inductive. Gives `RateIsLimited` (`LimiterLimits`). `CountersInv` gives `MetricsAddUp`
(`MetricsCount`); it needs that requests in different steps are different clients.

**`AppShutdownProofs`, the runtime** (any closers and requests). `RuntimeInv` consists of
`BuildInv` (nobody gets past the channel before what was built is published),
`OnceInv` (what is open before, inside and after the Once) and `RequestedInv`. Gives
`CloseMeansClosed` (`ClosedForGood`) and `NotServedAfterClose` (`NobodyServedLate`).

**`AppShutdownProofs`, the app** (any requests and callers of Shutdown). Every step of the App
is a step of the runtime and one of the ingress or leaves them alone, so that
`AppKeepsPromises`: what is proved of the two holds of the App. With the runtime's
invariant, `AppInv` (`CallersInv`, `HandlersInv`, `ResourcesInv`, `ProviderInv`: who
called what, which listeners are open and which handlers still run, what is closed, and
how far the provider's Close is, each by phase) is inductive and gives `HandlersKeepResources`,
`ProviderBeforeStore` and `ServeLeavesNothing`. `Quiet` steps change none of its
variables but through the runtime.

**`GotdxProviderProofs`** (any kinds, hosts, workers, answers and days; assumes
`ProviderAssumption`, `MaxHostsAssumption`, `AnswerAssumption`). `ConnectionsOwned` says what holds of connections and pools at the
end of a construction or of a Close; on the way there it rests on
`BuildInv` (pools before the one under construction are open, those after it absent,
and its next slot is new, so that no connection is stored over another),
`LeasesInv` (a lease is in one worker's row once, of a client whose pool is not
closed, so that nobody else connects or disconnects it) and
`ClosingInv` (the pools before Close's place are closed or drained in the background).
A request takes fifteen kinds of steps; `Changes` says what they have in common, one
lemma shows that this keeps the invariant and another that every step is one. Gives
`ConnectionsAreOwned`. `SelectionInv` says of the kinds in the order of construction
which have been chosen hosts for, and that kinds with the same hosts have the same
choice: the choice of a later kind is an earlier one's, so that each is right only if
all before it are. Gives `HostsChosen` (`HostsAreChosen`). `DaysInv` says of a worker in
GetTradingDay that as long as it asks for bars it has heard of no day before today and has
a symbol left to try, and that what it knows then is the latest day it heard of: an
answer without a previous day has tried all symbols. Gives `PreviousDayIsLatest`
(`PreviousDaysAreLatest`).

**`CachedReadsProofs`** (any readers, symbols, markets, times; assumes
`ReadsAssumption`) instantiates `CallGroupProofs` with the readers as callers and takes
`GroupInv` and its preservation from there; the assumption contains the group's.
`ReadsInv` adds what a load gives (`ValuesFit`: all of its key, which needs that a call
keeps its key and its result) and what each reader relies on (`ReaderFits`: the call it
waits for is of exactly what it has not found, and what it writes is a result). Gives
`AnswersAreComplete` and, as an action property, `ReadingDoesNotRenew`.

**`SubsequencesProofs`** (any sequence and places). What `Kept` returns: the kept elements
and no others (`KeptElements`), in ascending order if the sequence ascends
(`KeptAscends`), each once if those at the places differ (`KeptDiffer`), all of them if all
are kept (`KeptAll`). The loop is unrolled by `KeptLoop`.

**`KLineProofs`** (any trading days, requests, gaps and pages; assumes `KLineAssumption`)
extends `CallGroupProofs`, the callers being the group's. Lemmas first: what the
provider's pages, its range, the slices of the service and the store's bars return for
sorted bars, and where `barGapsForRequest` finds gaps (`GapsAre`). `BarsInv` then says
that all bars that are held, cached or loading are sorted, and inside the range of the
key they are kept under; what a caller holds may come from any of them. Gives
`AnswersAscend` (`AnswersAreInOrder`), and with `GroupInv` in it `OneLoadPerKey`
(`BarsAreLoadedOnce`). `HolesInv` adds that what a caller holds, waits for or is
answered for a whole range has a bar near each of its trading days (a cached page is
looked at for gaps before it is answered, so the cache needs no such part), except, while gaps are being filled, for
the days of a gap that is still to be filled: filling one gap takes its days out of the
exception. It gives `HolesAreShort` (`AnswersHaveNoLongHoles`), for requests of a range
without start and count, as those two cut bars out. That the hole is no longer than
`MaxGap` and not of length zero is finding 4.

No induction theorem with a predicate for a parameter can be used here. Where the data need it (`Subsequences`, the last trading
day, the last bar, the pages of the provider) the proofs argue by a least counterexample:
`LeastNatural` follows from the library's fact that the subsets of finite sets are well
founded, and `SetInduction` from it, for a set of numbers instead of a predicate.

Only model-checked: what needs fairness (`CloseCompletes`, `CancelReturns`,
`ShutdownCompletes`, `LateProviderGetsClosed`, `TasksFinish`, `DoReturns`,
`RequestsReturn`, `ConnectionsGetClosed`), since liveness and ENABLED are out of the
prover's reach. Every invariant and every action property of a passing run is stated by
a theorem.

## 6. Disagreements found

1. **A provider can stay open** (`runtime_leak`, `provider_runtime.go:38`). `finish`
   decides who closes the provider, unlocks, and closes `done` afterwards; a Close
   whose context ends in that gap returns, and nobody closes the provider. The test
   of a late build, `bootstrap_test.go:331`, asserts that it is closed. `app_shutdown`
   shows that a Close that gave up before the gap is handled.
2. **A page can pass for the whole day** (`ticks_race`, `market_data.go:182`): rows
   and coverage are read in two steps and another request stores the day in between.
3. **A tick can be stored twice** (`ticks_twice`, `provider.go:864`): its key has its
   place in the page it came in. By the same numbering a page that starts later in
   the day, fetched by force, overwrites first ticks of its minute in a covered day;
   `CoveredMeansStored` is therefore checked with pages from the start of the day.
4. **A filled gap keeps a hole** (`kline_seam`, `market_data.go:622`). The gap ends at
   the midnight its last day starts with, daily bars bear the close of their day, so
   the provider and `filterBarsByDate` drop the gap's last bar. The hole of one day
   is within `maxDailyBarGap` and is not looked for again. The test of the fill
   (`market_data_test.go:474`) has bars at midnight. The last bar of a range given
   with `end_date` is dropped for the same reason; the repository's `README.md:315`
   puts that down to the upstream.

Behaviour that the models have too, and that is no violated property here, because no
document promises otherwise clearly enough or because it would restate one line:

- a forced request for ticks is cached under a key of its own (`market_data.go:131`),
  so that normal requests go on being answered with the old entry until it expires;
  `docs/MULTI_INSTANCE_REDIS_POSTGRES.md` section 10 has a forced request repair a
  polluted cache;
- a request that was loaded first and writes last replaces newer data in the cache,
  also those of a forced refresh; section 9.1 of the same document accepts that;
- when Redis fails to write, the request fails although its data were loaded;
- no read falls back on old data when the upstream fails, which
  `docs/MARKET_DATA_SERVICE_PROJECT_PLAN.md:395` plans;
- a trading day is cached as answered, also over the midnight at which it gets stale;
- a request that its own caller cancels between pages, or one for a market the
  provider does not know, is reported as a failure of its host (`provider.go:919`) and
  helps open its circuit; `docs/MARKET_DATA_SERVICE_DEVELOPMENT_PLAN.md:298` counts
  failures of the host only;
- a live connection is kept when the second call on it has failed, for the next
  holder of its lease to find;
- a handler that panics is counted with status 200, since nothing was written;
- a lease that is never given back keeps its half-open host without a probe, and Close
  waiting; all callers release in a `defer`;
- who joins a load waits for its leader whatever its own context says, and gets the
  leader's cancellation as its result (`group.go:46`); a gRPC handler that does can keep
  Shutdown waiting past both timeouts (section 4);
- a full fetch of a day that is still trading marks it as covered
  (`market_data.go:222`), and it is answered from the store from then on;
- a task that failed keeps its key, and the same gap is never enqueued again
  (`memory_store.go:300`);
- a page of ticks is covered by any other stored page of as many rows, so after
  start=1 was fetched start=0 is answered with it (`market_data.go:540`);
  `PageAnswersMatch` is checked with pages from the start of the day;
- bars asked for with a `start` are cut out two or three times, by the provider, the
  service and again from the cache (`market_data.go:377`, `447`), and so are the pages of
  a security list;
- more than 799 bars without dates, the default of 800 among them, come with the
  older page behind the newer one (`provider.go:1095`), and the second time they
  are asked for may come from the store, which counts from the oldest bar;
- a range whose first day is no trading day never counts as covered, so its bars are
  fetched again by every request (`market_data.go:612`);
- what the store lacks at the end of a range, up to 21 days, is not fetched
  (`market_data.go:626`).

## 7. What is not modelled

- Not protocols: the mapping of protocol rows to domain types (`mapper.go`), parsing,
  DTOs and routes of both APIs, type aliases and constructors of the public package,
  the DDL of `schema.go`, the flags and signal handling of the command. They keep no
  state and run in one goroutine; the unique index of the DDL and the numbering of the
  rows, which matter to a protocol, are in `BackfillQueue` and `HistoryTicks`.
- The daily log writer: a file that is opened and written under one mutex, with no step
  outside of it.
- The Redis lock (`TryLock`, `Unlock`): nobody calls it. `Unlock` deletes the key
  without asking who holds it.
- Securities in the history stores: the service never reads or writes them.
- Opening the database, migrations and connection settings.
- The goroutines of a host's probe, which meet in a WaitGroup before anything is read;
  the mutex of a live client, which exclusive leases leave uncontended.
- Bars of other periods than the day (they never have gaps, so they take a part of the
  paths of the day's), the wrap of the provider's uint16 cursor, and `times`; start and
  count of a security list; the sessions of a trading day; the split of the counters by
  route and their durations; the rounding of the bucket's float64.
- A load that panics, and rows of the real data: values are abstract.
- Data races of the Go memory model: the code's shared state is under its mutexes in
  every path that was read.

## 8. Plan

Done, in this order: pool with its abstract specification and proofs; runtime and
app; group and its proofs; history ticks; queue with its abstract specification and
proofs; daily bars; the live provider with its connections, hosts and trading days;
the ingress; all cached reads over both caches; Build and ListenAndServe; proofs of
the ingress, the runtime, the app, both refinements, the pool's action properties and
the provider's connections, the cached reads; proofs of the choice of hosts, the
previous trading day, the bars and the ticks.

Next, most important first:

1. That `GotdxProvider`'s pools implement `LeasePool` kind by kind.
2. `HistoryTicks` with several instances on one database and a memory cache each.
3. Start and count of security lists, and bars of shorter periods.
