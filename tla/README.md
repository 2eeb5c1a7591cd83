# Verification of the mta-v600 request packages

TLA+ models of the packages through which mta-v600 makes its outgoing requests,
TLC configurations that check them, and TLAPS proofs about them. The code
modelled is under `src/packages_py`, and under `src/packages_mjs` for one
TypeScript twin; file names without a directory are those of the package under
discussion.

## 1. The system

mta-v600 is a set of Python packages (`packages_py`) with TypeScript twins
(`packages_mjs`), and applications that use them. Its core is a stack of httpx
transports, each wrapping the next, each over a package that keeps the state;
above it are clients of providers, which need credentials and a route.

| component | state | operations | interacts with |
|---|---|---|---|
| `connection_pool` | connections by id and host with state, age, last use; pending queue with futures and timers; statistics; `_closed` | `acquire`, `release`, `fail`, `drain`, `close`, queue processing, health check | called by tasks; timers and the health-check task call back |
| `fetch_compose_connection_pool` | none | one request = acquire, inner transport, `fail` on an exception, `release` in `finally` | calls the pool |
| `connection-pool` (TypeScript) | the same | the same, with an await at every store call | interceptor of `fetch-compose-connection-pool` |
| `cache_request` Singleflight | store fingerprint -> flight (future, subscribers) | `do`, `clear` | leader completes the future its followers await |
| `cache_request` IdempotencyManager | store key -> response, fingerprint, expiry | `check`, `store`, `invalidate`, clean-up | called by the transport around each request |
| `fetch_compose_cache_request` | none | chooses Singleflight (safe methods) or idempotency (unsafe ones) | calls both managers |
| `fetch_rate_limiter` | priority queue (heap + removed ids), futures, `_active_requests`, `_processing`, a store with a count per interval | `schedule`, `_process_queue`, `_execute_request`, `destroy` | processing tasks, request tasks, `MemoryStore` or `RedisStore` |
| `fetch_compose_rate_limiter` | `_retry_after_until` | waits, then `schedule` | calls the limiter |
| `fetch_retry` (+ transport) | none between calls | attempts with back-off | inner transport, or any function |
| `cache_dsn` (+ transport) | entries with TTL, negative entries, health marks, `_revalidating` | `resolve`, background revalidation, `select_endpoint`, `invalidate`, `clear`, `destroy` | resolver function |
| `cache_response` (+ transport) | LRU store of responses with freshness, ETag, Vary; `_revalidating` | `lookup`, `store`, `revalidate`, background revalidation | inner transport |
| `fetch_auth_encoding`, `fetch_client` auth | none | from credentials to the value of a header | providers, clients |
| `fetch_proxy_config`, `fetch_proxy_dispatcher` | none | which proxy, and whether certificates are verified | clients |
| `provider_api_getters` | runtime, startup and request tokens, resolvers | `set_api_token`, `resolve_startup_tokens`, `get_token`, `get_api_key`, `get_client`, health checks | configuration store, `fetch_client` |
| `db_connection_postgres` | global manager, its engine | sessions, `init_db`, `dispose` | SQLAlchemy; applications and the health check script of postgres |
| configuration, console, apps, tools | - | look-ups, formatting, I/O, one-shot programs | - |

What is hard here is interleaving on one event loop. A coroutine gives the
loop up only where it really suspends: awaiting a method of an in-memory store
does not. So a method over such a store is atomic up to its next real
suspension (an unfinished future, a sleep, the network, another task), and
everything may happen in that gap: other calls, timers, cancellation, clear(),
close(). The models put their step boundaries exactly there. The TypeScript
pool yields at *every* await: `AsyncPool` has one action per microtask.

The other difficulty is duplication: the code has four encoders of credentials,
two ways to a header, two ways to a route and two health checks per provider.
The question there is for which of the many configurations they agree.

What makes each component correct:

- pool: limits; one user per connection; no connection without a user; every
  waiter answered, once, in order; statistics that agree with the store;
- pool transport: a failed connection never comes back; a failure lets the next
  waiter in;
- Singleflight: one execution per fingerprint; the callers that share it all get
  its outcome; nobody gets an outcome of the past; every call ends;
- idempotency: a success that was reported is not lost; a replay is the response
  to the same request;
- rate limiter and retries: no request lost or run twice; order; no lost wake-up;
  both limits; pauses respected; a bounded number of sends;
- DNS and response caches: no newer result replaced by an older one; a body keeps
  its ETag; one background refresh at a time; exact connection counts;
- providers: a client sends the header its result tells; what was cleared stays
  cleared; a health check asks as the application would, and closes what it opens.

## 2. Modules

| module | models | proofs |
|---|---|---|
| `ConnectionLease` | abstract: connections are opened, lent to at most one task, given back, closed | |
| `ConnectionPool` | `pool.py` over `stores/memory.py`; implements `ConnectionLease` | `ConnectionPoolProofs` |
| `PoolTransport` | `ConnectionPoolTransport` over `ConnectionPool` (EXTENDS it); implements `ConnectionLease` | `ConnectionPoolProofs` |
| `AsyncPool` | `pool.mts` with its interceptor, one action per microtask | `AsyncPoolProofs` |
| `SharedCall` | abstract: whoever asks while an execution runs is answered when it ends | |
| `Singleflight` | `singleflight.py` over its memory store; implements `SharedCall` | `SingleflightProofs` |
| `Idempotency` | `idempotency.py`, its store, and the transport's path around it | `IdempotencyProofs` |
| `RateLimiter` | `limiter.py`, `queue.py` and a store | `RateLimiterProofs` |
| `RequestPath` | `RetryTransport` and `RateLimitTransport` composed in either order, `RetryExecutor`, and the synchronous twins | `RateLimiterProofs` |
| `DnsCache` | `resolver.py` over its memory store, and requests through `DnsCacheTransport` | `DnsCacheProofs` |
| `ResponseCache` | `cache.py` over its memory store, and `CacheResponseTransport` | `ResponseCacheProofs` |
| `AuthEncoding` | the encoders of credentials, as operators | `HealthCheckProofs` |
| `Credentials` | `get_api_key()` of fourteen providers, the token registry, the clients of the factory; EXTENDS `AuthEncoding` | `HealthCheckProofs` |
| `ProviderNetwork` | which proxy and which TLS a provider is asked with, as operators | `HealthCheckProofs` |
| `DatabaseManager` | the global manager of `db_connection_postgres`, its engine, sessions | `HealthCheckProofs` |
| `HealthCheck` | the checker and the script of every provider; composes the four above | `HealthCheckProofs` |
| `MC*` | model values, instances and symmetry for TLC | |

`PROJECT.json` maps each definition to the lines it stands for. Definitions
introduced by "Mutated form" are plausible bugs: with one of them in place of
the real definition, TLC finds the property named in `PROJECT.json` violated.

**ConnectionPool.** `state`, `host`, `aged`, `rested` are the store and the two
clocks of a connection, reduced to whether the limit was passed. `queue` is
`_pending_queue`, `pc` and `handle` are the tasks and the `AcquiredConnection`
each holds, `balance` is total_created - total_closed. `_process_pending_queue`
is modelled one iteration per step with `turn = "serve"`, during which no other
task runs. `close()` is two steps, since it awaits the health-check task with
`_closed` set. Connection ids are drawn from the finite set `Conn`; an id is
drawn again only when the store and all tasks have forgotten it. The requests
of the tasks in `Timed` have a queue timeout, the others wait without one.
`PoolTransport` replaces the direct `fail` by the transport's `fail(e)` followed
by the `release()` of `finally`, in one turn of the loop.

**AsyncPool.** `ready` is the microtask queue; each method is cut at its awaits,
and `at` says where a request, or one of the two daemons, stands. `handle` and
`target` are what a run of processPendingQueue() has in its variables, and
`todo` the list of connections that it, acquire() or a daemon got from the
store: the list is made when the store is called, before the await
(pool.mts:292, stores/memory.mts:19), and gone through after it, so that it may
hold objects that were removed meanwhile. `state` is that of the objects: the one
of a removed connection stays what it was, since no update reaches it. `Slot` is
where insertIntoQueue() puts a request among those of its priority.
`disturbed`, `astray` and `crowd` are history.

**Singleflight.** `do()` as leader (`Lead`, then `Finish`) and as follower
(`Join`, `Resume`; `JoinDone` when the future is done already). `CancelLeader`
and `CancelFollower` do what `CancelledError` does: the leader tells nobody, the
follower cancels the future that all share; the leader then meets
InvalidStateError (`FinishCancelled`). `Settle` deletes by fingerprint without
looking whose flight it is.

**Idempotency.** A request is `Check` when a response is stored (replay or
conflict), else `Send`, later `Succeed` or `Fail`. `promised` is a history
variable: keys under which a success was reported and has neither expired nor
been invalidated.

**RateLimiter.** `heap` is `_items`: the requests in it, those of `removed`
still among them, with the time stamps they were queued with. A pop takes any
that no other goes before, by priority and then by stamp: heapq is not stable,
and time.time() may stand still or be set back between two calls (`Stamps`).
fn() returns or raises (`Return`), or ends in CancelledError (`Escape`): that
passes every `except Exception`, only the `finally` block runs, and the future is
never answered (limiter.py:222, 249, 267). `forsaken` is history: the callers to
whom that happened. `proc` is the task that got past `_processing`;
`kicks` counts the processing tasks created and not yet started; `job` is each
request's `_execute_request` task. `suspends` chooses the store: with
`MemoryStore` (FALSE) the processing task holds the loop from scan to
`create_task` (`Held`), with a network store it lets others run while it awaits
the count. `Started` is the FIFO order of asyncio's ready queue.

**RequestPath.** `way` says what is outside: RetryTransport, RateLimitTransport,
or a RetryExecutor around the latter; `sync` whether the twins for threads are
used. Delays are counted in ticks. A queued request is admitted at some time:
how is `RateLimiter`'s business. A request whose wrapped transport ends in
CancelledError inside the limiter is `lost` there (`Lose`). `demand`, `early`
and `cut` are history: what is left of the longest wait asked for, who was past
the check, and whether a shorter wait replaced a longer one.

**DnsCache, ResponseCache.** The zone and the origin are external and move
through versions; an answer is one that was right at some time while the call
was under way. An entry of the response cache is for a variant of its URL, for
requests without the header that it varies on (`Bare`), or for all (`Anyone`); the
latter two were stored with no header values and suit every request
(cache.py:227). `floor` and `late` are history: the newest answer known for a
name or URL, and the tasks that were under way when it was set. An entry's age
passes from fresh over stale to dead.

**Credentials.** A value is a form (raw, Basic, Bearer, a pair, doubled) and a
secret. One provider is followed, with any configuration (`setup`). Each
`get_api_key()` is an operator; `ResultHeader` is get_auth_header(),
`ClientHeader` what resolve_auth_config() and the client make of the same
result. Of the sixteen valid types, hmac and connection_string (`BareTypes`) are
ones that nobody makes a header of.

**ProviderNetwork.** A place is everything that has a say: the environment, the
global section, the provider's own and legacy sections, a proxy_url, TLS modes.
`FactoryRoute` and `ScriptRoute` are the two ways through it. Where the code
looks at one source after another, the first that answers decides.

**DatabaseManager.** Engines and pools are numbered as they are made; `at` says
what each session or script does, over which engine and pool. SQLAlchemy is
external.

**HealthCheck.** A scene is a setup, a place, and how many tokens and checks
there may be. A probe is one check, by the checker or by a script; each script
is a record that says in which order it looks for a base URL and credentials,
what it hands to its client and what it makes of an exception.

## 3. What is checked

| run | instance | shows |
|---|---|---|
| `pool_safety` | 3 tasks, 2 hosts, 2 priorities, 3 connection ids, at most 2 connections (1 per host, 1 idle), queue of 2, every wait with a timeout; failures, cancellation, ageing, idling, timeouts, drain | limits, exclusive use, statistics, order of service, refinement of `ConnectionLease` |
| `transport` | 3 tasks, one of them with a queue timeout, 3 hosts, 2 connections (1 per host), so that idle connections of two hosts shut a third out; failures, ageing and close() | no orphan; a head that could be served is left behind only in the ways named; a wait lasts for ever only behind such a head, behind one that is shut out, or under releases that go on to discard; a failed connection stays out; refinement of `ConnectionLease` |
| `async_pool` | 3 tasks, 2 connection ids, 1 connection; errors, aborts, ageing, sweep, close(), with lists of connections that are out of date | exclusive use; limits, requests and connections are lost only in the ways named |
| `async_pool_hang` | 3 tasks, 1 connection id, two priorities, nothing else happens | **violated**: a wait that never ends |
| `flight` | 3 tasks, 2 fingerprints, failures, cancellation and clear() | one execution, stored flights pending, every flight led, every call of uncancelled callers ends, refinement of `SharedCall` |
| `flight_leader_cancelled` | 2 tasks, cancellation | **violated**: calls that never end |
| `idempotency_safety` | 3 tasks, 2 keys, 2 bodies, 4 requests sent | promises kept, replays match |
| `limiter` | 3 requests, 2 priorities, 2 time stamps, a deadline, retries, functions that end in CancelledError, cancelled callers, destroy(), both kinds of store | nobody lost but by a CancelledError, nothing run twice, wake-ups, limits nearly kept, order of priority and stamp, calls answered |
| `requests` | 2 requests, one with an unsafe method, all three ways, with and without `sync`; 2 retries inside or around 1 of the limiter; waits of 1 and 2 ticks; errors, cancelled callers, a transport that ends in CancelledError | sends bounded, pauses respected, every request ends, but for those that met the CancelledError |
| `dns` | 1 request, 2 background tasks, 2 names, room for one; errors, cancellation, refresh, invalidation, destroy() | one revalidation per name, exact counts, answers go back only by overlap, stale entries are refreshed |
| `response` | 1 request, 2 background tasks, 2 URLs, one of which varies, requests with and without the header, room for one light entry; failures, invalidation, clear(), close() | one background request, body and ETag mix only by overlap |
| `providers` | every provider asked over HTTP with every valid auth type, header name, identity and resolver, with 2 tokens and no check, or a check and at most 1 token; jira, confluence and elasticsearch over 20 thousand network places; postgres and redis, of type connection_string as configured, with their tokens, with two checks beside an application, and over every TLS mode | headers agree, cleared stays cleared, checks refuse only registry tokens, ask as configured, and leave nothing open |

`MCHealthCheck` also has TLC evaluate `EncodersAgree` as an assumption: the
encoders agree on every offer of credentials that is not ambiguous.

Bounds. Three tasks are what it takes for a connection to be held, waited for
and contended, for a leader with a follower and a newcomer, or for a stored
response that two duplicates meet. Two names or URLs with room for fewer make
eviction meet whatever is under way. Id supplies (`Conn`, `Flight`, `Request`,
`Worker`) are recycled, so behaviours are unbounded although the sets are small.
`MaxSubscribers` stops a counter; `MaxSends` numbers the responses; `MaxVersion`
bounds how often a zone or an origin moves: once is enough for one answer to be
older than another; `MaxKicks` bounds processing tasks created and not started
(a second one already finds the first at work); `MaxDrift` bounds how often the
transport may count one connection twice; `MaxEngines` and `MaxPools` suffice for
two scripts and a request that each dispose. `Events` lists what the
surroundings may do. Providers have no shared state with each other, so one at a
time is enough; scenes combine what can interact (tokens with a check, a place
with a check) and not what cannot.

Where a component breaks a plain form of its property, the property names
exactly when, and its mutant shows that the exception does not swallow it. These
are restrictions that matter:

- *Orphans* (`NoOrphan`, `transport`): without cancelled waiters only. With them
  the pool loses a connection: a future that was cancelled, or whose result is
  thrown away, leaves its connection ACTIVE until close() (pool.py:421).
- *Waiters* (`EveryWaitEnds`, `OnlyThenLeftBehind`): release() leaves a connection
  idle, and the queue is served only for a host that has an idle connection or
  room for one (pool.py:415-447). With max_connections below what the hosts may
  have together, connections of other hosts, idle or DRAINING, take all places:
  the head is shut out (`ShutOut`), and everybody behind it waits, those for other
  hosts too, unless they find an idle connection on arrival. A head that *could*
  be served is left behind when a `release()` discards its connection
  (pool.py:116), the health check closes one or a timer takes the head before it,
  for none of these processes the queue. Without a timeout either wait may last
  for ever. `drain()` sets no flag, so the pool goes on accepting afterwards,
  although its docstring says otherwise (pool.py:201).
- *Statistics*: under the transport, fail() and a release() that discards count
  one connection as closed twice; `StatsAgree` is a property of the pool alone.
- *TypeScript pool*: requests that count together create together, so n at once
  exceed maxConnections by n - 1 (`OverbookedByCrowd`); requests and connections
  are lost where pendingQueue[0] changes under a run (`LostByDisturbance`,
  `LeakedByDisturbance`), and connections after an error of the response. Two
  requests can hold one connection when it left the store idle (`LeftIdle`): the
  health check marks a connection as closed while its holder is between
  getIdleCount() and its update, the holder sets it idle, the health check removes
  it, and two requests whose lists are older both take it. That needs three
  connections and three requests (58 steps); within the bounds of `async_pool`
  nothing is shared, with or without the exception, and the theorem covers the
  rest.
- *Flights*: `OneExecution` until clear(); `EntryIsPending` until a cancellation;
  `EveryFlightLed` and `SharedSpec` until either.
- *Idempotency*: overlapping requests with one key both go out, and the later
  response is what is stored; the properties say what survives that.
- *Limits* (`LimitsNearly`): with a store that suspends, one request too many at
  a time. With `MemoryStore` nothing suspends between the check of the count and
  the next iteration, so a burst passes as a whole, and both limits are exceeded
  by its size. The queue holds one request more per id leaked by `is_empty()`
  (queue.py:85). Stores do not raise, and max_requests is at least 1.
- *Answers of the limiter* (`Accounted`, `EveryRequestAnswered`): a caller whose
  fn() ends in CancelledError or another BaseException is left waiting, with
  nothing queued or under way. A higher priority may starve a request, by design;
  so may requests of the same priority for as long as the wall clock stands still
  or goes back, since `heapq` then lets a later one go first.
- *Requests* (`EveryRequestEnds`): unless the limiter has lost them to a
  CancelledError.
- *Pauses* (`PauseRespected`): requests that were past the check go out, and a
  later 429 with a shorter wait cuts a longer one short.
- *DNS, responses*: an answer goes back, or a body gets the ETag of another
  version, only where calls overlapped. `OwnTags` is FALSE: a caller's own
  If-None-Match may bring a 304 for something else than what is cached, and the
  cached entry is refreshed by it. What was stored for a request without the
  header that responses vary on is served to every request.
- *Providers*: `Parts`, `ScriptParts`, `RoutesPart`, `UnverifiedAsked` and
  `Ambiguous` list where the ways part; see below.

Fairness. The event loop runs every ready callback: tasks whose future is done
resume, due timers fire, `finally` blocks and queue processing go on. It is
strong where the step waits for `turn` (or for the processing task) to give the
loop back, which happens again and again, since the ready queue is first in,
first out. `transport` assumes of each task that its request ends, its timer fires and its
answered wait resumes, and of the pool that the serving of the queue and close()
go on (`FairTransportSpec`), not that health checks run; the flight
runs that `fn()` returns or raises; `limiter` that so does each request and that
intervals end; `requests` that time passes and the wrapped transport answers or
raises; `dns` that a background task starts and its look-up ends;
`async_pool_hang` that microtasks run, that `ready` is empty again and again and
that the timers of waiters fire.

### Findings

- `flight_leader_cancelled`: `do()` handles `except Exception` only. A leader
  cancelled in `await fn()` leaves its entry in the store; followers and all
  later callers of that fingerprint wait for ever. (Cancelling one *follower*
  cancels the future of all, for the same lack of `shield`.)
- `async_pool_hang`: processPendingQueue() of the TypeScript pool reads
  `pendingQueue[0]`, awaits, and shifts whatever is the head by then. A request
  of higher priority that arrived meanwhile is dropped without an answer, and
  its timer finds nothing to remove.

### Other disagreements met while modelling

They are part of the models, and of the exceptions in the properties; no run is
devoted to them.

- The limiter retries what raises whatever the method (limiter.py:225), and so
  does a `RetryExecutor`; RetryTransport takes care not to (config.py:143).
- `int(max_per_second)` is 0 for a rate below one (transport.py:66 of the rate
  limiter transport): nothing is ever sent. `max_entries = 0` makes the response
  cache raise at its first eviction (stores/memory.py:130). The response
  transport serves fresh entries without asking `should_revalidate`.
- The queue of the limiter promises "FIFO for same priority" (queue.py:29), which
  time.time() and heapq do not keep. The limiter leaves the caller waiting whose
  fn() ends in CancelledError (limiter.py:267).
- Headers: with hmac or connection_string, which server.dev.yaml sets for postgres
  and redis, the client sends the bare value and get_auth_header() says Bearer;
  servicenow has a bare password as its key, which its client sends as it is
  while the script sends Basic; rally documents Z-Session-ID and its client sends Authorization: Bearer; saucelabs ignores its auth type;
  bearer_email_token sends the raw token; a registry token under a Basic type is
  sent bare. format_auth_header_value() prefers any password to the key the type
  names, and an email to the username. An AuthHandler takes Basic types and
  custom_header for a bearer, and repeats a prefix.
- Tokens: clients keep the header they were made with; unregister_resolver()
  leaves the token of the startup; with tokens per request get_client() raises
  TypeError and leaves its httpx client open (factory.py:430).
- Routes: the factory drops ca_bundle and cert; confluence has its certificate
  verified only when it says so (confluence.py:391), and proxy_url: false counts
  as configured in its script; elasticsearch is checked with the global section
  alone; the scripts swallow exceptions of the dispatcher and fall back to a
  plain client; a runtime override is reported and not used.
- TLS: the checker reads POSTGRES_SSLMODE, the script and the application
  POSTGRES_SSL_MODE; the script turns require into no TLS and a verified mode
  into an unverified one, and an application that comes later shares that
  manager; the script of redis uses no TLS, takes the connection URL for a
  password and asks database 0.
- Checks: the checker refuses a provider whose only token is in the registry;
  the checks of redis and, when cancelled, of postgres leave connections open;
  a healthy check of postgres closes its pool inside `async with
  pool.acquire()` and so waits out a time limit of two seconds; the scripts of
  akamai, rally and elasticsearch, and of sonar and saucelabs with some types,
  raise before they ask; close_db() of the script disposes of the application's
  engine.

## 4. What is proved

For every value of the constants, under the named assumptions of the modules
(which TLC evaluates): limits are naturals, the special values are outside
their sets, hosts, names, fingerprints, keys and bodies exist, events are known.
Every safety property that a run checks is stated by a theorem.

| module | theorems | argument |
|---|---|---|
| `ConnectionPoolProofs` | `TypeCorrect`, `LimitsHold`, `UseIsExclusive`, `NoRequestLost`, `Accounted`, `DrainingStays`, `OrderIsKept`, `Implements` | `IInv`: types, finite store within its limits, statistics, one owner per connection, queue and waiters match |
| the same, of `PoolTransport` | `TransportInductive`, `TransportKeepsPool`, `FailedIsOut`, `NothingOrphaned`, `SeldomLeftBehind`, `TransportImplements` | `TransportInv`: the pool's invariant without the statistics, and that a failed connection is out of the store until its second release |
| `AsyncPoolProofs` | `Inductive`, `UseIsExclusive`, `OverbookingIsBounded`, `LossNeedsDisturbance`, `LeakNeedsDisturbance` | `IInv`: what is held is held once and not idle, unless it left the store idle; who found room is counted; until a disturbance every run has the head of the queue |
| `SingleflightProofs` | `Inductive`, `OnlyOneExecution`, `EntriesPending`, `FlightsLed`, `Implements` | `IInv`: flights are not shared; what holds until clear(), until a cancellation and until either |
| `IdempotencyProofs` | `Inductive`, `PromisesKept`, `ReplaysMatch` | `IInv`: versions are new, what is stored was the response to that key and body |
| `RateLimiterProofs` | `Inductive`, `EverythingAccounted`, `NoLostWakeUp`, `LimitsAreNear`, `OrderIsKept` | `IInv`: queue, removed ids, futures, tasks and counter match, nothing is left of a forsaken call, tasks are created one at a time |
| the same, of `RequestPath` | `PathInductive`, `SendsAreBounded`, `PauseIsRespected` | `PathInv`: how often a request was sent by the place it is at; whoever is past the check was so when the pause was set, or found it over |
| `DnsCacheProofs` | `Inductive`, `OneRevalidationAtATime`, `CountsAreExact`, `AnswersGoForward` | `IInv`: marks match the workers, resolutions that nothing overtook began at the floor |
| `ResponseCacheProofs` | `Inductive`, `OneBackgroundRequest`, `BodiesKeepTheirTags` | `IInv`: marks match, a worker asked with the tag that is cached |
| `HealthCheckProofs` | `HealthInductive`, `HealthTyped`, `HeadersAlwaysAgree`, `ClearedUntilWanted`, `RefusesRegistryOnly`, `AsksRight`, `ClosesWhatItOpens` | `HealthInv`: the registry's, the manager's and the checks' invariants |
| the same | `Composes`, `ManagerReaches`, `EncodersAlwaysAgree` | every step of the whole is one of the registry and one of the manager, or a stutter; without an overlap, sessions are over the engine there is; cases on the type of credentials |

The safety properties are not inductive as they stand. `ExclusiveUse` needs
that a held connection is not idle (`HeldNotIdle`, `HeldInUse`), or reuse could
lend it again. `Capacity` needs that the store is finite to count it.
`OneExecution` needs that the leader's flight is the one in the store
(`Registered`) and that no two share a flight, or deleting one entry could
uncover another. `EntryIsPending` survives clear() because an entry is only ever
led by a task that deletes that very entry (`OwnEntry`). `ReplayMatches` needs
that a version belongs to one request. `OneRevalidation` needs that the marks
are exactly the workers at work (`MarksMatch`), `OnlyOverlapGoesBack` that a
resolution which nothing overtook began at the floor (`BeganAbove`),
`OnlyOverlapMixes` that a worker asked with the tag that is cached
(`AskedForCached`). `LimitsNearly` needs that every created task starts before
the next check (`OneAtATime`) and counts those that were not recorded yet;
`TakenInOrder` needs only that what is queued has no task yet, since stamps are
arbitrary; `ServedInOrder` that the queue is sorted (`Sorted`, an invariant of its
own beside the pool's `IInv`), so that a new request's place is the number of
those that go first.

The others need, beyond themselves:

- *The transport.* `StatsAgree` fails under the transport, so `IInv` does; what is
  left of it (`PoolInv`) does not depend on the statistics and survives the
  release of a connection that is gone, because `FinallyInv` says that nothing
  runs between fail() and that release: the id cannot have been lent again.
  `NothingOrphaned` assumes that waiters are not cancelled
  (`"cancel" \notin Events`), as the run does; with them the property is false.
  `OnlyThenLeftBehind` needs that one that queues up in front of the head could
  not be served itself (`NewcomerLeavesNobody`), and that timers and cancellations
  further back leave the head as it is (`HeadStays`).
- *The TypeScript pool.* `ExclusiveUse` goes through lists that are out of date:
  it needs that a connection of the store which somebody holds is not idle
  (`HeldInUse`), and that an object outside the store changes no more but by
  whoever has it, so that only one that left idle can be found by two.
  `OverbookedByCrowd` needs `Booked`, which counts the
  requests that found room together with the connections there are. A loss needs
  a disturbance because, as long as there was none (`CalmInv`), a run of
  processPendingQueue() finds at its end the head of the queue that it read at
  its start; that needs `QueuedOnce` and that a run with a target is due
  (`RunsAreDue`).
- *Requests.* `SendsBounded` is a product: retries of what is inside begin anew
  with each retry of what is outside. `Within` bounds the sends by whole outer
  runs and by what the present one has used, one form for each order of the
  transports. `PauseRespected` needs for the sleepers (`Heeds`) that they sleep
  no less than is left of the longest wait asked for.
- *Providers.* `HeadersAgree` follows the registry: a client's header is right
  when it is made, and its token is one that was issued (`Registered`).
  `ClearedStaysCleared` needs that a resolution under way is wanted. A check is
  `Sound`: until it has asked it has the key it began with. The run's scenes
  are chosen; the theorems hold in every setup and place there is.
- `AsksAsConfigured` also rests on case distinctions over all providers and
  modes of TLS, since the operators it names are tables.

The proofs have one lemma per action; `Implements` and `TransportImplements` show
that each step of the concrete module is a step of the abstract one or leaves
its variables alone.

Only model-checked: liveness (`EveryWaitEnds`,
`UncancelledCallsEnd`, `EveryRequestAnswered`, `StaleRefreshed`,
`EveryRequestEnds`), since TLAPS proves nothing under fairness or with ENABLED;
and the two violations, which are behaviours that TLC finds.

## 5. Not modelled

- Time is reduced to "the limit has passed", or to ticks; the lengths of intervals
  and back-offs, and jitter, are left out. HTTP messages, names, URLs
  and credentials are model values.
- Dynamic limits of the rate limiter; stores that raise; several processes on one
  `RedisStore` (INCR and PEXPIRE are two calls); the synchronous pool, cache and
  DNS transports, which have threads in place of tasks and no background work.
- The other TypeScript twins, which follow their Python packages.
- Readers of event streams, which decode each chunk on its own, so that a
  character split between two chunks is replaced; headers as text; EdgeGrid
  signatures; connection strings that carry their own TLS settings.
- The synchronous engine of `db_connection_postgres`; SQLAlchemy, asyncpg and
  redis-py beyond how they are used.
- Events, listeners, logging and statistics that only report.
- The components with status `not_modelled` in `PROJECT.json`, each with its
  reason: configuration is read once at start-up, applications are routes and
  user interfaces, tools are one-shot programs.
