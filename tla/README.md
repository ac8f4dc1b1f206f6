# A TLA+ verification of the API gateway

The gateway is a multi-threaded C++20 reverse proxy. Each worker thread has its
own epoll loop and listener; the workers share a rate limiter, a cache, load
balancers, one circuit breaker per backend and a pool of backend connections. A
health checker and a metrics server have a thread each. The modules here model
the parts where threads, clocks, sockets and shutdown meet, TLC checks them on
small instances, and TLAPS proves the main results for every instance. Line
numbers refer to the sources as they are in this repository.

## Inventory

| Part | Source | State, operations | Module |
|---|---|---|---|
| Circuit breaker | `include/resilience/CircuitBreaker.hpp` | `state_`, counters, `openedAt_`; allowRequest, onSuccess, onFailure | CircuitBreaker, BreakerTiming |
| Rate limiter | `include/resilience/RateLimiter.hpp` | token buckets per client; allow | RateLimiter |
| Load balancer | `include/routing/LoadBalancer.hpp` | health, load, `rrCounter_`; pick | PickLoop, LoadBalancer |
| Connection pool | `src/network/ConnectionPool.cpp` | idle deques; acquire, release, discard, closeAll | ConnectionPool |
| Forwarding | `src/core/Gateway.cpp` 374-510 | a worker's locals; retries over all of the above | Forwarding, FailFast |
| Retry policy | `include/resilience/RetryPolicy.hpp` | none | outcomes and count, in Forwarding |
| Start and stop | `Gateway.cpp` 512-537, `HealthChecker.cpp`, `main.cpp` | two flags, threads, a condition variable, the Logger's mutex | Lifecycle |
| Event loop, listener | `EventLoop.cpp`, `TcpServer.cpp`, `Gateway.cpp` 40-62 | epoll set, callbacks, connections, descriptors; poll, accept, close, sweep | WorkerLoop |
| Client connection | `Gateway.cpp` 64-256, `Connection.hpp` | parser, pending write, flags | ClientConnection |
| HTTP parser | `src/http/HttpParser.cpp` | buffer, state, headers; parse | HttpParser |
| Configuration | `src/config/Config.cpp` | the reader's locals; loadFromFile, validation | Config |
| Router | `include/routing/Router.hpp`, `Gateway::buildRouter` | route table; addRoute, match | Router |
| Response cache | `include/cache/LRUCache.hpp` | list and index; get, put, invalidate, clear | LRUCache, AbstractCache |
| Request pipeline, counters | `Gateway::handleRequest`, `Metrics.hpp` | a request on its way; counters | Pipeline |
| Latency histogram, log text, ids, response text, sample backend | `include/observability`, `HttpResponse.hpp`, `backends` | | not modelled, see below |

## How the modules correspond to the code

What one mutex or one atomic operation makes indivisible is one action; every
other access to shared state is an action of its own. Variables marked
*history* record what has happened and influence nothing.

**CircuitBreaker.** Each method holds `mu_` throughout, so each is an operator
on the breaker record (`AfterAllow`, `AfterSuccess`, `AfterFailure`) and an
action of a caller. Callers do what `forwardWithResilience` does: one report
per admitted call. The clock is the Boolean `now - openedAt_ >= resetTimeout_`.
**BreakerTiming** adds `openedAt_`, the clock and the duration of calls, and
implements CircuitBreaker (property `Spec`), with TimedSpec's extra variables
dropped by the refinement mapping.

**RateLimiter.** `allow()` reads the clock before it locks: `ReadClock` and
`Allow` are two actions and readings can arrive out of order. Tokens are
integers in a unit that makes every quantity whole; rounding is not modelled.
The history variable `credit` is the balance under a monotone clock.

**PickLoop, LoadBalancer.** Each iteration of either pick loop makes two atomic
accesses, each a step. PickLoop has the loop bodies as functions of the locals,
which LoadBalancer and Forwarding share. `rrCounter_` is kept modulo the number
of backends. Relaxed atomics are interleaved; each location is modelled with a
single order of its writes, and reorderings between locations are left out.

**ConnectionPool.** A socket is its descriptor number, which is free for reuse
as soon as it is closed. Dialling happens between two steps, without the mutex.

**Forwarding** composes them: a worker's program counter walks through
`forwardWithResilience`, using the operators of PickLoop, CircuitBreaker (one
instance per backend) and ConnectionPool, while `SetHealth`, `PeerCloses`,
`ResetTimeoutElapses`, `Stop` and `CloseAll` happen around it. `sendAndReceive`
has its outcomes: a response, reusable or not, retryable or not, or a failure
after which an answer may still arrive. A backend is taken to send what its
Content-Length announces. **FailFast** adds history to ask when a request is
refused without having been tried.

**Lifecycle.** `run()` and `stop()` step by step, with `HealthChecker::stop`
inside both, the health thread's rounds and its `wait_for`, and `stop()` on a
thread of its own or in a signal handler on top of any thread of the gateway. Of
what workers, metrics server and probes do there is when they look at `running_`
and when they hold the Logger's mutex, which all threads share. A second or self
`join()` throws, as the standard library does in practice. The history variable
`interrupted` says that the handler came in the middle of a log line.

**WorkerLoop.** Every worker's epoll set, callback table and connection table
over the descriptors of the process, which are reused as soon as they are closed.
The events of one `epoll_wait` are dispatched one at a time, in any order, after
which idle connections are swept. What a connection does with its event is left
open here (it closes or not).

**HttpParser, ClientConnection.** The parser is an operator on its state, kept
across fragments and errors as the code keeps it; the buffer holds lines and body
bytes, each reduced to what the parser tells apart. ClientConnection has one
connection, its client and the kernel's buffers, and calls the parser as
`onReadable` does.

**Config, Router, Pipeline.** `loadFromFile` applies one operator per line to
the reader's locals; a line is its indentation, list marker, key and value.
The router is built from the result; routes of one length come in any order, as
after `std::sort`. Pipeline loads one of the files and then takes requests of
several workers through `handleRequest`, one step per access to shared state, with
`allow()` and `forwardWithResilience` reduced to their results. The history
variable `meant` is what the author of the file had in mind; `MCPipeline` writes
each configuration down in a number of layouts (indentation, order of keys and
sections, and the key that each kind of list item begins with). A backend's status
is whatever `atoi` makes of its status line, so that it may belong to no class;
recording the latency and counting the response are two steps. The history variable
`sent` counts the answers that were queued, by kind.

**LRUCache** has `list_` and `index_` and one operator per method, each of which
holds the mutex throughout. **AbstractCache** is a map with a recency relation; the
refinement mapping is in LRUCache.

## Runs

Passing runs and what they show:

| Run | Instance | Shows |
|---|---|---|
| `breaker` | 3 callers, threshold 2, 2 trials, reset 3, call 2, time 10 | The timed breaker refines CircuitBreaker; `TrialAccounting`, `OpenAdmitsNothing`: slots are neither lost nor invented; `NeverSkipsHalfOpen`; `TrialLimit` and `ClosedByTrial` when the reset timeout exceeds a call; `OpenExtensionBounded`; `Recovers` (liveness). |
| `rate_limiter` | 2 threads, 2 keys, capacity 5, cost 2, time 4 | `TokensConserved`, `RateBound`, `NoEarlyRefusal` with readings out of order. |
| `load_balancer` | 2 threads, 3 backends, both strategies | An undisturbed pick is the reference choice; a pick with the counter to itself finds a healthy backend. |
| `connection_pool` | 3 threads, 2 backends, 5 descriptors, 2 idle | `ExactlyOneOwner`, `ConnectedToItsBackend`, `BoundedAndDrained`. |
| `forwarding` | 2 workers on 1 backend, and 1 worker on 2 under both strategies; 1 descriptor, 1 retry | Refines the pool and each backend's breaker; `BooksBalance`, `NoStaleAnswer`; `HalfOpenResolves`, `EveryRequestAnswered` (liveness). |
| `lifecycle` | 2 workers, 1 backend, `stop()` on a thread of its own or on any other | `ReturnsQuiescent`; `StopEndsRun` (liveness), unless the handler interrupts a log line or `stop()` and `run()` collide in `join()`; `HandlerJoinsOnce`. |
| `client_connection` | 3 requests of 7 kinds, read size 3, send buffer 1 | `OneResponseEachInOrder`, `ResponsesAreDelivered`, `EndingRequestCloses`, `SilentClientIsReaped`. |
| `pipeline` | 2 workers, 2 configurations in 16 layouts with 18 choices of first keys, and broken files, up to 3 requests, cache of 2, TTL 1 | `LoadedAsWritten`, but for lost first keys; `ServedAsConfigured`: every answer, cached or not, comes from the group configured for its path; `HitIsFresh`; `CountersAgree`; the cache refines AbstractCache. |
| `worker_loop` | 2 workers, 3 clients, 2 descriptors | `EventsReachTheirConnection`, `TablesAgree`, `WaitersAreAccepted`. |

Runs whose property the code does not have:

* `shared_counter`: `EmptyMeansUnhealthy`. The turns of a round-robin pick come
  from a counter other picks advance, so `return nullptr; // all unhealthy`
  (`LoadBalancer.hpp:57`) can be reached with a healthy backend.
* `open_sibling`: `SiblingServes`. With least connections an Open backend that
  passes its health checks has the least load and is picked on every attempt,
  against README lines 248-250 of the repository. The run has one worker and that
  strategy. Round robin does not have the property either: the turn after an Open
  backend's may be taken by another worker, and with more backends than attempts
  a request may meet Open ones only.
* `double_join`: `JoinsOnce`. `run()` and a concurrent `stop()` can both join
  the health-check thread (`HealthChecker.cpp:22`), when `stop()` is called from
  a thread of its own.

**Bounds.** Two actors produce every pairwise interleaving; the breaker and the
pool get a third so that a trial, a late call and a rejection (or a holder, a
full deque and a waiting dial) coexist. Thresholds and retries are the smallest
that tell "one more" from "the last". The clock bounds leave room for a full
open, half-open and reopen cycle, and for a reading more than one request's
refill old. Three requests are what it takes to have one blocked, one ending
the connection and one after it; the kinds of request include one with the
largest body and header count that are accepted, a repeated length, and a line
that is too long. `forwarding` has one descriptor: two workers compete for it, and
the other must fail to dial. Two workers over two backends are covered by the
proofs and by no run. In `pipeline` three cacheable keys compete for two places;
a file has two groups and up to four routes, two of one length, which is what it
takes for a key to stray into a neighbour. Files with unusual first keys are
followed for one request and the others for two, or three where the third is for the
remaining cacheable key. In `worker_loop` there are fewer descriptors than clients,
so that they run out and are reused; a batch holds everything that is ready, as
`epoll_wait` does up to its 256 events. Symmetry is used only in runs without
liveness properties.

**Fairness.** Threads are scheduled and time passes. An admitted call reports:
connecting, receiving and each wait for room to send have timeouts. (The send
timeout is per wait, so `CallTimeout` is a bound only when a request goes out in
a bounded number of waits; name resolution in `dialNew` has no timeout of its own
and is taken to return.) A thread with a request makes progress; epoll is
level-triggered, so a ready event is delivered; the sweep follows every poll;
every worker has a thread of its own. A thread that waits for the Logger's mutex
gets it if it is free again and again (strong fairness on taking it: under weak
fairness alone busy workers could keep the health checker out for ever; C++ does
not promise this of `std::mutex`, schedulers do in practice). A client that has not fallen silent reads. Nobody is obliged to send requests or
to call `stop()`; `Recovers` has steady requests as a hypothesis.

**Mutants.** Every checked property has a mutant: a plausible slip in a mapped
definition (`Mut...`, next to the original) under which TLC finds it violated.

## Proofs

TLAPS checks eight modules; constants are arbitrary subject to the named `ASSUME`s.

* **CircuitBreakerProofs.** Inductive invariant `BreakerInv`: `TypeOK`,
  `TrialAccounting` and `OpenAdmitsNothing` together. The count of current
  trials is only preserved because slots are 0 outside HalfOpen and a change of
  state makes every outstanding call late. `TimedImplementsUntimed` needs only that
  `resetElapsed` is the comparison of the clock readings. `TimingInv` relates
  start times to `openedAt` and `trippedAt`; with ResetTimeout > CallTimeout it
  excludes late calls in HalfOpen, from which `TrialLimit` and `ClosedByTrial`
  follow. Neither holds without that hypothesis, which `Config.cpp` does not
  enforce; the default values (10 s against 1 s + 3 s + 3 s) satisfy it.
* **RateLimiterProofs.** `LimiterInv` adds to `TokensConserved` that a window's
  grants and the present credit together stay within the window's allowance.
* **ConnectionPoolProofs.** `PoolInv` conjoins types, ownership, peers and
  bounds; ownership is split into five facts, each shown for each operation.
* **ForwardingSteps, ForwardingProofs.** For any number of workers, backends,
  descriptors and retries: `BooksBalance`, `NoStaleAnswer`, and that the
  composition implements ConnectionPool and each backend's CircuitBreaker, so that
  what is proved of those holds in the gateway. `ForwardInv` says, for each place in
  `forwardWithResilience`, what the worker there has counted (`Counts`), holds
  (`Hands`), must report (`Reports`) and knows (`Located`), and that a socket owed an
  answer is in the hands of a worker about to close it (`OwedIsHeld`). The pool's
  own `PoolInv` is needed beside it: only one owner per descriptor makes "held by
  that worker" mean "used by no other". ForwardingSteps shows what each step of a
  worker keeps; ForwardingProofs adds what a step is to each breaker and to the pool,
  the counting of workers in flight, and the theorems.
* **LifecycleProofs.** For any number of workers and backends: `ReturnsQuiescent` and
  `HandlerJoinsOnce`. `LifecycleInv` ties the thread handle to where its joiners are,
  and has that a handler on top of `run()` finishes before `run()` goes on, and one on
  top of a worker or the metrics thread before that thread can be joined. There must
  be a worker at all, which validation ensures (`workers` > 0).
* **LRUCacheProofs.** For every capacity and TTL: `CacheConsistent` (list and index
  agree and stay within the capacity) and the refinement of AbstractCache.
  Positions in the list are the recency relation; the lemmas `EraseView`, `PushView`
  and `ToFrontView` say what an operation on the list does to that relation.
* **WorkerLoopProofs.** For any workers, clients and descriptors:
  `EventsReachTheirConnection` and `TablesAgree`. The tables' agreement is what
  excludes that a descriptor closed by one worker and given to another is still
  named by an event: a worker's pending events are for descriptors in its own tables.

Only model-checked: all liveness (fairness and ENABLED are outside the prover),
the balancer's picks, the client connection and parser,
and, apart from the cache, the pipeline. Configuration, router and parser are folds
and searches over sequences, whose proofs need induction over data.

## Known limits of the code, seen while modelling

* `acquire()` may return a socket its backend has closed; the attempt fails and
  counts against the breaker (`ConnectionPool.hpp:26` says "connected").
* The notification in `HealthChecker::stop` can fall between predicate and wait;
  shutdown then takes up to one interval.
* A request after one that ends the connection, read while the write is blocked,
  sets `closeAfterWrite` afresh; `EndingRequestCloses` speaks of the last response.
* A clock reading older than the bucket's can be refused early.
* A connection with unwritten data is never swept.
* A signal handler that interrupts a thread in the middle of a log line holds up
  whoever waits for the Logger's mutex. If that is the health checker, which `stop()`
  joins, shutdown hangs; `StopEndsRun` leaves this case out and fails without the
  exception. A handler that runs on the health-check thread joins itself and throws.
* The first key of a list item is lost unless it is `name`, `host` or `path_prefix`
  (`Config.cpp:144`, 149, 168): an item that begins with `- strategy:` is
  `round_robin`, one that begins with `- cacheable:` is not cacheable, and the file is
  refused if what is lost has no valid default.
* A route prefix `/a/` matches itself and `/a//b` but not `/a/b`
  (`Router.hpp:31-35`); no configuration of the run has one that ends in a slash.
* An answer whose status is outside 100..599 is counted and timed but is in no class.
* A negative `max_retries` is accepted and every request then ends in 503 without a
  pick; the proofs cover it, the run has one retry.
* The size limit of a line is only enforced while the line is incomplete
  (`HttpParser.cpp:23`): a longer one that arrives at once is accepted.
* onReadable's 400 for a malformed request is counted neither as a request nor as an
  error; `CountersAgree` speaks of the requests that reach `handleRequest`.
* `LatencyHistogram::percentile` rounds its target down (`Metrics.hpp:38`), so with few
  requests a percentile can be that of one request fewer, or the first bucket.
* A response that took long can replace a newer one in the cache and then lives for
  a full TTL, so a hit may be as old as the TTL and one call (`HitIsFresh`).

## Not modelled

* The latency histogram and its percentiles: sums over a handful of buckets, written
  once per request with relaxed atomics and read without a snapshot, so that no exact
  statement about a reading holds. That every request is recorded once is checked.
* `RetryPolicy::nextDelay`: a length of sleep that no step depends on.
* `tokenize` and `splitKv`: the model's lines are their results. Refill rates are
  integers.
* Exceptions from `epoll_ctl`, `std::thread` and allocation.
* The parser's refusal of one header too many: the limit is modelled and the last
  accepted header is exercised; the refusal takes the branch of the other refusals.
* Rounding of tokens; reorderings of relaxed atomics between locations.
* The I/O of the health checker's probe and of the metrics server, the text of
  `/metrics`, socket options, response formatting, request ids and the text of log
  lines: output that nothing reads back.
* Errors of `accept` other than running out of descriptors; closing a connection is
  one step, since only its own worker touches its tables.
* `backends/backend_server.cpp`, a sample server for trying the gateway out; Forwarding
  has what a backend may do.
