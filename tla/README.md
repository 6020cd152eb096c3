# A verification development for the Open API Gateway

The repository is an API gateway in Python (FastAPI, asyncio): gateway workers
forward HTTP, WebSocket and gRPC requests through a chain of plugins, an Admin
API changes their routes, and Redis is what they share.  This directory holds
TLA+ models of the parts whose correctness depends on the order in which
things happen, the TLC runs that check them on small instances, and proofs,
checked by TLAPS, that hold for every instance.

## 1. The system

| component | state | operations | interacts with |
|---|---|---|---|
| circuit breaker (`gateway/plugins/circuitbreaker`) | `cb:open`, `cb:fails`, `cb:half_open` in Redis, per route | one request: check, probe lock, call, reset or record | every worker of every pod, through Redis; wraps the upstream call |
| rate limiter (`gateway/plugins/ratelimit`) | a bucket per key in Redis; the script SHA per process | one EVALSHA per request | Redis; the pods' clocks |
| config loader (`gateway/config/loader.py`) | `routes.yaml`, the hash `oag:config:routes`, `_routes` per process | load, reload, create, update, delete, save_to_redis | Admin API, gateway startup, watcher, listener |
| Admin API (`admin/app.py`) | key list, write limiter, history, audit log | route writes, rollback, reload, keys | loader, Redis Pub/Sub |
| gateway reload (`gateway/app.py`, `watcher.py`) | mtimes, listener task, routing table | startup, poll, reload event, `/_reload`, shutdown | loader, routing engine |
| routing engine (`core/router.py`) | route list, round-robin counters | match, resolve_upstream, update_routes | all protocol handlers |
| pipeline (`core/pipeline.py`) | plugin instances by config hash | build the chain, execute | plugins, handlers |
| HTTP proxy (`core/proxy.py`) | client pool | send with retries | upstreams |
| WebSocket proxy (`listeners/websocket_listener.py`) | two pumps per session | connect, accept, pump, close | client, upstream |
| gRPC proxy (`adapters/grpc_proxy.py`) | channel per target | preflight, four call shapes | pipeline, upstreams |
| admin keys (`admin/security.py`) | key list in memory and file | create, deactivate, authenticate | Admin API |
| route history (`admin/history.py`) | entries in memory and file | append, list, find | Admin API rollback |

Concurrency has three sources.  Inside a worker, coroutines interleave at
every `await` and nowhere else.  Workers and pods run in parallel and share
Redis and `routes.yaml` (docker-compose: four gateway and two admin workers;
Kubernetes: one admin pod, two to ten gateway pods).  And time passes:
keys expire, files are polled, calls time out.  What can fail is a Redis
command (before or after Redis executed it), a worker, a cancelled request, a
lost Pub/Sub event, a file read while it is written.

What makes each part correct:

* breaker: at most one probe; the counter belongs to its window and stays
  bounded; OPEN ends; a recovered upstream is served again.  Its docstring
  promises the three-state machine.
* limiter: in any interval at most capacity plus refill is admitted; a client
  that keeps sending keeps being served; it limits again after a fault.
* configuration: a write changes only the routes it names; file and hash agree
  when nobody writes; every gateway ends with the table the administrators left;
  a reload never drops a route in service.
* request path: nothing is sent before the route's plugins agree; an upstream
  gets a request at most as often as the route's retries allow; the client hears
  of the last attempt; a reload never mixes two configurations.
* WebSocket session: messages arrive in order, once; no socket is left open.
* worker: nothing is used before it is opened or after it is closed, whatever is
  in flight at shutdown; a worker that is told to stop stops.
* admin keys: a deactivated key stays out; a write window is never exceeded;
  there is always a key to write with.
* history: ids stay unique; the last change can be undone; entries are true.

`hazards` in `PROJECT.json` lists, line by line, where each of these can go wrong.

## 2. The modules

| module | models | checked by |
|---|---|---|
| `CircuitBreaker` | the plugin, one route, one action per Redis command | `MCCircuitBreaker`, `Breaker*.cfg` |
| `CircuitBreakerProofs` | theorems about it | |
| `TokenBucket` | what a limiter promises: one ideal bucket | refined by `RateLimiter` |
| `RateLimiter` | the plugin and its Lua script, one key | `MCRateLimiter`, `Rate*.cfg` |
| `RateLimiterProofs` | theorems about it | |
| `RouteTable` | what the Admin API promises of the table | refined by `ConfigSync`, and in the proofs by `RouteHistory` |
| `ConfigSync` | admin workers, gateway workers, file, hash, events | `MCConfigSync`, `Config*.cfg` |
| `ConfigSyncProofs` | theorems about it | |
| `RequestPath` | routing, plugin chain, HTTP proxy, gRPC calls, reload of both files | `MCRequestPath`, `RequestPath.cfg`, `GrpcBreaker.cfg` |
| `RequestPathProofs` | theorems about it | |
| `Relay` | what a WebSocket proxy promises | refined by `WebSocketProxy` |
| `WebSocketProxy` | one session: handler, two pumps, two ends | `WebSocket.cfg` |
| `WebSocketProxyProofs` | theorems about it | |
| `GatewayLifecycle` | startup, traffic and shutdown of one worker | `Lifecycle.cfg` |
| `GatewayLifecycleProofs` | theorems about it | |
| `AdminKeys` | key lists and write windows of several admin workers | `MCAdminKeys`, `AdminKeys.cfg` |
| `AdminKeysProofs` | theorems about it | |
| `RouteHistory` | writes of one admin worker, their history, rollback | `MCRouteHistory`, `RouteHistory.cfg` |
| `RouteHistoryProofs` | theorems about it | |

An operator named `X_Y` beside an `X` (`Persist_OnlyCreated`) is `X` with a
plausible mistake: `mutants` in `PROJECT.json` says which property finds it out.

### CircuitBreaker

`open`, `failsTtl` and `halfOpen` are the remaining times to live of the three
keys, `fails` is the value of the counter.  `pc[r]` names the Redis command
request `r` issues next, `probing[r]` is `is_probing`, and `caught[r]` says that
`r` runs the `except` clause of `__call__`, where a second exception ends it.
`Execute(c)` is what Redis does for command `c`; `RedisError` lets any command
fail before or after that, and `Crash` drops a request between two commands,
which is also what a cancellation does (`CancelledError` is no `Exception`).
Answers of 503 to a request that finds the circuit OPEN change nothing and are
not steps.  `MaxProbe` bounds how long a probe takes.  It stands for
the upstream's timeout and retries; the code gives the lock ten seconds whatever
that time is, so the runs take both orders of `MaxProbe` and `LockTtl`.

### RateLimiter and TokenBucket

Tokens are counted in units of 1/Window, which makes the rate an integer; the
floating-point rounding of the Lua script is therefore not modelled.  Times
are relative to Redis' clock: `age` is the time since `last_refill`, and
`Lag(r)` is how far behind a request's stamp is when the script runs, from the
delay since `time.time()` and the skew of its worker's clock.  `watched` and
`granted` observe an interval that may begin at any moment (`Observe`), so a
bound on them bounds every interval shorter than `MaxWatch`.

`TokenBucket` is the promise: a level that time fills and that only an admitted
request lowers.  `Ideal` instantiates it with `Refilled(0)`, what the script would find
in the bucket now, so a key that has expired is a full bucket, and
the fields a refused request writes do not move the level.

### ConfigSync and RouteTable

A write handler runs without suspension up to its first Redis command; the one
thing other processes see of that stretch is the file, so it is two steps, `Open`
(validated, the file is truncated) and `Write` (the file, memory and table
follow).  `Execute` is the transaction of `save_to_redis`, `Publish` the
event.  `torn` says that the file's text is cut short, or mixed up because two
workers wrote at once: a reader gets `file`, or an exception.
`seen[g]` says that the watcher of `g` recorded the current mtime.  A table maps ids to
contents; content `n + 1` is what the `n`-th request gave a route.  The order
of routes, `gateway.yaml`, the history and the audit log are left out, mtimes
of different writes are taken to differ, and the file is taken to be writable
(where it is mounted read-only a write answers 500 and changes nothing).

`RouteTable` is the promise: one table, one request at a time.
`ImplementsRouteTable` instantiates it with the last table the file held
complete.  `Settled` ties a gateway to the file: what its watcher has recorded as
read is what its engine routes by.

### RequestPath

`req[r]` is what the handler of request `r` knows: the route object it was matched
with, the plugins still to run (`todo`) and those that let it through, the
target, the attempt, `last_exc`, what the plugins and the client were told.  An
HTTP request is matched and given its target in one step, because
`http_gateway` awaits nothing before the pipeline; a gRPC call is matched
(`ArriveGrpc`), builds its chain later (`Preflight`) and is given its target after it
(`Resolve`), and reloads come in between.  A step of a chain carries its part,
place and plugin; `Before` is the pipeline's stable sort by `order`.  `Attempt` is one
pass of the loop of `_send_with_retry`.  `Reload` fails half way when only
`routes.yaml` loads.  Which requests a route's pattern, host, method and headers
accept is the set `accepts`; a response body, a header or a pause is nothing.
`least_connections` is round robin in the code (`router.py:155`) and in the model.

### WebSocketProxy and Relay

`stage` is how far `websocket_gateway` and `proxy()` have come, `pump[d]` what the
coroutine of direction `d` waits for.  `sent`, `taken` and `delivered` are all
messages of a direction, how many the pump received, and those it passed on.  An
end may leave at any time; a pump that finds its own side closed returns
(`Hangup`), one that holds a message for a closed side fails (`ForwardFails`), and
`gather` waits for both.  `Relay` is the promise, `Relaying` its instance with `phase`
for the handler's stage.

### GatewayLifecycle

`at` is the next step of `_lifespan`, `up` the state of Redis, routes, HTTP client,
gRPC server, watcher and listener.  HTTP requests and sessions run between startup
and shutdown only, gRPC calls from `StartGrpc` until `StopGrpc`; `channels` is the
gRPC proxy's pool.  `server.stop` waits for calls until its grace ends (`GraceEnds`),
and the pool is closed after it.  A Redis that does not answer at startup and a
listener that died or cannot unsubscribe raise through `_lifespan` (`aborted`).

### AdminKeys

Every worker has its own list `mem[w]`, all persist the whole list to `file`.  A
request is one step, because no handler awaits between authentication and
answer, but a rotation, which persists twice (`Rotate`, `FinishRotation`).  `behind`
are the running workers that another one's write went past; `revoked` are the keys
reported deactivated as long as no worker that was behind has written.  `slots` is
the limiter, `grants` observes it.  A crash may cut the file short (`CrashWriting`).

### RouteHistory

The loader's table is a sequence here: order decides which route wins.  A
handler changes file and memory (`Change`), appends the entry (`Logged`), then
awaits Redis; nothing of the process comes between the first two, but a crash
does.  `Undone(e)` is every branch of `rollback_route`.  `previous` and `intact` are
observers: the routes before the last change, and whether no crash has cut a
change from its entry or its hash.

## 3. The runs

Runs named "passes" find no error; each of the others finds the
counterexample to one sentence of the code, quoted in `findings`.

| run | | states | shows |
|---|---|---|---|
| `BreakerSafety` | passes | 243,848 | one probe at a time while probes end before their lock, and at most one more per failed command; every counter gets a time to live unless a request was lost; the counter is bounded by threshold, requests in flight and errors |
| `BreakerRecovery` | passes | 94,268 | OPEN ends; the circuit closes for good once the upstream is well for good, after a crash, a Redis error and two probes at once |
| `RateBound` | passes | 603,450 | the script implements the ideal bucket, and its bound holds in every interval, when clocks agree; refused requests never starve the refill |
| `RateNoScript` | violation | | after Redis lost its scripts the limiter never limits again |
| `ConfigOneWorker` | passes | 444,740 | with one admin worker the file implements `RouteTable`, no update is lost |
| `ConfigConverge` | passes | 179,952 | a gateway with nothing to catch up with serves the file; gateways converge to it, with two admin workers, a crash and an error |
| `RequestPath` | passes | 393,112 | who may reach an upstream how often and through which plugins, what the client hears, how turns are shared, what a reload does to requests in flight; every request is answered |
| `GrpcBreaker` | violation | | a gRPC call fails upstream after its plugins were told 204 |
| `WebSocket` | passes | 8,020 | a session implements `Relay`, leaves no socket open, delivers what was sent, and ends when both ends want it |
| `Lifecycle` | passes | 6,276 | nothing in flight loses what it uses; an undisturbed shutdown leaves nothing open; a worker that is told to stop stops |
| `AdminKeys` | passes | 749,761 | a deactivated key stays out, the write window holds, no rotation locks the administrators out |
| `RouteHistory` | passes | 1,567,058 | ids stay unique, the last change can be undone, the history tells the truth, what is listed survives a restart |

### Bounds

* Breaker and limiter, requests: three (two where liveness makes the space
  large).  The races found need two; a third one may interfere with a pair.
* Thresholds of 1 and 2: the first failure sets the time to live, a later one
  trips (`BreakerSafety`); with 1 the same failure does both, which is a path of
  its own (`BreakerRecovery`).
* Times to live of one to three ticks, in the orders that matter: a lock that
  outlives its probe (`BreakerSafety`) and one that does not (`BreakerRecovery`), a
  window longer than recovery.
* Faults: one or two.  `RedisError` may strike at every command.
* `MaxWatch` of the limiter covers two windows, the interval in which a burst
  and its refill fall together.
* Config: one or two ids, one or two admin workers, two handlers, one gateway,
  two or three requests.  Gateways do not affect one another.
  `QuietStart` makes administrators wait until every gateway is up: section 5 says
  what happens otherwise.
* `RequestPath`: one HTTP request and two gRPC calls (two calls matched with
  different versions of one route), three route tables and a broken one, two
  plugin lists, retry counts of -1, 0 and 1, a status that is tried again and one
  that is not, two edits (a table may come and go, or both files change).
* `WebSocket`: two messages each way, so that one can overtake or double another.
* `Lifecycle`: a request, a session, two calls on two targets, one failed command.
* `AdminKeys`: two workers (what docker-compose runs), the bootstrap key and one
  more, keys with and without a lifetime, two writes in a window of two ticks,
  three key changes.  A third worker could only be behind as the second one is.
* `RouteHistory`: two ids, two contents, three changes (a change, its rollback and
  the rollback of that), retention 0 to 2, list limits from -1 to 3, two hash
  writes under way.
* `CHECK_DEADLOCK FALSE` stands where the bound on requests, edits or changes, or
  the end of a worker or session, lets the system come to rest.

### Fairness

* A request or handler in flight goes on: the event loop runs every ready
  coroutine, sockets and upstream calls have timeouts.  In `RequestPath` one weak
  fairness condition covers all requests, `Handle`; in `WebSocketProxy` there is one
  for the handler and one for each pump; in `GatewayLifecycle` one for the worker's
  own steps and one for the end of each HTTP request.
* Nothing makes the ends of a WebSocket session speak or leave, and `Stops` excepts
  the worker that waits for one.
* Time passes.
* For the breaker and the limiter, requests keep arriving: both recover only
  by being used.  Nothing is assumed of the upstream, of faults, or of
  administrators.
* The watcher polls every five seconds for as long as the process lives, and
  catches what its callback raises.

## 4. The proofs

Assumptions on constants are the named `ASSUME`s of the modules.  Anything
more is a hypothesis of the theorem.  Every invariant, action property and refinement
that a passing run checks is proved for all values of the constants; liveness is
not.

* Types: one theorem per module (`TypeCorrect`, `LimiterTypeCorrect`,
  `SyncTypeCorrect`, `PathTypeCorrect`, `SessionTypeCorrect`, `LifecycleTypeCorrect`,
  `KeysTypeCorrect`, `HistoryTypeCorrect`).
* `ProbesExclude`: `ProbeMutex`, if `MaxProbe < LockTtl`.  At first a probe holds
  the lock, and its age and the lock's remaining time add up to `LockTtl` (`Held`),
  so the lock cannot expire under it.  A command that fails may part a
  probe from its lock: a DEL that Redis executed but did not answer runs the
  failure path, whose DEL may release a later probe's lock.  The inductive
  invariant (`ProbeBound`) is that no more requests probe than commands have failed, plus
  the one that holds the lock.
* `CountersExpire`: `CounterExpires`, with no hypothesis: until a request is lost
  or a command fails, the counter has no time to live exactly while one request
  stands before its EXPIRE.
* `CountsBounded`: `CountBounded`, with no hypothesis.  `fails` counts requests
  that passed the threshold test; the invariant adds to `fails` the requests
  that may still add to it, each once, plus one for every error left.
* `AdmissionsBounded`: `AdmissionBound`, if clocks agree and stamps are not
  delayed.  The potential is what the bucket would hold now if refilled: time
  raises it by at most `Limit` a tick, a grant lowers it by `Window`, and the key
  expires only when the potential is the whole capacity anyway.
* `BucketImplemented`: `ImplementsBucket`, under the same hypothesis.  The potential is
  the ideal bucket's level; a script that admits is `Admit`, one that refuses
  leaves the level alone (`ScriptPotential`), a tick is `Elapse` whether the key
  expires in it or not.
* `NoUpdateLost` and `Refinement`: with one admin worker that never dies,
  `NoLostUpdate` and `ImplementsRouteTable`.  The invariant says that at most one
  handler is between truncating and writing, that memory is the file's table,
  and that the table being written is a legal change of it.
* `GatewaysSettled`: `Settled`, for any number of admin workers and overlapping writes.
  Until every gateway is up nothing has been written (`StartInv`); from then on
  a gateway that records an mtime has just read the file, and a write makes every
  record stale.
* `StartsAgreed`: with one admin request at a time, no failed command and no admin
  restart, file and hash agree whenever no request is in flight, whichever
  worker wrote last.  How far the request has got says which of the two is written
  (`OrderInv`).  With two requests at once the hash may keep the older table
  (section 5).
* `SendsBounded`, `LastAttemptDecides`, `SendsAreChecked`: one invariant about what
  each request knows (`RequestOK`).  A request that is being sent has used as
  many attempts as it has sent and has one left; the plugins of its route that
  did not let it through are still to run.  The route is the one it was matched
  with, so no reload disturbs it.  `ReloadsApplyTogether` needs no invariant.
* `TargetsBalanced`: `Balanced`, for tables without two routes of one id.  The
  invariant counts the turns of each target: targets that come sooner have had
  no more turns than those that come later, and at most one less; a turn was a
  pick by the current version of the route or one of the `stale` turns.
* `SessionsDoNotLeak` and `SessionRelays`: the invariant says which sockets may be
  open at each stage, and that a pump has passed on what it received but for the
  message it holds.
* `LifecycleUsable` and `LifecycleReleases`: which parts are open before each step
  of `_lifespan`, which are closed, and which clients may then be in flight.
* `RevokedStaysOut`: a revoked key is inactive in the file and in the list of every
  worker that is not behind.  `WindowsBounded`: the slots of a window are the
  last grants, and those that were dropped are a window old.
  `DeactivationIsFinal`: a single worker (Kubernetes runs one) is never behind, so no
  write ends a revocation; with two workers that is false (section 5).
  `RotationsKeepWriters`: a worker between the two writes of a rotation to a write
  key has the new key in its list.
* `IdsStayUnique`, `ListedEntriesSurvive`: tables hold distinct ids, and the history
  file is a suffix of the history, cut in the same place however often it is
  cut again.
* `LastChangeUndone`: `UndoLast`.  Every operation of the loader has the effect its
  entry tells (`Effect`): what was before is gone, what is after is there, and
  nothing else has the id of either.  Undoing the last entry therefore restores
  the routes, whether it was a creation, a deletion, an update, a rename or a
  rollback.  `HistoryIsTrue`: `HistoryTells`, because one more entry keeps the last
  word on every id (`AppendedTells`), and a shorter history still has it
  (`KeptTells`).
* `RollbacksAreWrites` and `FileImplemented`: the two other refinements of `RouteTable`.
  While a worker runs, every change of its table, a rollback included, is one Create,
  Update or Delete (`EffectPromised` turns the effect of a change into such a
  step).  And the file implements `RouteTable` as long as no crash loses a
  change: a restart then loads what was there.  The runs do not state these two,
  nor `StartsAgreed` and `DeactivationIsFinal`.

## 5. What is only model-checked, and where the hypotheses end

Liveness (`OpenEnds`, `Recovers`, `GrantsRecur`, `Converges`, `Answered`, `Delivers`,
`Ending`, `Stops`) is out of the prover's reach.

Some properties hold only under a condition the code does not guarantee.  The
condition is written into the property, the theorem's hypotheses or the run's
constants, and the models show what happens beyond it.

Breaker and limiter:

* `ProbeMutex` with `MaxProbe >= LockTtl`: `breaker_plugin.py:78` gives the lock
  ten seconds while an upstream call may take `upstream.timeout` (30 s by default)
  per attempt; a second request takes the expired lock while the first one still
  probes, and the first one's DEL then releases the second one's lock.
* `CounterExpires` after a lost request: between INCR and EXPIRE
  (`breaker_plugin.py:137`, `:140`) a cancelled request leaves `cb:fails` without a
  time to live, and failures add up over all time.
* OPEN becomes CLOSED without HALF_OPEN when `cb:fails` expires before `cb:open`.
* `cb:open` is read at `breaker_plugin.py:54` and `cb:fails` at `:71`: a request
  between the two reads may take the probe lock of a circuit that has just
  opened; and a request may trip the circuit (`:142`) on a count that expired or
  was reset since its INCR.
* A success of an ordinary request leaves the count as it is
  (`breaker_plugin.py:103`), where `docs/api_spec.md:103` speaks of consecutive
  failures.
* `AdmissionBound` and `ImplementsBucket` with clocks that differ, or with EVALSHA commands that arrive
  in another order than their stamps: `last_refill` moves back and the same
  interval is refilled again.  And the bound itself, capacity plus refill, is
  nearly twice `limit` in a window, where `ratelimit_plugin.py:8` says "max requests
  per window".  A limiter with `window: 0` cannot be configured, and the pipeline
  then serves the route without it (`pipeline.py:60`).

Configuration (give `ConfigOneWorker` or `ConfigConverge` the constants named here to
see the counterexample):

* Two admin workers lose updates: `Admin = {a1, a2}` violates `NoLostUpdate`.
* Pipelines of two handlers execute in either order, so the hash may keep the
  older table; a process that starts then loads it.
* The file is truncated and rewritten in place: a reload in between sees a table
  without routes, or an error, until the next poll.
* A change between a gateway's load and the start of its watcher is never seen:
  `QuietStart = FALSE` violates `Converges`.  `Settled` is about gateways that start
  while nobody writes, and do not restart later.
* `POST /api/v1/reload` (`admin/app.py:597`) saves the worker's file over the hash,
  where `docs/api_spec.md:33` speaks of the central store's settings.

Requests:

* A negative `retry.count` makes no attempt and answers 500 (`Exhausted`).
* `least_connections` is round robin.
* A gRPC breaker hears 204 from the preflight whatever the call comes to
  (`GrpcBreaker`).

Sessions and shutdown:

* Close code 4502 never reaches the client: `proxy()` has closed it with 1011, and
  the handler's second close raises (`websocket_listener.py:66`).
* One silent end keeps a session, and with it a stopping worker, for ever.
* A listener task that died, or whose unsubscribe fails, raises out of the shutdown
  (`app.py:108`): gRPC server, HTTP client and Redis stay open.

Admin API:

* With two workers a key that one deactivated comes back when the other one, which
  has not seen it, writes its list; `Revoked` ends there.  The window of the write
  limiter is per worker and life.
* Once the last write key is deactivated or has expired nothing brings one back:
  bootstrap keys are made only when there is no key file.
* A key or history file that a crash cut short stops every later start.
* Rolling back a delete appends the route at the end of the table
  (`admin/app.py:545`): with first-match routing another route may win now, where
  `docs/operations_runbook.md:75` promises the state before.  `UndoLast` is about
  routes, not their order.  A rollback of a rename is logged under the id of the
  rolled-back entry.
* `UndoLast` and `HistoryTells` end at a crash between a change and its entry, and at
  a restart that loads a stale hash (`intact`).
* pydantic's `ValidationError` is a `ValueError`: the 422 branch of create and update
  is dead, and the client gets 409.

## 6. Plan

1. An abstract breaker of three states.  The code does not have it: `cb:fails` may
   expire first, and the circuit closes without a probe (section 5); so the abstract
   OPEN state may end in either of the others, and the model implements that.
2. Composition of `RequestPath` with `CircuitBreaker`: what a retried request
   counts for.
3. The order of routes in `ConfigSync`, and the hash's lack of one.
4. Larger instances: a third admin worker for keys, two gateways that restart.
5. The lessons of section 5 as changes to the code: a write through a temporary
   file and a rename, a version in the file, a save that takes the loader's lock.

## 7. What is not modelled

`PROJECT.json` lists every component.  Left out: the REST to gRPC adapter, which
nothing calls; the pure conversions of the protocol helpers; signature and hash
checks of the authentication plugins, and the JWKS cache, which is filled once
and never again; the audit log, which nothing reads; logging, metrics, tracing and
the admin console, on which no state depends; the order in which HGETALL returns
routes beyond "any order"; the built-in `hash()` that `ip_hash` uses, which
differs from process to process; and the growth of the plugin cache.

Out of reach of the proofs: liveness under fairness and what a recursive
definition computes; both stay with TLC.
