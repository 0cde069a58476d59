# TLA+ models of the DataKit dataway endpoint

This directory holds the TLA+ specifications of the code under `src/`, the TLC
configurations that check them, and `PROJECT.json`, which lists the
components, the runs, the mutants, the map from definitions to source lines,
the findings and the hazards.

Run one model with `tlc -workers 2 -config <run>.cfg <module>`; the module of
each run is in the table below.

## The system

`src/io/dataway/endpoint.go` is the endpoint of DataKit's dataway sender: the
object that owns the HTTP client for one gateway and through which every
write and every pull goes.

| part | code | what it does |
|---|---|---|
| construction | `newEndpoint`, `with*` options, `setupHTTP` | parses the base URL, applies the options in order, builds one URL per API, refuses schemes other than http and https, builds the retrying client |
| write path | `writePoints`, `writeBody`, `writePointData`, `doCache` | builds the bodies of a batch; for each body resolves the URL, posts it, classifies the answer, updates counters and the quota flag, and caches or drops the body |
| transport | `sendReq` | one request through the retrying client, counted per path and status; with `httpTrace` the callbacks of `httptrace` fill one `httpTraceStat`, logged after the call |
| quota flag | `metrics.BeyondUsage` | process-wide atomic integer: non-zero while the gateway says the quota is used up |
| pulls | `getLogFilter`, `datakitPull` | GET requests to two APIs of the gateway |
| test harness | `src/plugins/inputs/pythond/integrate_test.go` | an HTTP server whose handlers count and compare the requests of a container, and a `run` that waits for a signal or a ticker |

Many goroutines call `writePoints` on one endpoint. The endpoint's fields are
read-only after `newEndpoint`; what the goroutines share is the quota flag,
the counters, the dial-testing fail info and the disk cache. In the harness
the server goroutine, `run` and one goroutine per request share the package
variables `done`, `count` and `errorMsgs`.

Outside the repository, and modelled from the specification only: the retry
policy of the client (`newRetryCli`), the categories and `point.CatURL`,
`buildBody`, the disk queue behind `w.fc.Put`, `updateDTFailInfo`.

## Modules

| module | models | state | actions |
|---|---|---|---|
| `Categories` | category constants, `point.CatURL` | none | operators only |
| `EndpointBuild` | `newEndpoint` as a function of its arguments, `GetCategoryURL` | none | `Apply`, `Get`, `Encode`, `CategoryURL`, `Client`, `SetupHTTP`, `NewEndpoint`, `GetCategoryURL`, `ParseRequest` |
| `Endpoint` | an endpoint from construction on, and its pulls | `made` (what `newEndpoint` returned), `sent`, `open` (response bodies not closed), `ret` | `Construct`, `GetLogFilter`, `DatakitPullCall` |
| `WritePoints` | the write path under concurrent writers | per writer `pc`, `req`, `bodies`, `loc` (the locals of `writePointData`); shared `beyondUsage`, the counter bags, `dtFailInfo`, `diskCache`, `gateway` | `WritePoints`, `BeginBody`, `Attempt`, `Classify`, `ClearBeyondUsage`, `Return`, `HandleError` |
| `QuotaTracker` | what the quota hint promises | `exceeded`, `pending` | `Observe`, `Apply` |
| `PythondHarness` | `run`, the server goroutine, the handlers | `runPC`, `srv`, `done`, `waitOn`, `container`, `count`, `errorMsgs`, per handler `hpc`, `hreq`, `hval`, `hmsgs` | `Server*`, `RunStart`, `RunSetup`, `RunSelect`, `RunCheck`, `Tick`, `Signal`, `Arrive`, `Switch`, `AppendRead`, `AppendWrite`, `Load`, `Check` |
| `HTTPTrace` | one `sendReq` with its `httpTraceStat` | `pc`, `start`, `ts`, `attempts`, `ret`, `logged` of the call; `dial`, `idleConns` of the transport; `now`; the histories `real` and `used` | `SendReq`, `FirstByte`, `Return`, `PhaseStart`, `PhaseDone` from the code; `TakeIdle`, `StartDial`, `TakeDial`, `DialToPool`, `AttemptFails`, `Tick` of the transport and the clock |
| `MCWritePoints`, `MCEndpoint`, `MCPythondHarness`, `MCHTTPTrace` | the constants of the runs | | |

### How the write path is cut into actions

A call of `writePoints` is a sequence of steps of one goroutine. The model
cuts it where another goroutine can see or change shared state:

1. `WritePoints(w)`: `buildBody` fails (the call returns the error), returns
   no body (the call returns nil at once) or returns 1..`MaxBodies` bodies.
2. `BeginBody(w)`: `w.gzip = b.gzon`, the URL resolution of `writePointData`
   with its two early returns, and which deferred functions get registered.
3. `Attempt(w)`: `sendReq`. The environment picks the outcome of one attempt;
   a retryable one is repeated until `RetryMax` retries are used, then the
   client gives up. The api counter takes the path and the status, once per
   call of `sendReq` and not per attempt. A post the gateway stored is in
   `gateway`, whether or not its answer reaches the writer. An answer that is
   returned leaves
   a response body open (`loc.open`). An attempt
   the gateway does not answer ends by the client's timeout; through a client
   without one (`httpTimeout = 0`) the writer hangs (`pc = "hung"`).
4. `Classify(w)`: the read of the response body and the switch on the status
   class, with the atomic load (2xx; the value read is kept in `loc.loaded`)
   or the atomic add (403 with the marker) of the quota flag.
5. `ClearBeyondUsage(w)`: the atomic store, a step of its own because other
   writers run between the load and the store.
6. `Return(w)`: the deferred functions, i.e. the close of the response
   body, the counters and the fail info.
7. `HandleError(w)`: `writeBody`'s decision (4xx: drop; no fail cache: drop;
   `cacheAll` or a cached category: `doCache`, whose Put succeeds or fails),
   and the loop of `writePoints` going to the next body or returning nil.

Data is abstracted to what the properties tell apart: a body is its identity
and its gzip flag; a URL is whether it parses and whether it holds
`/v1/write/`; a response is its status, whether its body holds
`beyondDataUsage` and whether the body can be read; a counter is the bag of
its label pairs. In `EndpointBuild` a URL string is a sequence of tokens, so
that building one (`fmt.Sprintf`) and parsing it again (`http.NewRequest`) are
two different operations, and string concatenation is concatenation.

`MCWritePoints` takes `categoryURL` (through `GetCategoryURL`) and
`httpTimeout` from `EndpointBuild!NewEndpoint`, so the write path runs on the routing table and
with the client timeout that the model of the constructor built: once for an
endpoint without `withHTTPTimeout` (`write_conc`), once for one with it.

### The harness

`run` sets up in three steps that can each fail and return (the preparation
of the files, the container, the wait for its ports): they are one action,
`RunSetup`, over the table `SetupNext` of the step that follows each.
`done` is `NilChan` or a channel. `run` evaluates `done` when it enters the
select (`RunSelect`), the handler when it sends; the unbuffered channel makes
send and receive one step (`Signal`). `addErrorMsgs` holds only the read
lock, so its append is two steps (`AppendRead`, `AppendWrite`) that two
handlers can interleave. The test expects 7 requests; the models use
`Expected = 2` with three handlers, which is enough for "fewer than", "exactly"
and "more than expected" to occur.

### The connection trace

`HTTPTrace` follows one call of `sendReq`. The caller takes `start`,
registers the callbacks, and is then inside `Do`, where the retrying client
makes up to `RetryMax + 1` attempts. An attempt takes an idle connection
(`TakeIdle`) or has the transport start a dial (`StartDial`) and waits for
it; `GotConn` and `GotFirstResponseByte` are part of the caller's steps. A
dial goes through DNS, connect and TLS handshake, each a `PhaseStart` and a
`PhaseDone` in the goroutine of the dial, and does not stop when its attempt
ends: its callbacks still write the `httpTraceStat` of the call, and its
connection goes to the pool (`DialToPool`). Time is the variable `now`,
advanced by `Tick` between any two steps. `real` records what each phase of
each dial took by the dial's own clock, `used` the dial whose connection the
last attempt got; the properties compare the logged record with them.

## Runs

| run | module | result | what it shows |
|---|---|---|---|
| `write_seq` | `MCWritePoints` | pass | `TypeOK`, `CacheMatchesPolicy`, `CountersMatchBodies`, `KeptOnceUnlessAnswerMissed` for one writer over every request and outcome, with a retry; `EveryCallReturns` under weak fairness |
| `write_conc` | `MCWritePoints` | pass | `QuotaSpec`: the zero/non-zero reading of the flag refines `QuotaTracker` under two interleaved writers; `CountersMatchBodies` for the bodies of both writers together |
| `endpoint` | `MCEndpoint` | pass | `TypeOK`, `ClientFollowsOptions`, `RoutesAreGatewayURLs`, `PullAsksPullAPI` |
| `harness` | `MCPythondHarness` | pass | `TypeOK`, `SignalAfterExpected`, `RunReturns`, `RunSeesAppended` |
| `trace` | `MCHTTPTrace` | pass | `TypeOK`, `LoggedStatIsOfOnlyDial`: with one dial the log tells that dial |
| `dt_report` | `MCWritePoints` | violation | `DTReportTellsOutcome`: the fail info is told "failed" after a 2xx |
| `quota_wipe` | `MCWritePoints` | violation | `StoreClearsWhatWasLoaded`: the store of 0 wipes a rejection added after the load |
| `quota_time` | `MCWritePoints` | violation | `BeyondUsageIsATime`: the flag is a sum of timestamps |
| `cache_replay` | `MCWritePoints` | violation | `CachedBodiesCanBeReplayed`: a body without a route is cached, never sent |
| `cache_4xx` | `MCWritePoints` | violation | `No4XXCached`: a 4xx with an unreadable body is cached |
| `pull_close` | `MCEndpoint` | violation | `PullsCloseBodies`: `datakitPull` leaks the body on a failed read |
| `trace_real` | `MCHTTPTrace` | violation | `LoggedStatIsOfUsedConn`: after a retry the log tells a time no dial took |

### The properties of the passing runs

* `CacheMatchesPolicy` relates the disk cache to the history of every body: a
  body is cached exactly once, under its own category, exactly when
  `writeBody` is done with it, its last outcome was no 2xx and no 4xx whose
  body could be read, the writer has a fail cache whose Put succeeded, and
  `cacheAll` or the category allows it. It fixes what the code does,
  including that a body without a route and a body whose answer could not be
  read are cached. It is checked where something can be cached, in
  `write_seq`; in `write_conc` every answer is readable and final.
* `KeptOnceUnlessAnswerMissed` relates the cache to what the gateway holds
  (`gateway`, the posts it stored). A body `writeBody` is done with is at the
  gateway, in the cache, or was dropped for a reason the code names (a read
  4xx, no fail cache, a failed Put, a category that is not cached). It is in
  both places only when the writer missed an answer of a gateway that had
  stored the post: the acknowledgement was lost (`lostAck`) or its body could
  not be read (`hist.missed`). Those bodies are sent again by whoever replays
  the cache; the property says they are the only ones. It breaks when the
  policy of `writeBody` caches without looking at the error.
* `CountersMatchBodies`: every body that had a URL is counted exactly once
  under the label of its category and its status, and once more in the sink
  counter when the request is a sinker's; bodies without a URL are not
  counted, because the deferred function is registered after the URL
  resolution. The api counter holds every request that left `sendReq`
  exactly once, under the path of its URL and its status, whether the client
  made one attempt or retried. The two status labels differ, and the property
  gives each from the last outcome (`StatusCounted`, `StatusAnswered`): the
  point counters take the status of an answer whose body was read, 500 for
  every answer the client gave up on (a 503 is counted as a 500), 408 for a
  timeout and "unknown" for the rest, an answer whose body could not be read
  included; the api counter takes the status of the response `sendReq`
  returned and "unknown" when it returned none. The invariant is
  stated while calls are under way: a body between its answer and its return
  is in the api counter and not yet in the point counters.
* `TypeOK` of `WritePoints` also relates the locals to the place of the
  writer: a writer is idle exactly when it has no bodies left. That the
  response body is open exactly from the answer of `sendReq` to the return
  of `writePointData` is part of it, and holds by the shape of the code: the
  close is a single `defer`, which the model runs in `Return`.
* `QuotaSpec`: `beyondUsage # 0` with the writers' pending observations is a
  behaviour of `QuotaTracker`. The clear is a load and a later store; the
  refinement holds because a store that wipes another writer's rejection is
  the same as that writer's rejection applied before this writer's success.
  It stops holding when the test of the URL for `/v1/write/` is dropped.
  `QuotaTracker` lets an observation be applied at any later time, so the
  property admits the wipe; that the wipe happens is what `quota_wipe` shows.
* `EveryCallReturns`: through an endpoint built with a positive timeout the
  loop over the bodies and every round of retries end. It is checked for one
  writer: the writers share no lock and wait for nothing another writer
  does, so the steps of a second one cannot keep the first from its own.
  The property depends
  on the constructor: with `setupHTTP` changed to hand the client no timeout,
  TLC finds a writer waiting for good.
* `ClientFollowsOptions`: the client's timeout, dial timeout, idle
  connections and proxy are those of the last *accepted* option of each kind,
  for every sequence of options.
* `RoutesAreGatewayURLs`: an endpoint exists only for http and https, and its
  URL strings parse back to the API path on the gateway's host with a query
  that holds the pairs of the base URL's, each as often as there, and whose
  first token is the token the endpoint holds. The specification says the
  query is kept verbatim. The code writes `u.Query().Encode()`: the pairs
  sorted by key, those of one key in the order they came (`Encode` of
  `EndpointBuild`). For the base URL `GatewayZone`, `zone=cn&token=T1&token=T2`,
  the category URLs carry `token=T1&token=T2&zone=cn`. The property states
  what survives the re-encoding and what a gateway depends on; it is the
  weaker promise, and the hazard list records the difference.
* `PullAsksPullAPI`: for a base URL with a query, the pulls ask the right
  path and query. For a base URL without a query `url + "&" + args` puts the
  `&` and the arguments into the path; the premise of the property excludes
  that case and the hazard list records it. Arguments with a control
  character (`CtlArgs`) make `http.NewRequest` fail: `datakitPull` returns
  the error and no request is sent.
* `SignalAfterExpected`, `RunReturns`: `run` receives the signal only after
  the expected number of requests was counted, and returns in every
  behaviour, also when it waits on the nil channel, when no handler ever
  finds the counter at the expected value, and when the counter passed it
  without a signal. The one exception is in the code: `ListenAndServe`
  failing makes the server goroutine panic, which ends the process before
  `run` returns.
* `RunSeesAppended`: when every handler at work has finished or not begun
  its append at the moment `run` reads `errorMsgs`, and one of them found a
  mismatch, `run` returns the messages. The handlers append under the read
  lock, so an append can overwrite another; the property says that what
  survives is enough for `run` to fail. It breaks when the write of the
  append drops what the slice held.
* `LoggedStatIsOfOnlyDial`: when the transport made a single dial for the
  call, the DNS, connect and TLS times in the log line are the times that
  dial took, wherever the clock stood when it began and however many
  attempts the call made. `TypeOK` of this module also says that a line is
  logged exactly by a returned call on an endpoint built with
  `withHTTPTrace(true)`; the endpoints are those `EndpointBuild` makes.

Each property of a passing run has a mutant in `PROJECT.json`: a definition
of the model changed the way a plausible slip in the code would change it
(the 4xx return of `writeBody` dropped, the deferred counters registered at
entry, the URL test of the clear dropped, the numeric options without their
`n > 0`, the select without its ticker, ...). TLC finds the property violated
for each.

### Findings

The seven violation runs are recorded under `findings` in `PROJECT.json`
with the line of the code. Each trace is short:

* `dt_report`: a request for the dynamic category with a dynamic URL, a 200:
  `updateDTFailInfo(url, false)`, since `httpCode` is never assigned.
* `quota_wipe`: the specification asks that the flag be updated "with an
  atomic compare-and-set/store, never a plain read-modify-write". The clear
  is `atomic.LoadInt64` (line 336) and, when the value was positive,
  `atomic.StoreInt64(.., 0)` (line 338). Writer 1 loads a non-zero flag,
  writer 2 gets a 403 with the marker and adds its time, writer 1 stores 0:
  the rejection of writer 2 is gone, and the flag says the quota is fine
  until the next 403.
* `quota_time`: two 403 answers with the marker: the flag is `t1 + t2`.
* `cache_replay`: a request for a category without URL and without dynamic
  URL, `cacheAll` or a cached category, a fail cache: the body is cached and
  `writePoints` returns nil. The record names a category the endpoint has
  no URL for, and the body was never on the wire.
* `cache_4xx`: a 404 whose body cannot be read: the error returned is the
  read error, not `errWritePoints4XX`.
* `pull_close`: `datakitPull`, a response whose body cannot be read.
* `trace_real`: the first attempt starts a dial and fails before the dial
  is through; the retry starts a second dial. `DNSStart` of the second
  overwrites `ts.dnsStart`, `DNSDone` of the first measures from it, and the
  dial left behind can still write after the second is done. The line logged
  for the connection of the second dial holds a DNS time neither dial took.

Two behaviours of the harness that earlier versions of this project checked
as violations are recorded as hazards only: an append under the read lock
can lose a message (`RunSeesAppended` states what still holds), and a
handler can stay in `done <- struct{}{}` after `run` has left.

## Bounds

| constant | value | why it is enough |
|---|---|---|
| `Writers` | 1 (`write_seq`), 2 (`write_conc`, `quota_wipe`) | the shared flag needs two goroutines for a load, an add and a store to interleave; the policy of one body needs one |
| `MaxCalls` | 1 or 2 | the second call of a writer meets the state the first left |
| `MaxBodies` | 2 (sequential), 1 (concurrent) | the loop continues after a failed body and ends after the last; a call with no body is always there |
| `RetryMax` | 1 (sequential), 0 (concurrent) | one retry shows "retry, then give up" and "retry, then succeed"; the hint does not depend on retries |
| `Times` | {1} (`write_seq`, `write_conc`), {1, 2} (`quota_time`) | two different timestamps show the sum; the passing runs tell only zero from non-zero |
| `Outcomes` | per run, see `MCWritePoints` | 2xx and 4xx readable and unreadable, 403 with marker, 503 (retried, and counted under another status than its own), 501, a timeout, a refused connection, a lost acknowledgement |
| `GzipChoices` | {TRUE} (`write_seq`), {FALSE} (`write_conc`), both (violation runs) | the flag is copied to the writer and read by no decision |
| pull outcomes | 4 | an error, a 200 read and unread, a 404; a 5xx reaches `datakitPull` as an error of the client that gave up |
| `httpTimeout` | 0 (`write_conc`), 30 (the others) | only "none" and "some" differ |
| base URLs | 5 | https with a token; a query out of key order with a repeated token; http without a query; an unsupported scheme; a string that does not parse |
| `PullArgs`, `CtlArgs` | 2, 1 | arguments `http.NewRequest` accepts, and arguments it refuses |
| option sequences | up to 3 of 12 options | "accepted, then rejected, then accepted" of one kind, and every pair of kinds |
| `MaxPulls` | 2 | both pulls through one endpoint |
| `Handlers`, `Expected` | 3, 2 | one handler more than expected: the counter can pass the expected value |
| `Dials` | 2, symmetric | a dial left behind and the dial of the retry overlap |
| `MaxTime` | 2 | three instants: a start, a later start and a done after both give different durations |
| `MaxIdle` | 1 | a pool with and without an idle connection, and a full pool |
| `RetryMax` (`trace`) | 1 | one retry is what lets a second dial begin |

All counters of the models are bounded by these constants in the guards of
the actions. `CHECK_DEADLOCK` is off: a writer that made its calls, an
endpoint that made its pulls, a returned `run` and a returned `sendReq`
stop. `trace` uses the symmetry of the dials, which is sound for its
invariants: no definition of `HTTPTrace` names a dial.

## Fairness

`WritePoints!FairSpec` is weak fairness of `Progress(w)` for every writer: the
Go scheduler runs a runnable goroutine. That an attempt ends is not assumed
but modelled: it ends by an answer, an error, or the client's timeout. With
the default of zero the client has no timeout (`ClientFollowsOptions` shows
the zero reaches the client), and a gateway that does not answer blocks the
call; `write_conc` runs on such an endpoint and reaches the hung writer.
`write_seq` checks `EveryCallReturns` under `FairSpec` on an endpoint built
with a timeout.

`PythondHarness!FairSpec` is weak fairness of `Run`: `run` is scheduled, and
the ticker fires after its 30 seconds. Nothing is assumed of the container,
the handlers or the server goroutine; a panic of the server goroutine stops
every goroutine (`Alive`).

`HTTPTrace` has no fairness and no liveness property: nothing in the code
waits for a callback.

## Not modelled

* The latency histogram `apiSumVec`, and `idleTime` of the trace.
* The Go memory model in the harness: `run` reads `errorMsgs` without the
  lock. The model lets it see every append that finished before the read; a
  build may show it less.
* Torn reads of `httpTraceStat`: a callback writes a field as one step. The
  Go memory model promises less for the unsynchronised `time.Time` fields;
  the findings do not need it.
* The segmentation in `buildBody`: the code is outside the repository and
  the specification states a contract (an order-preserving partition into
  bodies under a size limit), not an algorithm. A model of it would be
  invented here, so `WritePoints` takes the bodies from the environment.
* The replay of the disk cache and the retry back-off: the code is outside
  the repository. `CachedBodiesCanBeReplayed` states what the records must
  hold for any replay.
* The amounts added to the counters; log output.
* Callers of `GetCategoryURL`. The method hands out `ep.categoryURL` itself,
  and a caller that wrote the map would change the routing of the writers
  under them. No code of the repository calls it, so the models keep the
  table constant after `newEndpoint`.
* The error returns of `http.NewRequest` in `writePointData` (line 284) and
  in `getLogFilter` (line 384), and of `rhttp.FromRequest` (line 477): the
  method is a constant, the URL was written by `newEndpoint` from a URL that
  parsed, and the body is in memory, so none can fail where it stands. The
  one in `datakitPull` can, and is modelled.
* The escaping `Encode` does to keys and values: the keys and values of the
  models need none, so only the order of the pairs changes.
* `TestPythondInput`, `buildCases`, the docker helpers and `externalIP`.
  `buildCases` makes one case, so no run of the harness meets what another
  left in `count`, `errorMsgs` or `done`.
* `src/unnamed/part_000` (a logging stub) and the documentation page.

## Plan

Done: the constructor, the write path with its response bodies, its four
counters and its refinement to `QuotaTracker`, the pulls, one run of the
harness, the connection trace of `sendReq`.

What is left depends on code that is not in the repository:

1. The replay of the disk cache. With the queue and its reader the project
   could state at-least-once delivery and count the duplicates a lost answer
   makes; from the specification alone the replay would be an invented
   process, and `CachedBodiesCanBeReplayed` already states what it needs.
2. The dial-testing fail info as a state per URL, once `updateDTFailInfo`
   is at hand.
3. `time-to-first-byte` of the trace: after a retried 5xx and a failed
   second attempt the line logged holds the time of the answer that was
   retried. It is the stale-state pattern of `trace_real` in a milder form
   and has no run of its own.
