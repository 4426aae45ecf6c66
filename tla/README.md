# Verification of the merm8 service

merm8 lints Mermaid diagrams. A Go server takes a document over HTTP, has it
parsed by Node processes that run the Mermaid library, runs lint rules on the
resulting graph and returns the issues; a Cloudflare worker in TypeScript offers
a smaller version of the same service with a semantic review by a remote
provider. This directory holds TLA+ models of the parts of that system whose
correctness depends on more than one step, the TLC configurations that check
them, and TLAPS proofs of nearly all safety properties of the stateful modules.

Line numbers below and in `PROJECT.json` are those of the sources under `src/`.

## 1. The system

| Part | State it keeps | Operations | Interacts with |
|---|---|---|---|
| worker pool (`internal/parser/worker_pool.go`, `worker.go`) | idle stack, `total`, `closing`, the Node processes | `borrow`, `release`, `close` | called by the pooled parse; starts, closes and kills processes |
| pooled parse and Node line protocol (`parser.go`, `parser-node/parse.ts`) | the pipes of each process, one goroutine per parse, a timer on each side | `parseWithWorkerPool`, `do`, `runWorkerMode` | borrows from the pool, returns results to the flight |
| parse single flight (`parser.go`) | `inflightParses`, the version and its lookup, `closed` | `parseWithConfig`, `resolveVersionInfo`, `Close`; the settings from environment and request | parse cache, worker pool or a subprocess |
| parse cache (`cache.go`, `cache_config.go`) | two LRU lists with maps, expiry heaps and byte counts | `get`, `putSuccess`, `putSyntax` | called by the flight |
| analysis cache (`internal/api/analysis_cache.go`) | LRU list, map, bytes | `Get`, `Set` | called by the analyze handler around the lint run |
| rate limiter (`middleware.go`) | one window per client, bounded | `clientIdentifier`, `Check` | in front of the handlers |
| analyze handlers (`handler.go`) | parser slots in use, outcome counters | the three analyze routes | limiter, parser, engine, analysis cache |
| server and middleware chain (`cmd/server/main.go`, `middleware.go`, `metrics.go`) | the gates in the chain, `request_total`, log fields per request, where main is | start, the middleware of each request, signal, shutdown | around every handler; closes the parser |
| rule configuration (`handler.go`, `internal/rules`, `cmd/merm8-cli/main.go`) | none | `parseConfig`, `NormalizeConfig`, the client's configuration file, the published schema | in front of the engine, which normalizes again |
| lint engine and rules (`internal/engine`, `internal/rules`) | none between runs | `Run` | called by the handlers |
| edge worker (`worker/`, `src/`) | two TTL and LRU caches, calls in flight | analysis route, semantic review route | the remote provider |
| command line client (`cmd/merm8-cli/main.go`) | the results of its inputs | a run with several inputs, local or against a server | parser and engine, or the analyze route |
| AST enhancement, metrics export, SARIF, benchmarks | see section 8 | | |

What is hard here, and hardly reached by tests:

* the pool releases its mutex to start, abort and close processes; slots,
  owners and wake-ups must survive whatever happens in those windows;
* a parse that times out leaves a goroutine, a process and perhaps a late reply
  behind; the next user of the worker must notice none of them;
* requests for one document share one parse, across a cache lookup and an
  in-flight lookup that are separate critical sections, a version lookup that
  is itself shared, failures and `Close` at any moment, and only if they ask for
  the same limits and enhancement;
* caches keep four representations of one fact (list, map, heap, byte count);
* the limiter reads its clock before it takes its lock, and finds its client in a
  header of which proxies wrote only the end;
* every early return of three long handlers must give back its slot once and
  count its outcome once;
* a request passes nine layers of middleware in and, by another way, out; three
  lists of paths decide which of them see it, and a shutdown may overtake it;
* a configuration comes in four forms, with aliases for rules and options, through
  two readers and two validators that must mean the same;
* the client's exit code stands for several inputs, some of which the server may
  still be working on;
* graph searches share `visited` and `recStack` over several starts, which come
  in the order of a Go map.

`PROJECT.json` lists these as hazards, each at its line with the properties that
would catch it going wrong.

## 2. Modules

| Module | Models | Composes |
|---|---|---|
| `WorkerPool` | the pool; the abstract specification of what a parse may rely on | |
| `PooledParse` | a parse through the pool, with pipes, timers and Node's loop | extends `WorkerPool`; checked to implement its `Spec` |
| `ParseFlight` | version lookup, cache, single flight, `Close` | the caches and the pool appear as what they return |
| `ParserSettings` | the settings of a parse, from environment and request to the cache key | operators only |
| `ConfiguredParse` | requests with settings on one Parser | extends `ParseFlight` and `ParserSettings` |
| `CacheLists` | the total weight of a set of keys, and parts of lists | operators of the three modules with caches, and of `LintRequest` |
| `BoundedCache` | two abstract specifications of a cache: what it may hold, keep and forget, with the byte limit kept always or only when a key is added | |
| `ParseCache` | the parser's two result caches | each checked and proved to implement `BoundedCache` (`SpecByAdding`) |
| `AnalysisCache` | the analysis cache and the handler's use of it | |
| `ClientIdentity` | the address a request is counted under | operators only |
| `RateLimiter` | `Check` and the answer of its middleware | extends `ClientIdentity` |
| `AnalyzeRequest` | the three handlers, the slots and the counters | parser and engine appear as what they return |
| `HTTPServer` | start, middleware chain, routes and shutdown of the Go server | extends `AnalyzeRequest`; the rate limiter's decision is left open |
| `CommandLine` | a run of the client against the server, and its exit code | extends `HTTPServer` |
| `EdgeWorker` | both caching routes of the edge worker | both caches checked and proved to implement `BoundedCache` (`Spec`) |
| `RuleConfig` | the configuration of the rules as the handlers and the client read it, and the published schema | |
| `LintRequest` | a request from its configuration to the engine's answer, with what the engine hides, sorts and drops | extends `RuleConfig` |
| `Lint` | all sixteen rules | extends `LintRequest` |
| `PooledParseProofs`, `ParseCacheProofs`, `AnalysisCacheProofs`, `EdgeWorkerProofs`, `RateLimiterProofs` | theorems | extend the module they are about; the pool's are in `PooledParseProofs` |
| `RequestProofs` | theorems about how requests are parsed, configured and answered | extends `ConfiguredParse` and `LintRequest` |
| `HTTPServerProofs` | theorems about handlers, server and client | extends `CommandLine` |
| `CacheListsProofs` | lemmas about sums and lists | extended by the proofs about caches, limiter and configuration |
| `MC*` | values of the constants for TLC | |

Definitions called "Faulty variant" are deliberate bugs, used by nothing in the
specification: each stands for a plausible mistake at the definition that follows
it and shows that a property can fail (the `mutants` of `PROJECT.json`).

### WorkerPool

A *caller* is one use of the pool, from `borrow` to the end of `release`; its
`pc` says in which critical section, or between which two, it is. `borrow` is
split where the code unlocks: `BorrowTurn` (refuse, take an idle worker, reserve
a slot, or wait), `StartWorker` (the call of `newFn`, unlocked), then
`StartFails`, `StartKept` or `StartTooLate` with `DiscardWorker`. `release` is
`Release` or, for an unhealthy worker, `AbortWorker` (unlocked) and
`AbortAccounted`. `Signal` wakes any one waiter; a woken caller still has to get
the mutex (`BorrowAgain`) and may find nothing. `Close` empties the idle stack
and wakes everyone; `CloseIdleWorker` is the loop after its unlock. A process may
end at any time (`ProcessExits`).

### PooledParse

Each caller runs the goroutine of `do` beside itself (`op`): it writes a request
line, reads lines, and sends its result into a channel with room for one. The
caller's `select` is `TimerFires`, `ReceiveError` or `ReceiveReply`; which of
them calls the worker healthy decides whether the pipes are clean later. Node
answers lines in order (`NodeReplies`), its own timer may answer in place of a
parse that goes on (`NodeSettles`): what it abandons stays in the process, which
is handed to the next request, and whatever runs there may print a line at any time
until it ends (`NodePrints`). The pool's actions are those of `WorkerPool`; a
process that ends takes its pipes and what ran in it along (`PipesFollow`).

### ParseFlight

A request goes from `Begin` through the version (`VersionReady`, `VersionJoin`,
`VersionLead`), the cache (`CacheHit`, `CacheMiss`), the flights (`JoinFlight`,
`LeadFlight`), the parse and `StoreAnswer` to `Publish`. The gap between
`CacheMiss` and the flights is there, as in the code (lines 504 and 508): a
second parse of a document that has just been cached is possible and harmless.
`Classify` maps a raw result of the pool or of a subprocess to an answer, with
the differences the code has between the two paths.

### ParserSettings, ConfiguredParse

`NewParser` is what `New` keeps of the environment, `RequestSettings` and
`DirectSettings` the configuration a request of the API and a call of `Parse` give
to `parseWithConfig`, and `CacheKeyForVersion` the key made of it; a value that may
be missing or malformed is a set with at most one element. `ConfiguredParse` takes
the keys of `ParseFlight` from there, as an assumption that TLC evaluates.

### BoundedCache

One cache as its users see it: its `limits`, the value it keeps under each key
(`contents`), the value that is current for each key (`current`), and what the cache
accounts for (`used`, entries and bytes). `Renew` makes a value current or withdraws
the current one: the former value goes, whether there is room for the new one or not.
`Forget` lets anything go at any time (expiry, eviction). After every step the account
is exact and the number of entries within its limit. The two specifications differ in
the bytes. `Spec` keeps them within the limit always. `SpecByAdding` does so for each
value by itself and whenever a key is added; a value that replaces another of its key
may take the cache beyond the limit until then. The order of eviction is not part of
either: that is `ParseCache`'s own property. `EdgeWorker` implements `Spec` twice
(analyses and decisions), `ParseCache` `SpecByAdding` twice (diagrams and syntax
errors), through refinement mappings from their lists and maps.

### ParseCache, AnalysisCache

Each operation under a mutex is one step. The list is a sequence, the map a
function, the heap a set of records (only its least element matters), bytes a
number. `Shrink` and `Evicted` say what an eviction loop leaves: the longest
prefix within both limits. In `ParseCache` a lookup is two steps under a read
lock. In `AnalysisCache`, `StoreTurn` is one evaluation of
`i < h.analysisCache.Set(...)`, so that a store of one result calls `Set`
several times, with other requests in between.

### RateLimiter

`ReadClock` and `Decide` are separate steps because the code reads the clock
before it locks. `Cleaned` removes any batch of stale windows, in the unspecified
order of map iteration. `granted` and `promise` are history. A request
comes from one of `Clients`, over trusted proxies or none, with a header that its client
has begun in any way (`Arrivals`); whom it is counted for is computed from that
(`Attributed`). `CountedAsOrigin` says whose identity this is, and the bounds count by
identity.

### AnalyzeRequest

The handlers are one sequence of steps with three routes. Bodies and
configurations are represented by the check that refuses them, the parser by
its result. A slot is held from `Admit` to `Return`, which is the deferred
release and also follows a panic.

### HTTPServer

`StartUp` reads the environment and puts the chain together, or panics. A request
goes through `CORS`, `BearerAuth` and `RateLimit` inwards, to a handler of
`AnalyzeRequest` (`RouteToAnalyze`, then `HandlerStep`) or another route, and
through `HandlerReturned` (the compression buffer), `ObserveHTTPRequest` and `Log`
outwards; a refusal joins the way out where its layer stands in the chain, and a
panic skips all of it. The layers that only set a header on the way in have no
step. Paths are the strings of the code, since what is checked is how its lists of
paths fit together. `Signal`, `Drained` or `DrainTimeout`, `CloseParser` and
`Exit` are the end of `main`; after `exited` nothing moves. `Reconfigure` is
`SetParserConcurrencyLimit`, which `main` calls once and the handler's tests
reapply while requests run: the model allows it at any time.

### CommandLine

`Invoke` reads arguments, configuration and inputs, or `InvokeFails`; then each input
is a request of its own to the server of `HTTPServer` (`SendInput`), answered
(`GetAnswer`) or not (`NoAnswer`: no connection, a lost one, or the timeout, which
leaves the server at work on a request nobody waits for). `Finish` condenses the
results. The server's steps go on beside all of this. A run without a server is
`AnalyzeLocal` of what the parser returns.

### EdgeWorker

JavaScript runs one thread, so what stands between two awaits is one step: after
the digest of the key (`hashing`) a request hits, joins a call in flight, or
calls, registered or not. `CallerResumes` is the cache store and the `finally`
block; the waiting requests resume after it, since the caller was the first to
await the promise.

### LintRequest, Lint

The frame is that of a request (`LintRequest`): `Configure` (one of the readers of
`RuleConfig`, then the engine's own `NormalizeConfig`), `Parse`, which enumerates
diagrams, and `Answer`, which takes a list of issues and returns what is not hidden of it
(`IsSuppressed`, `IssueMatchesAnySelector`), sorted (`SortIssues`, by ranks, since a
stable sort can give one result only) and without repetition (`DedupeIssues`). Nodes
stand at a line and column, several on one line or nowhere (`Layouts`); issues have
a line, a column and the context they were found in. In
`RequestSpec` the issues are any; in `Lint`, `Run` answers with what the rules find.
`reported` is a history variable, the issues before that.

The rules are operators. Their searches
keep the variables of the code (`visited`, `stack`, `recStack`, `memo`,
`indices`, `lowlink`); where a rule ranges over a Go map the order is a parameter,
and `Run` chooses it.

### RuleConfig

Operators only. A document is its shape, its fields and the entries of its rules;
a JSON value is a pair of kind and content, the key of a rule an ID with its
prefix and spaces, so that trimming and lower case (`Spellings`), aliases and
prefixes are conversions of the model too. `ParseConfig`, `NormalizeConfig` and
the operators of the client give the set of outcomes over all orders of map
iteration. `Conforms` is the JSON schema, from the table of the metadata
(`ConfigurableOptions`), which the code keeps apart from the table it validates
with (`ConfigRegistry`).

## 3. Runs

Runs that must pass (states as TLC reports them, two workers):

| Run | Instance | States | What it shows |
|---|---|---|---|
| `pool` | 3 callers, 3 processes, limit 2 | 28 174 | accounting, ownership and wake-ups through every unlocked window; every `borrow` returns, a closed pool drains |
| `pooled_parse` | 2 callers, 2 processes, limit 1, one stray line | 191 799 | no parse reads another's reply, an idle worker has clean pipes but for what an abandoned parse prints, calls and goroutines end, and the whole implements `WorkerPool!Spec` |
| `flight` | 3 requests of one document, two with equal settings by different ways | 124 678 | one parse per key at a time, nobody waits in vain, answers belong to their key and were parsed as the request asked, every request returns |
| `parse_cache` | 3 keys, one of sizes 3, one of 2, 4 and 5 (oversized), one of 1; two configurations | 323 651 | the four representations agree, both caches implement `BoundedCache!SpecByAdding` (limits, only the latest result of a key), evictions are justified |
| `analysis_cache` | 2 requests, 4 keys of sizes 1, 2, 4, 5; 4 bytes | 17 236 | list, map and bytes agree, limits hold, no eviction is made up, storing ends |
| `rate_limit` | 2 requests of a public and a private client, direct or over up to 3 trusted proxies, every header of up to 2 parts; quota 2, one window remembered | 822 873 | each client is counted as itself, with one exception, bursts are bounded and refusals truthful though clocks are stale and windows are forgotten |
| `server` | 2 requests of 7 kinds, or of a run of the client with 2 inputs; 3 configurations, parser limits none and 1 | 698 294 | slots and counters are exact on every way out, the gates hold on every path, the three records of a request agree, a shutdown ends and overtakes no request before its timeout, the client's exit code is true |
| `edge_worker` | 3 requests, 2 keys, weights 2 and 4, room for one call in flight, one retry | 163 662 | calls are shared and unregistered correctly, answers belong to their document, both caches implement `BoundedCache`, everyone is answered |
| `lint` | 5 060 configurations; all graphs of 3 nodes, on their own lines or two on one and the third on none, up to 2 edges from each, 6 families, 3 requests, all map orders | 184 682 | accepted configurations are run with and mean what they say; findings agree with definitions by walks; hiding, order and duplicates are right |

Runs that must find a violation, each a disagreement between the code and what a
document or test of the repository says:

| Run | Property | Disagreement |
|---|---|---|
| `pooled_parse_timeout` | `TimedOutWorkersRecycled` | a worker whose own timer gave up is released as healthy (parser.go:763) and handed to the next request with the abandoned parse still in it; API_GUIDE.md:45 and IMPLEMENTATION_GUIDE.md:91 say timed-out workers are recycled |
| `parse_cache_bytes` | `RetainedMemoryBounded` | `SetWeighted` returns without evicting when it replaces an entry (cache.go:256), so that a larger syntax error takes the cache beyond its bytes; the comment above it (242) and parser-tuning.md:209 say that they bound what is retained |
| `lint_merged` | `EntriesMerged` | of several entries for one rule `parseConfig` keeps the last in map order and drops the options of the others without a warning (handler.go:326); API_GUIDE.md:281 says they are merged onto one entry, CHANGELOG.md:157 deterministically |

Further disagreements, which no run states, are in section 6; the properties they touch
say in their comments what the code does and what the document says.

### Bounds, and why they are enough

* `pool`: three callers and a limit of two give a waiter while two slots are in
  different unlocked windows; the theorems then drop the bounds.
* `pooled_parse`: with one slot every second parse reuses or replaces the
  worker of the first, which is where a late reply could go wrong. A stray line
  (`NoiseLimit`) is enough to shift every later reply.
* `flight`: a call of `Parse` and a request that states the configured values share
  a key, in the pool, and a request with a heap of its own and without the rules
  that need the source does not; the environment holds a timeout out of range.
  `Faults` allows a failing
  version lookup, an eviction and a `Close` at any moment.
* `parse_cache`: three entries force evictions by number and by size;
  `MaxRecords` 3 allows a stale heap record beside two live entries. One key has results
  that fit, that leave room for nothing else and that are refused, so that a result
  replaces a smaller one beside another entry. `parse_cache_bytes` needs room for two
  syntax errors, and no more.
* `rate_limit`: time runs over two windows and the cleanup age; `MaxDelay` bounds
  the age of a clock reading and appears in `BurstBounded`, since a request held
  up without limit may be counted in any window. `MaxProxies` is the number of proxies
  that write a hop before the last, which is the peer. The claims hold the address of
  every client, of a host that is none, of the proxies, and a malformed part; a public
  and a private address, one of the two proxies being public, are what the search for a
  hop tells apart.
* `server`: two requests compete for one slot and for the shutdown; the seven
  kinds reach each way through the chain (both gates refusing and passing, an
  allowed and a foreign preflight, a panic inside CORS and one inside a handler),
  the three configurations a chain without gates, with both, and a refused start.
  The requests are interchangeable, so they are numbered as they arrive (`InOrder`).
  The client's two inputs meet each other at the one slot, when the first has timed
  out; a run of the client and the requests of others are not combined
  (`ClientBounded`), which would multiply the states and add no way through the chain.
* `edge_worker`: room for one call in flight makes the unregistered call of the
  same key happen with three requests; weights 2 and 4 against the byte limits make
  an eviction by size and a result too large to keep happen.
* `lint`: three nodes hold every shape the searches tell apart: self loops,
  two cycles that share a node, a cycle reached from outside, two components.
  The configurations have up to two entries, which is what it takes for an alias
  to meet its rule, with valid and invalid options, read by each door in each
  form; `Explored` are the three requests that go on to all diagrams. `MaxNesting`
  stands for the depth at which `encoding/json` refuses a value; the values of the
  instance have two levels. One layout has two nodes on a line and one on none, which
  is what a selector for a node can get wrong. `lint_merged` ends with the
  configurations (`Explored` is empty).
  The `lint` runs end after one run of the engine, hence
  `CHECK_DEADLOCK FALSE`; so do the runs whose callers end.

### Fairness, and why the code justifies it

Weak fairness only, for each goroutine or request that has begun a call: Go and
the JavaScript event loop schedule runnable work, mutexes are held for bounded
sections only, and the calls made while unlocked return (`newFn`, `abort`, which
kills the process, `close`). In `PooledParse` the timer and the goroutine of `do`
are fair as well; Node is *not*, so a process may hang for ever, and
`ParseReturns` rests on the timer alone. In `WorkerPool` a caller that holds a
worker releases it, which `ParseReturns` and `OperationEnds` show of the real
callers. In `EdgeWorker` a call settles since `requestAttempt` aborts at its
timeout. In `HTTPServer` a request in the chain goes on while the process lives
and main's calls return, that of `server.Shutdown` because its context expires;
whether a request ends is not assumed of a process that exits. Nothing obliges
a request to arrive, a limit to change, a process to die or time to pass.

## 4. Properties

Type invariants are conjuncts of another invariant, except those of `WorkerPool`
and `ParseFlight`, which are theorems. Those worth arguing about:

* `Accounting` (pool): `total` equals idle workers plus the slots callers occupy,
  `NoOrphanProcess`: no live process without someone who will close it,
  `NoLostWakeup`: nobody sleeps while there is something to take that no woken
  caller is coming for.
* `NoForeignReply`, `PipesCleanWhenIdle` (pooled parse): the identity check in
  `do` never fires, because each path that may leave a reply unread gives the
  worker up. The one exception is what a parse printed that Node's timer abandoned: its
  worker goes idle with the parse still in it, and such a line fails the next request
  with `ErrDecode` (worker.go:114-116), though never with another's reply. That such a
  worker should have been recycled is what `pooled_parse_timeout` refutes.
* `OneParsePerKey`, `NobodyWaitsInVain`, `ParsedAsConfigured` (flight): sharing is by
  the key, and the key tells apart all that a result depends on. `ParsedAsConfigured`
  says nothing of an environment that disables the enhancement, which the code ignores
  (section 6). `AnswersOwnKey` also says that no failure is served from the cache, but
  for an internal one of a pooled worker, which `mapParseResult` takes for a syntax error.
* `CachesBounded`: the refinement of `BoundedCache`, of `Spec` by the edge worker, of
  `SpecByAdding` by the parse cache, where only a replacement may exceed the bytes.
* `CacheConsistent` (analysis cache): beside the representations, that no eviction is
  observed that did not happen; fewer may be (section 6).
* `EvictionJustified` (parse cache): an entry that is not due is only lost to a
  put of its own key or to a limit, least recently used first.
* `BurstBounded`, `ResetHonoured` (limiter): at most two quotas in a window less
  the delay; after the announced second a client is served. Both count by identity;
  `CountedAsOrigin`, a part of the former, says that this is the address a request came
  from, but for a private client over a proxy, which is counted under a public address
  that its header names.
* `SlotsExact`, `CapKept` (handlers).
* `GateHolds` (server): the routes, the protected paths and the order of the chain
  together let no request reach a handler past a gate, nor one without the token
  reach the limiter. `RequestsRecorded`: `request_total`, the outcome counters and
  the log line tell one story of each request, whatever layer ended it; a panic that
  drops the connection is left out, since it appears in none of them (section 6): of what a
  panic in a handler can do wrong, the models cover its slot (`SlotsExact`) alone.
  The outcome counters in it are exact (`CountersMatchAnswers`).
  `ExitCodeTruthful` (client): 0 and 1 only if each input was analyzed, 3 if one got
  no answer, whatever the others gave; with all analyzed, a run without a server ends
  alike. `ShutdownOrderly`: a signal leads to the exit, with requests unanswered only
  after the timeout.
* `CallsShared` (edge worker): the map has exactly the registered calls that have
  not ended, also while unregistered calls of the same key come and go.
* `AcceptedConfigRuns`: what `parseConfig` lets pass `NormalizeConfig` does not
  refuse, and what the schema allows is accepted; `ConfigMeansDocument`: the
  options in force are those stated, whatever form, alias, spelling or reader: for the
  client those of all entries of a rule, for a handler those of exactly one of them,
  however many there are (which is not what the guide says: `lint_merged`).
* `HiddenExactly`: an issue is missing from the answer exactly if a comment or a selector
  covers it, where covering is stated independently of the engine's search for nodes;
  `OrderedOnce`: the answer is strictly ordered, so that it is free of duplicates and one
  set of issues is returned in one way.
* `CyclesGenuine`: what the cycle rules report are cycles, and a diagram with one
  is never passed, in spite of the stale `recStack`; `FindingsExact`: depths and
  reachability are those of walks.

## 5. Proofs

Checked by TLAPS for every value of the constants, under the named assumptions of
the modules: finite sets of callers, workers and requests; nil is no member of the
sets it stands apart from; inputs are among those the model knows; sizes are natural
numbers. Limits and settings are any integers, since the code corrects them
(`newWorkerPool` raises the pool's limit to one, caches take no room for none).

**PooledParseProofs.** The pool comes first, of which any parse may make use. `TypeCorrect` proves `TypeOK` together with `Shape`, which
ties `pc` to `held`: a caller holds a worker exactly at the positions where it
must. `AccountingExact` needs `Counting`: `total` against the length of the idle
stack and the cardinality of the callers in slot positions; each action moves one
caller in or out of that set, stated once as `SlotMoves`. `OwnershipExclusive`
and `ProcessesOwned` come from `Ownership`: idle is without repetition, and idle,
held and retiring workers are disjoint; the lemmas on sequences say what popping,
pushing and taking the tail do to the set of elements. `Capacity` follows by
counting the union of these. `WakeupsKept` shows `NoLostWakeup` inductive with
the above: each action that frees something signals, each that takes something
leaves no more to take.

`PInv`, of the pooled parse, rests on the types and the ownership of the pool's
invariant. Its own idea is `Active`: a caller whose `do` runs, or has failed,
still owns what is in the pipes of its worker, and it holds that worker or has had
it killed (`ActiveOwns`). The pipes of a worker then hold at most one request or one
reply, which its active caller expects (`PipesExpected`), and whatever else lies there
was printed by a parse that Node's timer gave up (`Leftovers`). A worker goes idle only
after a reply, when nobody is active on it: `IdleWorkersClean`, `RepliesOwn` and
`OperationsExclusive`.

**RequestProofs.** *Parsing.* The inductive invariant `IInv` is the type invariant,
`Progress` (what a request has at each position), `LeaderRegistered` (a leader
with a key is the one in the map), `InflightHasLeader`, `WaiterHasLeader`,
`AnswersTravelByKey` (cache, publications and answers carry the key they were
parsed for) and `AnswersLast` (an answer that is no error may be kept). From it follow `TypeCorrect`, `SingleFlight`, `FlightsHaveLeaders`
and `OwnKeyAnswered`. Without `LeaderRegistered` the first step of a second leader
could not be excluded.

`SettingsHonoured` proves `ParsedAsConfigured` for every
environment and all requests with accepted overrides. What is returned belongs to
the key of the request (`IInv`); equal keys mean equal
document, limits and need; and the settings are what was asked for
(`SettingsAsAsked`), because whatever the environment holds is within the bounds once
read (`ParserWithinBounds`) and an effective configuration is its own effective
configuration (`EffectiveConfigKept`), so that the two passes of `EffectiveConfig`
change nothing a request stated.

*Configuration.* `ConfigurationsRun` and `ConfigurationsMeanDocuments` prove
`AcceptedConfigRuns` and `ConfigMeansDocument` for all documents, spellings and orders
of map iteration. They are about `RequestSpec`; the steps of `Lint` are its steps by
definition, and `Lint` itself declares recursive operators. The argument goes along the
path of a configuration. `NormalizedConfig` says what `NormalizeConfig` can give: in
whatever order it merges, each option in the result was stated by an entry of the rule,
and each that was stated is there (`Merges`). `ParsedConfig` says what `parseConfig`
builds when it accepts, one entry for each rule with options that `ValidateOption` has
passed; `TablesAgree` is the fact about the code that a new option could break, that
the registry it looks into and the metadata of the schema allow the same options of the
same rules. Such a configuration is valid in the sense of `ValidateConfig`
(`HandlerConfig`), and a valid one is normalized without an error, as often as one likes
(`ValidNormalizes`), so the handler's normalization and the engine's both pass. Of the
client, `Canonicalized` says that it keeps the options of every entry
but for those it states twice for one rule, and `ClientConforming` that nothing the
schema allows looks nested (`NotNested`) or fails its check. `ReadFromEntries` and
`HandlerMeans` then say that what a handler reads for a rule are the options of exactly
one of its entries, with no hypothesis on their number, and `ClientMeans` that the client
reads those of all.

*Answers.* `ReturnedInOrder` and `NothingElseHidden` prove `OrderedOnce` and
`HiddenExactly` for every configuration, diagram and list of issues that the rules might
report. Keys are in a total order (`PrecedesTransitive`, `PrecedesTotal`, by the first
place where two differ) and tell all of an issue (`KeyOfIssue`). So the ranks of a sort
are a permutation (`OrderRanks`), equal issues end side by side (`IssuesSorted`), and
`dedupeIssues`, which compares neighbours only, leaves each once (`IssuesOnce`). Were a
field that `sameIssue` compares left out of the order, `KeyOfIssue` would fail. That what
is hidden is what comments and selectors cover needs an invariant across the request: the selectors in
force are the document's (`ConfigMeansDocument`), all of which parsed (`ValidOptions`),
so that none stands for another thing (`SelectorsInForce`, `HiddenAsSaid`); and what the
engine links to an issue are the nodes beside it, or the one its message tells
(`LinkedNodes`). That the
rules report issues of the form assumed (`IssueType`) the `lint` run checks as a part of
`OrderedOnce`.

**HTTPServerProofs.** Five layers, over any requests, arrivals, environments and
invocations of the client.

* *Slots.* `StepKinds` reduces the many steps of a handler to three: one that admits,
  one that returns, and those that touch neither slots nor holders. `SlotsCounted`
  follows by cardinality of the holders, `CapNeverExceeded` as an action property from
  it. `ServerHandles` takes every step of the server to such a step or to one that
  touches no handler, which gives both for the whole server (`ServerSlots`).
* *Gates.* `GatesHold` proves `GateHolds`. `PassedGates` says what a request has shown
  at each stage on its way in, `GatesSettled` that the chain is complete before a
  request arrives (the gates' switches would otherwise change under it);
  `RoutesProtected` is the fact about the code that a new route could break.
* *Answers.* `AnswerInv` links position, answer and counted outcome of a request. The
  steps of a handler either leave all three (`Silent`) or decide all three at once
  (`Decides`).
* *Records.* `ShapesInv` says what has been sent, logged and counted for a request at
  each stage of the chain, and `RequestsTallied` that `request_total` is the bag of what
  was observed; counting one more request is a lemma about tallies. Each step is one
  request's, and a shape depends on that request's entries only. `RecordsAgree` follows.
* *Client.* `SentInv` and `Stands`: what the server has answered it never takes back. So
  a result the client has noted stays true (`ClientInv`), and `ExitCodesTruthful` is a
  calculation with `ChooseExitCode`. It is about `ClientSpec`, the server with one run
  of the client and any number of other requests, of which the `server` run is an
  instance; what TLC excludes there by `ClientBounded` is covered here.

**CacheListsProofs.** The sum of weights in the models is a fold of the community
modules, defined by recursion over sets. Instead of induction, which is out of reach,
`TotalIsUnits` takes a set of least size on which the sum would differ from the
cardinality of `Units` (a set with as many elements for each key as the key weighs) and
finds none; what else is needed of sums is then counting. `Without`, in place of
`SelectSeq`, defines a filtered list by ranks, so that order and elements of the result
can be proved too.

**ParseCacheProofs.** `CInv`: list, map, heap and bytes of each cache agree, with no
repetition in the list and a record for each entry (`Agrees`), and a disabled cache
is empty. `CacheAccountsAgree` and `EvictionsJustified` follow for all sizes; the loop
of an eviction leaves a prefix of the list, and the first entry beyond it would not
have fitted. `CachesImplementBounded` proves the refinement of `SpecByAdding` for results
of any sizes. `StepsAdd` is its core: the bytes exceed the limit after a step only if no
key was added by it, since `SetWeighted` evicts when it adds an entry and not when it
replaces one; `parse_cache_bytes` shows that this cannot be sharpened. `HoldsLatest` gives
the refinement's other half.

**AnalysisCacheProofs.** `AnalysesConsistent` proves `CacheConsistent`. The invariant adds
that the list has no repetition and that a request about to store has a known key
(`JobsKnown`), across the repeated calls of `Set`, and `EvictionsHappened`.

**EdgeWorkerProofs.** `EInv` has a part for the caches (`CacheInv`), one for the map of
calls (`MapInv`) and one for each request (`RequestInv`): a waiting request follows one
that has its own document and is on its call or has ended it with a settled promise.
This, and that a cached result was made for its key, gives `OwnResultsOnly`;
`ReviewsShareCalls` is `MapInv` from both sides. `WorkerCachesImplementBounded` needs no
hypothesis on sizes, since this cache removes the old entry before it makes room.

**RateLimiterProofs.** `ClientsCountedAsOrigin` proves `CountedAsOrigin` for all headers
and proxies: the search finds the client, whatever it claims and however many proxies are
in between, or a public hop that a private client has put before its own, since its own is
at the greatest position that no trusted proxy wrote. `BurstsBounded` proves
`BurstBounded`, which is not inductive: that a client was granted too much in a
span shows only in the windows the grants were made in, and the limiter remembers one
of them, or none. `Spent` says what that window tells of the past: the grants later than
its start and the delay are its own, those of a window earlier are its own or fill one
quota, and there are none later than its end and the delay. `WindowInv`
keeps this for a window that was deleted, which is older than any request that
can still arrive. It needs requests to be delayed by no more than a window; otherwise
the spans that the bound speaks of are empty. Grants are summed with the lemmas of
`CacheListsProofs`. `ResetsHonoured` proves the action property `ResetHonoured` with
`PromiseInv`: a window that has granted more than was granted since the last refusal had
ended by the announced second.

Only model-checked:

* all liveness properties, and the implementation of `WorkerPool!Spec` by `PooledParse`,
  of which the fairness is the substance;
* `CyclesGenuine` and `FindingsExact` of `Lint`: the rules are recursive searches, of
  which nothing can be said for all graphs without induction.

## 6. Observations

Read in the code while modelling, beside the disagreements that are runs (section 3):

* A pooled worker's internal error becomes a syntax error and is cached (parser.go:794,
  541); the subprocess path turns it into an error, which is not, and
  cache_integration_test.go:120 says "transient failures are uncached". `Lasting` in
  `AnswersOwnKey` makes the exception.
* `i < Set(...)` calls `Set` on each turn (handler.go:1670), so that a store that evicts
  two entries reports one; caching.md:38 says that evictions are reported.
* The class and ER cycle rules start in the order of a Go map
  (class_no_circular_inheritance.go:64), so that one diagram gets different messages and
  fingerprints; API_GUIDE.md:274 says that execution is deterministic. `Run` chooses the
  order, and `CyclesGenuine` holds for each.
* `PARSER_SOURCE_ENHANCEMENT` has no effect: `New` keeps the limits of the
  configuration only (parser.go:251-274), `ParserConfig` (290) leaves the pointer nil,
  which `EffectiveConfig` fills with the default, and `Parse` (488) states the default
  itself. API_GUIDE.md:47, CHANGELOG.md:146 and IMPLEMENTATION_GUIDE.md:75 say that it
  disables the enhancement.
* If no hop of `X-Forwarded-For` is public and untrusted, the right-most untrusted
  private one is taken (middleware.go:766); API_GUIDE.md:64 says `RemoteAddr` is. And a
  private client over a proxy is counted under a public address of its own choice.
* The client adds `/analyze` to the URL (main.go:249), for which the Go server has no
  route: `--url` with the server's base URL, as README.md:154 and the flag's help put
  it, ends with exit code 2; `/v1` has to be part of it. It sends no token, so that a
  production server refuses it with 401. The second run of the client in the `server`
  run shows both.
* The client's two modes differ on a diagram without rules: the server's answer
  carries an issue, so that `--fail-on-lint` ends with 1, while a local run drops it and
  ends with 0; `ExitCodeTruthful` leaves this case out of the comparison. An empty
  document is refused by the server (2) and a syntax error locally (1).
* `extractExplicitNodeDefinitions` (ast_enhancer.go:220) takes every identifier before
  a bracket for a node, inside labels too, although the scan for edges skips labels:
  a label with `f(x)` in two nodes makes `f` a duplicate node.
* A document can be parsed twice in a row if a request misses the cache before,
  and looks at the flights after, the leader's end (parser.go:504, 508).
* The leader publishes without `defer` (parser.go:549).
* `X-RateLimit-Reset` drops the fraction of a second (middleware.go:404), and a
  refusal for lack of room promises a reset after one window although stale
  windows stay for two (383, 458).
* `/v1/analyze/raw` is not among the paths of `isAnalyzePath` (middleware.go:638),
  so it is neither logged nor compressed, unlike the other analyze routes.
* Metrics and log line are not deferred: a request whose handler panics, and one
  whose CORS check panics because the halves of a wildcard overlap in its origin
  (middleware.go:625), appear in none of the records.
* The class and ER cycle rules may report fewer cycles than there are, since a
  later search that meets a stale `recStack` entry stops.
* `no-undefined-actors` cannot fire on parsed documents, since the extraction adds
  implicit actors as nodes (ast-sequence.ts).
* What `parseConfig` leaves is merged again by `NormalizeConfig`, in map order
  (rule.go:104-128). The client merges entries itself, the plain ID first.
* In the client a null entry of a rule that also has an entry under `core/` is a nil
  map that is assigned to (main.go:496): `ParseConfigFile` gives "panic".
* The client checks a configuration once (main.go:156) and gives it to the engine
  unnormalized; with two spellings of one option, one of them invalid, the check
  may read the one and the run the other, which then reports no issues
  (engine.go:95-99). `Configure` reaches "ignored" in this way.
* A selector of the wrong syntax is answered with `invalid_option`, since
  `ValidateOption` comes first; `invalid_suppression_selector`, of which
  docs/error-responses.md:171 speaks, cannot be answered.
* `rule:*` is accepted and hides nothing (engine.go:310); error-responses.md:179
  says it suppresses all issues.
* `node:A` hides every issue on a line where A stands (engine.go:357-373), so that with
  `A --> B` on one line it hides what was found about B; API_GUIDE.md:786 says "suppress
  issues associated with node".
* Handlers know no configuration of the eleven rules without metadata, whose
  entries they ignore with a warning or refuse; the client accepts them.

## 7. Plan

Done: the modules above, in the order of section 2. Next, in this order:

1. *Composition*: `HTTPServer` with `ParseFlight` and `WorkerPool` in place of the
   parser's results, so that a parse caught by `Parser.Close` is answered; it needs a
   coarser `HTTPServer` to stay within reach of TLC.
2. *The edge worker's rules and AST enhancement*, at the level of tokens.
3. *Theorems*: what the searches of the rules find, which asks for induction over
   graphs; the safety properties of all other modules are proved.

## 8. Not modelled

The check of plugin rule IDs concerns rules that are not there. AST enhancement scans
the characters of a document into positions and keeps no state; the rules that use its
result are in `Lint`, with the result as input. SARIF output, API documents and pages
are formatting, field by field. Histograms and the export of metrics are I/O, content
encodings and headers data no property is about. A run of the client without a server
is a sequence of calls in one goroutine. The benchmark runner is an offline tool. Of
`parse.ts` the extraction of the AST is left out, and that an abandoned parse shares
the state of the Mermaid library with the next one in its process; of the edge worker
its line parser, its own rules and the MCP route. Hints and the wording
of messages are data no property is about.
