# VelocityLLM: specifications, model checks and proofs

VelocityLLM is an LLM gateway written in Go. A request is admitted, looked up in the
caches, routed to a model, sent to a provider with retries and fallbacks, possibly
batched or run as a job, and its answer returned or streamed. This directory holds
TLA+ modules of the parts of the server that carry state between goroutines, the TLC
configurations that check them, and TLAPS proofs.

Paths are relative to the repository; `pool.go:150` is a line of the file that is being
talked about. `PROJECT.json` gives, for every definition, the lines it models.

* [1 The system](#1-the-system)
* [2 The modules and the code](#2-the-modules-and-the-code)
* [3 The runs](#3-the-runs)
* [4 Fairness](#4-fairness)
* [5 What the code does not live up to](#5-what-the-code-does-not-live-up-to)
* [6 Proofs](#6-proofs)
* [7 What is not modelled, and known weak spots](#7-what-is-not-modelled-and-known-weak-spots)
* [8 Plan](#8-plan)

## 1 The system

### 1.1 How it is put together

`src/cmd/server/main.go` connects to PostgreSQL, then creates one global object per part:
connection pools (database 5/20, Redis 3/10, HTTP 5/15), the request batcher (10 requests,
100 ms, 4000 tokens), the stream manager, the router with its health checker, the worker
pool (10 workers, 100 jobs, which makes 25 per priority and at most 20 workers), rate
limiter, backpressure handler (80 %, adaptive), metrics, Redis and the cache manager (both
optional), and the auth service. Then it serves HTTP. Every handler runs in a goroutine of
its own and calls these objects directly: they share memory and communicate by mutexes,
channels, atomics, PostgreSQL and Redis.

On SIGINT or SIGTERM one goroutine runs `worker.ShutdownGlobalPool()`,
`api.GetRouter().Shutdown()` (which shuts the stream manager down),
`database.Close()` and `os.Exit(0)`. The HTTP server itself is not shut down; requests may
arrive during and after each of these calls.

Some operations exist and are tested but nothing in the program calls them:
`RouteWithFallback`, `CircuitBreaker.Call`, `ResetAll`, `RequestBatcher.Close`,
`InitDistributedCache`, the rate-limit and backpressure middlewares, the distributed rate
limiter, the breaker of `backpressure.go`, `ValidateAPIKey`, the orchestrator of model chains,
`Collector.RecordError`, and everything in `worker/queue.go` and `worker/worker.go`. They are
modelled as their packages offer them.

### 1.2 The components

**Worker pool** (`internal/worker/pool.go`, `types.go`). *State:* four buffered channels, the
maps `workers` and `activeJobs`, one goroutine per worker with its status, heartbeat and
stop channel, the pool's context and a WaitGroup. *Operations:* `Submit`, `GetJob`, the
worker loop and `processJob`, `autoScale` every 30 s, `performHealthChecks` every
10 s, `Shutdown` with a limit of 30 s. *Hard:* each of these reads under one lock and acts
under another; a worker is stopped, starved, marked or orphaned between two steps.
*Correct when* a job is in one place and runs once, it can be found until its outcome is
known, the size keeps within its limits, stopped workers stop, and a shutdown drains.

**Connection pools** (`internal/optimization/connection_pool.go` with factories for
PostgreSQL, Redis, HTTP). *State:* a channel of idle connections, the list of all, a counter,
`closed`. *Operations:* Acquire (try, create, wait), Release, a health check every minute,
Resize, Close. *Hard:* list, counter and channel are updated at different times; the health
check closes what others hold. *Correct when* a connection has one user, none leaks, no more
than the maximum are open, and nobody waits for ever.

**Router** (`internal/router/router.go`, `algorithms.go`, `fallback.go`, `retry.go`). *State:*
the chosen algorithm, the round-robin index, the chain and attempts of each request.
*Operations:* `Route`, `RouteWithFallback`, `SetStrategy`, `ResetAll`. *Hard:* availability,
breakers and index each change between the steps of a request. *Correct when* a request
fails only after its fallbacks and retries, and no model is tried too often.

**Circuit breakers** (`circuit_breaker.go`). *State:* per model closed, open or half-open, two
counters, the time of the last failure. *Operations:* `Call`, i.e. `beforeCall`, the call,
`afterCall`. *Hard:* a result arrives in another state than the one the call began in.
*Correct when* the state agrees with the counters, an open circuit is left by a trial after
its timeout, and an outage ends.

**Model health checker** (`health_checker.go`). *State:* `healthMap`, the column `available` in
the database, one goroutine per check, `stopChan`. *Hard:* rounds overlap, each check decides
by the copy of the model that its round began with, database updates fail. *Correct when*
verdict and counters agree, map and database converge, and local models are left alone.

**Stream manager** (`internal/streaming/manager.go`, `types.go`). *State:* a registry of streams
under a lock, and for each stream a status, a context, a buffered channel. *Operations:*
create, send, broadcast, close, cancel, error, cleanup of idle streams, shutdown. *Hard:*
senders let go of one lock before they send, and four parties end streams. *Correct when* no
channel is closed twice or written to after, everybody who waits is released, and no
abandoned stream stays.

**Request batcher** (`internal/optimization/batcher.go`). *State:* pending batches by model, what
the loop has taken, goroutines that answer. *Hard:* Submit, loop and Close all start
batches. *Correct when* every request is in one batch of its own model, within the limits,
and gets one answer.

**Caches** (`internal/cache`: `memory_cache.go`, `multilevel_cache.go`, `manager.go`, `cache.go`,
`tags.go`). *State:* an L1 per process with a limit, recency order and TTLs; L2 and the sets of
tags in Redis. *Operations:* get with promotion of an L2 hit, set, delete, clear, warm, tag
and delete by tag, cleanup every minute. *Hard:* L1 and L2 are changed one after the other,
Redis may fail at either, and deletions cross promotions. *Correct when* L1 keeps to its
size, and a node serves what L2 no longer holds only for reasons that are known.

**Distributed cache and hash ring** (`distributed.go`, `consistent_hash.go`). *State:* an epoch per
node, a publish/subscribe channel, a ring per process, a registry with heartbeats in Redis.
*Operations:* the changes above with an announcement each, the subscriber, `AddNode`,
`RemoveNode`, the sync of the cluster, `Stop`. *Hard:* announcements are lost or late, a node
ignores its own, the epoch is raised by callers and subscriber at once, nodes die. *Correct
when* epochs never fall, an announcement that arrives repairs what it is about, and owners
depend on the nodes of a ring alone.

**Admission** (`internal/middleware`). *State:* a token bucket per user with the time of its last
use; a sorted set per user in Redis; a state, a counter and a time in a breaker; stored
responses. *Operations:* `Allow` of both limiters, the cleanup of idle entries,
`ShouldAcceptRequest`, `Allow`/`RecordSuccess`/`RecordFailure`, lookup and detached store of
the response cache. *Hard:* an entry is dropped under a request that holds it, clocks of
servers differ, atomics are stored outside the lock that guards them, slow stores overtake.
*Correct when* nobody gets more than the limit lets through, shedding is fair, the circuit
fits its counter, and responses are no older than their TTL and the time it takes to store
them.

**Auth** (`internal/auth`, `api/auth_handlers.go`, `oauth_handlers.go`, `apikey_handlers.go`).
*State:* users and API keys in PostgreSQL. *Operations:* registration, login through Google and
GitHub, creation, rotation, revocation, deletion and use of keys; login, refreshing,
change of a profile and of a password, deactivation of an account. *Hard:* each is a sequence of
statements without a transaction; checks lie apart from inserts, any statement may fail.
A login gives two signed tokens of which nothing is kept; a request shows a token, and the row of its
user is read. *Correct when* a name has one account, and so have an address and an identity
that their user has not written by hand, a key that was revoked stays so, and an account that was closed lets nobody in.

**Completions** (`api/completion_handlers.go`, `internal/worker/worker.go`, `internal/llm`,
`internal/metrics`). *State:* cached answers in Redis, the books of the collector. *Operations:* a
handler's completion (cache, provider, simulation), a job's (cache, route, provider, error),
`Record`, trimming, `Reset`, the reports. *Hard:* two kinds of actors, two ways to a provider and
two policies on failure share a cache and a collector. *Correct when* an answer fits its question
whoever stored it, and the books agree with themselves.

**Conversations** (`api/chat_handlers.go`, `database/chat_repository.go`,
`streaming/sse_handler.go`). *State:* a row with a title and a count, messages, the channel
between a simulated stream and its writer. *Operations:* send (load, save, ask, stream, save,
retitle), rename, delete. *Hard:* handlers overlap on one conversation, clients leave in the
middle of a stream, statements fail. *Correct when* a model is asked each question once, in
its context, and an answer follows its question.

**Older queues, chains** (`worker/queue.go`; `router/model_chain.go`, `model_composition.go`,
`orchestration.go`). Priority queues by name, a queue with a condition variable, a ring buffer;
steps that work on each other's output, and outputs of parallel models that are composed.
*Correct when* the best job comes first and no wake-up is lost; when no step's work is lost and
a composition says what a model said.

**The rest**: scoring, semantic cache, token buffer, database, configuration, the other HTTP
handlers, and the programs around the server (Python worker, MCP server, frontend).
`PROJECT.json` lists each with its status.

## 2 The modules and the code

| Part | Specification | TLC instance | Proofs |
|------|---------------|--------------|--------|
| what the worker pool promises | `JobLifecycle` | (refinement) | `WorkerPoolProofs` |
| worker pool | `WorkerPool` | `MCWorkerPool` | `WorkerPoolProofs` |
| connection pool | `ConnectionPool` | `MCConnectionPool` | `ConnectionPoolProofs` |
| circuit breaker | `CircuitBreaker` (operators) | through the router | `ModelRouterProofs` |
| router, chain, retries | `ModelRouter` extends `CircuitBreaker` | `MCModelRouter` | `ModelRouterProofs` |
| model health | `ModelHealth` | `MCModelHealth` | `ModelHealthProofs` |
| streams | `StreamManager` | `MCStreamManager` | `StreamManagerProofs` |
| batcher | `RequestBatcher` | `MCRequestBatcher` | `StructuresProofs` |
| L1 cache | `MemoryCache` (operators) | through the cluster | `CacheClusterProofs` |
| cache levels, tags, distributed cache | `CacheCluster` extends `MemoryCache` | `MCCacheCluster` | `CacheClusterProofs` |
| rate limiters | `TokenBuckets`, `SlidingWindow` | `MCGateway` | `GatewayProofs` |
| accounts, OAuth, API keys | `Accounts` | `MCGateway` | `GatewayProofs` |
| logins, tokens and what they let in | `LoginSessions` | `MCGateway` | `GatewayProofs` |
| response cache | `ResponseCache` | `MCGateway` | `GatewayProofs` |
| clients of providers | `Providers` | through the two below | |
| metrics collector | `Metrics` (operators) | through completions | `GatewayProofs` |
| completions of handlers and jobs | `Completions` extends `Metrics`, `Providers` | `MCGateway` | `GatewayProofs` |
| conversations | `Conversations` extends `Providers` | `MCGateway` | `GatewayProofs` |
| older queues | `JobQueue` | `MCStructures` | `StructuresProofs` |
| hash ring, registry of nodes | `HashRing` | `MCStructures` | `StructuresProofs` |
| load shedding, its breaker | `Backpressure` | `MCStructures` | `StructuresProofs` |
| chains and compositions | `ModelChain` | `MCStructures` | `StructuresProofs` |

The grain of all of them is the same. A step is what a goroutine does between two looks at
shared state: a critical section is one step, an unlocked read or a channel operation is
one step, a statement to PostgreSQL or a command to Redis is one step, and a `select` is a
choice among the cases that are ready. A goroutine is a value of a finite set with a program
counter. Time is what the code asks of it: a flag that says that a duration has passed, raised
by an action of its own, or a clock of a few ticks where a property compares times. The
outcome of I/O is a free choice. A closed channel, a nil received from it and a send that
panics are modelled, as panics are among the things the properties are about.

`MCGateway` and `MCStructures` put parts side by side that share no state: their initial states
choose a part, and only that part moves. A state of such a run is one of a single part, so
that the run explores the sum of the parts and not their product, and none of them is checked
against less than it would be alone.

In the component modules a few definitions stand directly before the one that models the
code and differ from it by one slip (a guard that is missing, a reset that is forgotten).
No behaviour uses them. `PROJECT.json` lists them under "mutants": each shows, put in place
of the definition it follows, that the property named there can fail.

**`WorkerPool`.** `sub[j]` is how far `Submit` has come: the entry in `activeJobs`, then the
context, then the non-blocking send, three steps. A goroutine is a number that is never
reused and `workers` maps ids to goroutines, so that the overwriting of a live id by
`addWorker` (`pool.go:150`) is visible. `WorkerLoop` … `FinishJob` are `runWorker` and
`processJob`; `ScaleUp`/`AddWorker` and `ScaleDown`/`RemoveWorker` are the decision and the
calls of `autoScale`, which lie apart: before it removes any it reads the status of one worker
after the other (`ScanWorker`), while they go on; `WorkerHeartbeat` is the ticker of the worker's
loop; `HealthTick`/`HealthRead`/`HealthMark` are the
snapshot, the read and the mark of `performHealthChecks`.

**`JobLifecycle`** is the view of a caller: new, submitted, waiting or refused, running,
finished. It has no queues and no workers. A job runs at most once, runs sooner or later
while the pool is open, and finishes if it runs. `WorkerPool` implements it under the
mapping `Phase`.

**`ConnectionPool`.** Connections are numbered by creation. `idle` is the channel, `allConns`
the list, `total` the counter. The lock is implicit except in `Resize`, which works on the
channel with the lock held: `Unlocked` is a guard of all steps that need the lock, and a
receive or send does not need it. The loop of Resize is one step per turn, its put-back is a
send of its own that waits for room, and on a closed channel it panics (`ResizePanic`) and lets go of
the lock. Statistics other than the number of connections are left out.

**`CircuitBreaker`** gives `BeforeCall` and `AfterCall` as functions of a record. **`ModelRouter`**
takes them in two steps with the call in between. `FilterHealthy` looks at one breaker per
step. `SmartFallbackChain` is the function of the same name with its three tiers, and `Among`
the loop that fills them.
`SelectByScore` stands for every scoring algorithm: any model may win.

**`ModelHealth`.** `check` holds the goroutines of overlapping rounds, with the copy of the
availability each began with (`saw`). Counters stop at their thresholds, as nothing
distinguishes larger values. `MarkAvailability` of `ModelRouter` is what this module does to
the database.

**`StreamManager`.** `registered` is the map, `closed` and `gone` say of which streams the
channel is closed and the context done. `SendEvent` is `Lookup`, `CheckStatus`, `Select`,
`GiveUp`, `CountEvent`. A broadcast goes through the same steps with the read lock held;
writers that wait keep new readers out, as `sync.RWMutex` does.

**`RequestBatcher`.** A batch is the sequence of its requests. `TakeOld` and `StartTaken` are the
two halves of `checkAndProcessBatches`, with the lock and without; `Answer` is one send on
a `ResultChan`; `Close` and `CloseSweeps` are the close of `stopChan` and the sweep.

**`MemoryCache`** is one critical section of `memory_cache.go` per operator, on the sequence of
entries in the order of their last use. **`CacheCluster`** gives every node such a sequence, and
every caller and every subscriber a `task`: `GetL1`, `GetL2`, `Promote`, `GetLegacy`, `AskOwner`
are a look-up; `WriteL1`, `WriteL2`, `DeleteL1`, `DeleteL2`, `ClearL1` a change;
`NextEpoch` and `Publish` its announcement, which reaches any subset of the nodes;
`Receive`, `LoadEpoch`, `SwapEpoch`, `Apply` are `handleEvent`. A tag's set is changed apart
from the values (`TagMembers`, `DeleteTagged`, `DeleteTag`; `SetTagged`, `AddTag`). Every step that
asks Redis may fail as the code lets it fail.

**`TokenBuckets`.** Tokens are counted in parts so that refilling keeps to integers. A caller looks
an entry up, and takes from its bucket in another step, between which cleanup may drop the
entry. `minute` and `granted` observe: they count the requests granted in one minute, and as a tick
may begin a new minute or stay in the old one, whatever holds of them holds of every minute.
**`SlidingWindow`** is the Lua script, with servers whose clocks differ and members that
are made of the clock.

**`Accounts`.** `job[h]` is the handler's place in its sequence of statements. `FindEmail`, `FindName`,
`CreateUser` are `Register`; `OAuthRedirectHandler` … `getUserInfo`, `FindLink`, `FindOwner`,
`LinkUser`, `FreeName` a login through a provider; `RotateRead`, `RotateRevoke`, `RotateCreate` are
`RotateAPIKey`. The unique columns are in `CreateUser` and `UpdateProfile`, as
the database enforces them. `UpdateProfile` is the one statement of `Service.UpdateUser`: what it may
write is any of the columns kept here but the number; `edited` observes that a user has written the
address or the identity.

**`LoginSessions`** is one account and the requests of its user. A token is its time of expiry, as
`ValidateToken` asks for nothing else that changes. `PresentRefresh`, `RefreshRead`,
`RefreshAccessToken` are `RefreshTokenHandler`; `Present` and `Look` the two looks of `AuthMiddleware`;
`ChangePassword` and `WritePassword` the read and the write of one operation. A logout is a `Read`.

**`ResponseCache`.** An answer is the moment at which its handler read the data; `Store` is the
goroutine with its own timeout. **`Providers`** has both ways to a model, `Complete` (handlers, by the
name of the model) and `Call` (job worker, by the provider of the table of
models), with the translation of names and every kind of reply. **`Metrics`** has `RecordRequest`, `RecordError`, trimming,
`Reset` and the reports as operators on the books: sums over the models, samples in the order of
their size, a page of the log by its positions. **`Completions`** composes the two: handlers
and jobs, one cache, one collector.

**`Conversations`.** `send[s]` is a handler: `LoadRow`, `LoadMessages`, `StampUser`, `SaveUser`, `CountUser`, `Ask`, one of
the streams `OpenAIStream`, `AnthropicStream` or the simulation (`Produce`, `WriteToken` over a
channel), `StampAssistant`, `SaveAssistant`, `CountAssistant`, `AutoTitle`. `GiveUp` is a client that leaves.
The messages are a set; `Stamp` takes the time by which they will be read (`InOrder`) a step before
`Insert` stores them. `Delete` marks the row, as gorm does, and nothing is kept from being stored after it.
There is one server with one clock, which does not go back, and two statements of one handler have
different times. The model that a conversation remembers is left out, as a question may name any.

**`JobQueue`** has the binary heap of `container/heap` with its sift up and down, whose loops are
functions of the number of rounds (`UpRound`, `DownRound`), the waiting queue
with `sync.Cond` (consumers asleep, awake, orphaned by a timeout) and the ring buffer. **`HashRing`**
keeps, as the code does, a sorted sequence of positions and a map from them to nodes, and each
process its own ring. `InOrder` is how it sorts: the k-th element is the one that has k
elements up to it. `GetNodes` walks the ring and keeps the places where it meets a node for the
first time. `SyncClusterState`, `HeartbeatExpires`, `StopProcess` are the registry, which is read in
any order.
**`Backpressure`** decides by what the pool's metrics last said (`usage`), and has the breaker as a state
machine whose loads and stores are single steps. **`ModelChain`** builds chains step by step with
every kind of step, transformation and outcome, and composes every order of answers.

## 3 The runs

`CHECK_DEADLOCK FALSE` is set throughout, because these systems do stop: every job is done and
the pool shut down, every stream ended, the batcher closed, the bounds used up. That nothing
stops *too early* is what the liveness properties are for.

| Run | Bounds | Distinct states | Shows |
|-----|--------|-----------------|-------|
| `PoolSafety` | 2 jobs of different priority, channels of one slot, 1 to 2 workers, 3 goroutines ever, more workers from 40 % of the slots, one health round before the third goroutine (`TickOrReuse`) | 2,144,251 | `JobPlacement`, `UnfinishedIsTracked`, `PoolSize`, `OutcomeStays`, `QuietAfterShutdown` |
| `PoolLiveness` | the same with more workers from 80 %, 2 goroutines and no health round | 60,174 | `StopIsObeyed`, `ShutdownDrains`, `ImplementsLifecycle` |
| `ConnSafety` | 2 clients, a channel of 1 connection, Resize to 2 and to 1 in any order, health check, Close, 3 connections ever | 496,940 | `ExclusiveUse`, `OpenIsReachable`, `CountHolds`, `AcquireReturns` |
| `RouterSafety` | 2 requests (symmetric), 2 models of different tier, one of them marked up and down, thresholds 2, 2 attempts, resets | 947,128 | `BreakersConsistent`, `OpenIsLeftByTrial`, `FailureIsExhaustion` |
| `HealthChecks` | a local model, a remote one with two overlapping checks, thresholds 2 | 67,224 | `VerdictAgrees`, `ViewsConverge` |
| `Streams` | 2 streams, channel of one event, one sender and one broadcaster, at most 2 connections | 202,488 | `EndsAgree`, `BroadcastIsSafe`, `SendReturns`, `AbandonedIsRemoved`, `ShutdownEnds` |
| `Batches` | 5 requests, one heavy and one for a second model, batches of 3 requests or 4 tokens | 60,672 | `BatchesAreWhole`, `AllAnswered` |
| `Cluster` | 2 nodes, 2 keys, 2 values, an L1 of one entry, a caller on each node, 3 calls | 572,374 | `EpochMonotone`, `StaleOnlyThrough` |
| `Gateway` | seven parts (symmetric), see below; a conversation as long as `FollowedChat` | 1,248,038 | `BurstBounded`, `WindowHolds`, `OneAccountEach`, `RevokedStays`, `FreshEnough`, `AnswersFit`, `BooksAgree`, `AskedOnce`, `ClosedForGood` |
| `Structures` | eight parts, see below | 207,908 | `QueuesServe`, `RingFollowsNodes`, `SheddingIsMonotone`, `StateFitsCount`, `OrchestrationCarries` |
| `GracefulShutdown`, `OutageEnds` | see section 5 | | each a statement of the repository that fails |

**Why the bounds are enough.** Two jobs and channels of one slot give a full channel, a job
that overtakes another, a worker that takes a job while a second one waits, and two workers
that finish together. Three goroutines with at most two workers give one removal and one
replacement: one queued job in two slots is above 40 %, so that the pool grows for the first job,
shrinks when the channels are empty and grows again for the second, and when the worker that
left had the lower id, the new one takes the id of the one that is there. That orphan and the
Shutdown that waits for it are among the states of the run. A health round finds a worker
idle, busy or stopped; `TickOrReuse` leaves out behaviours in which it comes beside a third
goroutine, to keep the run within its time. The proofs of section 6 hold for any numbers.

Two clients and a channel of one connection give the race of two creators, a connection that is
checked, resized away or closed under its user, and a waiter whose connection is discarded; a
Resize to two and back to one gives connections for which the channel has no room, which is
when the put-back of Resize waits for ever, and a Close beside it gives its panic.
Two models of different tiers give a chain with a fallback; two requests on one breaker with
thresholds of two give late successes, late failures and half-open circuits with two trials.
Two checks of one model give every order of two results; more checks only repeat it, as each
update depends on the counters alone. Two streams let a broadcast be stuck at one while the
other ends. Five requests let one model's batch fill, age, and be swept while the other's is
pending.

In `Cluster` an L1 of one entry makes every second key evict the first. Three calls are a change
on one node, a look-up on the other, and one that comes between them; a key that is in Redis
from the start can be promoted by the first call. In `Gateway`
the handlers, callers, requests and senders of a part are two interchangeable values, and

* the *buckets* have one tier of two requests, two callers and a clock of seven ticks, two to the
  minute, with cleanup after two: two buckets can be dropped, the second within the minute that
  is looked at, which is how a minute comes to grant all that `BurstBounded` admits;
* the *window* has two servers whose clocks differ by a tick, a window of three ticks, a quota of
  two and eight ticks, so that members leave the set and others take their place;
* the *accounts* have two handlers, three calls, one address in two spellings, a user who holds the
  name that others would like, and three profiles: Google, GitHub with a hidden address, and the
  profile that an error of GitHub becomes; three changes of a profile: the identity and address of
  somebody else, another name, and activation; two keys with a life of three half days or for ever;
* the *responses* have two requests, a path with two matching prefixes, one without and one that is
  skipped, TTLs of one and two seconds, a clock of four;
* the *sessions* have two requests of one user, tokens of one and two ticks, two passwords, and a
  clock of two ticks, so that a token can expire between the two looks of a refreshing;
* the *completions* have a handler and a job worker, three requests, a model of each provider,
  books of two samples, so that they are trimmed, and one type of errors without a request;
* the *conversation* has two senders, three questions, answers of one token over a channel of one,
  with and without keys for the providers. `FollowedChat` ends a behaviour when the conversation is
  renamed, which changes nothing but the title, and when the third question has its answer, as
  nobody reads the history after it.

In `Structures` the queues hold up to five jobs in a heap of three levels, three consumers wait,
the rings have three nodes of two positions that alternate, adjoin and wrap around, the shedder
sees its metrics jump between loads on both sides of every threshold, the breaker has three
clients and opens at two failures, chains have up to three steps of every kind, and three models
answer in every order with two texts or nothing.

**What the properties say** is stated beside each of them in the modules. Those that took
most work to get right, and that unit tests would hardly reach:

* `JobPlacement` relates the channels, the hands of the workers and the status of each job.
* `QuietAfterShutdown` holds although the map loses workers, because the WaitGroup counts
  goroutines and not entries; with a wait for the workers of the map (`DrainedByDoneChan`) it fails.
* `OpenIsReachable` and `CountHolds` say what survives of the pool's bookkeeping although
  more connections than the maximum may be open (section 5).
* `OpenIsLeftByTrial`: a success reported late does not close an open circuit.
* `ViewsConverge`: late checks write stale marks and updates fail, yet the map and the
  database come to agree with a provider that stays as it is.
* `BroadcastIsSafe`: `SendEvent` may panic on a channel that is closed under it; a broadcast
  cannot, thanks to the lock it holds.
* `BatchesAreWhole`: the loop and Close may both be at work on the map, and no batch is lost,
  answered twice, over its limits or of two models.
* `StaleOnlyThrough` is the converse of a list of defects: it says that the six ways in which a
  node comes to serve what L2 no longer holds are all there are, so that events that overtake each
  other, `Clear`, evictions and the epoch are not among them.
* `BurstBounded` gives the price of cleaning up entries that are in use: two requests for each
  caller but one, as each may draw on a bucket that had left the map when the minute began, and
  once more on the next one. That a caller has one such draw was stated here at first, and held
  up to four ticks; the proof broke down where it had to, and seven ticks refute it.
* `RevokedStays` rests on the update of `ValidateAPIKey` naming its columns: a save of the row that
  was read (`ValidateSave`) would bring a revoked key back.
* `ClosedForGood`: tokens live on after a deactivation and can be turned into others, two ways of
  getting new ones do not ask whether the user is active, and yet nobody comes in any more.
* `AskedOnce`: handlers on one conversation stamp their messages before they store them, so that a
  history need not be the beginning of the next one. That it is was stated here at first, of a
  model that appended; what is true is that no question is asked twice and that an answer has its
  question before it, in every prompt and by the times that are stored.
* `OneAccountEach` has to hold for accounts whose users leave their address and identity alone, beside
  others who write what they like into theirs.
* `BooksAgree` adds up costs and errors as the collector does, which files some models under no
  provider and counts some errors with no request.
* `AnswersFit` is about a cache that two kinds of actors share, one of which makes answers up.
* `NobodySleepsOnWork`, a part of `QueuesServe`, is the absence of lost wake-ups.

Every module states its types too (`TypeOK`, `ClusterTypeOK` and so on); they served while the
models were built, some are proved in section 6, and no run spends time on them. `FallbacksAreOthers`,
`L1Bounded` (proved in section 6), `LocalIsLeftAlone`, `StopQuiets` and `EndIsFinal` hold at the bounds above and are kept in
their modules beside the properties that the runs check.

## 4 Fairness

Safety runs use `Spec`. Liveness is checked under `FairSpec`, which assumes:

* *A goroutine that can run, runs*: weak fairness of its steps. The Go scheduler preempts.
* *A `select` takes a ready case sooner or later*: strong fairness of a case that is ready
  again and again (worker receives, stop and context cases, `stopChan`, `stopCleanup`). Go
  chooses uniformly at random among ready cases.
* *A lock is got sooner or later*: strong fairness of the steps of a client of `ConnectionPool`, since
  `sync.RWMutex` does not starve those who wait. A lock that is never let go is not got.
* *Calls return*: jobs have a deadline (`JobTimeout`), pings five seconds, provider calls the
  timeouts of their clients, a blocked `SendEvent` five seconds, `Acquire` its own timeout.
* *Clients release*: every caller of `Acquire` defers the release.
* *Time passes*: batches age, breakers' timeouts elapse, tickers tick, idle streams become
  idle unless events keep arriving.
* `ModelHealth` also assumes that the database does not fail for ever (strong fairness of the
  two updates); `OutageEnds` that requests keep coming, and that those that can go on do not all
  end instead: not every query fails, not every caller gives up, not every context is done
  before the first call (strong fairness of `GoesOn` for each stage of a request).

Nothing is assumed of callers of `Submit`, `Shutdown`, `Close`, `Resize`, of clients of streams,
or of providers. Where this keeps something from ending, the property says so: `AcquireReturns` has a
disjunct for a Resize that is stuck for ever (`ResizeStuck`).

## 5 What the code does not live up to

Each of the first two is a run that TLC ends with a counterexample; the quotations are in
`PROJECT.json`.

1. `GracefulShutdown`. `Shutdown` cancels the context, upon which workers leave with jobs still
   in the channels; it returns nil, and accepted jobs remain "queued" (`pool.go:573`).
2. `OutageEnds`. `filterHealthyModels` drops open circuits whatever their timeout
   (`router.go:208`), and only a call turns an open circuit half-open: once all are open,
   `Route` refuses for ever. The counterexample is this loop alone, a request that finds all
   circuits filtered out and the next one: with a filter that drops only the circuits that would
   refuse a call (`Refuses`) the run ends without an error.

The next three are stated in their modules, fail at small bounds (one priority and four goroutines;
three clients, one connection and `MaxCreated = 4`; a `Close`), and have no run of their own:

3. `WorkersWithinMax` (`WorkerPool`). `addWorker` takes `len(p.workers)+1` for the new id
   (`pool.go:150`). After a lower id was removed this overwrites a live entry; the goroutine goes
   on working, uncounted and unstoppable by the scaler, and more than `MaxWorkers` run.
4. `OpenWithinMax` (`ConnectionPool`). `healthCheck` closes and counts down a connection that is in
   use; its Release counts it down again (`connection_pool.go:230`), and one too many is opened.
5. `NoPanic` (`ConnectionPool`). `Acquire` and `Release` that passed the check of `closed` before
   `Close` run into the closed channel: a method call on nil, or a send that panics. `Resize` does
   not check `closed` at all and panics in the same way (`ResizePanic`, `connection_pool.go:369, 377`).

And these were met while the modules were written. The modules contain them, and the properties
say what remains true in spite of them:

* `optimization/connection_pool.go:377`: the channel keeps the capacity it was made with. When a pool
  has grown beyond it and shrinks again, a Release may take the last room while Resize holds a
  connection that it is to put back: the send waits for ever with the lock held, and so does all
  that needs the lock (`ResizeStuck`).
* `cache/multilevel_cache.go:81`, `cache/distributed.go:199`: a promotion that overlaps an invalidation
  puts the old value back into L1, although `Invalidate` "removes a key from all nodes". `Clear`
  passes an empty pattern to Redis and deletes nothing there. Tags delete in Redis only, and
  `Warm` and `SetWithTags` announce nothing.
* `cache/distributed.go:433`: a node that dies leaves the registry after 30 s, but no ring.
* `middleware/backpressure.go:285`: an `AllowHalfOpen` that comes late makes a closed or freshly opened
  circuit half-open.
* `auth/apikey.go:170-177`: `RotateAPIKey` goes on when the old key cannot be revoked; rotating a
  revoked key, or one key twice, makes new active keys; a key with less than a day to live
  becomes one that never expires.
* `auth/service.go:77, 154`: `Register` takes a query that fails for nobody; a login through a second
  provider takes the place of the link to the first; two logins of a GitHub identity whose
  address is hidden once and shown once end in two accounts.
* `auth/service.go:224-227`: a change of the profile takes out the keys "password" and "email" and leaves
  every other name of a column or of its field: "Email" and the identity can be written, so that two
  accounts may have one identity, or one address in different capitals, and the account can be
  made active or not by its user.
* `api/oauth_handlers.go`: `getUserInfo` does not look at the status of the answer, so that an error
  of GitHub becomes a user without a number.
* `auth/jwt.go:110`: a token may be renewed before it expires, whichever of the two kinds it is, so that a
  session can go on without end; a logout changes nothing, and a session ends by its token's expiry
  or with the account.
* `api/completion_handlers.go:225`: a handler caches simulated answers, and empty ones, for a day, and
  jobs that would have reported an error answer with them.
* `llm/openai.go:224`, `llm/anthropic.go:323`: nobody asks the scanner for its error; a stream that is
  cut off is stored as a complete answer.
* `api/chat_handlers.go`: a client that leaves during a simulated stream leaves a goroutine that waits
  for ever on a channel of ten; the automatic title overwrites a title that was given
  meanwhile; when the provider fails a question stays without an answer.
* `database/chat_repository.go:51-54`: "Messages deleted via CASCADE" says the comment; the rows have
  `DeletedAt` (`pkg/types/models.go:14`), so that the conversation is only marked, its messages stay,
  and a handler that has loaded it goes on to store a question and an answer.
* `database/chat_repository.go:28, 59`: messages are read in the order of the times they were given
  before they were inserted; two handlers may store them in the other order, so that a history that
  was loaded need not be the beginning of a later one, and equal times come in any order.
* `metrics/collector.go:139`: nobody calls `RecordError`; and the errors of the time series
  (`collector.go:376-386`) are those of the log, in which nobody writes one, so that they are always 0.
  A model whose name tells no provider is in the total cost and under no provider (`collector.go:227-232`).
  Of the models that `Seed` creates all have one; jobs that were not routed are booked without, at cost 0.
* `worker/queue.go:44`: jobs of one priority are not served in the order of their arrival, as the
  comment says, since nothing sets `SubmittedAt`. `queue.go:303-316`: a dequeue that timed out takes a
  later job and drops it.
* `router/model_chain.go:132-173`: a step that fails after its input was transformed passes the
  transformed input on, a template has nothing of the steps before one that was skipped or failed,
  and a chain whose last step fails has an empty output.
* `router/model_composition.go`: as every score is 1.0, *best score* and *weighted average* take the first
  that succeeded; ties of a vote are broken by the order of a map.

## 6 Proofs

`tlapm` proves the following for all values of the constants, from the assumptions named in
the component modules:

| Theorems about | Assumptions |
|----------------|-------------|
| worker pool | `JobsAssumption`, `SizeAssumption`, `ThresholdAssumption`, `PrioritiesAssumption` |
| connections, streams, health | `PoolSizes`; `StreamParameters`; `HealthParameters` |
| router and breakers | `Thresholds`, `RouterParameters` |
| cluster | `ClusterParameters`, `LevelOneParameters` |
| load shedding, batches | `BackpressureParameters`; `BatcherParameters` |
| queues, chains, rings | `JobQueueParameters`; `ModelChainParameters`; `HashRingParameters` |
| buckets, window, responses | `BucketParameters`; `WindowParameters`; `ResponseCacheParameters` |
| completions, conversations | `CompletionParameters`, `MetricsParameters`; `ConversationParameters` |
| sessions, accounts | `SessionParameters`; `AccountParameters` |

They only say what the code provides: the models of the router are listed once each, sizes and limits are positive, the minimum is not above the
maximum, an entry idles for a minute at least before it is dropped, sets that are counted or of
which there is one in the program (tiers, callers, servers, nodes, priorities, consumers, models of
the books, requests of a batcher) are finite and not empty where they must not be, and every caller has a node. The
table that the job worker takes providers from calls those models Anthropic's whose names say
so. Of the accounts: users who exist already have numbers, addresses and names of their own, as
the unique columns see to, and an identity shows one address or none. TLC evaluates all of
them in every run of their modules.

**`WorkerPoolProofs`** (of `WorkerPool!Spec`)

* `TypeCorrect` : `[]TypeOK`. `TypeOK` alone is not inductive: `AddWorker` would leave `Slots`. The
  invariant `TypeInv` adds `spawned + adding <= MaxSpawns`, which the bound in `ScaleUp` gives.
* `Placement` : `[]JobPlacement`. The inductive invariant `PlacementInv` splits it: channels keep
  to their capacity and hold each job once and under its own priority (`QueuesBounded`,
  `QueuedJobs`, `QueuesDistinct`); the job in a worker's hand fits its program counter and is
  in nobody else's (`HandMatchesPc`, `HeldJobs`, `HeldOnce`); an accepted job is somewhere
  (`NoneLost`); the status of a job fits the progress of its Submit (`StatusFollowsSub`);
  goroutines that were not yet started hold nothing (`FreshSlots`). Steps that touch neither
  jobs nor hands are dealt with once, in `PlacementFrame`.
* `Tracking` : `[]UnfinishedIsTracked`, a conjunct of `PlacementInv`.
* `OutcomesFinal` : `OutcomeStays`. Only `ProcessStart` and `ExecuteJob` could overwrite an
  outcome, and they work on a job in a worker's hand, which `PlacementInv` says has none.
* `QuietShutdown` : `QuietAfterShutdown`, from `QuietInv`: once Shutdown has seen the WaitGroup
  drained, no goroutine is live, none is started, the scaler and the health checker have
  nothing left to do.
* `RefinesLifecycle` : `Spec => Lifecycle!Spec`: every step of the pool is a step of the life cycle
  of one job, a Close, or a stutter.
* `SizeStays` : `[]PoolSize`. The property has the promises in it that make it inductive: what
  `autoScale` is still to add leaves the map within the maximum, and what it is still to remove leaves
  it with the minimum. A worker that overwrites a live entry makes the map
  no larger, and one that leaves of its own accord stays in it.

**`StreamManagerProofs`**: `StreamTypes`, `RegistryIsOpen`, `EndCancels`, `EndsAreFinal`,
`BroadcastsAreSafe`. What the registry says of streams is inductive, because whoever changes a
status takes the stream out of the map in the same critical section. `BroadcastsAreSafe` needs
`CallerInv`: all that a broadcast still has to visit is in the map, since removal needs the
lock the broadcast holds; hence no stream is closed under it.

**`ModelHealthProofs`**: `HealthTypes`, `VerdictsAgree`, `LocalModelsAreLeftAlone`. Each update
restores the agreement of verdict and counters whatever it finds (`BetterAgrees`,
`WorseAgrees`). `LocalModelsAreLeftAlone` is about the mark in the database only, as `updateHealth` does keep
a verdict on local models. It needs `LocalChecks`: a check of a local model reports just what its
copy said, and so never reaches the steps that write.

**`ModelRouterProofs`** (of `ModelRouter!Spec`): `BreakersStayConsistent` and `OpenIsLeftByTrialOnly`, from
the assumption `Thresholds` of `CircuitBreaker`. One lemma for each
critical section of a breaker: `BeforeCall`, `AfterCall` and `ResetBreaker` leave any sound
breaker sound, whoever calls them and in whatever state the call found it (calls that began
in one state of the breaker and end in another are the hard case). `StepTouches` says that a step
of a request changes breakers by these three operators only, so both theorems follow for
all interleavings without a case for each action. `FailuresAreExhaustions`, that is
`FailureIsExhaustion`, needs of the state only that each request is somewhere (`PcInv`); `Orderly`
goes through the steps and finds two that lead from a call to a failure, behind the guards that
the property asks for.

`RouterTypes` and `FallbacksStayOthers` rest on `ChainInv`: by where a request is, how much it has
(`Knows`). While it filters, what it has found and has still to look at is together no more than all
models, which is why the index that round-robin computes from its list is a position in the list
of all; a selected model is one; and a chain is a part of the models without repetition. The last
comes from the loops: `AmongIsPart` says of any selection from a list, by induction over its
length, that it is a part of the list, and `ThreeAreDistinct` that a model, another of one tier and
another of a second tier are three (`ChainIsDistinct`), whatever the database holds at that moment.

**`CacheClusterProofs`** (of `CacheCluster!Spec`): `EpochsNeverFall`, that is `EpochMonotone`. It needs to
know of every goroutine at `SwapEpoch` that what it will store is larger than what it loaded
(`Sound`); as the swap only happens when the epoch is still what was loaded, it raises it.
That what is stored is a number at all comes from the announcements (`News0`), which get it from
`NextEpoch`. All this is `EpochInv`, shown invariant by `SwapsRaise`. Nearly all steps only move a
goroutine on (`Quiet`), and one lemma serves them (`QuietIsSafe`); nothing is needed of L1, L2 or
tags.

* `CachesInOrder` : `[](EpochInv /\ CacheInv)`. A level in memory holds a key once (`Distinct`) and
  keeps to its limit (`LevelsFit`), and what a goroutine carries is fixed by where it is
  (`TasksFit`). The lemmas about `MemoryCache` say of each operation what it leaves, drops and keeps.
* `StalenessHasCauses` : `StaleOnlyThrough`. A repair is under way in one of four ways: an announcement in
  the inbox (`Queued`), one that is being applied (`Applied`), one that a caller has still to publish
  (`Told`), a value on its way to L2 (`Written`). Every step leaves the repairs of the
  others alone and its own where it was, hands it on or carries it out (`Carries`, `AppliedStays`,
  `ToldStays`, `WrittenStays`); a copy that becomes stale all the same is one of those that
  `Excused` lists (`Right`).
* `ClusterTypes`, `LevelsBounded` : `[]ClusterTypeOK` and `[]L1Bounded`, from the same invariant.

**`StructuresProofs`** (of the specifications named)

* `BreakerFitsCount` (of `BreakerSpec`), that is `StateFitsCount`. `BreakerInv` says more of an open circuit
  than the property: it has its failures even while one is being recorded, as the count is
  only reset together with the state. A closed circuit may be behind its count, but only while
  somebody holds the lock and is about to open it.
* `SheddingStaysFair` (of `SheddingSpec`), that is `SheddingIsMonotone`, for any thresholds, priorities and
  loads: it compares what is refused before a step with what is refused after it, at a load
  that is no lower, and needs that what the metrics report is a load.
* `BatchesStayWhole` (of `RequestBatcher!Spec`), that is `[]BatchesAreWhole`. A batch is in one of three kinds of
  places: pending for a model, taken by the loop, running. `BatcherInv` says that no request is in
  two places or twice in one (`NoneTwice`), that who is in a batch waits (`HeldWaits`) and who waits
  is in one (`NoneLost`), that batches are of one model (`PendingOfModel`, `SameModel`), and that a
  batch that still grows is below its limits, and one that runs was so before its last request
  (`WaitingBelow`, `RunningBelow`). Each step is then a request that arrives, batches that
  go from one place to another, or an answer.
* `QueuesKeepServing` (of `QueuesSpec`), that is `[]QueuesServe`, one invariant for each structure. `HeapsInv`: every queue
  is a heap, for any priorities and sizes. The loops of `container/heap` are followed round by round:
  a queue in the middle of `up` is a heap but for one position that may be too good for its parent
  (`Rising`), in the middle of `down` but for one that may be too bad for its children (`Sinking`), and
  as each round comes nearer to an end the last of them leaves a heap (`Rounds`). `WaitInv`: that no
  wake-up is lost is inductive as it stands, as every change of consumers or jobs counts for one
  (`AwakeAndAsleep`). `RingInv`: what lies i places behind the tail is the i-th last that was pushed.
* `OrchestrationKeepsCarrying` (of `OrchestrationSpec`), that is `[]OrchestrationCarries`. `ChainInv` says of a chain that
  runs that the text it will give to the next step has the work of all that succeeded, unless a template has
  lost it (`WorkGoesOn`); a step that is skipped, one that fails and each transformation keep that. `ParallelInv`
  remembers of a composition that it is one of those that the answers allow, and `CompositionsAre`
  says of those that there is one when a model gave a useful answer, that all but a concatenation are
  what some model said, and that a majority vote is what most said.
* `RingsFollowNodes` (of `RingsSpec`), that is `[]RingFollowsNodes`, for any nodes and hashes without collision. In the
  ring of every process the positions rise, are the hashes of its nodes and no others, and each maps to its node
  (`RingFits`); adding, removing and synchronising in any order keep that (`AddNodeFits`, `RemoveNodeFits`,
  `AddAllFits`). The rest is about one such ring: from the place that the binary search finds, the positions
  come in the order of their distance (`SearchIs`, `AroundIs`); so the walk meets the nodes in the
  order of their nearest position (`WalkIs`), and two sets whose elements correspond in order give
  the same sequence (`OrdersAgree`), here the places of the walk and the nodes by distance (`RingServes`).

**`ConnectionPoolProofs`** (of `ConnectionPool!Spec`, from `PoolSizes`), all safety properties of the pool:

* `PoolTypes` : `[]PoolTypeOK`, inductive as it stands.
* `UseIsExclusive` : `[]ExclusiveUse`. Counting is of no use to an induction, so `OnePlace` says of each two
  places that they hold different connections; a new one differs from all by its number
  (`OldNumbers`). Connections move in six ways only (`NothingMoves`, `HandIsEmptied`, `HandTakesNew`,
  `HandTakesFirst`, `HandIsReturned`, and the two hands of Resize), and each step is one of them.
* `CountAlwaysHolds` : `CountHolds`, from `CountInv`. A connection that is discarded twice is counted down
  twice and leaves the list once, so that the count can only fall behind.
* `NothingLeaks` : `[]OpenIsReachable`, from `ReachInv`: a hand that takes a connection is empty
  (`OthersAreFree`, `BackIsFree`), or what it held would be lost.

**`GatewayProofs`**, a section for each part and its specification

* `ClosedStaysClosed` (of `SessionsSpec`), that is `ClosedForGood`. With a closed account and nobody in, `NobodyEnters`
  goes through the steps of a request: all of them lead elsewhere, and `Look` turns away. Only types
  are needed besides (`SessionTypes`).
* `BurstsAreBounded` (of `BucketsSpec`): `[]BurstBounded`. `Overdraft` is what was granted in the minute, with
  what may still be drawn on buckets that have left the map, over two for each caller but
  one. While there is an entry it comes from the entry's full bucket and what that gained since
  (`UsedAndLeft`), and somebody has let go of older buckets (`SomeoneInTime`). The entry that is dropped
  was idle, so that whoever drew on it in this minute is still to touch it, and there is no
  overdraft left (`IdleHasSpare`, `GoneHasSpare`). This is why the bound is two full buckets and no more,
  however often entries are dropped.
* `WindowAlwaysHolds` (of `WindowSpec`): `[]WindowHolds`. The set is within the quota, and who passed is
  remembered in it for a window less the skew of the clocks (`WindowInv`); so those who pass in such
  a window are in the set together when the last of them does.
* `CacheStaysFresh` (of `ResponsesSpec`): `[]FreshEnough`. `ResponseInv` follows the age of an answer from the handler
  that read it (`HandlersInTime`) over the detached write (`AnswersYoung`) to the entry, which ends in time
  whichever of two writers comes last (`EndsInTime`).
* `AnswersAlwaysFit` (of `CompletionsSpec`): `[]AnswersFit`. What is cached fits its key, whoever stored it
  (`CacheFits`), and what is on its way its question (`WorkFits`); the two ways to a provider,
  by the name of the model and by the table, fit together (`CompletionInv`).
* `BooksStayInStep` (of `CompletionsSpec`): trimming and `Reset` keep the three arrays of the collector in step by position
  (`InStep`), no request is booked twice, and no model has more failures than requests
  (`FailuresAreRequests`). `BooksInv` adds that the numbers of requests are below the next one and
  differ, and that one still to be booked is not in the books. It is the part of the invariant that
  is about the arrays.
* `BooksAlwaysAgree` (of `CompletionsSpec`): `[]BooksAgree`. `SumsAgree` is the other part: every total is the sum over the
  models, where one count is raised at a time (`RaisedSum`); that of errors also has those that came
  without a request, by type. What the reports give is then a
  matter of the books as they are: the costs by provider, with those of the models that have none
  (`Nobodys`), are those by model in groups, a
  percentile is a sample at a position that rises with it, a bucket of one time is one request,
  and a page of one is one entry of the log.
* `EachAskedOnce` (of `ChatSpec`): `[]AskedOnce`. `ChatInv` says of every handler what it has loaded and stored so far
  (`SenderOK`): until it stores its question no message is of its call, from then on the question is
  there (`QuestionStored`), and a handler that is to store its answer has a later time for it
  (`AnswerDue`). No two handlers have one call (`CallsDiffer`), and every stored answer has its question at an
  earlier time (`AnswersStored`), which is why it comes later in every order by these times
  (`HistoryOK`). Nothing of this asks whether the conversation is still there.
* `OneAccount` and `RevokedForGood` (of `AccountsSpec`): `[]OneAccountEach` and `RevokedStays`. Rows are numbered from 1
  without gaps (`Numbered`), so that a new one is new; an identity that shows an address belongs to the
  account of that address, also in the hands of a handler that found it some statements
  earlier (`Belongs`, `JobsInv`). All this is said of users who have not edited their rows; `UpdateProfileStep`
  shows that what others write, while it passes the unique columns, disturbs none of it. No step changes a row of a key but to put it to sleep
  (`KeysSleepOn`).

Some of these rest on facts about all sequences or all finite sets: the tokens of a batch, the samples that
trimming leaves, sums over models, the rounds of a loop, the sorted ring. They are proved with
`Induction`, which takes a set of numbers instead of a predicate and needs no more than that `<` is
well-founded (`NatLessThanWellFounded`); `Recursion` and `Throughout` are what it says of a function
that is defined from each value to the next. Recursion is written as such functions in all
modules, and what is sorted or selected is said by counting, where the prover knows nothing of
`SelectSeq` and `SortSeq`.

**Only model-checked.** Every invariant and every action property that a run checks is proved. What stays
with TLC is liveness under fairness, which needs ENABLED: `StopIsObeyed`, `ShutdownDrains`,
`AcquireReturns`, `ViewsConverge`, `SendReturns`, `AbandonedIsRemoved`, `ShutdownEnds`, `AllAnswered`, and the fairness
part of `ImplementsLifecycle`, of which `RefinesLifecycle` proves the safety part.

## 7 What is not modelled, and known weak spots

Within the modelled parts: statistics, on which nothing decides; payloads, prompts and the text of
answers; scores; back-off lengths; roles, scopes and teams; a profile that overwrites the id of its row; logging. The pool's
global pointer and its lock. A second `Shutdown`, `Close` or `Start` of one object (each closes a
channel twice and panics; the program makes each call once). Write-behind of the cache, which
no configuration turns on. `ConditionalRoute` and `ModelExecutor` of the orchestration, the
`StreamComplete` of the providers, which nobody calls.

Whole parts:

* *Semantic cache* (`cache/semantic_cache.go`) and *scoring* (`router/scorer.go`, `complexity.go`) compute
  with floating-point numbers over texts and vectors, which TLA+ cannot. What they decide (which
  entry, which model) is a free choice where other modules depend on it.
* *Token buffer* (`streaming/buffer.go`): one goroutine, used by nothing.
* *Database*: queries through an ORM. The statements that belong to a handler with several are steps
  of `Accounts`, `Conversations` and `ModelHealth`.
* *The other HTTP handlers* decode a request, call one operation of a part that has a module, and
  encode its answer; `CacheClear` and `CacheWarm` do nothing.
* *Server start and shutdown*: a sequence of calls that ends in `os.Exit`. Each shutdown it calls is
  an action of its part's module. Requests in flight are cut off by the exit.
* *Configuration, logging, types*: no state that changes. *Python worker*, *MCP server*, *frontend*:
  other programs.

The hazards of the code with the properties that cover them are listed in `PROJECT.json`.
Besides those, reading the code for the models brought up the following. The first are covered by
a property and are smaller than those listed; no property is about the others, because nothing in the
repository says what should happen, or because only statistics are concerned.

* `worker/pool.go:215`: stop and ctx cases compete with ready channels in a random select.
  (`StopIsObeyed`, `ShutdownDrains`)
* `worker/pool.go:440`: health read and mark are separate locks: the mark lands on a worker
  that is idle or busy again. (`JobPlacement`)
* `worker/pool.go:109`: full channels refuse while other channels are empty.
  (`ImplementsLifecycle`, `JobPlacement`)
* `worker/pool.go:361`: half the distance to the limit, truncated, at least one.
  (`PoolSize`)
* `router/retry.go:72`: every attempt refused by an open circuit is waited out and retried
  like a failed call. (`FailureIsExhaustion`)
* `router/router.go:244`: SetStrategy replaces the algorithm while requests run, without a
  lock. (`FailureIsExhaustion`)
* `streaming/manager.go:216`: a broadcast sends to every stream while others close, cancel
  and clean them up. (`BroadcastIsSafe`, `EndsAgree`)
* `streaming/types.go:207`: EventChan is full and nobody reads from it. (`SendReturns`)
* `streaming/manager.go:191`: a stream that is cancelled or in error never gets its channel
  closed: only the context tells its reader. (`EndsAgree`)
* `streaming/manager.go:363`: Shutdown waits for a cleanup goroutine that itself waits for
  the lock. (`ShutdownEnds`)
* `optimization/batcher.go:100`: limits are looked at after the request that reaches them
  was added: a batch ends at or above MaxTokens, never below (types.go:70 says "Max tokens
  per batch"). (`BatchesAreWhole`)
* `optimization/batcher.go:158`: a batch of one is answered by another path than a batch of
  many. (`AllAnswered`, `BatchesAreWhole`)
* `worker/pool.go:202`: four channels in one select: under load a low job overtakes critical
  ones, against the comment at pool.go:200. (the select of Go is random by definition, so
  there is no order to check; the model keeps the choice open in WorkerTake)
* `worker/pool.go:96`: a refused job keeps its activeJobs entry and "queued" status for
  ever. (the model reaches it (SubmitSend leaves active alone); nothing in the repository
  says what GetJob owes for a refused job, so the tracking property is about jobs that are
  not refused)
* `worker/pool.go:307`: a completed job is deleted from activeJobs before a client can read
  its result, although cache_handlers.go:72 tells the client to ask for its status. (holds
  in no run: the model shows the deletion in FinishJob, and the stated property ends at the
  outcome (UnfinishedIsTracked))
* `optimization/connection_pool.go:201`: createConnection does not look at p.closed: a
  connection created after Close stays open until its Release. (OpenIsReachable stops at
  Close; the model reaches the state, and the repository promises "closes the pool and all
  connections" (connection_pool.go:320))
* `optimization/connection_pool.go:211`: a created connection is counted active twice and a
  discarded one never uncounted. (ActiveConnections is only reported, and no statement of
  the repository says what it should be; it is left out of the model)
* `optimization/connection_pool.go:103`: canCreateConnection and createConnection are two
  critical sections. (`CountHolds`)
* `router/fallback.go:191`: a mid-tier or budget primary falls back to the second of the
  other models of its tier: with one other there is none. (fallback.go:194 says "Primary is
  mid-tier → fallback to other mid-tier then budget"; SmartFallbackChain in the model does
  what the code does, and FallbacksAreOthers says only what the chain may not contain)
* `router/circuit_breaker.go:95`: a half-open circuit lets any number of trial calls
  through. (no limit is stated anywhere; the model lets them all through)
* `router/health_checker.go:121`: Stop while a tick is due: the select may choose the tick.
  (StopQuiets in ModelHealth states that the loop does end; it is left out of the runs, as
  it only restates the select)
* `router/health_checker.go:160`: the database marks a model available after one good ping,
  healthMap after successThreshold: Route uses a model that healthMap calls unavailable.
  (health_checker.go:45 says "Successes before marking available"; the model has both marks,
  and ViewsConverge asks only that they agree in the end)
* `router/health_checker.go:110`: a second Start after Stop finds stopChan closed, and its
  loop returns at once. (nothing in the program starts a checker twice)
* `streaming/manager.go:364`: a second Shutdown closes stopCleanup again and panics. (the
  model calls Shutdown once)
* `streaming/manager.go:74`: CreateStream still succeeds after Shutdown, and no cleanup will
  ever remove the stream. (AbandonedIsRemoved excuses streams once the cleanup goroutine has
  returned)
* `streaming/manager.go:163`: ActiveStreams is lowered only by CloseStream: streams that are
  cancelled, fail or are cleaned up stay counted. (metrics are not modelled)
* `streaming/sse_handler.go:176`: Close sets closed before WriteDone, which then refuses:
  the final message is never written. (the SSE writer is sequential and not modelled)
* `optimization/batcher.go:344`: Submit still accepts requests after Close, and no loop will
  look at their batch: they wait until others fill it. (AllAnswered excuses a request that
  comes after Close; no caller of Close exists in the program)
* `optimization/batcher.go:337`: a second Close closes stopChan again and panics. (the model
  calls Close once)
* `optimization/batcher.go:56`: TotalRequests is raised after the batch may have been
  processed: AvgBatchSize is computed from a count that lacks it. (statistics are not
  modelled)
* `optimization/batcher.go:319`: TotalRequests and TotalBatches are raised atomically
  without statsMu, and copied under it. (statistics are not modelled)
* `cache/memory_cache.go:44`: a full L1 evicts somebody even when the key it is to store is
  there already.
* `cache/distributed.go:511`: without Redis nobody closes subscribeDone: Stop waits the
  whole five seconds.
* `middleware/rate_limiter.go:132`: the bucket keeps the limit of the tier it was created
  for, whatever tier later requests name.
* `middleware/rate_limiter.go:114`: 1/refillRate is truncated to whole seconds before it
  becomes a Duration: above 60 requests a minute a refused client is told to retry after 0
  s.
* `middleware/distributed_rate_limiter.go:94`: while Redis fails every request is allowed,
  however many there are.
* `middleware/backpressure.go:317`: successes while closed do not reset the failures:
  failures far apart add up and open the circuit.
* `auth/service.go:180`: the free user name that was found may be taken when the user is
  created.
* `worker/pool.go:642`: the global lock is held for the whole shutdown of up to 30 s: every
  handler that asks for the pool waits. (the model has one pool and no global)
* `worker/types.go:443`: two jobs created at the same nanosecond reading share an id, and
  one entry of activeJobs. (the model takes ids to be unique, as the code means them to be)
* `router/router.go:419`: two first requests may both find no global router and make two.
  (InitGlobalRouter runs before the server listens)
* `router/model_chain.go:102`: statistics of a shared chain are raised by concurrent
  requests without a lock. (statistics are not modelled)

## 8 Plan

The modules were built in the order of their weight in the program: pool, connections, router and
breaker, health, streams, batcher; then caches, admission, accounts, completions and
conversations, and last the structures that nothing calls. What is left:

* An abstract cache that may forget and be late, of which `CacheCluster` is shown to be one, so that
  the ways of `StaleOnlyThrough` become the steps of a specification.
