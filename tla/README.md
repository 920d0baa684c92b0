# A TLA+ verification project for grelmicro

grelmicro is a Python toolkit of building blocks for microservices that run as
several replicas: distributed locks, leader election, scheduled tasks, a
transactional outbox, circuit breakers, rate limiters, caches, idempotency,
health checks, and the glue that configures and observes them. The code under
`src/grelmicro` keeps its shared state in Redis, Postgres, SQLite, Kubernetes
Leases or process memory, and runs on asyncio with bridges for worker threads.

This directory holds TLA+ models of the parts whose correctness depends on the
order in which replicas, coroutines, threads and backends take their steps, the
TLC configurations that check them, and theorems that TLAPS checks for every
value of the constants. `PROJECT.json` is the index: components, runs, the
definition-to-source map, mutants, findings, hazards and theorems.

## 1. Inventory

| component | state | operations | interacts with | what is hard | what makes it correct |
|---|---|---|---|---|---|
| lock backend (`coordination/_protocol.py`, `_base.py`) | per name: holder token, expiry, fence | acquire, release, locked, owned | used by `Lock`, `TaskLock` | expiry at any moment | a live lease is never displaced; every free-to-held step climbs the fence |
| lock adapters: memory, Redis, Postgres, SQLite, Kubernetes | dictionary, keys, row, Lease | the same on a store | providers, the store | stale `NOW()`, split transactions, cancelled statements, optimistic writes, rounding | they refine the protocol |
| `Lock` (`lock.py`, `_tokens.py`) | held markers of tasks and threads | acquire, acquire_nowait, extend, release, from_thread | a lock backend | lost answers, orphaned requests, recycled ids, timeouts | distinct fencing tokens, markers agree with the lease, waiters progress |
| `TaskLock` (`tasklock.py`) | acquired_at, token nonce, config | enter, refresh, exit, reconfigure | a lock backend, scheduled tasks | an exit re-acquires for the rest of the hold; late requests | two runs are `min_hold_duration` apart |
| `LeaderElection` | is_leader, state_updated_at, last confirmation, condition | renew loop, is_leader, lead, wait_*, stop | leader backend, tasks | late answers, timers, missed notifications | one leader at a time, fail-over, work stops in time |
| leader election adapters | record: holder, expiry, transitions | acquire_or_renew, release, get | stores | a clock read before a lock; read-modify-write and skewed clocks on Kubernetes | a lease changes hands only after its end or a release |
| outbox (`_component`, `_relay`, `postgres`) | rows: state, attempts, available_at, dedup_key; deliveries in flight | publish, claim, deliver, settle, redrive, purge, drain | the caller's transaction, handlers | leases overrun by slow handlers, late settles, crashes, dedup against uncommitted rows | at least once, bounded runs, fenced settles, nothing lost |
| `CronTask`, schedule adapters | last_fired; loop position | tick: read, claim, run, drop | schedule backend, sync locks | several workers, catch-up, grace, crashes | at most one outcome per fire, no backlog, missed fires replay |
| cron expressions | fields | next_after, previous_or_equal | `CronTask` | calendars, DST | agree with a reference search |
| `IntervalTask`, `Tasks`, router | task handles, stop event | add, include, start, loop, drain | locks, elections | shadowed cancellation, start-up order | every task stops, every round reports once |
| circuit breaker | entry: state, counters, opened_at, cool_down, probe slots, lifetime | try_acquire, record_outcome, isolate, reset | four stores | outcomes of old calls, lost probes, lifetimes | bounded probes, recovery, operator holds |
| rate limiter | buckets, GCRA times | acquire, peek, wait, reset, reconfigure | four stores | clocks read early, eviction, rounding | never above the ideal bucket |
| idempotency | response and fingerprint records | enter, replay, run, persist | lock, cache | two records with two lifetimes, cancellation | one execution per key, a replay answers the same payload |
| cache | entries, tags, tracked keys, per-key locks | get, set, delete, delete_tags, cached, refresh | lock, stores | stampedes, evicted locks, indexes that lag | one computation per key, no older value over a newer, no tagged entry missed |
| bulkhead | semaphore, scopes, thread pool | enter, exit, run_sync, reconfigure | app, providers | leaked permits, swap under running calls | permits are conserved |
| shield | adaptive rate, retry budget, latency window | call, admit, report, recover | retry, timeout, cache | feedback loops | the gate keeps its rate, retries their budget |
| retry, backoffs, fallback, timeout, match | attempt counter, deadline | call | everything | composition of four policies | attempts and time bounded |
| app, components, providers | registries, exit stack, shared pools, process globals | use, enter, exit, override | all components | partial start-up failure, borrowed pools, two apps | what a component uses is open, what was entered is exited |
| configuration | snapshot, mounted data | reconfigure, poll, apply | all components | a mount swapped under the reader | polls converge on what is mounted |
| health | cached results, runs in flight | add, run, readyz | providers | joined and cancelled runs | one execution shared, nobody left waiting |
| logging | duplicate filter table | filter | all threads | times out of order, eviction | a flood is let through again |
| framework integrations | middleware stack, captured request and response | install, call | app, idempotency | order of middlewares, streams that break off | whole responses only, bodies intact, all inside the binding |
| metrics, trace, clientip, clock, testing, helpers | reporting or none | | | | not a subject of these models |

`PROJECT.json` lists under `hazards` each place of the code where something can go
wrong that a test would hardly reach, with the properties that would catch it.

## 2. Plan

Done:

1. `LockBackend`, the abstract protocol, and the five adapters that refine it.
2. `Lock` on top of the abstract protocol, `TaskLock` with its own clock.
3. `LeaderElection`, `Outbox`, `CronTask`, `CircuitBreaker`.
4. Proofs for `LeaderElection`, `Lock`, `Outbox`, `CircuitBreaker`.
5. `LeaderAdapters`: the four leader backends, skewed clocks included.
6. `Tasks` and `Config`; with `CronTask` in the suite `MCTasks`.
7. `RateLimiter`, `Policies`, `Bulkhead`, `Shield`, `Health`, `DuplicateFilter`; with
   `TaskLock` in the suite `MCPolicies`.
8. `CacheStore`, `TTLCache`, `Cached`, `Idempotency`, `Http`, `Install`, `App`; in the suite
   `MCStores`.

9. Theorems about the components of the three suites: `StoreProofs` (`CacheStore`,
   `TTLCache`, `Idempotency`, `Cached`, `Http`, `Install`, `App`), `PolicyProofs` (`Bulkhead`,
   `Health`, `Shield`, `RateLimiter`, `TaskLock`, `Policies`, `DuplicateFilter`), `TaskProofs`
   (`CronTask`, `Tasks`); and the markers of `Lock` and the budget and duplicates of `Outbox`.
10. `LockAdapterProofs`: the refinement of `LockBackend` by all five lock adapters and
    `LeaseIsKept` of `LeaderAdapters`.

Left, in this order:

11. `LeaderElection` over `LeaderAdapters` in place of the atomic record.
12. The keyed circuits of the circuit breaker with their eviction and reconfigure.
13. `CronExpression`: the search for the next and previous fire against a
    definition by quantifiers on a small calendar.

## 3. Modules

Coordination and outbox:

| module | models | state and actions |
|---|---|---|
| `LockBackend` | what a backend promises for one name | holder, live, fence, last reply; `Mint`, `Extend`, `Refuse`, releases, `LeaseLapses`, `BackendVacates` |
| `MemoryLockAdapter` | lock half of `coordination/memory.py` | the two dictionaries, a clock; acquire, release, open, close |
| `RedisLockAdapter` | lock half of `coordination/redis.py` | lock key with TTL and fence, counter key; the two scripts |
| `PostgresLockAdapter` | lock half of `coordination/postgres.py` | the row and, per caller, a statement with the `NOW()` of its start; acquire, release, cleanup |
| `SQLiteLockAdapter` | lock half of `coordination/sqlite.py` | committed row, the open transaction's draft, the writer, the queue of each connection's thread; begin, upsert, commit, rollback, cancel |
| `KubernetesLockAdapter` | lock half of `coordination/kubernetes.py` | the Lease with its version; get and put of each client under its own clock reading |
| `LeaderAdapters` | leader half of the four adapter files | the record, its version, one call per worker; one-step adapters, the Postgres transaction that waits for its advisory lock, the Kubernetes get, decide, write, re-read and delete, with clocks that differ |
| `Lock` | `coordination/lock.py` over `LockBackend` | markers, requests in flight, orphaned requests, handles |
| `TaskLock` | `coordination/tasklock.py` | backend record with expiry, acquired_at and nonce per object, requests; an explicit clock |
| `LeaderElection` | `coordination/leaderelection.py` over an atomic record | lease, ages, calls in flight, bodies under `lead` |
| `Outbox` | `outbox/` | rows, jobs (deliveries), relays |

Background work and configuration:

| module | models | state and actions |
|---|---|---|
| `CronTask` | `task/_cron.py` and the schedule adapters | last_fired, loop position of each worker |
| `Tasks` | `task/_tasks.py`, `router.py`, `_interval.py` | the lists, the start one by one, the drain, and per task where its round is, which locks it has entered and what is on its way out |
| `Config` | `_config.py`, `config/_external.py`, `config/file.py` | what is mounted, what the pass has read of it file by file, the merged data, the running configs |

Policies around a call:

| module | models | state and actions |
|---|---|---|
| `CircuitBreaker` | `resilience/circuitbreaker/` | the stored entry with relative times, calls inside |
| `RateLimiter` | `resilience/ratelimiter/` | one entry in one of five stores (Redis, Postgres, SQLite, memory on the event loop, and the memory bucket that threads call), callers with the time they read, a count of what was granted since a moment |
| `Policies` | `resilience/retry.py`, `backoffs/`, `fallback.py`, `timeout.py`, `_match.py` | a call with its attempt, deadline and delay in four styles; the matchers as sets of outcomes |
| `Bulkhead` | `resilience/bulkhead.py` | semaphores of the states published so far, scopes per task, opening of `uses=`, the executor |
| `Shield` | `resilience/shield/` | per state gate, budget and estimator; a call with its attempts, backoff, cache recovery |
| `Health` | `health/_checks.py`, the health routes | per name last result and run in flight, per request a task per name, abandoned threads |
| `DuplicateFilter` | `log/_dedup.py` | the table in order of use, the next sweep, threads with the time they read |

Stores and applications:

| module | models | state and actions |
|---|---|---|
| `CacheStore` | the four cache backends | entries with expiry and the tag index in two directions; set, delete, delete_tags, expiry, sweep, close |
| `TTLCache` | `cache/ttl.py` | tracked keys in order of use, values and reserves, the request each caller waits for |
| `Cached` | `cache/cached.py`, `_stampede.py` | value and reserve as versions of the source, guard table and lock objects per process, the distributed lock, calls |
| `Idempotency` | `idempotency/` | two records with expiry, local locks, distributed lock, blocks |
| `Http` | `IdempotencyMiddleware` of `integrations/fastapi.py` | requests message by message, the copy of the response, stored responses |
| `Install` | `install` of `integrations/fastapi.py` | the middleware list, the wrapped build, lifespans, what `current()` gives |
| `App` | `_app.py` | items, registry, exit stack, borrowed and owned pools, process globals, overrides |

`Subsequences` has the two loops over lists that several modules share: what a
comprehension keeps, and what an accumulation comes to.

`LockProofs`, `LeaderElectionProofs`, `OutboxProofs` and `CircuitBreakerProofs` hold
theorems about the module of that name, `LockAdapterProofs` about the five lock adapters and
`LeaderAdapters`; `StoreProofs`, `PolicyProofs` and `TaskProofs` about the components of the
three suites. `StoreComponents` and `PolicyComponents` give these components variables
of their own (`Store`, `Blocks`, `Limiter`, `Leased` and so on) and state what they promise;
an MC module extends them to check it on a small instance, a proof module extends them to
prove the very same definition for every value of the constants. `MCTasks` and
`MCLockAdapters` leave all their constants to the configuration, so the proof modules extend
them as they are. `MCLockAdapters`, `MCLock`,
`MCLeaderElection`, `MCOutbox`, `MCTasks`, `MCPolicies` and `MCStores` are instances for
model checking: a choice of component or regime, and bounds across actions.

Each lock adapter instantiates `LockBackend` (`LB == INSTANCE LockBackend WITH ...`)
with a refinement mapping: `holder` is the stored token, `live` says that its
expiry has not passed on the backend's own clock, `fence` is the highest token
handed out, `reply` is the last answer. `Implements == LB!Spec` is then checked
as a property. `Lock` EXTENDS `LockBackend`, so what is shown about `Lock`
holds over every adapter that implements it. `Http` takes the block of
`Idempotency` by its promise, and `TaskLock`, `Cached` and `Idempotency` take a lock by
the promise of `LockBackend`, expiry included.

A call to a backend is three steps wherever the difference matters: the caller
sends it, the backend serves it, the caller resumes. A caller that gives up
(timeout, cancellation, error) may leave its request behind as an *orphan* that
is served later or never. Code between two awaits is one step, as on the event loop;
code that worker threads run is split where another thread can come in. Only one name,
topic, schedule, circuit or cache key is modelled at a time where the code never relates
two of them.

Names follow the source (`acquire`, `do_exit`'s `Remaining`,
`is_renew_deadline_reached`, `_resolve_state_ttl`, `next_after`). Operators
whose name adds a word to another one defined right below them
(`NextFenceStale` above `NextFence`) are the mutated forms that show a property
to be sensitive to the code; no specification uses them.

## 4. Runs

Deadlock is checked except where a bound on the clock, on fences, on
transactions, on calls or on fires ends the run (`CHECK_DEADLOCK FALSE`).

Components that can share a run do: an MC module chooses at the start which of them, or
which regime, a behaviour is about, and the others stand still. The states of a run are
the sum of those of its components, and a component that stands still keeps its promise
trivially.

### lock_adapters (`MCLockAdapters`)

Two callers on one of the five lock adapters or one of the four leader adapters.
`Implements` (Postgres) and `AdaptersImplement` (memory, Redis, SQLite, Kubernetes) say
that the adapter's statements, interleaved in every order, are steps of `LockBackend`; the
latter also that the memory adapter refuses only with a cause. With durations up to 2, a
clock up to 3 and three fences there is room for acquire, expiry, takeover, late release
and re-acquire. Redis and SQLite run with two ticks per millisecond or second, so that a
duration has a fraction: `LeasesKeepTheirLength`, which also says that a leader's record
passes to another worker before its end only by a release, with Kubernetes clocks that
differ. `WriterFinishes` is about SQLite, whose upserts may be cancelled.

### lock (`MCLock`)

One task and one thread, two faults, two grants: `FencingTokensDistinct`, `MarkersAreTrue`
(neither a timeout, a refusal nor a failed extend leaks a lease or a marker; a task that
is told it re-entered does hold the lock). In half of the behaviours the backend is
optimistic, that is it may decide on a stale read; in the others it refuses only what is
held, with one fault, and `PatientWaitersProgress` is asked for.

### leader_election (`MCLeaderElection`)

Two workers, timings 3/2/1 (the smallest that the validator and `SafeTimings` allow
with room for a late answer), two faults among failed calls, stops and crashes, `lead` used
on one worker: `AtMostOneLeader`, `LeadershipRecovers`. Time is relative, so behaviours
are unbounded in length. The invariant is also a theorem, for any number of workers and
faults.

### outbox (`MCOutbox`)

Two relays, two attempts, batches of up to two, and up to three events among publishes
of three messages (two of them with one dedup key), faults and redrives: one message
with an overrun and a crash, two messages with a fault, three messages undisturbed.
`OnlyLatestSettles`, `TerminalIsFinal`, `RunsWithinBudget`, `DeliveredMeansHandled`,
`SkippedHasTwin`, `EventuallySettled`.

### circuit_breaker

Four calls, thresholds 2, capacity 2, five failures, two calls that never report, two
operator actions, entries that expire: `ProbesBounded`, `OpenOutlivesCoolDown`,
`HoldIsKept`, `Recovers`.

### tasks (`MCTasks`)

| mode | instance | properties |
|---|---|---|
| cron task | two workers, fires at 0, 1 and 3, so that a fire can be met on time, late within the grace of 1, and too late, and a slow tick can meet the next fire; two faults; a schedule that is fresh, known, or without a backend | `OneOutcomeEach`, `MissedFiresReplay` |
| tasks | an interval task behind a leader guard, a task lock and a lock, a cron task and a task of another class, added and routed in any order; both kinds of drain | `OneOutcomeEach` (one report per round), `DrainEnds` |
| config | one instance with two fields, four contents (one does not validate, one names a single field), two swaps under the reader, a mount that cannot be read | `ReloadsConverge` |

`TaskTypes` is the conjunction of the type invariants of all three, in every mode.

### policies (`MCPolicies`)

| mode | instance | properties |
|---|---|---|
| task lock, crowded task lock | two workers, clock up to 4, lease 3; with a fault and reconfigurations of one of them between 2 and 3 under running bodies, or with a second caller on one worker's object | `MinHoldSeparation`, where no two threads share a `TaskLock` (what happens otherwise is `ThreadsExclude`) |
| rate limiter | two callers, limits 1 and 2, two ticks a token, both algorithms on every store, one failure, reset or reconfiguration (the theorem has any number), evictions | `LimiterKeepsItsRate`: what is granted since any moment is within the bucket and the refill, and `peek` and `retry_after` tell the truth |
| policies | nine stacks that use every backoff and every matcher, one of which a reconfiguration puts in the place of any other, four styles of calling | `RetriesStayInBudget` |
| bulkhead | two tasks that nest twice, limits 1, 2 and none, with and without a wait, `uses=` of two items, a reconfiguration, a failure | `PermitsConserved` |
| shield | two callers, two rates, burst 3, budget 1, two attempts, cache recovery, a reconfiguration | `ShieldHoldsBack` |
| health | two requests, two names (one provider shares the other's name, one check runs in a thread), results kept 0 or 1 | `ChecksFold` |
| duplicate filter | two threads, two records, both key modes, six records, sweeps | `FloodsAreReminded` |

The two callers are alike, and TLC uses that symmetry; the run has no temporal property
that the symmetry could hide (`MinHoldSeparation` is a step property of entrants that the
symmetry leaves alone).

### stores (`MCStores`)

| mode | instance | properties |
|---|---|---|
| cache store | two keys, two tags, four adapters, lifetimes 1 and 2, clock up to 4 | `TagsCover` |
| ttl cache | three keys, `maxsize` 1, two callers, three calls | `OverflowBounded`: the tracked keys that looked for room pass `maxsize` by one for every other caller at most |
| cached | two callers in the same or in two processes, five decorations, one change of the source, one loss of a lease or of an entry | `MissesFold`: one computation, never an older value over a newer one, nobody stuck between the two locks |
| idempotency | two callers, two payloads, with and without a lock backend, three blocks, cancellation at every await, a process that dies | `OneExecution` |
| http | two requests of one key, bodies of one and two messages and one that breaks off, three settings | `ReplayIsWhole` |
| install | two apps, two other middlewares, any order | `AllWithinTheBinding` |
| app | two apps with lists that borrow, own, share and misorder providers, also one provider in both; one failure, two overrides | `BorrowedIsOpen`, which is about apps that share no provider (the others are `OverlappingAppsStayOpen`), and `NothingLeftOpen` |

`StoreTypes` is the conjunction of the type invariants of all seven, in every mode.

### Where the code and its documentation disagree

Four runs end in a counterexample; each checks one sentence of the documentation
or of a docstring, and the finding in `PROJECT.json` quotes it.

| run | what the trace shows |
|---|---|
| `sqlite_lock_wedged` | a cancelled `BEGIN` leaves a transaction; a later release is not committed |
| `leader_release` | the Kubernetes release deletes the Lease of the worker that took over after its check |
| `leader_election_waiter` | leadership drops by age and returns: nobody notifies the waiter |
| `circuit_breaker_leak` | a cancelled probe keeps its slot |

Further sentences that the models contradict are stated as properties in the modules, each
with its quotation above it. They have no configuration of their own: the reader who adds
the property to a run of the module gets the trace, and the passing properties are stated
so that they hold beside them.

| module | property | what the trace shows |
|---|---|---|
| `MemoryLockAdapter` | `HandedOutTokensClimb` | close and open restart the fencing tokens at 1 |
| `Lock` | `ExtendKeepsToken` | the lease lapses, `extend` takes it anew under another fencing token |
| `Lock` | `ThreadReentrantIsTrue` | a thread ends inside, the next thread with its ident is refused as reentrant |
| `Lock` | `EndedTokensStayUnique` | a task with a recycled `id` renews the lease of an ended one |
| `TaskLock` | `ThreadsExclude` | two threads pass the check before either sets the marker, with one token |
| `TaskLock` | `ExitUsesEnteredConfig` | a reconfigure under a body changes what its exit does |
| `LeaderElection` | `NoStaleWork` | the loss timer starts at a late answer and outlives the lease |
| `Outbox` | `LateWritesAreFenced` | a redrive resets attempts, and an old settle matches again |
| `CronTask` | `SkippedMeansHandled` | a slow worker reports SKIPPED for a fire that a later one replaced, or that only the baseline of a new schedule passed over |
| `Tasks` | `Reopens`, `LostLockHasRun` | a group that was closed refuses to be started again; a lock lost before the body began counts as run |
| `CircuitBreaker` | `ProbesWithinCap` | an old call's outcome frees a slot it never took |
| `CircuitBreaker` | `ProbeFailureReopens` | one failed probe does not reopen the circuit |
| `RateLimiter` | `ReplenishedPerSecond` | SQLite counts an older time as no time at all, yet stores it as the last refill: the same stretch is refilled twice |
| `RateLimiter` | `EvictedLikeFresh` | a bucket that is full by a smaller limit is evicted, and the key is new and full by the larger one |
| `RateLimiter` | `EnforcementIsExact` | GCRA decides on the rounded remaining, half a token early |
| `Bulkhead` | `RefusedOnlyWhenFull` | a failure while `uses=` open keeps the permit for ever |
| `Health` | `RunsOnce` | a thread whose check timed out still runs when the next one starts |
| `CacheStore` | `TagsStayExact` | Redis forgets the tags of a key with its value; set again without the tag, the key is still deleted with it |
| `TTLCache` | `TrackedWithinMaxsize` | concurrent sets, and reads that track, pass `maxsize` |
| `Cached` | `InvalidationStands` | a computation under way stores a reserve older than the invalidation, and a later failure serves it |
| `Http` | `ReplayableInBackground` | the response is stored only when the app returns, after background tasks |
| `App` | `OverlappingAppsStayOpen` | both apps of the documentation's example enter the same provider, and the first to exit closes it under the other |
| `App` | `ReopenedStaysOpen` | a provider that an opening shared is closed as an item of its own at the next one |
| `App` | `GlobalIsOurs`, `RegistryRestored` | an app that fails to open gives up its place before it is unwound, so the next one opens and has its global state restored away; overlapping overrides restore out of order |

## 5. Fairness

Only weak fairness is assumed, and only of steps that somebody is obliged to take:

- `SQLiteLockAdapter`, and so `lock_adapters`: the worker thread of every connection runs its queue.
- `Lock`: requests are served, the event loop resumes coroutines whose answer is in
  or whose sleep is over, leases end. Nothing is assumed of callers: a holder
  may keep the lock or extend for ever, and the property says so. Only behaviours on a
  patient backend are asked for progress: an optimistic one may refuse for ever.
- `LeaderElection`: time passes, the loop wakes up, calls are served and answered,
  timers fire. Failures are not fair and bounded by `MaxFaults`.
- `Outbox`: relays poll and are restarted by their supervisor, handlers end,
  `available_at` passes. NOTIFY is not relied on.
- `CronTask`: workers are started again, the loop runs what is ready. The clock is
  not fair.
- `Tasks`: the event loop delivers cancellations and runs what can run, a lock's exit
  ends, the drain goes on when its timeout is over. A lock may be waited for and a body run
  for ever, and nobody is obliged to close the group.
- `Config`: the poll loop keeps polling and finishes its passes. Swaps are not fair and
  bounded.
- `CircuitBreaker`: callers keep calling, admitted calls end (failures are
  bounded, which is what "the dependency is back" means), time passes.

`MCPolicies` and `MCStores` state no fairness: their properties are about what may never
happen.

## 6. Bounds

Every bound is a named constant: `MaxTime` (in the suites `LeaseTime`, `LimiterTime`,
`ShieldTime`, `CheckTime`, `CacheTime`, `BlockTime`, `LogTime`, `RedisTime`, `SQLiteTime`), `MaxFence`, `MaxVersion`, `MaxDuration`,
`MaxOpens`, `MaxEntries`, `MaxFaults`, `FewFaults`, `MaxRedrives`, `MaxErrors`,
`MaxAborts`, `MaxOps`, `MaxEvents`, `MaxSwaps`, `MaxCalls`, `MaxSince`, `MaxWait`,
`MaxNesting`, `MaxReconfigures`, `MaxFailures`, `MaxAttempts`, `MaxRuns`, `MaxRecords`,
`MaxBlocks`, `MaxRequests`, `MaxTracked`, `MaxSource`, `MaxLosses`, `MaxChunks`, `MaxMiddlewares`, `MaxOverrides`.
`LeaderElection` and `CircuitBreaker` need no bound on time. Two actors are
the least that compete; a third adds no new conflict where a step concerns a
caller and the record it meets, and the theorems below remove that bound for the
properties that matter most. Faults are a shared budget, so a run explores where they
strike. Variables marked *history* only record what happened, for a property to refer to;
no guard reads them.

## 7. Theorems

TLAPS checks them for every value of the constants that satisfies the named
assumptions: an `ASSUME` of the module, or for a component of a suite the operator
`<Module>Assumption`, which a theorem has as its hypothesis and the suite's MC module
assumes of its instance, so that TLC evaluates it. The assumptions type the constants and
say what the validators of the configuration enforce; the bounds of section 6 stay
arbitrary numbers.

- **`LeaderElectionProofs`** (`ConfigAssumption`: what the config validator enforces).
  `IInv` adds to the types: *ViewIsBacked* (a worker in service that believes to be
  the leader with view age `a` holds a lease with at least
  `LeaseDuration - BackendTimeout - a` left), *GrantInFlight* (the same for an answer
  still travelling, by the age of the call) and *ReleaseIsLast* (a worker that is
  releasing is out of service). From it: `TypeCorrect`, `ConfirmationIsSound`, and
  `LeaderIsUnique`, which needs `SafeTimings`
  (`backend_timeout + renew_deadline <= lease_duration`). The default timings meet it
  with equality; the validator does not ask for it.
- **`LockAdapterProofs`**. `AllAdaptersImplement`: each of the five adapters implements
  `LockBackend`, every statement a step of the protocol or a stutter. Postgres: a statement's
  `NOW()` may be old (*StartsInPast*), and an old `NOW()` can only take a lease for alive,
  never for expired. Redis: the TTL in whole milliseconds, the counter that outlives the key.
  SQLite: the upsert and its `COMMIT` are two statements, so the open draft belongs to the one
  connection that has the writer and is built on the committed row. Kubernetes: a decision on an
  old Lease and an old time lands only on the version it was made on. Two hypotheses are those
  under which it is true, and the properties that fail without them are in section 4: the
  memory adapter is opened once (`MaxOpens <= 1`; `HandedOutTokensClimb`), and no caller is
  cancelled while it awaits `BEGIN` (`"begin" \notin CancelAt`; `ReleasedMeansReleased`).
  `LeasesAreKept`: a leader's record passes to another worker before its end only by a release,
  in the four leader adapters, by the clock that is furthest ahead.
  `AllLeasesKeepTheirLength` puts these together with the rounding of each store and the types.
- **`LockProofs`**. `IInv` adds *FenceInv*: every token in a handle or an answer was
  minted, and the current one belongs only to its holder. `FencingIsExclusive` follows
  for any number of callers, faults and orphaned requests. `MarkersTellTheTruth` rests on
  *MarkInv*, which says what caller and backend agree on before and after the service of a
  request: the marker before, the answer after; a request left behind makes its caller
  unsure, which is the only excuse the property has.
- **`OutboxProofs`**. *FenceInv*: until a message is redriven its attempts count its
  claims, a job's attempts are the number of its claim and the latest claim is in
  processing; no two jobs ever share a claim. From it `LateSettlesAreFenced` and
  `TerminalStatesAreFinal`; that they must stop at a redrive is what
  `LateWritesAreFenced` shows. `TypeCorrect` and `NothingIsDropped` hold with redrives too.
- **`CircuitBreakerProofs`**. `IInv`: types, *SlotsCover* (probes running are at most the
  slots taken plus the stray outcomes), `OpenOutlivesCoolDown`, *ForcedIsTimeless* (a
  forced entry has neither cool-down nor lifetime). From it `ProbesAreBounded`,
  `OpenIsRemembered` and `OperatorHoldIsKept`.

- `OutboxProofs` also has `HandlersStayInBudget`. A count of runs is not inductive by
  itself: a delivery that was claimed and has not reached its handler will still run, after
  its lease lapsed and others were claimed. *RunsFit* counts these and the attempts not yet
  claimed as runs to come; it needs that no attempt of a drive is claimed twice and that a
  claimed attempt is one the row has counted. `DuplicatesAreCovered` needs that the twin of
  a skipped publish was committed and that nothing takes a committed row back.
- **`StoreProofs`** (on `App`, `TTLCache` and `Install` see the next two points).
  `TagsMissNothing`: while a key has a value, what is known of its tags is what its last set
  said and lasts exactly as long (*ReverseIsCurrent*); outside Redis the two directions of
  the index agree.
  `KeysExecuteOnce` (with `ReplayMatches` and `LocksComeBack`): which locks a block has at
  each point (*LockInv*), and of the two records: nobody executes what can be replayed,
  whoever writes a response wrote the last fingerprint, and a response written in time never
  outlives its fingerprint.
  `MissesFoldIntoOne` (with `NeverOlder` and `NobodyStuck`): owners of locks and calls match
  both ways, the calls of a process use the lock of its table as long as none was evicted in
  use, and under `lock=True` whoever computes for a miss reads no older version than the
  newest stored.
  `ReplaysAreWhole` (with `ReadsWhatWasSent`): the copy is whole as long as it is storable,
  and what was buffered, given and read are prefixes of one body, taken in step.
  `StoresKeepTypes`: the types and bounds of all seven components. For the middleware they
  need that what is replayed was stored within `MaxChunks`, under the key that the request had
  when it entered (*HttpBounded*); the other six are part of the theorems about them.
- `StoreProofs`, *loops over lists of any length*. The library's induction theorems take an
  operator as a parameter, so what a loop computes is shown by a least counterexample instead: a
  set of naturals has a least element (`LeastNatural`, from `WFMin`), therefore a recursive
  function over `0..n` exists and is unique (`Iteration`, `FoldExists`), therefore what holds
  before the first step and is kept by every step holds at the end (`OnlyIs`, `OnlyKeeps`,
  `AccumulatedKeeps`). `NoneOutsideTheBinding`: the rebuilt middleware list has the bindings
  first, whatever was added since. `OverflowIsBounded`: each key is tracked once, and those
  that looked for room are at most `maxsize` and the keys that other callers are about to add.
- `StoreProofs`, *`App`*: `ProvidersStayOpen`, for any apps, providers, components, lists,
  failures and overrides. About the three passes of `__aenter__` it shows that the list
  contains all that it did and every borrowed provider, each once, and each before whoever
  borrows it; that `_resolve_provider_sharing` keeps every binding but those of a pool that
  somebody ahead owns; and that so, item by item, what is borrowed is either ahead in the list or
  owned ahead (*Settled*). The invariant `AppInv` says further: what an app was given and
  wants (*Core*) never changes, so that apps that share nothing stay apart whatever they adopt;
  what an app has entered and owns (*Held*) is open and, without failures, is all that is; a
  block's copy of the registry differs from the list only by fakes; and the globals that
  components saved form a chain in the order of the exit stack, of the one app that owns global
  state. `AppAssumption` says of the lists that are given that a provider is listed once and that
  nobody lists a provider that a backend made for itself, and of a test's fakes that they have no
  backend with a provider. `BorrowedIsOpen` is about apps that share no provider and have not
  been opened again after a rebinding; the properties without these conditions are the
  divergences `OverlappingAppsStayOpen` and `ReopenedStaysOpen`. The part of
  `NothingLeftOpen` about pools has the first condition too: a component that is in two apps may
  be rebound by the opening of one while the other has it open.
- **`PolicyProofs`**.
  `NoPermitMoves`: the permits per semaphore, counted over scopes and entries under way by
  cardinalities, so every step adds or removes one element of one set.
  `ChecksAreShared`: the run in flight for a name is that of the one caller that runs it.
  `ShieldHolds`: what a gate may still send counts as sent, at the rate of the time since its
  last refill; retries since the last success and the budget left fit the capacity.
  `GrantsKeepTheRate`: a bucket refilled without ceiling since it was last touched holds no
  more than the grants have left of a full one at `since` (*BucketHeld*); the arrival time of
  GCRA is ahead of `since` by what was granted (*ArrivalAhead*); a key that is dropped is
  remembered by the time and the limit it was full at. The attempt to prove it found two
  ways past the rate that the first bounds did not reach: a bucket dropped as full by a
  smaller limit, and an eviction with an older time; they are in the model, and the first is
  an exception that `AdmittedWithinRate` names.
  `RetriesAreBounded`: no more attempts than the configuration that the call took with it
  allows, no sleep longer than its backoff ever gives (`Longest`, powers of two and Fibonacci
  numbers included), and none that ends later than `max_seconds` plus one such sleep after
  the first attempt.
  `FloodsAreNeverSilent`: the entry of a key counts what has passed, and one more once
  something was dropped, and keeps the time of the first drop (*Tallied*), through moves to the
  end of the table, evictions and sweeps by threads with old times.
  `PoliciesKeepTypes`: the types and bounds of all seven components, at any moment of a
  behaviour of theirs. Where the theorems above do not give them they have an invariant of
  their own: no time that a limiter keeps is later than its clock goes (*RateTimes*); a thread
  under a task lock waits for an answer exactly while it enters, refreshes or exits, and no
  request is of a later time (*LeaseInv*, however many threads share the lock); a shield writes
  its cache at most once per caller (*GuardBounds*); the threads that checks left behind and
  the requests that have still to answer are no more than the checks begun (*ThreadInv*).
  `BodiesAreSeparated`: a grant is either older than the shortest hold, or its lease still
  runs and no request that travels can cut it short (*Holding*), for the grant of the last
  body and for every grant whose answer is on its way. It needs that requests that end or
  shorten a lease carry a nonce of the past, and that no two threads share a `TaskLock`
  (`OneThreadEach`): two threads that pass the check together have one token.
- **`TaskProofs`**.
  `FiresRunOnce` and `ClaimsNeverGoBack`: what has an outcome was claimed, claims in hand are
  for different fires and unsettled, and the last claim is in hand, settled or the baseline.
  The baseline is there because the proof asked for it: with three workers one can be told
  SKIPPED for a fire that only the baseline of another passed over.
  `RoundsReportOnce`: what a round has reported follows from where it is.
  `OutcomesAreSingle` is both together, as the run states it.
  `TasksKeepTypes`: the types of all three components. Of a group it needs *GroupInv* (the
  order only grows, a round holds no more than its task's primitives, an owed cancellation is
  under way), of a reload that what the reader assembles, file by file while they are swapped,
  is a mapping again (`ReloadStep`).

Only model-checked, and why:

- All liveness properties: fairness and ENABLED are out of reach of the prover.
- What the divergences of section 4 deny: those properties have counterexamples.
- That what a theorem assumes can happen: the runs reach the states, the proofs do not ask.

## 8. What is not modelled

- Data: payloads, serialisation, the making of keys and names, log lines, metrics, spans.
  The registry and codec of the outbox, cron expressions and the client address are pure
  functions of such data.
- The stores themselves: Redis scripts, single Postgres statements and Kubernetes
  writes are atomic, as the code relies on.
- Clocks that run at different speeds. The clocks of Kubernetes clients differ by a fixed
  amount in `LeaderAdapters`; in `KubernetesLockAdapter` it is one clock read at different
  moments.
- Floating point: rates, delays and timeouts are integers in ticks. CUBIC's curve and the
  latency estimator of the shield may return anything they are clamped to, and jitter is
  any delay that can be drawn.
- Of the circuit breaker: the cached snapshot, keyed circuits, reconfigure. Of leader
  election: reconfigure. Of the outbox: `dead_letter = False`. Of the app: which adapter a
  component picks by name. Of the integrations: dependencies, the metrics routes and
  FastStream.
- Providers (opening connections is I/O; `App` has their opening and closing), metrics and
  tracing (reporting), the clock and the test doubles.
