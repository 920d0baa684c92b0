---------------------------- MODULE RateLimiter ----------------------------
(***************************************************************************)
(* grelmicro/resilience/ratelimiter: one key of a rate limiter, its token  *)
(* bucket or GCRA state in one of the four stores, and callers that read   *)
(* the clock and are served later.  Tokens are counted in ticks: a token   *)
(* is Ticks of them, so one tick of time refills one tick of tokens and    *)
(* the emission interval of GCRA is Ticks.                                 *)
(***************************************************************************)
EXTENDS Integers

CONSTANTS Callers,
          Limits,          \* capacities (limits) that configurations name
          Ticks,           \* ticks of one token: 1 / refill_rate, window / limit
          TicksPerSecond,  \* EXPIRE takes whole seconds
          MinPoll,         \* _MIN_POLL_INTERVAL
          Adapters, Kinds, \* the stores and the algorithms of this run
          NoEntry,
          MaxTime, MaxSince, MaxWait, MaxEvents

\* What a store keeps of a key.
Entries == [tokens : Int, last : Nat, expire : Nat]

RateLimiterAssumption ==
  /\ Limits \subseteq Nat \ {0} /\ \E n \in Limits : \A m \in Limits : m <= n
  /\ {Ticks, TicksPerSecond, MinPoll} \subseteq Nat \ {0}
  /\ {MaxTime, MaxSince, MaxWait, MaxEvents} \subseteq Nat /\ MaxSince <= MaxTime
  /\ Adapters \subseteq {"memory", "threads", "redis", "postgres", "sqlite"}
  /\ Kinds \subseteq {"token_bucket", "sliding_window"}
  /\ NoEntry \notin Entries

VARIABLES adapter, kind, limit,  \* backend and configuration
          now,
          entry,     \* what the store has for the key
          call,      \* per caller: what it is doing
          since,     \* history: the time from which grants are counted
          counted,   \* history: ticks of tokens granted at times since then, until late
          latest,    \* history: the latest time a request was served with
          dropped,   \* history: the time at which the entry was last dropped
          under,     \* history: the limit by which it was dropped or last stored
          late,      \* history: a dropped entry was missed
          budget     \* bound: failures, reconfigurations and resets left

vars == <<adapter, kind, limit, now, entry, call, since, counted,
          latest, dropped, under, late, budget>>
config == <<adapter, kind, limit>>
history == <<since, counted, latest, dropped, under, late>>

Least(a, b) == IF a < b THEN a ELSE b
Most(a, b) == IF a < b THEN b ELSE a
Largest == CHOOSE n \in Limits : \A m \in Limits : m <= n

\* TokenBucketConfig.capacity and the bucket when full.
Full(n) == n * Ticks
\* SlidingWindowConfig.window: limit emission intervals.
Window(n) == n * Ticks

\* The clock is read on one side of a lock, a transaction or a thread switch,
\* and the bucket is touched on the other; Redis reads it inside the script, and
\* the event loop's memory adapter has no suspension in between.
ReadsEarly == {"threads", "postgres", "sqlite"}

Idle == [state |-> "idle"]

TypeOK ==
  /\ adapter \in Adapters /\ kind \in Kinds /\ limit \in Limits
  /\ now \in 0..MaxTime /\ {since, latest, dropped} \subseteq 0..MaxTime
  /\ entry = NoEntry \/ (entry \in Entries /\ entry.last <= MaxTime)
  /\ counted \in Nat /\ under \in Limits /\ late \in BOOLEAN
  /\ \A c \in Callers : call[c].state \in {"idle", "asking", "asleep"}

Init ==
  /\ adapter \in Adapters /\ kind \in Kinds /\ limit \in Limits
  /\ adapter = "threads" => kind = "token_bucket"
  /\ now = 0 /\ entry = NoEntry
  /\ call = [c \in Callers |-> Idle]
  /\ since \in 0..MaxSince
  /\ counted = 0 /\ latest = 0 /\ dropped = 0 /\ under = Largest /\ late = FALSE
  /\ budget = MaxEvents

-----------------------------------------------------------------------------
\* The token bucket.

_refill(e, t) == Least(Full(limit), e.tokens + (t - e.last))

\* sqlite.py alone takes an older time than the row's for no time at all.
_SQLiteTokenBucket_refill(e, t) == Least(Full(limit), e.tokens + Most(0, t - e.last))

\* A missing key reads as a full bucket touched now.
Bucket(e, t) ==
  IF e = NoEntry THEN [tokens |-> Full(limit), last |-> t, expire |-> 0] ELSE e

\* What a request for `cost` decides when there are `tokens`, and what it stores.
Decide(tokens, t, cost) ==
  LET allowed == tokens >= Full(cost)
  IN  [allowed |-> allowed,
       retry_after |-> IF allowed THEN 0 ELSE Full(cost) - tokens,
       next |-> [tokens |-> IF allowed THEN tokens - Full(cost) ELSE tokens,
                 last |-> t, expire |-> 0]]

_MemoryTokenBucket_acquire(e, t, cost) == Decide(_refill(Bucket(e, t), t), t, cost)
MemoryTokenBucket_try_acquire(e, t, cost) == Decide(_refill(Bucket(e, t), t), t, cost)
tb_acquire(e, t, cost) == Decide(_refill(Bucket(e, t), t), t, cost)
_SQLiteTokenBucket_acquire(e, t, cost) ==
  Decide(_SQLiteTokenBucket_refill(Bucket(e, t), t), t, cost)

\* Redis drops a key at the end of its TTL: max(1, ceil(reset_after)) seconds.
Kept(e, t) == IF e # NoEntry /\ t >= e.expire THEN NoEntry ELSE e
SecondsUp(ticks) == Most(1, (ticks + TicksPerSecond - 1) \div TicksPerSecond) * TicksPerSecond

_RedisTokenBucket_LUA_ACQUIRE(e, t, cost) ==
  LET d == Decide(_refill(Bucket(Kept(e, t), t), t), t, cost)
  IN  [d EXCEPT !.next.expire = t + SecondsUp(Full(limit) - d.next.tokens)]

\* peek answers for one token and stores nothing.
Look(tokens) ==
  [allowed |-> tokens >= Ticks, retry_after |-> IF tokens >= Ticks THEN 0 ELSE Ticks - tokens]

_MemoryTokenBucket_peek(e, t) == Look(_refill(Bucket(e, t), t))
MemoryTokenBucket_peek(e, t) == Look(_refill(Bucket(e, t), t))
tb_peek(e, t) == Look(_refill(Bucket(e, t), t))
_SQLiteTokenBucket_peek(e, t) == Look(_SQLiteTokenBucket_refill(Bucket(e, t), t))
_RedisTokenBucket_LUA_PEEK(e, t) == Look(_refill(Bucket(Kept(e, t), t), t))

-----------------------------------------------------------------------------
\* GCRA: entry.tokens is the theoretical arrival time.

Tat(e, t) == IF e = NoEntry THEN t ELSE e.tokens

\* floor(diff / emission_interval + 0.5)
Rounded(diff) == (2 * diff + Ticks) \div (2 * Ticks)

\* diff: how far the request is inside the window.
Slack(e, t, cost) == t - (Most(Tat(e, t), t) + Full(cost) - Window(limit))

Conform(e, t, cost) ==
  LET diff == Slack(e, t, cost)
      allowed == Rounded(diff) >= 0
  IN  [allowed |-> allowed,
       retry_after |-> IF allowed THEN 0 ELSE Most(0, - diff),
       next |-> IF allowed THEN [tokens |-> Most(Tat(e, t), t) + Full(cost), last |-> t,
                                 expire |-> 0]
                ELSE e]

_MemoryGCRA_acquire(e, t, cost) == Conform(e, t, cost)
gcra_acquire(e, t, cost) == Conform(e, t, cost)
_SQLiteGCRA_acquire(e, t, cost) == Conform(e, t, cost)
_RedisGCRA_LUA_ACQUIRE(e, t, cost) ==
  LET d == Conform(Kept(e, t), t, cost)
  IN  IF d.allowed THEN [d EXCEPT !.next.expire = t + SecondsUp(d.next.tokens - t)] ELSE d

\* peek asks whether one more request would fit.
LookAhead(e, t) ==
  LET diff == Slack(e, t, 0)
  IN  [allowed |-> Rounded(diff) > 0,
       retry_after |-> IF Rounded(diff) > 0 THEN 0
                       ELSE Most(0, IF Rounded(diff) < 0 THEN - diff ELSE Ticks - diff)]

_MemoryGCRA_peek(e, t) == LookAhead(e, t)
gcra_peek(e, t) == LookAhead(e, t)
_SQLiteGCRA_peek(e, t) == LookAhead(e, t)
_RedisGCRA_LUA_PEEK(e, t) == LookAhead(Kept(e, t), t)

-----------------------------------------------------------------------------
\* bind: the strategy of a configuration on each backend.

bind_memory(e, t, cost) ==
  IF kind = "token_bucket" THEN _MemoryTokenBucket_acquire(e, t, cost)
  ELSE _MemoryGCRA_acquire(e, t, cost)
bind_redis(e, t, cost) ==
  IF kind = "token_bucket" THEN _RedisTokenBucket_LUA_ACQUIRE(e, t, cost)
  ELSE _RedisGCRA_LUA_ACQUIRE(e, t, cost)
bind_postgres(e, t, cost) ==
  IF kind = "token_bucket" THEN tb_acquire(e, t, cost) ELSE gcra_acquire(e, t, cost)
bind_sqlite(e, t, cost) ==
  IF kind = "token_bucket" THEN _SQLiteTokenBucket_acquire(e, t, cost)
  ELSE _SQLiteGCRA_acquire(e, t, cost)

\* _resolve_strategy
Acquired(e, t, cost) ==
  CASE adapter = "memory" -> bind_memory(e, t, cost)
    [] adapter = "threads" -> MemoryTokenBucket_try_acquire(e, t, cost)
    [] adapter = "redis" -> bind_redis(e, t, cost)
    [] adapter = "postgres" -> bind_postgres(e, t, cost)
    [] adapter = "sqlite" -> bind_sqlite(e, t, cost)

peek(e, t) ==
  CASE adapter = "memory" -> IF kind = "token_bucket" THEN _MemoryTokenBucket_peek(e, t)
                             ELSE _MemoryGCRA_peek(e, t)
    [] adapter = "threads" -> MemoryTokenBucket_peek(e, t)
    [] adapter = "redis" -> IF kind = "token_bucket" THEN _RedisTokenBucket_LUA_PEEK(e, t)
                            ELSE _RedisGCRA_LUA_PEEK(e, t)
    [] adapter = "postgres" -> IF kind = "token_bucket" THEN tb_peek(e, t) ELSE gcra_peek(e, t)
    [] adapter = "sqlite" -> IF kind = "token_bucket" THEN _SQLiteTokenBucket_peek(e, t)
                             ELSE _SQLiteGCRA_peek(e, t)

-----------------------------------------------------------------------------
\* RateLimiter.

\* acquire: _validate_cost, then the strategy reads its clock.
acquire(c) ==
  /\ call[c].state = "idle"
  /\ \E cost \in 1..limit :
       call' = [call EXCEPT ![c] = [state |-> "asking", at |-> now, cost |-> cost,
                                    deadline |-> -1]]
  /\ UNCHANGED <<config, now, entry, history, budget>>

\* wait: the same in a loop, with an optional max_wait.
wait(c) ==
  /\ call[c].state = "idle"
  /\ call' = [call EXCEPT ![c] = [state |-> "asking", at |-> now, cost |-> 1,
                                  deadline |-> now + MaxWait]]
  /\ UNCHANGED <<config, now, entry, history, budget>>

\* The time a request is served with.
ServedAt(c) == IF adapter \in ReadsEarly THEN call[c].at ELSE now

\* A denied waiter sleeps for retry_after, or raises when that is too long.
Denied(c, result) ==
  IF \/ call[c].deadline < 0
     \/ call[c].deadline <= now
     \/ result.retry_after > call[c].deadline - now
  THEN Idle
  ELSE [state |-> "asleep", cost |-> call[c].cost, deadline |-> call[c].deadline,
        wake |-> now + Most(result.retry_after, MinPoll)]

\* A dropped entry is missed by a request with a time before the drop, and by a token
\* bucket of more tokens than the one that was full when it was dropped.
Missed(t) ==
  \/ entry = NoEntry /\ t < dropped
  \/ /\ kind = "token_bucket" /\ under < limit
     /\ entry = NoEntry \/ (adapter = "redis" /\ Kept(entry, t) = NoEntry)

Serve(c) ==
  LET t == ServedAt(c)
      result == Acquired(entry, t, call[c].cost)
  IN  /\ call[c].state = "asking"
      /\ call[c].cost <= limit
      /\ entry' = result.next
      /\ call' = [call EXCEPT ![c] = IF result.allowed THEN Idle ELSE Denied(c, result)]
      /\ counted' = IF result.allowed /\ t >= since /\ ~ (late \/ Missed(t))
                    THEN counted + Full(call[c].cost) ELSE counted
      /\ latest' = Most(latest, t)
      /\ under' = limit /\ late' = (late \/ Missed(t))
      /\ UNCHANGED <<config, now, since, dropped, budget>>

Wake(c) ==
  /\ call[c].state = "asleep" /\ now >= call[c].wake
  /\ call' = [call EXCEPT ![c] = [state |-> "asking", at |-> now, cost |-> call[c].cost,
                                  deadline |-> call[c].deadline]]
  /\ UNCHANGED <<config, now, entry, history, budget>>

\* The backend raises: acquire raises too, or with fail_open lets the caller through
\* uncounted.
BackendFails(c) ==
  /\ call[c].state = "asking"
  /\ budget > 0 /\ budget' = budget - 1
  /\ call' = [call EXCEPT ![c] = Idle]
  /\ UNCHANGED <<config, now, entry, history>>

\* reset, and __aexit__ of the memory adapter, forget the key: counting starts anew.
reset ==
  /\ budget > 0 /\ budget' = budget - 1
  /\ entry' = NoEntry
  /\ since' = MaxTime /\ counted' = 0 /\ dropped' = 0 /\ under' = Largest
  /\ UNCHANGED <<config, now, call, latest, late>>

\* _apply_reconfigure: a new configuration over the same stored state.
_apply_reconfigure ==
  /\ budget > 0 /\ budget' = budget - 1
  /\ \E n \in Limits \ {limit} : limit' = n
  /\ UNCHANGED <<adapter, kind, now, entry, call, history>>

\* _maybe_evict, run by a call for another key once there are many, with the time that call
\* has read.  The limiters of one memory adapter share its entries, and each evicts what is
\* full by its own limit.
EvictableEarly(e, n, t) ==
  kind = "token_bucket" => Least(Full(n), e.tokens + (t - e.last)) + 1 >= Full(n)
Evictable(e, n, t) ==
  IF kind = "token_bucket" THEN Least(Full(n), e.tokens + (t - e.last)) >= Full(n)
  ELSE e.tokens < t

_maybe_evict ==
  /\ adapter \in {"memory", "threads"} /\ entry # NoEntry
  /\ \E n \in IF adapter = "memory" THEN Limits ELSE {limit},
        t \in IF adapter \in ReadsEarly THEN 0..now ELSE {now} :
       Evictable(entry, n, t) /\ under' = n /\ dropped' = t
  /\ entry' = NoEntry
  /\ UNCHANGED <<config, now, call, since, counted, latest, late, budget>>

Tick ==
  /\ now < MaxTime /\ now' = now + 1
  /\ UNCHANGED <<config, entry, call, history, budget>>

Next ==
  \/ \E c \in Callers : acquire(c) \/ wait(c) \/ Serve(c) \/ Wake(c) \/ BackendFails(c)
  \/ reset \/ _apply_reconfigure \/ _maybe_evict \/ Tick

Spec == Init /\ [][Next]_vars

-----------------------------------------------------------------------------
\* Properties.

\* Whatever the order in which callers that read the clock early are served, the
\* tokens granted between two points of time are at most a full bucket and what the
\* refill rate brings in between; GCRA rounds to the nearest request, half of an
\* interval in the caller's favour.  Three exceptions: a memory bucket that was evicted as
\* full and is then asked for an older time; a bucket that was dropped as full by a smaller
\* limit, of another limiter or of an earlier configuration, and is new and full by the
\* present one; and the SQLite bucket (see below).
AdmittedWithinRate ==
  late \/ latest < since \/ (adapter = "sqlite" /\ kind = "token_bucket")
       \/ 2 * counted <= 2 * (Full(Largest) + (latest - since))
                         + IF kind = "token_bucket" THEN 0 ELSE Ticks

\* The answers tell what the store would do, whatever it holds: a denied request that
\* comes back after retry_after with nobody in between is granted; and peek allows
\* exactly when acquire would.
AnswersAreTrue ==
  \A t \in 0..MaxTime :
    /\ peek(entry, t).allowed <=> Acquired(entry, t, 1).allowed
    /\ \A cost \in 1..limit :
         LET denied == Acquired(entry, t, cost)
         IN  denied.allowed \/ Acquired(denied.next, t + denied.retry_after, cost).allowed

\* The limiter grants what its rate allows, and says so.
LimiterKeepsItsRate == AdmittedWithinRate /\ AnswersAreTrue

\* token_bucket.py: "Tokens replenished per second, up to `capacity`."  The SQLite bucket
\* stores an older time that it counted as no time, and refills the same stretch again.
ReplenishedPerSecond ==
  kind = "token_bucket" => late \/ latest < since
                                \/ counted <= Full(Largest) + (latest - since)

\* memory.py: "Evict keys that have refilled to full capacity: they behave identically to
\* fresh keys."  One that is full by a smaller limit does not.
EvictedLikeFresh ==
  [][_maybe_evict => \A t \in now..MaxTime, cost \in 1..limit :
       Acquired(entry, t, cost).allowed <=> Acquired(NoEntry, t, cost).allowed]_vars

\* resilience/_protocol.py: "Enforcement still uses the exact internal state".
EnforcementIsExact ==
  kind = "sliding_window" =>
    \A t \in 0..MaxTime, cost \in 1..limit :
      Acquired(entry, t, cost).allowed => Slack(entry, t, cost) >= 0
=============================================================================
