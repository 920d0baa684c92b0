-------------------------- MODULE PolicyComponents --------------------------
(***************************************************************************)
(* The components that guard a call or watch it, each with variables of    *)
(* its own beside those of Policies, and what they promise: MCPolicies     *)
(* checks it on a small instance, PolicyProofs proves it for every value   *)
(* of the constants.                                                       *)
(***************************************************************************)
EXTENDS Policies, Integers, Sequences, FiniteSets

CONSTANTS Null, \* Python's None
          Callers, MaxReconfigures,
          Workers, Coroutines, Threads, WorkerOf, MinHolds, Lease, LeaseTime, MaxEntries,
          MaxFaults,                                                            \* TaskLock
          RateLimits, Ticks, TicksPerSecond, MinPoll, Adapters, Kinds, LimiterTime, MaxSince,
          MaxWait, MaxEvents,                                                   \* RateLimiter
          PermitLimits, Waits, PoolWorkers, Items, MaxNesting, MaxFailures,     \* Bulkhead
          Rates, InitialRate, Unit, Burst, Capacity, InitialTimeout, ClampMin, ClampMax,
          SampleWindow, BackoffScale, BackoffCap, Recoveries, MaxAttempts, ShieldTime,        \* Shield
          Names, Providers, ShortName, Checkless, ThreadChecks, CheckTTLs, Timeout, CheckTime,
          MaxRuns,                                                              \* Health
          Records, KeyOf, FilterConfigs, LogTime, MaxRecords                    \* DuplicateFilter

VARIABLES m_now, m_owner, m_expire_at, m_min_hold, m_acquired_at, m_nonce, m_pc, m_req, m_entered,
          m_orphans, m_granted, m_faults,
          l_adapter, l_kind, l_limit, l_now, l_entry, l_call, l_since, l_counted, l_latest,
          l_dropped, l_under, l_late, l_budget,
          b_states, b_value, b_scopes, b_entry, b_opened, b_open_lock, b_entered, b_executor,
          b_failures, b_lost, b_refused,
          s_now, s_state, s_call, s_cached, s_writes, s_spent, s_earned, s_retries,
          h_cache_ttl, h_now, h_entries, h_cached, h_inflight, h_sub, h_ttl, h_threads, h_runs,
          d_config, d_now, d_counts, d_next_sweep, d_at, d_burst, d_records

Leased == INSTANCE TaskLock WITH
  None <- Null, Tasks <- Coroutines, worker <- WorkerOf, MaxTime <- LeaseTime,
  now <- m_now, owner <- m_owner, expire_at <- m_expire_at, min_hold <- m_min_hold,
  acquired_at <- m_acquired_at, nonce <- m_nonce, pc <- m_pc, req <- m_req,
  entered <- m_entered, orphans <- m_orphans, granted <- m_granted, faults <- m_faults

Limiter == INSTANCE RateLimiter WITH
  NoEntry <- Null, Limits <- RateLimits, MaxTime <- LimiterTime,
  adapter <- l_adapter, kind <- l_kind, limit <- l_limit, now <- l_now, entry <- l_entry,
  call <- l_call, since <- l_since, counted <- l_counted, latest <- l_latest,
  dropped <- l_dropped, under <- l_under, late <- l_late, budget <- l_budget

Pool == INSTANCE Bulkhead WITH
  None <- Null, Tasks <- Callers, Limits <- PermitLimits, Workers <- PoolWorkers,
  states <- b_states, value <- b_value, _scopes <- b_scopes, entry <- b_entry,
  opened <- b_opened, open_lock <- b_open_lock, entered <- b_entered, _executor <- b_executor,
  failures <- b_failures, lost <- b_lost, refused <- b_refused

Guard == INSTANCE Shield WITH
  Window <- SampleWindow, MaxTime <- ShieldTime,
  now <- s_now, state <- s_state, call <- s_call, cached <- s_cached, writes <- s_writes,
  spent <- s_spent, earned <- s_earned, retries <- s_retries

Checks == INSTANCE Health WITH
  None <- Null, Threads <- ThreadChecks, TTLs <- CheckTTLs, MaxTime <- CheckTime,
  cache_ttl <- h_cache_ttl, now <- h_now, _entries <- h_entries, cached <- h_cached,
  inflight <- h_inflight, sub <- h_sub, ttl <- h_ttl, threads <- h_threads, runs <- h_runs

Log == INSTANCE DuplicateFilter WITH
  None <- Null, Threads <- Callers, Configs <- FilterConfigs, MaxTime <- LogTime,
  config <- d_config, now <- d_now, counts <- d_counts, next_sweep <- d_next_sweep, at <- d_at,
  burst <- d_burst, records <- d_records

-----------------------------------------------------------------------------

\* coordination/tasklock.py: the grants of two bodies that ran lie min_hold_duration apart.
MinHoldSeparation == Leased!MinHoldSeparation

\* ratelimiter: whatever the adapter keeps, drops and rounds, the units granted in any
\* stretch of time are at most the bucket and what the rate refilled in it, and what peek
\* and retry_after answer is what acquire would do.
LimiterKeepsItsRate == Limiter!LimiterKeepsItsRate

\* bulkhead.py: permits are conserved across reconfigurations, refusals and cancellations.
PermitsConserved == Pool!PermitsConserved

\* shield: the gate sends no more than its rates allow, and between two successes there
\* are no more retries than the budget has.
ShieldHoldsBack == Guard!ShieldHoldsBack

\* health/_checks.py: requests at the same time share one execution of a check.
ChecksFold == Checks!ChecksFold

\* log/_dedup.py: a message that keeps coming is let through again.
FloodsAreReminded == Log!FloodsAreReminded

\* The variables of every component keep their types and their bounds: what a duplicate
\* filter, a bucket, a gate or a health cache holds stays within the sizes it was given, in
\* the range of the clock, and a request that travels is one that somebody waits for.
PolicyTypes ==
  TypeOK /\ Leased!TypeOK /\ Limiter!TypeOK /\ Pool!TypeOK /\ Guard!TypeOK /\ Checks!TypeOK
    /\ Log!TypeOK

=============================================================================
