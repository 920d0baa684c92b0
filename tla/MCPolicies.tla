----------------------------- MODULE MCPolicies -----------------------------
(***************************************************************************)
(* The components that guard a call or watch it: task lock, rate limiter,  *)
(* retry with timeout and fallback, bulkhead, shield, health checks and    *)
(* the log filter, each on its own state. A behaviour is one of the        *)
(* component chosen at the start; the others stay as they were made, so    *)
(* their properties hold trivially in it.                                  *)
(***************************************************************************)
EXTENDS PolicyComponents, TLC

CONSTANTS Modes, a, b, n1, n2, p1, p2, r1, r2, w1, w2, t1, t2, t3

VARIABLE mode

\* What an exception says and what caused it.
MCMessage == "TimeoutError" :> "timed out" @@ "Transient" :> "busy" @@ "Fatal" :> "broken"
MCCause == "TimeoutError" :> None @@ "Transient" :> "TimeoutError" @@ "Fatal" :> None

\* A stack of policies for every backoff and for every way to say when to retry.
Matching(m) == [match |-> m]
Over(r, f) == [retry |-> r, fallback |-> f]
\* What a reconfiguration puts in the place of any other.
MCReplacement ==
  Over(retrying(Matching(result({"bad"})), 2), FallbackConfig(Matching(never), "default"))
MCConfigs ==
  {Over(exponential([types |-> {"TimeoutError", "Transient"}], 3, 3, "decorrelated"),
        FallbackConfig([types |-> {"Transient"}], "factory")),
   Over(retry_exponential(Matching(__or__(not_exception({"Fatal"}), result({"bad"}))), 2, "equal"),
        FallbackConfig(Matching(never), "default")),
   Over(RetryConfig(Matching(always), 3, NoLimit, "fibonacci"),
        FallbackConfig(Matching(always), "default")),
   Over(RetryConfig(Matching(__and__(always, not_result({"good"}))), 2, 1, "linear"),
        FallbackConfig(Matching(not_exception_cause({"TimeoutError"})), "default")),
   Over(retry(Matching(exception_cause({"TimeoutError"})), 3),
        FallbackConfig(Matching(exception_message({"broken"})), "default")),
   Over(constant(Matching(__or__(exception({"Transient"}), result({"bad"}))), 2, 2),
        FallbackConfig(Matching(never), "default")),
   Over(RetryConfig(Matching(not_exception_message({"broken"})), 2, 2, "random"),
        FallbackConfig(Matching(never), "default")),
   Over(retry_constant([types |-> {"Transient"}], 2), FallbackConfig(Matching(always), "factory")),
   MCReplacement}

\* Two callers share the first worker's TaskLock.
MCWorkerOf == [e \in {t1, t2, t3} |-> IF e = t3 THEN w2 ELSE w1]

MCProviders == <<p1, p2>>

\* Both providers are called n1.
MCShortName == p1 :> n1 @@ p2 :> n1

MCKeyOf == "global" :> [r \in {r1, r2} |-> "all"] @@ "template" :> [r \in {r1, r2} |-> r]

Filter(repetitions, size, key_mode, ttl) ==
  [allowed_repetitions |-> repetitions, cache_size |-> size, key_mode |-> key_mode, ttl |-> ttl]
MCFilterConfigs ==
  {Filter(1, 1, "template", 2), Filter(2, 2, "template", 1), Filter(1, 1, "global", 0)}

ASSUME PoliciesAssumptions ==
  /\ PoliciesAssumption
  /\ Leased!TaskLockAssumption
  /\ Limiter!RateLimiterAssumption
  /\ Pool!BulkheadAssumption
  /\ Guard!ShieldAssumption
  /\ Checks!HealthAssumption
  /\ Log!DuplicateFilterAssumption

leased ==
  <<m_now, m_owner, m_expire_at, m_min_hold, m_acquired_at, m_nonce, m_pc, m_req, m_entered,
    m_orphans, m_granted, m_faults>>
limiter ==
  <<l_adapter, l_kind, l_limit, l_now, l_entry, l_call, l_since, l_counted, l_latest, l_dropped,
    l_under, l_late, l_budget>>
pool ==
  <<b_states, b_value, b_scopes, b_entry, b_opened, b_open_lock, b_entered, b_executor,
    b_failures, b_lost, b_refused>>
guard ==
  <<s_now, s_state, s_call, s_cached, s_writes, s_spent, s_earned, s_retries>>
checks ==
  <<h_cache_ttl, h_now, h_entries, h_cached, h_inflight, h_sub, h_ttl, h_threads, h_runs>>
log == <<d_config, d_now, d_counts, d_next_sweep, d_at, d_burst, d_records>>

allVars == <<mode, vars, leased, limiter, pool, guard, checks, log>>

\* Where a component that is not under way starts: in one of its initial states.
Still(m, x, S) == mode = m \/ x = CHOOSE y \in S : TRUE

MCInit ==
  /\ mode \in Modes
  /\ Init /\ Still("policies", <<style, config>>, Styles \X Configs)
  /\ Leased!Init /\ m_min_hold = [w \in {w1, w2} |-> 2]
  /\ Limiter!Init /\ (mode # "rate limiter" => <<l_adapter, l_kind, l_limit, l_since>> =
                                                <<"memory", "token_bucket", 1, 0>>)
  /\ Pool!Init /\ Still("bulkhead", b_states[1], Pool!BulkheadConfig)
  /\ Guard!Init
  /\ Checks!Init /\ Still("health", h_cache_ttl, {0, 1})
  /\ Log!Init /\ Still("duplicate filter", d_config, FilterConfigs)

PolicyNext ==
  /\ mode = "policies" /\ Next /\ live' \in {live, MCReplacement}
  /\ UNCHANGED <<mode, leased, limiter, pool, guard, checks, log>>

\* With two callers in the first worker nothing fails and the configuration is left alone;
\* otherwise one caller of each worker competes with a fault and live reconfigurations of
\* the first worker's lock.
LeasedNext ==
  /\ Leased!Next
  /\ \/ mode = "crowded task lock" /\ UNCHANGED <<m_min_hold, m_faults>>
     \/ mode = "task lock" /\ m_pc'[t2] = "out" /\ m_min_hold'[w2] = m_min_hold[w2]
  /\ UNCHANGED <<mode, vars, limiter, pool, guard, checks, log>>

LimiterNext ==
  /\ mode = "rate limiter" /\ Limiter!Next
  /\ UNCHANGED <<mode, vars, leased, pool, guard, checks, log>>

PoolNext ==
  /\ mode = "bulkhead" /\ Pool!Next
  /\ UNCHANGED <<mode, vars, leased, limiter, guard, checks, log>>

GuardNext ==
  /\ mode = "shield" /\ Guard!Next
  /\ UNCHANGED <<mode, vars, leased, limiter, pool, checks, log>>

ChecksNext ==
  /\ mode = "health" /\ Checks!Next
  /\ UNCHANGED <<mode, vars, leased, limiter, pool, guard, log>>

LogNext ==
  /\ mode = "duplicate filter" /\ Log!Next
  /\ UNCHANGED <<mode, vars, leased, limiter, pool, guard, checks>>

MCNext == PolicyNext \/ LeasedNext \/ LimiterNext \/ PoolNext \/ GuardNext \/ ChecksNext
          \/ LogNext

MCSpec == MCInit /\ [][MCNext]_allVars

\* The callers are alike.
CallerSymmetry == Permutations({a, b})

=============================================================================
