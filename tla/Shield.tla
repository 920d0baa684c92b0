------------------------------- MODULE Shield -------------------------------
(***************************************************************************)
(* grelmicro/resilience/shield: calls through one Shield.  A call keeps    *)
(* the state it began with (adaptive gate, retry budget, timeout           *)
(* estimator); a reconfiguration publishes a new one.  The gate counts     *)
(* tokens in units, Unit to a token, and its rate in units per tick; the   *)
(* curve of CUBIC is abstracted to the rates it may lead to.               *)
(***************************************************************************)
EXTENDS Integers, Sequences, FiniteSets

CONSTANTS Callers,
          Rates, InitialRate, Unit, Burst,   \* of the gate
          Capacity,                          \* of the retry budget
          InitialTimeout, ClampMin, ClampMax, Window, \* of the estimator
          BackoffScale, BackoffCap,
          Recoveries,                        \* sets of what a configuration has
          MaxAttempts, MaxTime, MaxReconfigures

ShieldAssumption ==
  /\ IsFiniteSet(Callers)
  /\ Rates \subseteq Nat \ {0} /\ InitialRate \in Rates
  /\ {Unit, Burst, Capacity, ClampMin, ClampMax, Window, MaxAttempts} \subseteq Nat \ {0}
  /\ ClampMin <= ClampMax
  /\ {InitialTimeout, BackoffScale, BackoffCap, MaxTime, MaxReconfigures} \subseteq Nat
  /\ Recoveries \subseteq SUBSET {"cache", "fallback"}

VARIABLES now,
          state,     \* the states published so far, the last one current
          call,      \* per caller: where it is
          cached,    \* is there a copy in the cache
          writes,    \* cache writes fired and not done
          spent,     \* history, per state: units sent through the gate since it closed
          earned,    \* history, per state: units its rates allowed since then
          retries    \* history, per state: retries since the last success

vars == <<now, state, call, cached, writes, spent, earned, retries>>

Idle == [pc |-> "idle"]
Floor == CHOOSE r \in Rates : \A q \in Rates : r <= q
Least(a, b) == IF a < b THEN a ELSE b
Most(a, b) == IF a < b THEN b ELSE a

\* _build_state: a gate that is open and empty, a full budget and no sample.
_build_state(config) ==
  [config |-> config, enabled |-> FALSE, tokens |-> 0, updated_at |-> now,
   max_rate |-> InitialRate, available |-> Capacity, samples |-> <<>>]

TypeOK ==
  /\ now \in 0..MaxTime /\ Len(state) \in 1..(MaxReconfigures + 1)
  /\ \A g \in DOMAIN state :
       /\ state[g].tokens \in 0..Burst /\ state[g].max_rate \in Rates
       /\ state[g].available \in 0..Capacity /\ state[g].updated_at \in 0..MaxTime
       /\ Len(state[g].samples) <= Window
  /\ \A c \in Callers : call[c].pc \in {"idle", "gate", "calling", "sleeping", "giving_up"}
  /\ cached \in BOOLEAN /\ writes \in 0..Cardinality(Callers)

Init ==
  /\ now = 0
  /\ \E config \in Recoveries : state = <<_build_state(config)>>
  /\ call = [c \in Callers |-> Idle]
  /\ cached = FALSE /\ writes = 0
  /\ spent = <<0>> /\ earned = <<0>> /\ retries = <<0>>

-----------------------------------------------------------------------------
\* _timeout_estimator.py

_clamp(v) == Most(ClampMin, Least(ClampMax, v))
Sorted(s) ==
  CHOOSE p \in [DOMAIN s -> DOMAIN s] :
    /\ \A i, j \in DOMAIN s : i # j => p[i] # p[j]
    /\ \A i, j \in DOMAIN s : i < j => s[p[i]] <= s[p[j]]
\* The smallest sample that 95 in a hundred do not pass, times 2.5, rounded up to ticks.
estimate(s) ==
  IF s = <<>> THEN _clamp(InitialTimeout)
  ELSE LET rank == (95 * Len(s) + 99) \div 100
       IN  _clamp((5 * s[Sorted(s)[rank]] + 1) \div 2)
record(s, latency) == IF Len(s) < Window THEN Append(s, latency) ELSE Append(Tail(s), latency)

\* _adaptive_gate.py
_refill(g) ==
  [state[g] EXCEPT !.tokens = Least(Burst, @ + (now - state[g].updated_at) * state[g].max_rate),
                   !.updated_at = now]

\* The rate changes after the bucket was refilled at the old one.
_apply_rateLate(s, g, rate) == [s EXCEPT !.max_rate = rate]
_apply_rate(s, g, rate) ==
  IF s.updated_at = now THEN [s EXCEPT !.max_rate = rate]
  ELSE [_refill(g) EXCEPT !.max_rate = rate, !.available = s.available, !.samples = s.samples]

\* The curve grows back to the rate of the last failure and beyond it, up to the cap.
on_success(s, g) == IF s.enabled THEN {_apply_rate(s, g, r) : r \in Rates} ELSE {s}

\* The first slow-down closes the gate on an empty bucket; each one leaves at most 7/10
\* of the rate, and never less than the floor.
on_slow_down(g) ==
  LET closed == IF state[g].enabled THEN state[g]
                ELSE [state[g] EXCEPT !.enabled = TRUE, !.tokens = 0, !.updated_at = now]
  IN  {_apply_rate(closed, g, r) :
         r \in {q \in Rates : 10 * q <= 7 * state[g].max_rate} \cup {Floor}}

\* _retry_budget.py
refund(s, amount) == [s EXCEPT !.available = Least(Capacity, @ + amount)]
MayRetry(s) == s.available > 0

-----------------------------------------------------------------------------
\* _execute

_execute(c) ==
  /\ call[c] = Idle
  /\ call' = [call EXCEPT ![c] = [pc |-> "gate", state |-> Len(state), attempt |-> 1,
                                  consumed |-> 0, wake |-> 0, started |-> 0, limit |-> 0]]
  /\ UNCHANGED <<now, state, cached, writes, spent, earned, retries>>

Send(c, g) ==
  call' = [call EXCEPT ![c].pc = "calling", ![c].wake = 0, ![c].started = now,
                       ![c].limit = now + estimate(state[g].samples)]

\* acquire: an open gate lets everything pass, a closed one takes a token or sleeps until
\* there is one at the present rate.
acquire(c) ==
  /\ call[c].pc = "gate" /\ now >= call[c].wake
  /\ LET g == call[c].state
         s == _refill(g)
     IN  IF ~ state[g].enabled
         THEN Send(c, g) /\ UNCHANGED <<state, spent>>
         ELSE IF s.tokens >= Unit
         THEN /\ state' = [state EXCEPT ![g] = [s EXCEPT !.tokens = @ - Unit]]
              /\ spent' = [spent EXCEPT ![g] = @ + Unit]
              /\ Send(c, g)
         ELSE /\ state' = [state EXCEPT ![g] = s]
              /\ call' = [call EXCEPT ![c].wake =
                            now + (Unit - s.tokens + s.max_rate - 1) \div s.max_rate]
              /\ UNCHANGED spent
  /\ UNCHANGED <<now, cached, writes, earned, retries>>

\* The function answers: the estimator, the gate and the budget learn of it, and a copy
\* goes to the cache in a task of its own.
succeeds(c) ==
  /\ call[c].pc = "calling"
  /\ LET g == call[c].state
         known == [state[g] EXCEPT !.samples = record(@, now - call[c].started)]
     IN  /\ \E s \in on_success(known, g) :
              state' = [state EXCEPT ![g] = refund(s, Most(1, call[c].consumed))]
         /\ retries' = [retries EXCEPT ![g] = 0]
         /\ writes' = IF "cache" \in state[g].config /\ writes < Cardinality(Callers)
                      THEN writes + 1 ELSE writes
  /\ call' = [call EXCEPT ![c] = Idle]
  /\ UNCHANGED <<now, cached, spent, earned>>

\* CancelledError, from anywhere, and a ResilienceError of the function pass through.
passes_through(c) ==
  /\ call[c].pc \in {"gate", "calling", "sleeping"}
  /\ call' = [call EXCEPT ![c] = Idle]
  /\ UNCHANGED <<now, state, cached, writes, spent, earned, retries>>

\* An exception that is no slow-down signal.
fails(c) ==
  /\ call[c].pc = "calling"
  /\ call' = [call EXCEPT ![c] = [pc |-> "giving_up", state |-> @.state]]
  /\ UNCHANGED <<now, state, cached, writes, spent, earned, retries>>

_backoff_for(n) == 0..Least(BackoffScale * (2 ^ (n - 1)), BackoffCap)

\* A slow-down: the function raises one of timeout_errors, or the scope runs out.  The
\* gate shrinks, and the call is tried again if attempts and budget last.
slows_down(c) ==
  /\ call[c].pc = "calling"
  /\ \E s \in on_slow_down(call[c].state) :
       LET g == call[c].state
           again == call[c].attempt < MaxAttempts /\ MayRetry(s)
       IN  /\ state' = [state EXCEPT ![g] =
                          IF again THEN [s EXCEPT !.available = @ - 1] ELSE s]
           /\ retries' = IF again THEN [retries EXCEPT ![g] = @ + 1] ELSE retries
           /\ IF again
              THEN \E d \in _backoff_for(call[c].attempt) :
                     call' = [call EXCEPT ![c].pc = "sleeping", ![c].consumed = @ + 1,
                                          ![c].wake = now + d, ![c].started = 0, ![c].limit = 0]
              ELSE call' = [call EXCEPT ![c] = [pc |-> "giving_up", state |-> @.state]]
           /\ IF state[g].enabled THEN UNCHANGED <<spent, earned>>
              ELSE spent' = [spent EXCEPT ![g] = 0] /\ earned' = [earned EXCEPT ![g] = 0]
  /\ UNCHANGED <<now, cached, writes>>

retry(c) ==
  /\ call[c].pc = "sleeping" /\ now >= call[c].wake
  /\ call' = [call EXCEPT ![c].pc = "gate", ![c].wake = 0, ![c].attempt = @ + 1]
  /\ UNCHANGED <<now, state, cached, writes, spent, earned, retries>>

\* _handle_give_up: the copy in the cache, else the fallback, else the exception.  The
\* answer leaves the model.
_handle_give_up(c) ==
  /\ call[c].pc = "giving_up"
  /\ call' = [call EXCEPT ![c] = Idle]
  /\ UNCHANGED <<now, state, cached, writes, spent, earned, retries>>

\* _safe_cache_set, in the task of _fire_and_forget_cache_set; it may fail.
_safe_cache_set ==
  /\ writes > 0 /\ writes' = writes - 1
  /\ cached' \in {cached, TRUE}
  /\ UNCHANGED <<now, state, call, spent, earned, retries>>

_apply_reconfigure ==
  /\ Len(state) <= MaxReconfigures
  /\ \E config \in Recoveries : state' = Append(state, _build_state(config))
  /\ spent' = Append(spent, 0) /\ earned' = Append(earned, 0) /\ retries' = Append(retries, 0)
  /\ UNCHANGED <<now, call, cached, writes>>

\* asyncio.timeout ends a call at its limit, so time does not pass it.
Tick ==
  /\ now < MaxTime
  /\ \A c \in Callers : call[c].pc = "calling" => now < call[c].limit
  /\ now' = now + 1
  /\ earned' = [g \in DOMAIN state |->
                  IF state[g].enabled THEN earned[g] + state[g].max_rate ELSE earned[g]]
  /\ UNCHANGED <<state, call, cached, writes, spent, retries>>

Next ==
  \/ \E c \in Callers : \/ _execute(c) \/ acquire(c) \/ succeeds(c) \/ passes_through(c)
                        \/ fails(c) \/ slows_down(c) \/ retry(c) \/ _handle_give_up(c)
  \/ _safe_cache_set \/ _apply_reconfigure \/ Tick

Spec == Init /\ [][Next]_vars

-----------------------------------------------------------------------------
\* Properties.

\* Since its first slow-down a gate has let through no more than its rates allowed over
\* the time that has passed, however often and in whichever direction the rate changed in
\* between and however many callers waited: no stretch of time is paid at a rate that was
\* set after it.
GateKeepsRate ==
  \A g \in DOMAIN state : state[g].enabled => spent[g] + state[g].tokens <= earned[g]

\* While nothing succeeds, all the calls of a state together make no more retries than
\* the budget held, and between two successes never more than its capacity.
RetryBudgetHolds ==
  \A g \in DOMAIN state : retries[g] <= Capacity /\ retries[g] + state[g].available <= Capacity

\* A Shield holds its callers back on both counts.
ShieldHoldsBack == GateKeepsRate /\ RetryBudgetHolds
=============================================================================
