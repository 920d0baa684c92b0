------------------------------ MODULE Policies ------------------------------
(***************************************************************************)
(* grelmicro/resilience: one call through a stack of policies, Fallback    *)
(* over Retry over Timeout over the function, with the clock running and   *)
(* a configuration that may be replaced meanwhile.  A matcher is the set   *)
(* of the outcomes it matches.                                             *)
(***************************************************************************)
EXTENDS Integers, FiniteSets

CONSTANTS Configs,      \* the Retry configurations of this run
          Styles,       \* decorated async or sync function, or attempts as blocks
          Message, Cause, \* per exception
          Seconds,      \* TimeoutConfig.seconds
          BaseDelay, MaxDelay,
          NoLimit, None,
          MaxTime

Exceptions == {"TimeoutError", "Transient", "Fatal"}
Results == {"good", "bad"}
Outcome == [raised : {TRUE}, what : Exceptions] \cup [raised : {FALSE}, what : Results]

-----------------------------------------------------------------------------
\* _match.py

exception(types) == {o \in Outcome : o.raised /\ o.what \in types}
result(values) == {o \in Outcome : ~ o.raised /\ o.what \in values}
exception_message(texts) == {o \in Outcome : o.raised /\ Message[o.what] \in texts}
exception_cause(types) == {o \in Outcome : o.raised /\ Cause[o.what] \in types}
not_exception(types) == {o \in Outcome : o.raised} \ exception(types)
not_result(values) == {o \in Outcome : ~ o.raised} \ result(values)
not_exception_message(texts) == {o \in Outcome : o.raised} \ exception_message(texts)
not_exception_cause(types) == {o \in Outcome : o.raised} \ exception_cause(types)
always == Outcome
never == {}
__or__(m, n) == m \cup n
__and__(m, n) == m \cap n

\* when=: a Match, or classes in short, or their names in the environment.
_coerce_when(when) == IF "match" \in DOMAIN when THEN when.match ELSE exception(when.types)

-----------------------------------------------------------------------------
\* The backoffs: the delays that may follow attempt n, in ticks.  `previous` is the
\* delay before, at least the base, which decorrelated jitter builds on.

Least(a, b) == IF a < b THEN a ELSE b
Most(a, b) == IF a < b THEN b ELSE a

\* Doubled[n] is 2 ** n.
Doubled[n \in Nat] == IF n = 0 THEN 1 ELSE 2 * Doubled[n - 1]
raw(n) == Least(BaseDelay * Doubled[n - 1], MaxDelay)
_ExponentialStrategy_delay(jitter, n, previous) ==
  CASE jitter = "none" -> {raw(n)}
    [] jitter = "full" -> 0..raw(n)
    [] jitter = "equal" -> (raw(n) \div 2)..raw(n)
    [] jitter = "decorrelated" ->
         {Least(MaxDelay, d) : d \in BaseDelay..Most(BaseDelay, previous * 3)}
_ConstantStrategy_delay == {BaseDelay}
_LinearStrategy_delay(n) == {Least(BaseDelay * n, MaxDelay)}

\* The strategy keeps the last two terms and moves on by one per attempt.
_prev[n \in Nat] == IF n = 0 THEN <<0, 1>> ELSE <<_prev[n - 1][2], _prev[n - 1][1] + _prev[n - 1][2]>>
_FibonacciStrategy_delay(n) == {Least(BaseDelay * _prev[n][1], MaxDelay)}
_RandomStrategy_delay == BaseDelay..MaxDelay

\* build_retry_strategy
delay(backoff, n, previous) ==
  CASE backoff \in {"none", "full", "equal", "decorrelated"} ->
         _ExponentialStrategy_delay(backoff, n, previous)
    [] backoff = "constant" -> _ConstantStrategy_delay
    [] backoff = "linear" -> _LinearStrategy_delay(n)
    [] backoff = "fibonacci" -> _FibonacciStrategy_delay(n)
    [] backoff = "random" -> _RandomStrategy_delay

\* The longest delay that a backoff allows: a constant one has no max_delay.
Longest(backoff) == IF backoff = "constant" THEN BaseDelay ELSE MaxDelay

\* What the constructors make.  An anonymous decorator or iterator keeps its own.
RetryConfig(when, attempts, max_seconds, backoff) ==
  [when |-> _coerce_when(when), attempts |-> attempts, max_seconds |-> max_seconds,
   backoff |-> backoff, anonymous |-> FALSE]
exponential(when, attempts, max_seconds, jitter) ==
  RetryConfig(when, attempts, max_seconds, jitter)
constant(when, attempts, max_seconds) == RetryConfig(when, attempts, max_seconds, "constant")
_decorator(when, attempts, backoff) ==
  [RetryConfig(when, attempts, NoLimit, backoff) EXCEPT !.anonymous = TRUE]
retry(when, attempts) == _decorator(when, attempts, "full")
retry_exponential(when, attempts, jitter) == _decorator(when, attempts, jitter)
retry_constant(when, attempts) == _decorator(when, attempts, "constant")
retrying(when, attempts) == _decorator(when, attempts, "full")
FallbackConfig(when, answer) == [when |-> _coerce_when(when), answer |-> answer]

PoliciesAssumption ==
  /\ Configs \subseteq [retry : [when : SUBSET Outcome, attempts : Nat \ {0},
                                 max_seconds : Nat \cup {NoLimit},
                                 backoff : {"none", "full", "equal", "decorrelated", "constant",
                                            "linear", "fibonacci", "random"},
                                 anonymous : BOOLEAN],
                        fallback : [when : SUBSET Outcome, answer : {"default", "factory"}]]
  /\ Styles \subseteq {"async", "sync", "attempts", "sync_attempts"}
  /\ {Seconds, BaseDelay, MaxDelay} \subseteq Nat \ {0} /\ MaxTime \in Nat

-----------------------------------------------------------------------------
VARIABLES style,
          live,       \* the configuration of the policies
          config,     \* the one this call took with it
          now, pc,
          number,     \* the attempt, from 1
          started,    \* when the first attempt began
          deadline,   \* of the Timeout scope around the attempt
          wake,       \* end of the backoff
          previous,   \* the delay before, for decorrelated jitter
          outcome     \* of the call

vars == <<style, live, config, now, pc, number, started, deadline, wake, previous,
          outcome>>

TypeOK ==
  /\ style \in Styles /\ {live, config} \subseteq Configs /\ now \in 0..MaxTime
  /\ pc \in {"idle", "running", "sleeping", "done"}
  /\ number \in Nat /\ {started, deadline, wake, previous} \subseteq Nat

Init ==
  /\ style \in Styles /\ live \in Configs /\ config = live
  /\ now = 0 /\ pc = "idle" /\ number = 0 /\ started = 0
  /\ deadline = 0 /\ wake = 0 /\ previous = BaseDelay
  /\ outcome = None

\* Timeout.__aenter__: each attempt gets its own scope; sync code has none.
Timeout__aenter__ == deadline' = IF style \in {"sync", "sync_attempts"} THEN MaxTime + 1 ELSE now + Seconds

\* The wrappers read the state once.
call ==
  /\ pc = "idle" /\ pc' = "running"
  /\ config' = live /\ number' = 1 /\ started' = now
  /\ Timeout__aenter__
  /\ UNCHANGED <<style, live, now, wake, previous, outcome>>

\* The value in place of an exception that Fallback matches; a factory may itself raise.
_resolve_value ==
  {[raised |-> FALSE, what |-> "default"]} \cup
  (IF config.fallback.answer = "factory" THEN {[raised |-> TRUE, what |-> "Fatal"]} ELSE {})
Fallback__call__(o) ==
  IF o.raised /\ o \in config.fallback.when THEN _resolve_value ELSE {o}
Finish(o) ==
  /\ pc' = "done" /\ outcome' \in Fallback__call__(o)
  /\ UNCHANGED <<number, started, deadline, wake, previous>>

Exhausts(c) == number > c.attempts \/ (c.max_seconds # NoLimit /\ now - started >= c.max_seconds)
Exhausted(c) ==
  \/ number >= c.attempts
  \/ c.max_seconds # NoLimit /\ now - started >= c.max_seconds

\* The attempt is over and another is due after a delay.
Backoff ==
  \E d \in delay(config.retry.backoff, number, previous) :
    /\ pc' = "sleeping" /\ wake' = now + d
    /\ previous' = Most(d, BaseDelay)
    /\ UNCHANGED <<number, started, deadline, outcome>>

\* Exceptions and results of a decorated function are matched alike.
Retried(o) ==
  IF o \notin config.retry.when \/ Exhausted(config.retry)
  THEN Finish(o) ELSE Backoff
_run_async(o) == style = "async" /\ Retried(o)
_run_sync(o) == style = "sync" /\ Retried(o)

\* RetryAttempt._handle_exit: a block that ends without an exception ends the loop.
_handle_exit(o) ==
  IF ~ o.raised \/ o \notin config.retry.when \/ Exhausted(config.retry)
  THEN Finish(o) ELSE Backoff
_async_iter(o) == style = "attempts" /\ _handle_exit(o)
_sync_iter(o) == style = "sync_attempts" /\ _handle_exit(o)

Settle(o) == _run_async(o) \/ _run_sync(o) \/ _async_iter(o) \/ _sync_iter(o)

returns(o) ==
  /\ pc = "running"
  /\ Settle(o)
  /\ UNCHANGED <<style, live, config, now>>

\* Timeout.__aexit__: the scope's own cancellation becomes a TimeoutError.
Timeout__aexit__ ==
  /\ pc = "running" /\ now >= deadline
  /\ Settle([raised |-> TRUE, what |-> "TimeoutError"])
  /\ UNCHANGED <<style, live, config, now>>

\* The end of the backoff.
attempt ==
  /\ pc = "sleeping" /\ now >= wake
  /\ pc' = "running" /\ number' = number + 1
  /\ Timeout__aenter__
  /\ UNCHANGED <<style, live, config, now, started, wake, previous, outcome>>

\* Cancellation from outside passes through every `except Exception` and every scope,
\* also one whose deadline has passed; a thread cannot be cancelled.
CancelledError == [raised |-> TRUE, what |-> "CancelledError"]
cancel ==
  /\ style \notin {"sync", "sync_attempts"} /\ pc \in {"running", "sleeping"}
  /\ pc' = "done" /\ outcome' = CancelledError
  /\ UNCHANGED <<style, live, config, now, number, started, deadline, wake, previous>>

\* _apply_reconfigure of Retry, Timeout and Fallback: a new state for the calls to come.
_apply_reconfigure ==
  /\ ~ live.retry.anonymous
  /\ \E c \in Configs \ {live} : live' = c
  /\ UNCHANGED <<style, config, now, pc, number, started, deadline, wake, previous,
                 outcome>>

Tick ==
  /\ now < MaxTime /\ now' = now + 1
  /\ UNCHANGED <<style, live, config, pc, number, started, deadline, wake, previous,
                 outcome>>

Next ==
  \/ call \/ attempt \/ Timeout__aexit__ \/ cancel \/ _apply_reconfigure \/ Tick
  \/ \E o \in Outcome : returns(o)

Spec == Init /\ [][Next]_vars

-----------------------------------------------------------------------------
\* Properties.

\* Retrying stays within the configuration the call began with, whatever it is replaced
\* by meanwhile: at most `attempts` attempts, none begun later than max_seconds after the
\* first and one backoff, and no backoff over the longest its configuration allows.
RetriesStayInBudget ==
  /\ number <= config.retry.attempts
  /\ pc = "sleeping" =>
       LET longest == Longest(config.retry.backoff) IN
       /\ number < config.retry.attempts
       /\ wake <= now + longest
       /\ config.retry.max_seconds # NoLimit => wake < started + config.retry.max_seconds + longest

=============================================================================
