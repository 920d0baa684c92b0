--------------------------- MODULE CircuitBreaker ---------------------------
(***************************************************************************)
(* grelmicro/resilience/circuitbreaker: one circuit of the                 *)
(* consecutive-count algorithm, in the store its calls share.  Every       *)
(* adapter runs each operation atomically (loop thread, Lua script,        *)
(* advisory or write lock); they differ only in the lifetime they write.   *)
(* Times are relative: what is left of the cool-down and of the lifetime.  *)
(***************************************************************************)
EXTENDS Integers, FiniteSets

CONSTANTS Calls,            \* calls that may be in flight at once, any replica
          ErrorThreshold, SuccessThreshold, HalfOpenCapacity,
          ResetTimeout,
          StateTtl,         \* _STATE_TTL
          TtlFactor,        \* _STATE_TTL_RESET_FACTOR
          IdleTtl,          \* lifetime written to an entry that is not OPEN
          Lapses,           \* whether lifetimes can run out in this run
          MaxErrors,        \* bound on calls that fail
          MaxAborts,        \* bound on calls that never report
          MaxOps            \* bound on isolate and reset

ASSUME BreakerAssumption ==
  /\ IsFiniteSet(Calls)
  /\ {ErrorThreshold, SuccessThreshold, HalfOpenCapacity, ResetTimeout,
      StateTtl, IdleTtl} \subseteq Nat \ {0}
  /\ TtlFactor \in Nat \ {0, 1}
  /\ {MaxErrors, MaxAborts, MaxOps} \subseteq Nat
  /\ Lapses \in BOOLEAN

VARIABLES circuit,  \* the stored entry
          inside,   \* calls admitted whose body has not ended
          probes,   \* history: calls inside admitted since it last went HALF_OPEN
          strays,   \* history: outcomes of other calls recorded since then
          errors, aborts, ops  \* counters under their bounds

vars == <<circuit, inside, probes, strays, errors, aborts, ops>>
budgets == <<errors, aborts, ops>>

Forced == {"FORCED_OPEN", "FORCED_CLOSED"}

_resolve_state_ttlFlat(reset_timeout) == StateTtl
_resolve_state_ttl(reset_timeout) ==
  IF TtlFactor * reset_timeout > StateTtl THEN TtlFactor * reset_timeout ELSE StateTtl

\* A missing entry reads as this one.
Missing == [state |-> "CLOSED", cool |-> 0, cerr |-> 0, csucc |-> 0,
            ho_admit |-> 0, left |-> 0]

Entries == [state : {"CLOSED", "OPEN", "HALF_OPEN"} \cup Forced,
            cool : 0..ResetTimeout,
            cerr : 0..(ErrorThreshold - 1), csucc : 0..SuccessThreshold,
            ho_admit : 0..HalfOpenCapacity, left : Nat]

TypeOK ==
  /\ circuit \in Entries
  /\ inside \subseteq Calls /\ probes \subseteq inside
  /\ strays \in Nat
  /\ errors \in 0..MaxErrors /\ aborts \in 0..MaxAborts /\ ops \in 0..MaxOps

Init ==
  /\ circuit = Missing
  /\ inside = {} /\ probes = {} /\ strays = 0
  /\ errors = 0 /\ aborts = 0 /\ ops = 0

-----------------------------------------------------------------------------
\* The entry.

ExpiredNever(c) == FALSE
Expired(c) == c.left = 0 /\ c.state \notin Forced

\* _live: an entry past its deadline reads as absent.
Live == IF Expired(circuit) THEN Missing ELSE circuit

\* CLOSED -> OPEN and HALF_OPEN -> OPEN.
Opened ==
  [Missing EXCEPT !.state = "OPEN", !.cool = ResetTimeout,
                  !.left = _resolve_state_ttl(ResetTimeout)]

\* OPEN -> HALF_OPEN.
HalfOpened == [Missing EXCEPT !.state = "HALF_OPEN", !.left = IdleTtl]

HasRoom(c) == c.ho_admit < HalfOpenCapacity

TakeSlotUncounted(c) == [c EXCEPT !.left = IdleTtl]
TakeSlot(c) == [c EXCEPT !.ho_admit = @ + 1, !.left = IdleTtl]

\* A recorded outcome frees a slot, whichever call reports it.
GiveBack(c) ==
  IF c.state = "HALF_OPEN" /\ c.ho_admit > 0 THEN [c EXCEPT !.ho_admit = @ - 1] ELSE c

\* An unread count may stop at the threshold it is compared with.
Count(n, threshold) == IF n < threshold THEN n + 1 ELSE n

Succeeded(c) ==
  LET counted == GiveBack([c EXCEPT !.csucc = Count(@, SuccessThreshold),
                                    !.cerr = 0, !.left = IdleTtl])
  IN  IF c.state = "HALF_OPEN" /\ counted.csucc >= SuccessThreshold
      THEN Missing
      ELSE counted

Failed(c) ==
  LET counted == GiveBack([c EXCEPT !.cerr = @ + 1, !.csucc = 0, !.left = IdleTtl])
  IN  IF c.cerr + 1 >= ErrorThreshold THEN Opened ELSE counted

-----------------------------------------------------------------------------
\* Calls.

\* The bookkeeping of `probes` and `strays` when the circuit becomes c.
Period(c, still, stray) ==
  IF c.state = "HALF_OPEN" /\ circuit.state = "HALF_OPEN"
  THEN probes' = still /\ strays' = strays + stray
  ELSE probes' = {} /\ strays' = 0

\* try_acquire answers yes without writing: a closed circuit.
AdmitClosed(k) ==
  /\ k \notin inside
  /\ Live.state \in {"CLOSED", "FORCED_CLOSED"}
  /\ inside' = inside \cup {k}
  /\ circuit' = Live
  /\ Period(Live, probes, 0)
  /\ UNCHANGED budgets

\* The cool-down is over: the circuit goes HALF_OPEN and admits its first probe.
AdmitFirstProbe(k) ==
  /\ k \notin inside
  /\ Live.state = "OPEN" /\ circuit.cool = 0
  /\ circuit' = TakeSlot(HalfOpened)
  /\ inside' = inside \cup {k}
  /\ probes' = {k} /\ strays' = 0
  /\ UNCHANGED budgets

AdmitProbe(k) ==
  /\ k \notin inside
  /\ Live.state = "HALF_OPEN" /\ HasRoom(circuit)
  /\ circuit' = TakeSlot(circuit)
  /\ inside' = inside \cup {k}
  /\ Period(circuit', probes \cup {k}, 0)
  /\ UNCHANGED budgets

try_acquire(k) == AdmitClosed(k) \/ AdmitFirstProbe(k) \/ AdmitProbe(k)

IgnoresOutcomeOnlyOpen(c) == c.state = "OPEN"
IgnoresOutcome(c) == c.state \in Forced \cup {"OPEN"}

\* record_outcome, from __aexit__ of a call whose body has ended.
Record(k, after) ==
  /\ k \in inside
  /\ inside' = inside \ {k}
  /\ circuit' = IF IgnoresOutcome(Live) THEN Live ELSE after
  /\ Period(circuit', probes \ {k}, IF k \in probes THEN 0 ELSE 1)
  /\ UNCHANGED <<aborts, ops>>

\* No exception, or one of ignore_exceptions.
Succeed(k) == Record(k, Succeeded(Live)) /\ UNCHANGED errors

Fail(k) ==
  /\ errors < MaxErrors /\ errors' = errors + 1
  /\ Record(k, Failed(Live))

\* The call ends and reports nothing: a cancellation, which is no Exception, at
\* any await since its admission; a store that fails; a crash.
Abort(k) ==
  /\ k \in inside
  /\ aborts < MaxAborts /\ aborts' = aborts + 1
  /\ inside' = inside \ {k} /\ probes' = probes \ {k}
  /\ UNCHANGED <<circuit, strays, errors, ops>>

-----------------------------------------------------------------------------
\* Operator and time.

\* Manual transition: the last write wins.
transition(desired) ==
  /\ ops < MaxOps /\ ops' = ops + 1
  /\ circuit' = [Missing EXCEPT !.state = desired]
  /\ probes' = {} /\ strays' = 0
  /\ UNCHANGED <<inside, errors, aborts>>

isolate == transition("FORCED_OPEN")
reset == transition("CLOSED")

Less(n) == IF n = 0 THEN 0 ELSE n - 1

Tick ==
  /\ circuit' = [circuit EXCEPT !.cool = Less(@),
                                !.left = IF Lapses THEN Less(@) ELSE @]
  /\ UNCHANGED <<inside, probes, strays, budgets>>

Next ==
  \/ \E k \in Calls : try_acquire(k)
  \/ \E k \in Calls : Succeed(k)
  \/ \E k \in Calls : Fail(k)
  \/ \E k \in Calls : Abort(k)
  \/ isolate \/ reset
  \/ Tick

Spec == Init /\ [][Next]_vars

\* Callers keep calling, an admitted body ends, and time passes.
FairSpec ==
  /\ Spec
  /\ \A k \in Calls : WF_vars(try_acquire(k)) /\ WF_vars(Succeed(k))
  /\ WF_vars(Tick)

-----------------------------------------------------------------------------
\* Properties.

\* Probes of one HALF_OPEN period run concurrently within half_open_capacity,
\* plus one for every outcome that a call admitted before it reported since.
ProbesBounded ==
  Live.state = "HALF_OPEN" => Cardinality(probes) <= HalfOpenCapacity + strays

\* The stored lifetime of an OPEN circuit outlives its cool-down, so a circuit
\* never forgets itself while it waits to probe.
OpenOutlivesCoolDown ==
  circuit.state = "OPEN" /\ circuit.cool > 0 => circuit.left > circuit.cool

\* An operator hold ends by an operator: neither an outcome of a call in flight,
\* nor a call, nor the passing of a lifetime moves a forced circuit.
HoldIsKept ==
  [][circuit.state \in Forced /\ ops' = ops => circuit' = circuit]_vars

\* Once calls stop failing, a circuit that opened closes again unless an operator
\* holds it, even when probes were lost.
Recovers ==
  Live.state \in {"OPEN", "HALF_OPEN"} ~> Live.state \in {"CLOSED", "FORCED_OPEN"}

\* docs/resilience/circuit-breaker.md: "the `half_open_capacity` admission cap is
\* enforced globally so probes never exceed the cap across replicas".
ProbesWithinCap ==
  Live.state = "HALF_OPEN" => Cardinality(probes) <= HalfOpenCapacity

\* docs/resilience/circuit-breaker.md: "After `reset_timeout`, it lets a few probe
\* calls test whether the dependency is back": with nobody probing, there is room.
ProbeSlotsAreReturned ==
  Live.state = "HALF_OPEN" /\ inside = {} => HasRoom(circuit)

\* docs/resilience/circuit-breaker.md: "HALF_OPEN --> OPEN: probe fails".
ProbeFailureReopens ==
  [][\A k \in probes : Fail(k) /\ Live.state = "HALF_OPEN" => circuit'.state = "OPEN"]_vars
=============================================================================
