------------------------------ MODULE Bulkhead ------------------------------
(***************************************************************************)
(* grelmicro/resilience/bulkhead.py: tasks that enter one bulkhead, nested *)
(* entries included, its semaphore, which a reconfiguration replaces, and  *)
(* the items of uses=, which the first entry opens after it has its        *)
(* permit.                                                                 *)
(***************************************************************************)
EXTENDS Integers, Sequences, FiniteSets

CONSTANTS Tasks,
          Limits,      \* max_concurrent of the configurations, or None
          Waits,       \* set of Booleans: is max_wait positive
          Workers,     \* max_workers of the configurations, or None
          Items,       \* number of items in uses=
          None,
          MaxNesting, MaxReconfigures, MaxFailures

BulkheadAssumption ==
  /\ IsFiniteSet(Tasks)
  /\ Limits \subseteq (Nat \ {0}) \cup {None} /\ Workers \subseteq (Nat \ {0}) \cup {None}
  /\ Waits \subseteq BOOLEAN /\ {Items, MaxNesting, MaxReconfigures, MaxFailures} \subseteq Nat

VARIABLES states,    \* the snapshots _State published so far, the last one current
          value,     \* per snapshot: the permits its semaphore has
          _scopes,   \* per task: the snapshots of its entries, innermost last
          entry,     \* per task: the __aenter__ under way
          opened, open_lock, entered, \* _open_uses: done, by whom, per item how often
          _executor, \* the private pool: its size, or None
          failures,  \* bound
          lost,      \* history: per snapshot, permits whose entry failed in _open_uses
          refused    \* history: a task was refused with fewer than max_concurrent inside

vars == <<states, value, _scopes, entry, opened, open_lock, entered, _executor,
          failures, lost, refused>>
uses == <<opened, open_lock, entered>>

Current == Len(states)
NoEntry == [pc |-> "none"]
Inside(g) ==
  {x \in Tasks \X (1..MaxNesting) : x[2] <= Len(_scopes[x[1]]) /\ _scopes[x[1]][x[2]] = g}
Opening(g) == {t \in Tasks : entry[t].pc \in {"opening", "entering"} /\ entry[t].state = g}

TypeOK ==
  /\ Len(states) \in 1..(MaxReconfigures + 1) /\ DOMAIN value = DOMAIN states
  /\ \A t \in Tasks : /\ _scopes[t] \in Seq(DOMAIN states) /\ Len(_scopes[t]) <= MaxNesting
                      /\ entry[t].pc \in {"none", "acquiring", "opening", "entering"}
  /\ opened \in BOOLEAN /\ open_lock \in Tasks \cup {None}
  /\ entered \in [1..Items -> Nat] /\ failures \in 0..MaxFailures

\* _build_semaphore: no semaphore when max_concurrent is None.
_build_semaphore(config) == IF config.max_concurrent = None THEN 0 ELSE config.max_concurrent
Bounded(g) == states[g].max_concurrent # None
BulkheadConfig == [max_concurrent : Limits, waits : Waits, max_workers : Workers]

Init ==
  /\ \E config \in BulkheadConfig : states = <<config>> /\ value = <<_build_semaphore(config)>>
  /\ _scopes = [t \in Tasks |-> <<>>] /\ entry = [t \in Tasks |-> NoEntry]
  /\ opened = FALSE /\ open_lock = None /\ entered = [i \in 1..Items |-> 0]
  /\ _executor = None /\ failures = 0 /\ lost = <<0>> /\ refused = FALSE

-----------------------------------------------------------------------------
\* __aenter__: the permit, then _open_uses, then the scope.

Admit(t, g) ==
  _scopes' = [_scopes EXCEPT ![t] = Append(@, g)] /\ entry' = [entry EXCEPT ![t] = NoEntry]
After(t, g) ==
  IF Items > 0 /\ ~ opened
  THEN entry' = [entry EXCEPT ![t] = [pc |-> "opening", state |-> g]] /\ UNCHANGED _scopes
  ELSE Admit(t, g)

\* A free permit is taken at once; otherwise the task queues, or is refused when
\* max_wait is None or 0.
__aenter__(t) ==
  /\ entry[t] = NoEntry /\ Len(_scopes[t]) < MaxNesting
  /\ LET g == Current
     IN  \/ /\ ~ Bounded(g) /\ After(t, g)
            /\ UNCHANGED <<value, refused>>
         \/ /\ Bounded(g) /\ value[g] > 0
            /\ value' = [value EXCEPT ![g] = @ - 1]
            /\ After(t, g)
            /\ UNCHANGED refused
         \/ /\ Bounded(g) /\ value[g] = 0 /\ states[g].waits
            /\ entry' = [entry EXCEPT ![t] = [pc |-> "acquiring", state |-> g]]
            /\ UNCHANGED <<value, _scopes, refused>>
         \/ /\ Bounded(g) /\ value[g] = 0 /\ ~ states[g].waits
            /\ refused' = (refused \/ Cardinality(Inside(g)) + Cardinality(Opening(g))
                                        < states[g].max_concurrent)
            /\ UNCHANGED <<value, _scopes, entry>>
  /\ UNCHANGED <<states, uses, _executor, failures, lost>>

acquired(t) ==
  /\ entry[t].pc = "acquiring"
  /\ LET g == entry[t].state
     IN  value[g] > 0 /\ value' = [value EXCEPT ![g] = @ - 1] /\ After(t, g)
  /\ UNCHANGED <<states, uses, _executor, failures, lost, refused>>

\* max_wait runs out, or the task is cancelled while it waits.
gives_up(t) ==
  /\ entry[t].pc = "acquiring"
  /\ entry' = [entry EXCEPT ![t] = NoEntry]
  /\ refused' = (refused \/ LET g == entry[t].state
                            IN  Cardinality(Inside(g)) + Cardinality(Opening(g))
                                  < states[g].max_concurrent /\ value[g] = 0)
  /\ UNCHANGED <<states, value, _scopes, uses, _executor, failures, lost>>

\* _open_uses: one task at a time enters the items in order on the app's exit stack.
_open_uses(t) ==
  /\ entry[t].pc = "opening" /\ open_lock = None
  /\ IF opened THEN Admit(t, entry[t].state) /\ UNCHANGED open_lock
     ELSE /\ open_lock' = t
          /\ entry' = [entry EXCEPT ![t] = [pc |-> "entering", state |-> @.state, item |-> 1]]
          /\ UNCHANGED _scopes
  /\ UNCHANGED <<states, value, opened, entered, _executor, failures, lost, refused>>

enter_async_context(t) ==
  /\ entry[t].pc = "entering"
  /\ LET i == entry[t].item
     IN  /\ entered' = [entered EXCEPT ![i] = @ + 1]
         /\ IF i < Items
            THEN entry' = [entry EXCEPT ![t].item = @ + 1] /\ UNCHANGED <<_scopes, opened, open_lock>>
            ELSE opened' = TRUE /\ open_lock' = None /\ Admit(t, entry[t].state)
  /\ UNCHANGED <<states, value, _executor, failures, lost, refused>>

\* An item raises on entry, or the task is cancelled: nothing gives the permit back.
open_fails(t) ==
  /\ entry[t].pc \in {"opening", "entering"} /\ failures < MaxFailures
  /\ failures' = failures + 1
  /\ LET g == entry[t].state
     IN  lost' = [lost EXCEPT ![g] = IF Bounded(g) THEN @ + 1 ELSE @]
  /\ open_lock' = IF open_lock = t THEN None ELSE open_lock
  /\ entry' = [entry EXCEPT ![t] = NoEntry]
  /\ UNCHANGED <<states, value, _scopes, opened, entered, _executor, refused>>

-----------------------------------------------------------------------------
\* __aexit__ gives back the permit of the innermost entry, to the semaphore it came from.
ReleasedToCurrent(t) == Current
ReleasedTo(t) == _scopes[t][Len(_scopes[t])]
__aexit__(t) ==
  /\ entry[t] = NoEntry /\ _scopes[t] # <<>>
  /\ LET g == ReleasedTo(t)
     IN  value' = IF Bounded(g) THEN [value EXCEPT ![g] = @ + 1] ELSE value
  /\ _scopes' = [_scopes EXCEPT ![t] = SubSeq(@, 1, Len(@) - 1)]
  /\ UNCHANGED <<states, entry, uses, _executor, failures, lost, refused>>

\* to_thread builds the private pool on first use.
to_thread ==
  /\ states[Current].max_workers # None /\ _executor = None
  /\ _executor' = states[Current].max_workers
  /\ UNCHANGED <<states, value, _scopes, entry, uses, failures, lost, refused>>

\* A new snapshot for the entries to come; a pool of another size is discarded.
_apply_reconfigure ==
  /\ Len(states) <= MaxReconfigures
  /\ \E config \in BulkheadConfig :
       /\ states' = Append(states, config)
       /\ value' = Append(value, _build_semaphore(config))
       /\ lost' = Append(lost, 0)
       /\ _executor' = IF config.max_workers # states[Current].max_workers THEN None ELSE _executor
  /\ UNCHANGED <<_scopes, entry, uses, failures, refused>>

Next ==
  \/ \E t \in Tasks : \/ __aenter__(t) \/ acquired(t) \/ gives_up(t) \/ _open_uses(t)
                      \/ enter_async_context(t) \/ open_fails(t) \/ __aexit__(t)
  \/ to_thread \/ _apply_reconfigure

Spec == Init /\ [][Next]_vars

-----------------------------------------------------------------------------
\* Properties.

\* Permits are conserved on every semaphore ever published: those free, those held by an
\* entry, those of tasks still opening uses= and those lost when that failed are always
\* max_concurrent together, so a reconfiguration under load never moves a permit from one
\* semaphore to another and no more than max_concurrent are inside on any one.
PermitsConserved ==
  \A g \in DOMAIN states :
    Bounded(g) =>
      /\ value[g] + Cardinality(Inside(g)) + Cardinality(Opening(g)) + lost[g]
           = states[g].max_concurrent
      /\ value[g] >= 0

\* docs/resilience/bulkhead.md: "When the limit is reached, a caller waits up to
\* `max_wait` seconds for a permit, then is rejected with `BulkheadFullError`."
RefusedOnlyWhenFull == ~ refused
=============================================================================
