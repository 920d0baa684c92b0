------------------------------- MODULE Cached -------------------------------
(***************************************************************************)
(* grelmicro/cache/cached.py and _stampede.py: one key of a decorated      *)
(* function (async, sync or streaming), or of get_or_set, called from      *)
(* several processes.  A call that misses takes the lock of its process    *)
(* and, with lock=True, a distributed Lock, looks again, computes and      *)
(* stores the value and its stale reserve.  A value is the version of the  *)
(* source it was computed from.                                            *)
(***************************************************************************)
EXTENDS Integers, FiniteSets

CONSTANTS Callers, Procs,
          Decorations,   \* the arguments of @cached that are tried
          Homes,         \* which caller runs in which process
          None,
          MaxSource, MaxCalls, MaxLosses

CachedAssumption ==
  /\ IsFiniteSet(Callers) /\ IsFiniteSet(Procs) /\ Homes \subseteq [Callers -> Procs]
  /\ Decorations \subseteq [style : {"async", "stream", "sync", "get_or_set"},
                             lock : {"distributed", "local", "none"},
                             early : BOOLEAN, stale : BOOLEAN]
  /\ {MaxSource, MaxCalls, MaxLosses} \subseteq Nat /\ None \notin Callers \cup Nat

VARIABLES decoration, \* how the function is decorated
          home,      \* per caller: its process
          source,    \* the version a computation started now would read
          value, reserve, \* what the store holds
          table,     \* per process: the lock the guard has for the key
          owner,     \* per lock object: who holds it
          dlock,     \* who holds the distributed lock
          call,      \* per caller: where it is
          calls, losses, \* bounds: calls made, entries lost
          newest,    \* history: the newest version ever stored
          floor,     \* history: the source when the key was last deleted
          revived,   \* history: a stale serve returned an older version
          lapsed,    \* history: the lease of the distributed lock ran out
          evicted    \* history: processes whose guard dropped a lock in use

vars == <<decoration, home, source, value, reserve, table, owner, dlock,
          call, calls, losses, newest, floor, revived, lapsed, evicted>>
config == <<decoration, home>>
store == <<value, reserve>>
locks == <<table, owner, dlock>>
history == <<newest, floor, revived, lapsed, evicted>>

style == decoration.style
lock == decoration.lock
early == decoration.early
stale == decoration.stale

LockIds == 1..(Cardinality(Callers) + Cardinality(Procs))
Idle == [pc |-> "idle"]
Versions == 0..MaxSource

TypeOK ==
  /\ decoration \in Decorations /\ home \in Homes
  /\ source \in Versions /\ {value, reserve} \subseteq Versions \cup {None}
  /\ table \in [Procs -> LockIds \cup {None}]
  /\ owner \in [LockIds -> Callers \cup {None}]
  /\ dlock \in Callers \cup {None}
  /\ calls \in 0..MaxCalls /\ losses \in 0..MaxLosses
  /\ \A c \in Callers : call[c].pc \in
       {"idle", "wanting", "locked", "dwait", "dlocked", "computing", "computed",
        "storing", "leaving", "failing", "failed", "spawned"}

Init ==
  /\ decoration \in Decorations /\ home \in Homes
  /\ source = 0 /\ value \in {None, 0}  \* a value that an earlier run left behind
  /\ reserve = IF stale THEN value ELSE None
  /\ table = [p \in Procs |-> None]
  /\ owner = [l \in LockIds |-> None] /\ dlock = None
  /\ call = [c \in Callers |-> Idle]
  /\ calls = 0 /\ losses = 0
  /\ newest = 0 /\ floor = 0 /\ revived = FALSE /\ lapsed = FALSE /\ evicted = {}

-----------------------------------------------------------------------------
\* The guard.

Referenced == {call[c].lock : c \in {x \in Callers : "lock" \in DOMAIN call[x]}}
              \cup {table[p] : p \in Procs}

\* get_lock and get_key_lock: the key's lock, or a new object.
get_lock(p) ==
  IF table[p] # None THEN table[p] ELSE CHOOSE l \in LockIds : l \notin Referenced

\* _evict_idle_locks, on behalf of another key: a lock that nobody holds at this moment.
Idling(p) == table[p] # None /\ owner[table[p]] = None
_evict_idle_locks(p) ==
  /\ Idling(p)
  /\ table' = [table EXCEPT ![p] = None]
  /\ evicted' = evicted \cup
       {q \in {p} : \E c \in Callers : "lock" \in DOMAIN call[c] /\ call[c].lock = table[p]}
  /\ UNCHANGED <<config, source, store, owner, dlock, call, calls, losses,
                 newest, floor, revived, lapsed>>

\* lock=True takes the distributed lock when the app has a lock backend; without one it
\* is lock="local".
_has_lock_backend == lock = "distributed"

-----------------------------------------------------------------------------
\* Calls.  One that finds a value returns it and changes nothing here.

At(pc, kind, l) ==
  [pc |-> pc, kind |-> kind, lock |-> l, distributed |-> FALSE,
   version |-> IF pc = "computing" THEN source ELSE 0]
Step(c, pc) == call' = [call EXCEPT ![c].pc = pc, ![c].version = 0]

\* The lock of the process, or with lock=False the computation at once.
Called(c, kind) ==
  /\ call[c].pc = "idle" /\ calls < MaxCalls
  /\ calls' = calls + 1
  /\ IF lock = "none"
     THEN call' = [call EXCEPT ![c] = At("computing", kind, None)] /\ UNCHANGED table
     ELSE LET l == get_lock(home[c])
          IN  /\ table' = [table EXCEPT ![home[c]] = l]
              /\ call' = [call EXCEPT ![c] = At("wanting", kind, l)]
  /\ UNCHANGED <<config, source, store, owner, dlock, losses, history>>

async_wrapper(c) == style = "async" /\ value = None /\ Called(c, "cold")
sync_wrapper(c) == style = "sync" /\ value = None /\ Called(c, "cold")
stream_wrapper(c) == style = "stream" /\ value = None /\ Called(c, "cold")
get_or_set(c) == style = "get_or_set" /\ value = None /\ Called(c, "cold")
miss(c) == async_wrapper(c) \/ sync_wrapper(c) \/ stream_wrapper(c) \/ get_or_set(c)

\* refresh() bypasses the entry, and waits for the same locks; a
\* stream has it of its buffered twin.
async_refresh(c) == style \in {"async", "stream"} /\ Called(c, "forced")
sync_refresh(c) == style = "sync" /\ Called(c, "forced")
refresh(c) == async_refresh(c) \/ sync_refresh(c)

\* A hit inside the early window, when the coin of XFetch says so and nobody in this
\* process holds the lock: the caller has its answer and a task is made to refresh.  The
\* async wrapper makes it with the lock free, the sync one takes the lock first.
_maybe_refresh_async(c, l) ==
  /\ style # "sync"
  /\ call' = [call EXCEPT ![c] = At("spawned", "early", l)]
  /\ UNCHANGED owner
_maybe_refresh_sync(c, l) ==
  /\ style = "sync"
  /\ owner' = [owner EXCEPT ![l] = c]
  /\ call' = [call EXCEPT ![c] = At("computing", "early", l)]
_due_for_early_refresh == value # None /\ early
early_hit(c) ==
  /\ call[c].pc = "idle" /\ calls < MaxCalls /\ _due_for_early_refresh
  /\ calls' = calls + 1
  /\ LET l == get_lock(home[c])
     IN  /\ owner[l] = None
         /\ table' = [table EXCEPT ![home[c]] = l]
         /\ _maybe_refresh_async(c, l) \/ _maybe_refresh_sync(c, l)
  /\ UNCHANGED <<config, source, store, dlock, losses, history>>

\* The task looks at the lock again; it never takes the distributed one.
spawned(c) ==
  /\ call[c].pc = "spawned"
  /\ IF owner[call[c].lock] # None
     THEN call' = [call EXCEPT ![c] = Idle] /\ UNCHANGED owner
     ELSE /\ owner' = [owner EXCEPT ![call[c].lock] = c]
          /\ call' = [call EXCEPT ![c] = At("computing", "early", call[c].lock)]
  /\ UNCHANGED <<config, source, store, table, dlock, calls, losses, history>>

acquire_local(c) ==
  /\ call[c].pc = "wanting" /\ owner[call[c].lock] = None
  /\ owner' = [owner EXCEPT ![call[c].lock] = c]
  /\ Step(c, "locked")
  /\ UNCHANGED <<config, source, store, table, dlock, calls, losses, history>>

\* A computation starts under the locks the call holds.
Start(c) == call' = [call EXCEPT ![c].pc = "computing", ![c].version = source]

\* _peek under the local lock; refresh() does not look.
PeekBlind(c, next) == Start(c)
Peek(c, next) ==
  IF value # None /\ call[c].kind = "cold" THEN Step(c, "leaving")
  ELSE IF next = "computing" THEN Start(c) ELSE Step(c, next)

\* After the local lock.
Inside(c) ==
  /\ call[c].pc = "locked"
  /\ Peek(c, IF _has_lock_backend THEN "dwait" ELSE "computing")
  /\ UNCHANGED <<config, source, store, locks, calls, losses, history>>
compute_with_stampede(c) == style \in {"async", "get_or_set"} /\ Inside(c)
stream_with_stampede(c) == style = "stream" /\ Inside(c)
sync_miss(c) == style = "sync" /\ Inside(c)

acquire_distributed(c) ==
  /\ call[c].pc = "dwait" /\ dlock = None
  /\ dlock' = c
  /\ call' = [call EXCEPT ![c].pc = "dlocked", ![c].distributed = TRUE]
  /\ UNCHANGED <<config, source, store, table, owner, calls, losses, history>>

_distributed_orchestrate(c) ==
  /\ call[c].pc = "dlocked"
  /\ Peek(c, "computing")
  /\ UNCHANGED <<config, source, store, locks, calls, losses, history>>

\* The function returns what it read of the source while it ran.
Computes(c) ==
  /\ call[c].pc = "computing"
  /\ \E v \in call[c].version..source :
       call' = [call EXCEPT ![c].pc = "computed", ![c].version = v]
  /\ UNCHANGED <<config, source, store, locks, calls, losses, history>>
_compute_and_cache(c) == style \in {"async", "get_or_set"} /\ Computes(c)
_compute_and_cache_sync(c) == style = "sync" /\ Computes(c)
_stream_and_store(c) == style = "stream" /\ Computes(c)

\* A result that skip= rejects is not stored.
skipped(c) ==
  /\ call[c].pc = "computing" /\ style # "get_or_set"
  /\ Step(c, "leaving")
  /\ UNCHANGED <<config, source, store, locks, calls, losses, history>>

\* The function raises; a stream that has yielded an item cannot fall back any more.
computation_raises(c) ==
  /\ call[c].pc = "computing"
  /\ Step(c, "failing") \/ (style = "stream" /\ Step(c, "leaving"))
  /\ UNCHANGED <<config, source, store, locks, calls, losses, history>>

\* TTLCache.set: the value and then, with stale_ttl, its reserve.
set_value(c) ==
  /\ call[c].pc = "computed"
  /\ value' = call[c].version
  /\ newest' = IF value' > newest THEN value' ELSE newest
  /\ IF stale THEN call' = [call EXCEPT ![c].pc = "storing"] ELSE Step(c, "leaving")
  /\ UNCHANGED <<config, source, reserve, locks, calls, losses, floor, revived, lapsed, evicted>>

set_reserve(c) ==
  /\ call[c].pc = "storing"
  /\ reserve' = call[c].version
  /\ Step(c, "leaving")
  /\ UNCHANGED <<config, source, value, locks, calls, losses, history>>

\* The locks a call holds.
Released(c) ==
  /\ owner' = [l \in LockIds |-> IF owner[l] = c THEN None ELSE owner[l]]
  /\ dlock' = IF dlock = c THEN None ELSE dlock

\* Leaving the two `async with`: LockNotOwnedError when the lease ran out, which a cold
\* call takes for a failed recompute.
LeaseLost(c) == call[c].distributed /\ dlock # c
leave(c) ==
  /\ call[c].pc \in {"leaving", "failing"}
  /\ Released(c)
  /\ IF call[c].kind = "cold" /\ stale /\ (call[c].pc = "failing" \/ LeaseLost(c))
     THEN Step(c, "failed")
     ELSE call' = [call EXCEPT ![c] = Idle]
  /\ UNCHANGED <<config, source, store, table, calls, losses, history>>

Stale(c) ==
  /\ call[c].pc = "failed"
  /\ call' = [call EXCEPT ![c] = Idle]
  /\ revived' = (revived \/ (reserve # None /\ reserve < floor))
  /\ UNCHANGED <<config, source, store, locks, calls, losses, newest, floor, lapsed, evicted>>
_serve_stale_async(c) == style \in {"async", "get_or_set"} /\ Stale(c)
_serve_stale_sync(c) == style = "sync" /\ Stale(c)
_stream_stale_on_error(c) == style = "stream" /\ Stale(c)

\* A task is cancelled, or the reader of a stream leaves it.
cancel(c) ==
  /\ style # "sync" /\ call[c].pc # "idle"
  /\ Released(c)
  /\ call' = [call EXCEPT ![c] = Idle]
  /\ UNCHANGED <<config, source, store, table, calls, losses, history>>

-----------------------------------------------------------------------------
\* Everything else that happens to the key.

\* TTLCache.delete takes the value and the reserve in one call.
delete ==
  /\ losses < MaxLosses /\ losses' = losses + 1
  /\ value' = None /\ reserve' = None /\ floor' = source
  /\ UNCHANGED <<config, source, locks, call, calls, newest, revived, lapsed, evicted>>

\* A reserve outlives the value it shadows.
expire ==
  /\ losses < MaxLosses /\ losses' = losses + 1
  /\ \/ value # None /\ value' = None /\ UNCHANGED reserve
     \/ reserve # None /\ value # reserve /\ reserve' = None /\ UNCHANGED value
  /\ UNCHANGED <<config, source, locks, call, calls, history>>

source_changes ==
  /\ source < MaxSource /\ source' = source + 1
  /\ UNCHANGED <<config, store, locks, call, calls, losses, history>>

\* The lease of the distributed lock is not renewed while the function runs.
lease_lapses ==
  /\ dlock # None /\ ~ lapsed
  /\ dlock' = None /\ lapsed' = TRUE
  /\ UNCHANGED <<config, source, store, table, owner, call, calls, losses,
                 newest, floor, revived, evicted>>

Proceed(c) ==
  \/ spawned(c) \/ acquire_local(c) \/ compute_with_stampede(c) \/ stream_with_stampede(c)
  \/ sync_miss(c) \/ acquire_distributed(c) \/ _distributed_orchestrate(c)
  \/ _compute_and_cache(c) \/ _compute_and_cache_sync(c) \/ _stream_and_store(c) \/ skipped(c)
  \/ computation_raises(c) \/ set_value(c) \/ set_reserve(c) \/ leave(c)
  \/ _serve_stale_async(c) \/ _serve_stale_sync(c) \/ _stream_stale_on_error(c)

Next ==
  \/ \E c \in Callers : miss(c) \/ refresh(c) \/ early_hit(c) \/ Proceed(c) \/ cancel(c)
  \/ \E p \in Procs : _evict_idle_locks(p)
  \/ delete \/ expire \/ source_changes \/ lease_lapses

Spec == Init /\ [][Next]_vars

-----------------------------------------------------------------------------
\* Properties.

Computing(kinds) ==
  {c \in Callers : call[c].pc \in {"computing", "computed"} /\ call[c].kind \in kinds}

\* Concurrent misses fold: under lock=True no two calls of any process compute at once
\* and none computes for a key that another has filled meanwhile, early refreshes aside
\* and while the lease lasts, whatever the guards evict; under lock="local" the same
\* holds of each process, unless its guard dropped a lock that was waited for.
MissesFold ==
  /\ lock = "distributed" /\ ~ lapsed =>
       /\ Cardinality(Computing({"cold", "forced"})) <= 1
       /\ ~ early /\ Computing({"cold"}) # {} => value = None
  /\ lock = "local" =>
       \A p \in Procs \ evicted :
         Cardinality({c \in Computing({"cold", "forced", "early"}) : home[c] = p}) <= 1

\* A value is never replaced by an older one under lock=True without early=, while the
\* lease lasts: what a slow computation read is not written over what a later one read.
NeverOlder ==
  lock = "distributed" /\ ~ early /\ ~ lapsed /\ value # None => value >= newest

\* No order of the two locks, of their owners' failures and cancellations and of
\* evictions leaves the callers waiting for one another: some call can always go on.
NobodyStuck ==
  (\E c \in Callers : call[c].pc # "idle") =>
    \E c \in Callers :
      \/ call[c].pc \notin {"idle", "wanting", "dwait"}
      \/ call[c].pc = "wanting" /\ owner[call[c].lock] = None
      \/ call[c].pc = "dwait" /\ dlock = None

\* docs/cache.md: "An explicit `cache.delete(...)` or `cache.delete_tags(...)` drops the
\* fallback too, so invalidation is never undone by a later stale serve."
InvalidationStands == ~ revived
=============================================================================
