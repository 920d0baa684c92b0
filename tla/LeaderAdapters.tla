--------------------------- MODULE LeaderAdapters ---------------------------
(***************************************************************************)
(* grelmicro/coordination: the leader election adapters on one record.     *)
(* Memory and Redis decide and write in one step of one clock.  Postgres   *)
(* reads its clock when the transaction begins and may wait for the        *)
(* advisory lock after that.  Kubernetes reads the Lease, decides by the   *)
(* clock of the worker and writes the decision back under the version that *)
(* it read; its release deletes without a version.                         *)
(***************************************************************************)
EXTENDS Integers, FiniteSets

CONSTANTS Workers, None,
          Adapters,    \* of memory, redis, postgres, kubernetes
          Skews,       \* per worker: how far its clock is ahead
          Duration, PerSecond,   \* the lease asked for, and a second, in ticks
          MaxTime, MaxVersion

LeaderAdaptersAssumption ==
  /\ Adapters \subseteq {"memory", "redis", "postgres", "kubernetes"}
  /\ Skews \subseteq [Workers -> Nat]
  /\ {Duration, PerSecond} \subseteq Nat \ {0} /\ {MaxTime, MaxVersion} \subseteq Nat

VARIABLES adapter, skew, now,
          record,    \* holder, lease_duration, renewed_at, transitions; asked is history
          version,   \* resourceVersion of the Lease
          call       \* per worker: its call

vars == <<adapter, skew, now, record, version, call>>

NoCall == [pc |-> "idle", began |-> 0, at |-> 0, seen |-> None, version |-> 0, next |-> None]
Empty == None   \* _empty_record: nobody leads

TypeOK ==
  /\ adapter \in Adapters /\ skew \in Skews /\ now \in 0..MaxTime /\ version \in 0..MaxVersion
  /\ record # None =>
       record.holder \in Workers /\ record.renewed_at \in Nat /\ record.transitions \in Nat
  /\ \A w \in Workers : call[w].pc \in
       {"idle", "asked", "got", "writing", "rereading", "releasing", "asking", "deleting"}

Init ==
  /\ adapter \in Adapters /\ skew \in Skews /\ now = 0
  /\ record = None /\ version = 0 /\ call = [w \in Workers |-> NoCall]

\* datetime.now on the worker.
Local(w) == now + skew[w]
\* leaseDurationSeconds is ceil(duration).
Ceil(d) == ((d + PerSecond - 1) \div PerSecond) * PerSecond

-----------------------------------------------------------------------------
\* What the adapters have in common.

_live(r, t) == r # None /\ t < r.renewed_at + r.lease_duration

\* A live lease of another is left; one's own is renewed; one that ran out is acquired,
\* and counted as a transition when it was another's.
Fresh(r, w, t, d, began) ==
  [holder |-> w, lease_duration |-> d, renewed_at |-> t, asked |-> began,
   transitions |-> CASE r = None -> 0
                     [] r # None /\ r.holder = w -> r.transitions
                     [] OTHER -> r.transitions + 1]
Renewed(r, t, d, began) ==
  [r EXCEPT !.renewed_at = t, !.lease_duration = d, !.asked = began]
Decided(r, w, t, d, began) ==
  CASE _live(r, t) /\ r.holder # w -> r
    [] _live(r, t) /\ r.holder = w -> Renewed(r, t, d, began)
    [] OTHER -> Fresh(r, w, t, d, began)

get(t) == IF _live(record, t) THEN record ELSE None
Released(w, t) == IF get(t) # None /\ record.holder = w THEN None ELSE record

Others == <<adapter, skew, now>>
Becomes(w, c) == call' = [call EXCEPT ![w] = c]

-----------------------------------------------------------------------------
\* memory.py and redis.py

memory_acquire_or_renew(w) ==
  /\ adapter = "memory" /\ record' = Decided(record, w, now, Duration, now)
  /\ UNCHANGED <<Others, version, call>>
memory_release(w) ==
  /\ adapter = "memory" /\ record' = Released(w, now)
  /\ UNCHANGED <<Others, version, call>>

\* The scripts, by the clock of the server.
redis_acquire_or_renew(w) ==
  /\ adapter = "redis" /\ record' = Decided(record, w, now, Duration, now)
  /\ UNCHANGED <<Others, version, call>>
redis_release(w) ==
  /\ adapter = "redis" /\ record' = Released(w, now)
  /\ UNCHANGED <<Others, version, call>>

-----------------------------------------------------------------------------
\* postgres.py: NOW() is the begin of the transaction, the advisory lock may come later.

postgres_begin(w, releases) ==
  /\ adapter = "postgres" /\ call[w].pc = "idle"
  /\ Becomes(w, [NoCall EXCEPT !.pc = IF releases THEN "releasing" ELSE "asked",
                             !.began = now, !.at = now])
  /\ UNCHANGED <<Others, record, version>>
le_acquire_or_renew(w) ==
  /\ adapter = "postgres" /\ call[w].pc = "asked"
  /\ record' = Decided(record, w, call[w].at, Duration, call[w].began)
  /\ Becomes(w, NoCall) /\ UNCHANGED <<Others, version>>
postgres_release(w) ==
  /\ adapter = "postgres" /\ call[w].pc = "releasing"
  /\ record' = Released(w, call[w].at)
  /\ Becomes(w, NoCall) /\ UNCHANGED <<Others, version>>

-----------------------------------------------------------------------------
\* kubernetes.py

\* The API server answers get,
kubernetes_acquire_or_renew(w) ==
  /\ adapter = "kubernetes" /\ call[w].pc = "idle" /\ version < MaxVersion
  /\ Becomes(w, [NoCall EXCEPT !.pc = "got", !.began = now, !.seen = record, !.version = version])
  /\ UNCHANGED <<Others, record, version>>

\* the worker decides by its own clock, without a Lease _create and with one _replace,
Undecided(w) == _live(call[w].seen, Local(w)) /\ call[w].seen.holder # w
_replace(w) ==
  /\ call[w].pc = "got"
  /\ IF Undecided(w) THEN Becomes(w, NoCall)
     ELSE Becomes(w, [call[w] EXCEPT !.pc = "writing",
                        !.next = Decided(call[w].seen, w, Local(w), Ceil(Duration), call[w].began)])
  /\ UNCHANGED <<Others, record, version>>

\* and the server takes the write unless it is a conflict: a Lease that is there already,
\* or whose version is another.  A Lease that is gone is an error.
Overwrites(w) == call[w].seen # None => record # None
Matches(w) == IF call[w].seen = None THEN record = None ELSE record # None /\ call[w].version = version
_create(w) ==
  /\ call[w].pc = "writing" /\ version < MaxVersion
  /\ IF Matches(w) THEN /\ record' = call[w].next /\ version' = version + 1 /\ Becomes(w, NoCall)
     ELSE /\ Becomes(w, IF record = None THEN NoCall ELSE [call[w] EXCEPT !.pc = "rereading"])
          /\ UNCHANGED <<record, version>>
  /\ UNCHANGED Others

_reread(w) ==
  /\ call[w].pc = "rereading" /\ Becomes(w, NoCall)
  /\ UNCHANGED <<Others, record, version>>

\* release: the worker's clock, get and the check by the clock read before, and delete.
kubernetes_release(w) ==
  /\ adapter = "kubernetes" /\ call[w].pc = "idle"
  /\ Becomes(w, [NoCall EXCEPT !.pc = "asking", !.at = Local(w)])
  /\ UNCHANGED <<Others, record, version>>
check_holder(w) ==
  /\ call[w].pc = "asking"
  /\ IF _live(record, call[w].at) /\ record.holder = w
     THEN Becomes(w, [NoCall EXCEPT !.pc = "deleting"])
     ELSE Becomes(w, NoCall)
  /\ UNCHANGED <<Others, record, version>>
delete(w) ==
  /\ call[w].pc = "deleting" /\ version < MaxVersion
  /\ record' = None
  /\ version' = IF record = None THEN version ELSE version + 1
  /\ Becomes(w, NoCall) /\ UNCHANGED Others

\* The worker gives up between two requests, or its process ends.
give_up(w) ==
  /\ call[w].pc # "idle" /\ Becomes(w, NoCall)
  /\ UNCHANGED <<Others, record, version>>

Tick ==
  /\ now < MaxTime /\ now' = now + 1
  /\ UNCHANGED <<adapter, skew, record, version, call>>

Next ==
  \/ \E w \in Workers :
       \/ memory_acquire_or_renew(w) \/ memory_release(w)
       \/ redis_acquire_or_renew(w) \/ redis_release(w)
       \/ \E releases \in BOOLEAN : postgres_begin(w, releases)
       \/ le_acquire_or_renew(w) \/ postgres_release(w)
       \/ kubernetes_acquire_or_renew(w) \/ _replace(w) \/ _create(w) \/ _reread(w)
       \/ kubernetes_release(w) \/ check_holder(w) \/ delete(w) \/ give_up(w)
  \/ Tick

Spec == Init /\ [][Next]_vars

-----------------------------------------------------------------------------
\* Properties.

\* Whoever was granted the lease keeps it for the duration it asked for, counted from its
\* request: until then, by the clock that is furthest ahead, the record passes to another
\* only when its holder releases it, whatever waits for an advisory lock, is decided on an
\* old Lease or comes back with a conflict.
LeaseIsKept ==
  [][record # None /\ record' # None /\ record'.holder # record.holder =>
       \E w \in Workers : Local(w) >= record.asked + Duration]_vars

\* coordination/kubernetes.py, release: "Release the lease when held by `token`."
ReleasesOnlyItsOwn ==
  [][\A w \in Workers : call[w].pc = "deleting" /\ record # None /\ record' = None =>
       record.holder = w]_vars
=============================================================================
