------------------------------- MODULE Health -------------------------------
(***************************************************************************)
(* grelmicro/health/_checks.py and the health router: named checks, each   *)
(* with its last result and at most one run in flight, and requests that   *)
(* run several of them at once.  A follower waits for the event of the run *)
(* in flight and then looks again.                                         *)
(***************************************************************************)
EXTENDS Integers, Sequences, SequencesExt, FiniteSets

CONSTANTS Callers, Names, None,
          Providers,   \* the active providers, as a sequence
          ShortName,   \* per provider: the name that its check gets
          Checkless,   \* providers without a readiness check
          Threads,     \* names of checks whose function is not async
          TTLs, Timeout, MaxTime, MaxRuns

HealthAssumption ==
  /\ IsFiniteSet(Callers) /\ None \notin Callers /\ Threads \subseteq Names
  /\ \A n \in DOMAIN Providers : ShortName[Providers[n]] \in Names
  /\ TTLs \subseteq Nat /\ Timeout \in Nat \ {0} /\ {MaxTime, MaxRuns} \subseteq Nat

VARIABLES cache_ttl, now,
          _entries,  \* per name: the function, and whether it is critical
          cached,    \* per name: when its last result came, whatever it was
          inflight,  \* per name: who runs it
          sub,       \* per caller and name: the task of the group
          ttl,       \* per caller: the cache_ttl its request read
          threads,   \* per name: threads that nobody waits for any more
          runs       \* bound: requests made

vars == <<cache_ttl, now, _entries, cached, inflight, sub, ttl, threads, runs>>

Idle == [pc |-> "none", since |-> 0]
Busy(c) == \E n \in Names : sub[c][n].pc # "none"

TypeOK ==
  /\ cache_ttl \in TTLs /\ now \in 0..MaxTime /\ runs \in 0..MaxRuns
  /\ inflight \in [Names -> Callers \cup {None}]
  /\ \A c \in Callers, n \in Names :
       sub[c][n].pc \in {"none", "looking", "waiting", "running", "done", "lost"}
  /\ threads \in [Names -> 0..MaxRuns]

Init ==
  /\ cache_ttl \in TTLs /\ now = 0
  /\ _entries = [n \in Names |-> None] /\ cached = [n \in Names |-> None]
  /\ inflight = [n \in Names |-> None]
  /\ sub = [c \in Callers |-> [n \in Names |-> Idle]]
  /\ ttl = [c \in Callers |-> 0]
  /\ threads = [n \in Names |-> 0] /\ runs = 0

-----------------------------------------------------------------------------
\* Registration.

\* A name is taken once.
Added(entries, n, func, critical) ==
  [entries EXCEPT ![n] = [func |-> func, critical |-> critical]]
add(n, func, critical) ==
  /\ _entries[n] = None
  /\ _entries' = Added(_entries, n, func, critical)
  /\ UNCHANGED <<cache_ttl, now, cached, inflight, sub, ttl, threads, runs>>
check(n, critical) == add(n, n, critical)
add_provider(p, n) == p \notin Checkless /\ add(n, p, TRUE)

\* With auto_health, at the opening of the app: the check of every provider that has one
\* and is not there already, if its name is free.
_register_active_providers ==
  /\ _entries' = FoldLeft(LAMBDA e, p :
                            IF \/ p \in Checkless
                               \/ \E n \in Names : e[n] # None /\ e[n].func = p
                               \/ e[ShortName[p]] # None
                            THEN e ELSE Added(e, ShortName[p], p, TRUE),
                          _entries, Providers)
  /\ UNCHANGED <<cache_ttl, now, cached, inflight, sub, ttl, threads, runs>>

-----------------------------------------------------------------------------
\* Requests.

run(c, selected) ==
  /\ ~ Busy(c) /\ selected # {} /\ runs < MaxRuns
  /\ runs' = runs + 1
  /\ ttl' = [ttl EXCEPT ![c] = cache_ttl]
  /\ sub' = [sub EXCEPT ![c] = [n \in Names |-> IF n \in selected THEN [Idle EXCEPT !.pc = "looking"]
                                                ELSE Idle]]
  /\ UNCHANGED <<cache_ttl, now, _entries, cached, inflight, threads>>
Registered == {n \in Names : _entries[n] # None}
readyz(c, exclude) == run(c, {n \in Registered : _entries[n].critical} \ exclude)
healthz(c, exclude) == run(c, Registered \ exclude)

\* _get_or_run: the last result if it is young enough, else the event of the run in
\* flight, else a run.
Fresh(c, n) == ttl[c] > 0 /\ cached[n] # None /\ now - cached[n] < ttl[c]
_get_or_run(c, n) ==
  /\ sub[c][n].pc = "looking"
  /\ IF Fresh(c, n)
     THEN sub' = [sub EXCEPT ![c][n].pc = "done"] /\ UNCHANGED inflight
     ELSE IF inflight[n] # None
     THEN sub' = [sub EXCEPT ![c][n].pc = "waiting"] /\ UNCHANGED inflight
     ELSE /\ inflight' = [inflight EXCEPT ![n] = c]
          /\ sub' = [sub EXCEPT ![c][n] = [pc |-> "running", since |-> now]]
  /\ UNCHANGED <<cache_ttl, now, _entries, cached, ttl, threads, runs>>

\* The finally clause: the run is over and every waiter looks again.
Woken(s, ns) ==
  [d \in Callers |-> [n \in Names |->
     IF n \in ns /\ s[d][n].pc = "waiting" THEN [s[d][n] EXCEPT !.pc = "looking"] ELSE s[d][n]]]
Freed(ns) == [n \in Names |-> IF n \in ns THEN None ELSE inflight[n]]
FreedOnlyWithResult(ns) ==
  [n \in Names |-> IF n \in ns /\ cached'[n] # None THEN None ELSE inflight[n]]
Cleanup(ns) == Freed(ns)

\* _run_check: what the function gave or raised, or its timeout; the thread of one that is
\* not async goes on.
_run_check(c, n) ==
  /\ sub[c][n].pc = "running"
  /\ cached' = [cached EXCEPT ![n] = now]
  /\ sub' = Woken([sub EXCEPT ![c][n] = [Idle EXCEPT !.pc = "done"]], {n})
  /\ \E late \in BOOLEAN :
       /\ late => now - sub[c][n].since >= Timeout
       /\ threads' = IF late /\ n \in Threads THEN [threads EXCEPT ![n] = @ + 1] ELSE threads
  /\ inflight' = Cleanup({n})
  /\ UNCHANGED <<cache_ttl, now, _entries, ttl, runs>>

\* The function itself raises CancelledError: the task ends without a result.
cancels_itself(c, n) ==
  /\ sub[c][n].pc = "running"
  /\ sub' = Woken([sub EXCEPT ![c][n] = [Idle EXCEPT !.pc = "lost"]], {n})
  /\ UNCHANGED cached
  /\ inflight' = Cleanup({n})
  /\ UNCHANGED <<cache_ttl, now, _entries, ttl, threads, runs>>

\* The request is cancelled with the tasks of its group.
cancel(c) ==
  /\ Busy(c)
  /\ LET leads == {n \in Names : sub[c][n].pc = "running"}
     IN  /\ sub' = Woken([sub EXCEPT ![c] = [n \in Names |-> Idle]], leads)
         /\ threads' = [n \in Names |-> IF n \in leads \cap Threads THEN threads[n] + 1 ELSE threads[n]]
         /\ UNCHANGED cached
         /\ inflight' = Cleanup(leads)
  /\ ttl' = [ttl EXCEPT ![c] = 0]
  /\ UNCHANGED <<cache_ttl, now, _entries, runs>>

\* The end of the TaskGroup; without one of the results it is a KeyError.
report(c) ==
  /\ Busy(c) /\ \A n \in Names : sub[c][n].pc \in {"none", "done", "lost"}
  /\ sub' = [sub EXCEPT ![c] = [n \in Names |-> Idle]]
  /\ ttl' = [ttl EXCEPT ![c] = 0]
  /\ UNCHANGED <<cache_ttl, now, _entries, cached, inflight, threads, runs>>

thread_ends(n) ==
  /\ threads[n] > 0 /\ threads' = [threads EXCEPT ![n] = @ - 1]
  /\ UNCHANGED <<cache_ttl, now, _entries, cached, inflight, sub, ttl, runs>>

reconfigure ==
  /\ cache_ttl' \in TTLs
  /\ UNCHANGED <<now, _entries, cached, inflight, sub, ttl, threads, runs>>

Tick ==
  /\ now < MaxTime /\ now' = now + 1
  /\ UNCHANGED <<cache_ttl, _entries, cached, inflight, sub, ttl, threads, runs>>

Next ==
  \/ \E n \in Names :
       \/ \E critical \in BOOLEAN : check(n, critical)
       \/ \E k \in DOMAIN Providers : add_provider(Providers[k], n)
       \/ thread_ends(n)
  \/ _register_active_providers \/ reconfigure \/ Tick
  \/ \E c \in Callers :
       \/ \E exclude \in SUBSET Names : readyz(c, exclude) \/ healthz(c, exclude)
       \/ cancel(c) \/ report(c)
       \/ \E n \in Names : _get_or_run(c, n) \/ _run_check(c, n) \/ cancels_itself(c, n)

Spec == Init /\ [][Next]_vars

-----------------------------------------------------------------------------
\* Properties.

\* A check is never run by two requests at once, and nobody waits for a run that is not
\* there: whoever waits, somebody runs the check and will wake the waiter, also after the
\* one who ran it was cancelled, timed out or cancelled itself, and whatever the TTL is
\* changed to.
ChecksFold ==
  \A n \in Names :
    /\ Cardinality({c \in Callers : sub[c][n].pc = "running"}) <= 1
    /\ (\E c \in Callers : sub[c][n].pc = "waiting") =>
         inflight[n] # None /\ sub[inflight[n]][n].pc = "running"

\* docs/health.md: "A given check runs at most once per TTL regardless of how many endpoints
\* or concurrent requests are in flight."  A thread whose check timed out, or whose request
\* went away, is still running when the next one starts.
RunsOnce ==
  \A n \in Names :
    threads[n] + Cardinality({c \in Callers : sub[c][n].pc = "running"}) <= 1
=============================================================================
